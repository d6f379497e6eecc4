------------------------------- MODULE MCS3cTs -------------------------------
(***************************************************************************)
(* The instance of S3cTs for TLC: at the two ends of the 10-bit range, two *)
(* values that are just within ERR_LIMIT of each other on one axis and two *)
(* that are just beyond it on the other.                                   *)
(***************************************************************************)
EXTENDS S3cTs

MCXCoords == {0, 10}
MCYCoords == {1012, 1023}
=============================================================================
