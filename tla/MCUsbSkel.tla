------------------------------ MODULE MCUsbSkel ------------------------------
(***************************************************************************)
(* Instances of UsbSkel for TLC.                                           *)
(***************************************************************************)
EXTENDS UsbSkel

CONSTANTS c1, c2, u1, u2, u3
=============================================================================
