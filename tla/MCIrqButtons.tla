----------------------------- MODULE MCIrqButtons -----------------------------
(***************************************************************************)
(* The instance of IrqButtons for TLC.                                     *)
(***************************************************************************)
EXTENDS IrqButtons

CONSTANTS f1, f2, t1, t2

OnePin == {1}
=============================================================================
