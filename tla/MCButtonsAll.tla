----------------------------- MODULE MCButtonsAll -----------------------------
(***************************************************************************)
(* Instances of ButtonsAll for TLC.                                        *)
(***************************************************************************)
EXTENDS ButtonsAll

CONSTANTS f1, f2, t1

OnePin == {1}
TwoPins == {1, 2}
\* The timer of init is due at once, or one jiffy after the debounce delay.
EarlyOrLate == {0, 3}
=============================================================================
