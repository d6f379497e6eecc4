----------------------------- MODULE MCInputButtons -----------------------------
(***************************************************************************)
(* The instance of InputButtons for TLC.                                   *)
(***************************************************************************)
EXTENDS InputButtons

TwoPins == {1, 2}
\* The timer of init is due at once, or one jiffy after the debounce delay.
EarlyOrLate == {0, 3}
=============================================================================
