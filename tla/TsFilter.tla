-------------------------------- MODULE TsFilter --------------------------------
(***************************************************************************)
(* The filter on the samples of adc_irq in src/Drivers/11.ts/s3c_ts.c:     *)
(* s3c_filter_ts judges four samples per axis, and the accepted ones are   *)
(* averaged.  When samples are taken is module S3cTs.                      *)
(***************************************************************************)
EXTENDS Integers, Sequences

CONSTANTS
    XCoords, YCoords,   \* what a conversion may yield, of the 10 bits
    ErrLimit            \* ERR_LIMIT

ASSUME CoordsAssumption == XCoords \subseteq Nat /\ YCoords \subseteq Nat
ASSUME LimitAssumption == ErrLimit \in Nat

\* |s - a|, as the conditional expressions of s3c_filter_ts compute it.
Det(s, a) == IF s > a THEN s - a ELSE a - s
AvrUnhalved(a, b) == a + b \div 2       \* mutant: a misplaced parenthesis
Avr(a, b) == (a + b) \div 2

\* One axis of s3c_filter_ts: the third sample against the mean of the first
\* two, the fourth against the mean of the second and the third.
Near(s) ==
    /\ Det(s[3], Avr(s[1], s[2])) <= ErrLimit
    /\ Det(s[4], Avr(s[2], s[3])) <= ErrLimit

Filter(s, t) == Near(s) /\ Near(t)

MeanOfThree(s) == (s[2] + s[3] + s[4]) \div 4   \* mutant: a sample left out
Mean(s) == (s[1] + s[2] + s[3] + s[4]) \div 4

-----------------------------------------------------------------------------

Between(v, s) ==
    /\ \E i \in 1..4 : s[i] <= v
    /\ \E i \in 1..4 : v <= s[i]
Steady(s) == \A i, j \in 1..4 : s[i] - s[j] <= ErrLimit
\* The third or the fourth sample is off by more than the limit from both of
\* the two before it.
Jumps(s) == \E i \in {3, 4} :
    \/ s[i] > s[i-1] + ErrLimit /\ s[i] > s[i-2] + ErrLimit
    \/ s[i] < s[i-1] - ErrLimit /\ s[i] < s[i-2] - ErrLimit

=============================================================================
