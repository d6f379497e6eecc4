------------------------------ MODULE S3cTsProofs ------------------------------
(***************************************************************************)
(* Proofs about S3cTs, for all coordinates and every error limit.          *)
(***************************************************************************)
EXTENDS S3cTs, SequenceTheorems, TLAPS

\* The timer function that has reported pen up, and is about to wait for the
\* next touch, meets a report of pen down only from an adc_irq that came in
\* between; that one has armed the timer again.
WatchInv ==
    /\ TypeOK /\ since <= Len(x)
    /\ module \in {"init", "in"} /\ touch = "down" =>
          /\ timer \/ tpc # "idle" \/ busy \/ adc
          /\ tpc = "wait" => timer
    /\ NotWedged

\* A conversion adds one sample.
LEMMA OneMoreSample ==
    ASSUME NEW C, NEW s \in Seq(C), NEW a \in C
    PROVE  Append(s, a) \in Seq(C) /\ Len(Append(s, a)) = Len(s) + 1
BY AppendProperties

\* With the last sample there are four on each axis, all of them numbers.
LEMMA FourSamples ==
    ASSUME NEW C, C \subseteq Nat, NEW s \in Seq(C), Len(s) = 3, NEW a \in C
    PROVE  /\ Append(s, a)[1] \in Nat
           /\ Append(s, a)[2] \in Nat
           /\ Append(s, a)[3] \in Nat
           /\ Append(s, a)[4] \in Nat
<1> DEFINE v == Append(s, a)
<1>1. v \in Seq(C) /\ Len(v) = Len(s) + 1
    BY OneMoreSample
<1> HIDE DEF v
<1>2. 1 \in 1..Len(v) /\ 2 \in 1..Len(v) /\ 3 \in 1..Len(v) /\ 4 \in 1..Len(v)
    BY <1>1
<1>3. v[1] \in C /\ v[2] \in C /\ v[3] \in C /\ v[4] \in C
    BY <1>1, <1>2, ElementOfSeq
<1>4. v[1] \in Nat /\ v[2] \in Nat /\ v[3] \in Nat /\ v[4] \in Nat
    BY <1>3
<1>5. QED
    BY <1>4 DEF v

\* Their mean is a number the input core can take.
LEMMA MeanIsNat ==
    ASSUME NEW v, v[1] \in Nat, v[2] \in Nat, v[3] \in Nat, v[4] \in Nat
    PROVE  Mean(v) \in Nat
BY DEF Mean

\* Their mean lies among them.
LEMMA MeanBetween ==
    ASSUME NEW v, v[1] \in Nat, v[2] \in Nat, v[3] \in Nat, v[4] \in Nat
    PROVE  Between(Mean(v), v)
<1>1. v[1] <= Mean(v) \/ v[2] <= Mean(v) \/ v[3] <= Mean(v) \/ v[4] <= Mean(v)
    BY DEF Mean
<1>2. Mean(v) <= v[1] \/ Mean(v) <= v[2] \/ Mean(v) <= v[3] \/ Mean(v) <= v[4]
    BY DEF Mean
<1>3. 1 \in 1..4 /\ 2 \in 1..4 /\ 3 \in 1..4 /\ 4 \in 1..4
    OBVIOUS
<1>4. QED
    BY <1>1, <1>2, <1>3, Zenon DEF Between

\* Samples that agree within the limit pass the filter.
LEMMA SteadyIsNear ==
    ASSUME NEW v, v[1] \in Nat, v[2] \in Nat, v[3] \in Nat, v[4] \in Nat, Steady(v)
    PROVE  Near(v)
<1>1. 1 \in 1..4 /\ 2 \in 1..4 /\ 3 \in 1..4 /\ 4 \in 1..4
    OBVIOUS
<1>2. /\ v[3] - v[1] <= ErrLimit /\ v[3] - v[2] <= ErrLimit
      /\ v[1] - v[3] <= ErrLimit /\ v[2] - v[3] <= ErrLimit
      /\ v[4] - v[2] <= ErrLimit /\ v[4] - v[3] <= ErrLimit
      /\ v[2] - v[4] <= ErrLimit /\ v[3] - v[4] <= ErrLimit
    BY <1>1, Zenon DEF Steady
<1>3. QED
    BY <1>2, LimitAssumption DEF Near, Det, Avr

\* A jump of the third or of the fourth sample does not.
LEMMA JumpIsNotNear ==
    ASSUME NEW v, v[1] \in Nat, v[2] \in Nat, v[3] \in Nat, v[4] \in Nat, Jumps(v)
    PROVE  ~Near(v)
<1>1. \/ v[3] > v[2] + ErrLimit /\ v[3] > v[1] + ErrLimit
      \/ v[3] < v[2] - ErrLimit /\ v[3] < v[1] - ErrLimit
      \/ v[4] > v[3] + ErrLimit /\ v[4] > v[2] + ErrLimit
      \/ v[4] < v[3] - ErrLimit /\ v[4] < v[2] - ErrLimit
    BY DEF Jumps
<1>2. QED
    BY <1>1, LimitAssumption DEF Near, Det, Avr

\* Every step keeps the types; cnt stays an index of x[] and y[].
LEMMA TypeStep == TypeOK /\ since <= Len(x) /\ [Next]_vars => TypeOK' /\ since' <= Len(x')
<1> SUFFICES ASSUME TypeOK, since <= Len(x), [Next]_vars PROVE TypeOK' /\ since' <= Len(x')
    OBVIOUS
<1> USE DEF TypeOK, hw, samples, NoReport
<1>1. CASE PenMoves
    <2>1. tc' \in BOOLEAN
        BY <1>1, Zenon DEF PenMoves
    <2>2. QED
        BY <1>1, <2>1 DEF PenMoves
<1>2. CASE ConversionEnds
    <2>1. busy' \in BOOLEAN /\ adc' \in BOOLEAN
        BY <1>2, Zenon DEF ConversionEnds
    <2>2. QED
        BY <1>2, <2>1 DEF ConversionEnds
<1>3. CASE PenDownUpIrq
    <2>1. tc' \in BOOLEAN /\ busy' \in BOOLEAN
        BY <1>3, Zenon DEF PenDownUpIrq, PenUp, PenDown
    <2>2. QED
        BY <1>3, <2>1 DEF PenDownUpIrq, PenUp, PenDown
<1>4. CASE AdcIrqUp
    <2>1. adc' \in BOOLEAN
        BY <1>4, Zenon DEF AdcIrqUp
    <2>2. QED
        BY <1>4, <2>1 DEF AdcIrqUp, PenUp
<1>5. CASE AdcIrqSample
    <2>1. adc' \in BOOLEAN /\ busy' \in BOOLEAN
        BY <1>5, Zenon DEF AdcIrqSample, SampleBelow, PenDown
    <2>2. QED
        BY <1>5, <2>1 DEF AdcIrqSample, SampleBelow, PenDown
<1>6. CASE \E a \in XCoords, b \in YCoords : AdcIrqLast(a, b)
    <2>1. PICK a \in XCoords, b \in YCoords : AdcIrqLast(a, b)
        BY <1>6
    <2>2. adc' \in BOOLEAN /\ timer' \in BOOLEAN
        BY <2>1, Zenon DEF AdcIrqLast, LastSample
    <2>3. /\ touch' \in {"up", "down"}
          /\ report' = <<>> \/ report' = <<Mean(Append(x, a)), Mean(Append(y, b))>>
        BY <2>1 DEF AdcIrqLast, LastSample
    <2>4. Mean(Append(x, a)) \in Nat /\ Mean(Append(y, b)) \in Nat
        BY <2>1, FourSamples, MeanIsNat, CoordsAssumption DEF AdcIrqLast, LastSample
    <2>5. QED
        BY <2>1, <2>2, <2>3, <2>4 DEF AdcIrqLast, LastSample
<1>7. CASE TimerPenIsUp
    <2>1. timer' \in BOOLEAN
        BY <1>7, Zenon DEF TimerPenIsUp
    <2>2. QED
        BY <1>7, <2>1 DEF TimerPenIsUp
<1>8. CASE TimerReport \/ TimerMeasure
    BY <1>8 DEF TimerReport, Reporting, TimerMeasure
<1>9. CASE TimerWait \/ InitMode
    <2>1. tc' \in BOOLEAN
        BY <1>9, Zenon DEF TimerWait, InitMode
    <2>2. QED
        BY <1>9, <2>1 DEF TimerWait, InitMode
<1>10. CASE TimerStart
    <2>1. busy' \in BOOLEAN
        BY <1>10, Zenon DEF TimerStart, Starting
    <2>2. QED
        BY <1>10, <2>1 DEF TimerStart, Starting
<1>11. CASE InitTimer \/ ExitDelTimer
    <2>1. timer' \in BOOLEAN
        BY <1>11, Zenon DEF InitTimer, ExitDelTimer
    <2>2. CASE InitTimer
        BY <2>1, <2>2 DEF InitTimer
    <2>3. CASE ExitDelTimer
        BY <2>1, <2>3 DEF ExitDelTimer
    <2>4. QED
        BY <1>11, <2>2, <2>3
<1>12. CASE InitIrqs \/ ExitFreeTc \/ ExitFreeAdc \/ TimerAfterExit
    <2>1. CASE InitIrqs
        BY <2>1 DEF InitIrqs
    <2>2. CASE ExitFreeAdc
        BY <2>2 DEF ExitFreeAdc
    <2>3. CASE ExitFreeTc \/ TimerAfterExit
        BY <2>3 DEF ExitFreeTc, TimerAfterExit
    <2>4. QED
        BY <1>12, <2>1, <2>2, <2>3
<1>13. CASE UNCHANGED vars
    BY <1>13 DEF vars
<1>14. QED
    BY <1>1, <1>2, <1>3, <1>4, <1>5, <1>6, <1>7, <1>8, <1>9, <1>10, <1>11, <1>12, <1>13
       DEF Next, AdcIrq, TimerStep, Halted

\* Every step leaves the pen watched and the controller able to move on.
LEMMA WatchStep == WatchInv /\ [Next]_vars => WatchInv'
<1> SUFFICES ASSUME WatchInv, [Next]_vars PROVE WatchInv'
    OBVIOUS
<1>t. TypeOK' /\ since' <= Len(x')
    BY TypeStep DEF WatchInv
<1> USE <1>t DEF WatchInv, NotWedged, TypeOK, hw, samples
<1>1. CASE PenMoves
    BY <1>1 DEF PenMoves
<1>2. CASE ConversionEnds
    BY <1>2 DEF ConversionEnds
<1>3. CASE PenDownUpIrq
    BY <1>3 DEF PenDownUpIrq, PenUp, PenDown
<1>4. CASE AdcIrqUp
    BY <1>4 DEF AdcIrqUp, PenUp
<1>5. CASE AdcIrqSample
    BY <1>5 DEF AdcIrqSample, SampleBelow, PenDown
<1>6. CASE \E a \in XCoords, b \in YCoords : AdcIrqLast(a, b)
    BY <1>6 DEF AdcIrqLast, LastSample
<1>7. CASE TimerPenIsUp
    BY <1>7 DEF TimerPenIsUp
<1>8. CASE TimerReport \/ TimerMeasure
    BY <1>8 DEF TimerReport, Reporting, TimerMeasure
<1>9. CASE TimerWait \/ InitMode
    BY <1>9 DEF TimerWait, InitMode
<1>10. CASE TimerStart
    BY <1>10 DEF TimerStart, Starting
<1>11. CASE InitIrqs \/ InitTimer \/ ExitDelTimer
    BY <1>11 DEF InitIrqs, InitTimer, ExitDelTimer
<1>12. CASE ExitFreeTc \/ ExitFreeAdc \/ TimerAfterExit
    BY <1>12 DEF ExitFreeTc, ExitFreeAdc, TimerAfterExit
<1>13. CASE UNCHANGED vars
    BY <1>13 DEF vars
<1>14. QED
    BY <1>1, <1>2, <1>3, <1>4, <1>5, <1>6, <1>7, <1>8, <1>9, <1>10, <1>11, <1>12, <1>13
       DEF Next, AdcIrq, TimerStep, Halted

-----------------------------------------------------------------------------

\* The inductive invariant holds in every reachable state.
LEMMA WatchInvariant == Spec => []WatchInv
<1>1. Init => WatchInv
    <2> SUFFICES ASSUME Init PROVE WatchInv
        OBVIOUS
    <2>1. tc \in BOOLEAN /\ busy \in BOOLEAN /\ adc \in BOOLEAN /\ timer \in BOOLEAN
        BY Zenon DEF Init
    <2>2. TypeOK /\ since <= Len(x)
        BY <2>1 DEF Init, TypeOK
    <2>3. QED
        BY <2>2 DEF Init, WatchInv, NotWedged
<1>2. QED
    BY <1>1, WatchStep, PTL DEF Spec

\* adc_irq never writes past x[] and y[], in whatever order interrupts and the
\* timer come.
THEOREM TypeCorrect == Spec => []TypeOK
<1>1. WatchInv => TypeOK
    BY DEF WatchInv
<1>2. QED
    BY <1>1, WatchInvariant, PTL

\* A pen reported down is watched by more than the pen interrupt, and the
\* controller is never left in a mode that nothing will change.
THEOREM ChainAlive == Spec => []NeverStuck
<1>1. WatchInv => NeverStuck
    BY DEF WatchInv, NeverStuck, TouchWatched
<1>2. QED
    BY <1>1, WatchInvariant, PTL

\* What adc_irq reports lies among the samples it averaged.
THEOREM ReportIsAmongSamples == Spec => ReportAmongSamples
<1>1. ASSUME TypeOK,
             NEW a \in XCoords, NEW b \in YCoords, AdcIrqLast(a, b), report' # <<>>
      PROVE  Between(report'[1], Append(x, a)) /\ Between(report'[2], Append(y, b))
    <2>1. report' = <<Mean(Append(x, a)), Mean(Append(y, b))>>
        BY <1>1 DEF AdcIrqLast, LastSample, NoReport
    <2>2. /\ Between(Mean(Append(x, a)), Append(x, a))
          /\ Between(Mean(Append(y, b)), Append(y, b))
        BY <1>1, FourSamples, MeanBetween, CoordsAssumption DEF AdcIrqLast, LastSample, TypeOK
    <2>3. QED
        BY <2>1, <2>2
<1>2. TypeOK => [\A a \in XCoords, b \in YCoords :
                    AdcIrqLast(a, b) /\ report' # <<>>
                        => /\ Between(report'[1], Append(x, a))
                           /\ Between(report'[2], Append(y, b))]_vars
    BY <1>1, Zenon
<1>3. QED
    BY <1>2, TypeCorrect, PTL DEF ReportAmongSamples

\* A pen held still is reported, a jump is not.
THEOREM FilterIsSound == Spec => FilterSound
<1>1. ASSUME TypeOK, NEW a \in XCoords, NEW b \in YCoords, AdcIrqLast(a, b)
      PROVE  /\ Steady(Append(x, a)) /\ Steady(Append(y, b)) => report' # <<>>
             /\ Jumps(Append(x, a)) \/ Jumps(Append(y, b)) => report' = <<>>
    <2> DEFINE s == Append(x, a)
               t == Append(y, b)
    <2>1. /\ s[1] \in Nat /\ s[2] \in Nat /\ s[3] \in Nat /\ s[4] \in Nat
          /\ t[1] \in Nat /\ t[2] \in Nat /\ t[3] \in Nat /\ t[4] \in Nat
        BY <1>1, FourSamples, CoordsAssumption DEF AdcIrqLast, LastSample, TypeOK
    <2>2. report' = IF Near(s) /\ Near(t) THEN <<Mean(s), Mean(t)>> ELSE <<>>
        BY <1>1 DEF AdcIrqLast, LastSample, NoReport, Filter
    <2>3. Steady(s) /\ Steady(t) => Near(s) /\ Near(t)
        BY <2>1, SteadyIsNear
    <2>4. Jumps(s) \/ Jumps(t) => ~(Near(s) /\ Near(t))
        BY <2>1, JumpIsNotNear
    <2>5. <<Mean(s), Mean(t)>> # <<>>
        OBVIOUS
    <2> HIDE DEF s, t
    <2>6. /\ Steady(s) /\ Steady(t) => report' # <<>>
          /\ Jumps(s) \/ Jumps(t) => report' = <<>>
        BY <2>2, <2>3, <2>4, <2>5
    <2>7. QED
        BY <2>6 DEF s, t
<1>2. TypeOK => [\A a \in XCoords, b \in YCoords :
                    AdcIrqLast(a, b) =>
                        /\ Steady(Append(x, a)) /\ Steady(Append(y, b)) => report' # <<>>
                        /\ Jumps(Append(x, a)) \/ Jumps(Append(y, b)) => report' = <<>>]_vars
    BY <1>1, Zenon
<1>3. QED
    BY <1>2, TypeCorrect, PTL DEF FilterSound

\* Both together: adc_irq reports what the four samples justify.
THEOREM ReportsAreJustified == Spec => ReportsJustified
BY FilterIsSound, ReportIsAmongSamples DEF ReportsJustified

=============================================================================
