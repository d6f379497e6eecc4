--------------------------- MODULE InputButtonsProofs ---------------------------
(***************************************************************************)
(* Proofs about InputButtons for any pins, any delay and any first expiry  *)
(* of the timer.                                                           *)
(***************************************************************************)
EXTENDS InputButtons, TLAPS

\* What exists when, between the calls of buttons_init and buttons_exit: lines
\* are registered and freed while the device is there, and the timer runs only
\* where a later del_timer, after the last free_irq, will find it.
Lifetimes ==
    /\ device = "none" => stage \in {"out", "free", "dead"}
    /\ stage \in {"out", "timer", "deleting", "unregister", "free", "dead"} => handler = {}
    /\ stage = "freeing" => handler \subseteq left
    /\ stage \in {"out", "timer", "unregister", "free", "dead"} => timer = Off /\ tfn = "idle"
    /\ stage \in {"out", "timer"} => irq_pd = NULL

\* A pending timer that an interrupt has set has as long to go as the lines have
\* still to be quiet; while the timer function runs it is pending or they are.
DelayLeft ==
    /\ irq_pd # NULL /\ timer # Off => timer + quiet >= Delay
    /\ irq_pd # NULL /\ tfn # "idle" => timer # Off \/ quiet = Delay
    /\ tfn = "getpin" => pindesc \in Pins /\ irq_pd # NULL

IInv == TypeOK /\ Lifetimes /\ NoTimerOops /\ DelayLeft

\* Before insmod.
LEMMA InitInv == Init => IInv
<1>. SUFFICES ASSUME Init PROVE IInv
  OBVIOUS
<1>2. TypeOK BY DelayAssumption DEF Init, TypeOK, Stages, Devices, Off
<1>3. Lifetimes /\ NoTimerOops /\ DelayLeft BY DEF Init, Lifetimes, NoTimerOops, DelayLeft
<1>. QED  BY <1>2, <1>3 DEF IInv

-----------------------------------------------------------------------------
(* Types.                                                                   *)

\* The calls of buttons_init and buttons_exit keep the types.
LEMMA ModuleType ==
    ASSUME TypeOK, Register \/ RegisterNull \/ ExitStart \/ ModuleStep
    PROVE  TypeOK'
<1>. USE DEF hw, softirq
<1>1. CASE Register \/ RegisterNull
  BY <1>1 DEF Register, RegisterNull, TypeOK, Stages, Devices, OopsCalls
<1>5. CASE Unregister \/ FreeDevice
  BY <1>5 DEF Unregister, FreeDevice, TypeOK, Stages, Devices, OopsCalls, NULL
<1>2. CASE AddTimer
  BY <1>2, FirstExpiryAssumption DEF AddTimer, TypeOK, Stages
<1>3. CASE ExitStart \/ DelTimer
  BY <1>3 DEF ExitStart, DelTimer, DelTimerTo, TypeOK, Stages
<1>4. CASE \E p \in Pins : RequestIrq(p) \/ FreeIrq(p)
  BY <1>4 DEF RequestIrq, FreeIrq, TypeOK, Stages
<1>. QED  BY <1>1, <1>2, <1>3, <1>4, <1>5 DEF ModuleStep

\* Levels, interrupts, jiffies and the timer function keep the types.
LEMMA EventType ==
    ASSUME TypeOK, DelayLeft,
           \/ \E p \in Pins : SetPin(p) \/ Irq(p)
           \/ Tick \/ TimerStep
    PROVE  TypeOK'
<1>. USE DEF softirq
<1>1. CASE \E p \in Pins : SetPin(p)
  BY <1>1 DEF SetPin, TypeOK, module
<1>2. CASE \E p \in Pins : Irq(p)
  BY <1>2, DelayAssumption DEF Irq, IrqWithTimer, TypeOK, module
<1>3. CASE Tick
  <2>1. quiet' \in 0 .. Delay BY <1>3, DelayAssumption DEF Tick, TypeOK
  <2>2. timer' \in Nat \union {Off} BY <1>3 DEF Tick, TypeOK, Off
  <2>. QED  BY <1>3, <2>1, <2>2 DEF Tick, TypeOK, hw, module
<1>4. CASE TimerStep
  <2>1. oops' \subseteq OopsCalls
    BY <1>4
       DEF TimerStep, TimerExpire, FetchPin, FetchNothing, ReportKey, TimerOops, TypeOK,
           OopsCalls
  <2>2. keys' \subseteq Pins
    BY <1>4
       DEF TimerStep, TimerExpire, FetchPin, FetchNothing, ReportKey, Reported, TypeOK,
           DelayLeft
  <2>3. timer' \in {timer, Off} /\ UNCHANGED <<hw, irq_pd, module, missed, quiet>>
    BY <1>4 DEF TimerStep, TimerExpire, FetchPin, FetchNothing, ReportKey
  <2>4. tfn' \in {"idle", "fetch", "getpin"} /\ pindesc' \in Pins \union {NULL}
    BY <1>4 DEF TimerStep, TimerExpire, FetchPin, FetchNothing, ReportKey, TypeOK
  <2>. QED  BY <2>1, <2>2, <2>3, <2>4 DEF TypeOK, hw, module
<1>. QED  BY <1>1, <1>2, <1>3, <1>4

\* So does every step.
LEMMA NextType == TypeOK /\ DelayLeft /\ [Next]_vars => TypeOK'
<1>1. TypeOK /\ UNCHANGED vars => TypeOK' BY DEF TypeOK, vars, hw, softirq, module
<1>. QED  BY <1>1, ModuleType, EventType DEF Next

-----------------------------------------------------------------------------
(* Init, exit, interrupts and time.                                         *)

\* The calls of buttons_init and buttons_exit, in their order, keep what
\* exists when.
LEMMA ModuleInv ==
    ASSUME IInv, Register \/ RegisterNull \/ ExitStart \/ ModuleStep
    PROVE  Lifetimes' /\ NoTimerOops' /\ DelayLeft'
<1>. USE DEF ProcessRuns, softirq, hw, IInv, Lifetimes, NoTimerOops, DelayLeft
<1>1. CASE Register \/ RegisterNull
  BY <1>1 DEF Register, RegisterNull
<1>2. CASE AddTimer
  BY <1>2 DEF AddTimer
<1>3. ASSUME NEW p \in Pins, RequestIrq(p)
      PROVE  Lifetimes' /\ NoTimerOops' /\ DelayLeft'
  BY <1>3 DEF RequestIrq
<1>4. CASE ExitStart
  BY <1>4 DEF ExitStart, TypeOK
<1>5. ASSUME NEW p \in Pins, FreeIrq(p)
      PROVE  Lifetimes' /\ NoTimerOops' /\ DelayLeft'
  BY <1>5 DEF FreeIrq
<1>6. CASE DelTimer
  BY <1>6 DEF DelTimer, DelTimerTo
<1>7. CASE Unregister \/ FreeDevice
  BY <1>7 DEF Unregister, FreeDevice
<1>. QED  BY <1>1, <1>2, <1>3, <1>4, <1>5, <1>6, <1>7 DEF ModuleStep

\* So do levels, interrupts, jiffies and the timer function, and the delay.
LEMMA EventInv ==
    ASSUME IInv,
           \/ \E p \in Pins : SetPin(p) \/ Irq(p)
           \/ Tick \/ TimerStep
    PROVE  Lifetimes' /\ NoTimerOops' /\ DelayLeft'
<1>. USE DEF softirq, module, IInv, Lifetimes, NoTimerOops, DelayLeft
<1>1. CASE \E p \in Pins : SetPin(p)
  BY <1>1 DEF SetPin
<1>2. ASSUME NEW p \in Pins, Irq(p)
      PROVE  Lifetimes' /\ NoTimerOops' /\ DelayLeft'
  <2>1. stage \notin {"out", "timer", "deleting", "unregister", "free", "dead"}
    BY <1>2 DEF Irq, IrqWithTimer
  <2>2. timer' # Off /\ timer' + quiet' >= Delay /\ irq_pd' # NULL
    BY <1>2, DelayAssumption, PinsAssumption DEF Irq, IrqWithTimer, Off, NULL
  <2>. QED  BY <1>2, <2>1, <2>2 DEF Irq, IrqWithTimer
<1>3. CASE Tick
  <2>1. timer' = Off <=> timer = Off BY <1>3 DEF Tick, TypeOK, Off
  <2>2. irq_pd # NULL /\ timer # Off => timer' + quiet' >= Delay
    BY <1>3, <2>1, DelayAssumption DEF Tick, TypeOK, Off
  <2>3. quiet = Delay => quiet' = Delay
    BY <1>3, DelayAssumption DEF Tick, TypeOK
  <2>. QED  BY <1>3, <2>1, <2>2, <2>3 DEF Tick, hw
<1>4. CASE TimerExpire
  <2>1. stage \notin {"out", "timer", "unregister", "free", "dead"} /\ device # "none"
    BY <1>4 DEF TimerExpire, Off
  <2>2. irq_pd # NULL => quiet = Delay
    BY <1>4, DelayAssumption DEF TimerExpire, TypeOK, Off
  <2>. QED  BY <1>4, <2>1, <2>2 DEF TimerExpire, TimerOops, hw
<1>5. CASE FetchPin \/ FetchNothing \/ ReportKey
  <2>1. stage \notin {"out", "timer", "unregister", "free", "dead"} /\ device # "none"
    BY <1>5 DEF FetchPin, FetchNothing, ReportKey
  <2>. QED  BY <1>5, <2>1 DEF FetchPin, FetchNothing, ReportKey, TimerOops, TypeOK, hw
<1>. QED  BY <1>1, <1>2, <1>3, <1>4, <1>5 DEF TimerStep

\* Every step keeps the invariant.
LEMMA NextInv == IInv /\ [Next]_vars => IInv'
<1>. SUFFICES ASSUME IInv, [Next]_vars PROVE IInv'
  OBVIOUS
<1>1. TypeOK' BY NextType DEF IInv
<1>2. CASE UNCHANGED vars
  BY <1>1, <1>2 DEF vars, hw, softirq, module, IInv, Lifetimes, NoTimerOops, DelayLeft
<1>3. CASE Next
  BY <1>1, <1>3, ModuleInv, EventInv DEF Next, IInv
<1>. QED  BY <1>2, <1>3

-----------------------------------------------------------------------------

\* The inductive invariant: buttons_exit frees the lines before it deletes the
\* timer, and both before it removes the device.
THEOREM Inductive == Spec => []IInv
  BY InitInv, NextInv, PTL DEF Spec

\* Every variable keeps its type.
THEOREM TypeCorrect == Spec => []TypeOK
<1>1. IInv => TypeOK BY DEF IInv
<1>. QED  BY <1>1, Inductive, PTL

\* Neither the timer that buttons_init adds before any interrupt, nor one that
\* is pending when buttons_exit begins, makes buttons_timer_function use a NULL
\* pin description or an input device that is gone.
THEOREM TimerNeverOopses == Spec => []NoTimerOops
<1>1. IInv => NoTimerOops BY DEF IInv
<1>. QED  BY <1>1, Inductive, PTL

\* buttons_timer_function starts only when no interrupt came for the whole
\* delay, because every buttons_irq moves the expiry, and an interrupt that comes
\* while it runs makes it run again.
THEOREM ReportsDebounced == Spec => Debounced
<1>1. ASSUME IInv, Next, tfn = "idle", tfn' = "fetch"
      PROVE  quiet = Delay \/ irq_pd = NULL
  <2>1. TimerExpire
    BY <1>1
       DEF Next, ModuleStep, Register, RegisterNull, ExitStart, AddTimer, RequestIrq,
           FreeIrq, DelTimer, DelTimerTo, Unregister, FreeDevice, SetPin, Irq,
           IrqWithTimer, Tick, TimerStep, FetchPin, FetchNothing, ReportKey, softirq
  <2>. QED  BY <1>1, <2>1, DelayAssumption
            DEF TimerExpire, IInv, TypeOK, DelayLeft, Off
<1>2. ASSUME IInv, tfn = "getpin" PROVE quiet = Delay \/ timer # Off
  BY <1>2 DEF IInv, DelayLeft
<1>3. IInv /\ [Next]_vars =>
        [/\ tfn = "idle" /\ tfn' = "fetch" => quiet = Delay \/ irq_pd = NULL
         /\ tfn = "getpin" /\ tfn' = "idle" => quiet = Delay \/ timer # Off]_vars
  BY <1>1, <1>2
<1>. QED  BY <1>3, Inductive, PTL DEF Spec, Debounced

=============================================================================
