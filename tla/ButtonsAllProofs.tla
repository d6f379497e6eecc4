--------------------------- MODULE ButtonsAllProofs ---------------------------
(***************************************************************************)
(* Proofs about ButtonsAll, for every set of pins, files and threads and   *)
(* every delay.                                                            *)
(***************************************************************************)
EXTENDS ButtonsAll, TLAPS

\* A thread inside buttons_read uses an open file, so the file is not released
\* under it and the module is not removed.
ReadersInside ==
    \A t \in Threads :
        pc[t] # "idle" => rfile[t] \in Files /\ file[rfile[t]] = "open"

\* The timer function works on a pin, and unless the timer was armed again
\* since, it is the pin of the last interrupt.
Fetched ==
    tfn = "getpin" =>
        /\ pindesc \in Pins
        /\ irq_pd # NULL
        /\ timer = Off => pindesc = irq_pd

\* After an interrupt the jiffies gone and those left add up to the delay, and
\* all of them are gone once the timer has expired; the module is removed with
\* irq_pd reset.
TimerQuiet ==
    /\ irq_pd # NULL =>
          quiet = IF timer = Off THEN Delay ELSE Delay - timer
    /\ ~loaded => irq_pd = NULL

\* Lines, lock and module state.  It is inductive: LinesOwned needs the
\* exclusion of LockConserved, Quiesced needs ReadersInside.
SafeInv ==
    /\ TypeOK
    /\ LockConserved
    /\ LinesOwned
    /\ Quiesced
    /\ ReadersInside
    /\ NoLostWakeup
    /\ Fetched

\* What the interrupt and the timer have left in key_val.
KeyInv == SafeInv /\ KeyCurrent /\ TimerQuiet

-----------------------------------------------------------------------------

USE PinsAssumption, DelayAssumption, FirstExpiryAssumption, SignalsAssumption

\* The image of a freshly loaded module and an idle kernel have their types.
LEMMA TypeInit == Init => TypeOK
<1> SUFFICES ASSUME Init PROVE TypeOK
    OBVIOUS
<1>1. loaded \in BOOLEAN /\ panicked \in BOOLEAN /\ unread \in BOOLEAN
    BY Zenon DEF Init
<1>2. nonblock \in [Files -> BOOLEAN]
    BY Zenon DEF Init
<1>3. QED
    BY <1>1, <1>2 DEF Init, TypeOK, FileStates, ReadStates, TimerStates, Off, NULL

\* Every step keeps the types; that up() does not take the semaphore past 1
\* needs the exclusion of LockConserved, that a key code is published Fetched.
LEMMA TypeStep == TypeOK /\ LockConserved /\ Fetched /\ [Next]_vars => TypeOK'
<1> SUFFICES ASSUME TypeOK, LockConserved, Fetched, [Next]_vars PROVE TypeOK'
    OBVIOUS
<1> USE DEF TypeOK, hw, globals, softirq, kernel, opens, reads, history
<1>1. CASE InitModule
    <2>1. loaded' \in BOOLEAN
        BY <1>1, Zenon DEF InitModule
    <2>2. QED
        BY <1>1, <2>1 DEF InitModule
<1>2. CASE ExitModule
    <2>1. loaded' \in BOOLEAN /\ unread' \in BOOLEAN
        BY <1>2, Zenon DEF ExitModule, ExitWithTimer
    <2>2. QED
        BY <1>2, <2>1 DEF ExitModule, ExitWithTimer
<1>3. ASSUME NEW p \in Pins, SetPin(p) PROVE TypeOK'
    <2>1. level' \in [Pins -> {0, 1}]
        BY <1>3 DEF SetPin
    <2>2. QED
        BY <1>3, <2>1 DEF SetPin
<1>4. ASSUME NEW p \in Pins, Irq(p) PROVE TypeOK'
    BY <1>4 DEF Irq, IrqWithTimer
<1>5. CASE Tick
    BY <1>5 DEF Tick, Off
<1>6. CASE PublishKey
    <2>1. KeyCode(pindesc, level[pindesc]) \in 0..255
        BY <1>6 DEF PublishKey, KeyCode, Fetched
    <2>2. pc' \in [Threads -> ReadStates]
        BY <1>6 DEF PublishKey, Wake, ReadStates
    <2>3. unread' \in BOOLEAN
        BY <1>6, Zenon DEF PublishKey
    <2> QED
        BY <1>6, <2>1, <2>2, <2>3 DEF PublishKey, TimerStates
<1>7. CASE TimerExpire \/ FetchPin \/ FetchNull
    <2>1. CASE TimerExpire
        BY <2>1 DEF TimerExpire, TimerStates
    <2>2. CASE FetchPin
        BY <2>2 DEF FetchPin, TimerStates
    <2>3. CASE FetchNull
        BY <2>3 DEF FetchNull
    <2>4. QED
        BY <1>7, <2>1, <2>2, <2>3
<1>8. ASSUME NEW f \in Files, OpenStep(f) PROVE TypeOK'
    <2>1. nonblock' \in [Files -> BOOLEAN]
        BY <1>8, Zenon
           DEF OpenStep, OpenBusy, OpenTrylock, Acquired, OpenDown, Down, DownTaking,
               vars
    <2>2. CASE OpenTrylock(f)
        BY <2>1, <2>2 DEF OpenTrylock, Acquired, FileStates
    <2>3. CASE OpenDown(f)
        BY <2>1, <2>3 DEF OpenDown, FileStates
    <2>4. CASE Down(f)
        BY <2>4 DEF Down, DownTaking, Acquired, FileStates
    <2>5. CASE UNCHANGED vars
        BY <2>5 DEF vars
    <2>6. QED
        BY <1>8, <2>2, <2>3, <2>4, <2>5 DEF OpenStep, OpenBusy
<1>9. ASSUME NEW f \in Files, Close(f) \/ Up(f) PROVE TypeOK'
    <2>1. CASE Close(f)
        BY <2>1 DEF Close, CloseTo, FileStates
    <2>2. CASE Up(f)
        <3>1. f \in Owners
            BY <2>2 DEF Up, Owners
        <3>2. button_lock = 0
            BY <3>1 DEF LockConserved
        <3>3. QED
            BY <2>2, <3>2 DEF Up, FileStates
    <2>3. QED
        BY <1>9, <2>1, <2>2
<1>10. ASSUME NEW f \in Files, NEW p \in Pins, RequestIrq(f, p) PROVE TypeOK'
    BY <1>10 DEF RequestIrq, FileStates
<1>11. ASSUME NEW f \in Files, NEW p \in Pins, FreeIrq(f, p) PROVE TypeOK'
    BY <1>11 DEF FreeIrq, FileStates
<1>12. ASSUME NEW t \in Threads, NEW f \in Files, ReadStart(t, f) PROVE TypeOK'
    BY <1>12 DEF ReadStart, ReadStates
<1>13. ASSUME NEW t \in Threads, ReadStep(t) \/ Interrupted(t) PROVE TypeOK'
    <2>1. CASE WaitEvent(t)
        BY <2>1 DEF WaitEvent, WaitTo, ReadStates
    <2>2. CASE CopyToUser(t)
        <3>1. unread' \in BOOLEAN
            BY <2>2, Zenon DEF CopyToUser
        <3>2. QED
            BY <2>2, <3>1 DEF CopyToUser, ReadStates
    <2>3. CASE ClearEvent(t)
        BY <2>3 DEF ClearEvent, ReadStates
    <2>4. CASE Interrupted(t)
        BY <2>4 DEF Interrupted, ReadStates
    <2>5. QED
        BY <1>13, <2>1, <2>2, <2>3, <2>4 DEF ReadStep
<1>14. CASE UNCHANGED vars
    BY <1>14 DEF vars
<1>15. QED
    BY <1>1, <1>2, <1>3, <1>4, <1>5, <1>6, <1>7, <1>8, <1>9, <1>10, <1>11, <1>12,
       <1>13, <1>14
       DEF Next, TimerStep, ReadInvalid, ReadAgain, Halted

-----------------------------------------------------------------------------

\* The steps that touch neither the semaphore nor any file: those of the
\* hardware, the timer and the readers, and the calls that fail at once.
LEMMA OtherSteps ==
    ASSUME [Next]_vars,
           ~InitModule, ~ExitModule,
           \A f \in Files : ~OpenTrylock(f) /\ ~OpenDown(f) /\ ~Down(f),
           \A f \in Files : ~Close(f) /\ ~Up(f),
           \A f \in Files, p \in Pins : ~RequestIrq(f, p) /\ ~FreeIrq(f, p)
    PROVE  UNCHANGED <<button_lock, file, left, handler, loaded>>
BY Zenon
   DEF Next, OpenStep, OpenBusy, SetPin, Irq, IrqWithTimer, Tick, TimerStep,
       TimerExpire, FetchPin, FetchNull, PublishKey, ReadInvalid, ReadAgain, ReadStart, ReadStep,
       WaitEvent, WaitTo, CopyToUser, ClearEvent, Interrupted, Halted, vars, hw,
       globals, kernel, opens, reads, history

\* down_trylock, down and up keep the semaphore's count and its owners in step.
LEMMA LockStep == SafeInv /\ [Next]_vars => LockConserved'
<1> SUFFICES ASSUME SafeInv, [Next]_vars PROVE LockConserved'
    OBVIOUS
<1> USE DEF SafeInv, TypeOK, LockConserved, Owners
<1>1. CASE InitModule
    BY <1>1 DEF InitModule, opens
<1>2. CASE ExitModule
    BY <1>2 DEF ExitModule, ExitWithTimer
<1>3. ASSUME NEW f \in Files, OpenTrylock(f) \/ Down(f) PROVE LockConserved'
    <2>1. button_lock = 1 /\ Owners = {}
        BY <1>3 DEF OpenTrylock, Acquired, Down, DownTaking
    <2>2. button_lock' = 0 /\ Owners' = {f}
        BY <1>3, <2>1 DEF OpenTrylock, Acquired, Down, DownTaking
    <2>3. QED
        BY <2>2
<1>4. ASSUME NEW f \in Files, OpenDown(f) PROVE LockConserved'
    <2>1. Owners' = Owners
        BY <1>4 DEF OpenDown
    <2>2. QED
        BY <1>4, <2>1 DEF OpenDown
<1>5. ASSUME NEW f \in Files, Close(f) PROVE LockConserved'
    <2>1. Owners' = Owners
        BY <1>5 DEF Close, CloseTo
    <2>2. QED
        BY <1>5, <2>1 DEF Close, CloseTo
<1>6. ASSUME NEW f \in Files, Up(f) PROVE LockConserved'
    <2>1. button_lock = 0 /\ Owners = {f}
        BY <1>6 DEF Up
    <2>2. Owners' = Owners \ {f}
        BY <1>6 DEF Up
    <2>3. QED
        BY <1>6, <2>1, <2>2 DEF Up
<1>7. ASSUME NEW f \in Files, NEW p \in Pins, RequestIrq(f, p) \/ FreeIrq(f, p)
      PROVE  LockConserved'
    <2>1. Owners' = Owners
        BY <1>7 DEF RequestIrq, FreeIrq
    <2>2. QED
        BY <1>7, <2>1 DEF RequestIrq, FreeIrq
<1>8. CASE UNCHANGED <<button_lock, file, left, handler, loaded>>
    BY <1>8
<1>9. QED
    BY <1>1, <1>2, <1>3, <1>4, <1>5, <1>6, <1>7, <1>8, OtherSteps

\* request_irq and free_irq meet the lines in the state they assume: the file
\* that runs them is the only owner.
LEMMA LinesStep == SafeInv /\ [Next]_vars => LinesOwned'
<1> SUFFICES ASSUME SafeInv, [Next]_vars PROVE LinesOwned'
    OBVIOUS
<1> USE DEF SafeInv, TypeOK, LinesOwned, Owners
<1>1. CASE InitModule
    BY <1>1 DEF InitModule, opens, hw
<1>2. CASE ExitModule
    BY <1>2 DEF ExitModule, ExitWithTimer, hw
<1>3. ASSUME NEW f \in Files, OpenTrylock(f) \/ Down(f) PROVE LinesOwned'
    <2>1. Owners = {} /\ handler = {}
        BY <1>3 DEF OpenTrylock, Acquired, Down, DownTaking, LockConserved
    <2>2. QED
        BY <1>3, <2>1 DEF OpenTrylock, Acquired, Down, DownTaking, hw
<1>4. ASSUME NEW f \in Files, OpenDown(f) PROVE LinesOwned'
    <2>1. Owners' = Owners
        BY <1>4 DEF OpenDown
    <2>2. QED
        BY <1>4, <2>1 DEF OpenDown, hw
<1>5. ASSUME NEW f \in Files, Close(f) PROVE LinesOwned'
    <2>1. Owners = {f} /\ Owners' = {f}
        BY <1>5 DEF Close, CloseTo, LockConserved
    <2>2. QED
        BY <1>5, <2>1 DEF Close, CloseTo, hw
<1>6. ASSUME NEW f \in Files, Up(f) PROVE LinesOwned'
    <2>1. Owners = {f}
        BY <1>6 DEF Up, LockConserved
    <2>2. QED
        BY <1>6, <2>1 DEF Up, hw
<1>7. ASSUME NEW f \in Files, NEW p \in Pins, RequestIrq(f, p) PROVE LinesOwned'
    <2>1. Owners = {f} /\ Owners' = {f}
        BY <1>7 DEF RequestIrq, LockConserved
    <2>2. handler' = Pins \ left'[f]
        BY <1>7 DEF RequestIrq
    <2>3. file'[f] = "open" => handler' = Pins
        BY <1>7, <2>2 DEF RequestIrq
    <2>4. QED
        BY <1>7, <2>1, <2>2, <2>3 DEF RequestIrq
<1>8. ASSUME NEW f \in Files, NEW p \in Pins, FreeIrq(f, p) PROVE LinesOwned'
    <2>1. Owners = {f} /\ Owners' = {f}
        BY <1>8 DEF FreeIrq, LockConserved
    <2>2. handler' = left'[f]
        BY <1>8 DEF FreeIrq
    <2>3. file'[f] = "up" => handler' = {}
        BY <1>8, <2>2 DEF FreeIrq
    <2>4. QED
        BY <1>8, <2>1, <2>2, <2>3 DEF FreeIrq
<1>9. CASE UNCHANGED <<button_lock, file, left, handler, loaded>>
    BY <1>9
<1>10. QED
    BY <1>1, <1>2, <1>3, <1>4, <1>5, <1>6, <1>7, <1>8, <1>9, OtherSteps

\* A file is released only when no thread reads through it, so a reader's file
\* stays open.
LEMMA ReadersStep == SafeInv /\ [Next]_vars => ReadersInside'
<1> SUFFICES ASSUME SafeInv, [Next]_vars, NEW t \in Threads, pc'[t] # "idle"
             PROVE  rfile'[t] \in Files /\ file'[rfile'[t]] = "open"
    BY DEF ReadersInside
<1> USE DEF SafeInv, TypeOK, ReadersInside
<1>1. CASE UNCHANGED <<pc, rfile>> /\ ~UNCHANGED file
    <2>1. rfile'[t] = rfile[t] /\ rfile[t] \in Files /\ file[rfile[t]] = "open"
        BY <1>1
    <2>2. ASSUME NEW f \in Files, OpenTrylock(f) \/ OpenDown(f) \/ Down(f) \/ Up(f)
          PROVE  file'[rfile[t]] = "open"
        BY <2>1, <2>2 DEF OpenTrylock, Acquired, OpenDown, Down, DownTaking, Up
    <2>3. ASSUME NEW f \in Files, Close(f) PROVE file'[rfile[t]] = "open"
        BY <2>1, <2>3 DEF Close, CloseTo
    <2>4. ASSUME NEW f \in Files, NEW p \in Pins, RequestIrq(f, p) \/ FreeIrq(f, p)
          PROVE  file'[rfile[t]] = "open"
        BY <2>1, <2>4 DEF RequestIrq, FreeIrq
    <2>5. ~InitModule /\ ~ExitModule
        BY <1>1 DEF InitModule, ExitModule, ExitWithTimer, opens
    <2>6. QED
        BY <1>1, <2>1, <2>2, <2>3, <2>4, <2>5, OtherSteps
<1>2. CASE UNCHANGED <<pc, rfile, file>>
    BY <1>2
<1>3. CASE ~UNCHANGED <<pc, rfile>>
    <2>1. CASE PublishKey
        BY <2>1 DEF PublishKey, Wake, opens
    <2>2. ASSUME NEW u \in Threads, NEW f \in Files, ReadStart(u, f)
          PROVE  rfile'[t] \in Files /\ file'[rfile'[t]] = "open"
        BY <2>2 DEF ReadStart, opens
    <2>3. ASSUME NEW u \in Threads, WaitEvent(u) \/ CopyToUser(u) \/ Interrupted(u)
          PROVE  rfile'[t] \in Files /\ file'[rfile'[t]] = "open"
        BY <2>3 DEF WaitEvent, WaitTo, CopyToUser, Interrupted, opens
    <2>4. ASSUME NEW u \in Threads, ClearEvent(u)
          PROVE  rfile'[t] \in Files /\ file'[rfile'[t]] = "open"
        BY <2>4 DEF ClearEvent, opens
    <2>5. QED
        BY <1>3, <2>1, <2>2, <2>3, <2>4
           DEF Next, InitModule, ExitModule, ExitWithTimer, SetPin, Irq, IrqWithTimer,
               Tick, TimerStep, TimerExpire, FetchPin, FetchNull, OpenStep, OpenBusy, OpenTrylock, Acquired, OpenDown,
               Down, DownTaking, RequestIrq, Close, CloseTo, FreeIrq, Up, ReadInvalid,
               ReadAgain, ReadStep, Halted, vars, reads
<1>4. QED
    BY <1>1, <1>2, <1>3

\* After rmmod nothing of the module can run until it is loaded again.
LEMMA QuiescedStep == SafeInv /\ [Next]_vars => Quiesced'
<1> SUFFICES ASSUME SafeInv, [Next]_vars, ~loaded' PROVE Quiesced'
    BY DEF Quiesced
<1> USE DEF SafeInv, TypeOK, Quiesced
<1>1. CASE ExitModule
    <2>1. handler = {} /\ \A t \in Threads : pc[t] = "idle"
        BY <1>1 DEF ExitModule, ExitWithTimer, LinesOwned, Owners, ReadersInside
    <2>2. QED
        BY <1>1, <2>1 DEF ExitModule, ExitWithTimer, ProcessRuns, softirq, hw, reads
<1>2. CASE ~loaded
    <2>1. /\ handler = {}
          /\ timer = Off
          /\ tfn = "idle"
          /\ \A f \in Files : file[f] = "closed"
          /\ \A t \in Threads : pc[t] = "idle"
        BY <1>2
    <2>2. CASE InitModule
        BY <2>2 DEF InitModule
    <2>3. ASSUME NEW p \in Pins, SetPin(p) PROVE Quiesced'
        BY <2>1, <2>3 DEF SetPin, globals, softirq, opens, reads
    <2>4. CASE Tick
        BY <2>1, <2>4 DEF Tick, Off, hw, softirq, opens, reads
    <2>5. CASE UNCHANGED vars
        BY <2>1, <2>5 DEF vars, hw, globals, softirq, opens, reads
    <2>6. ASSUME NEW p \in Pins PROVE ~Irq(p)
        BY <2>1 DEF Irq, IrqWithTimer
    <2>7. ~TimerStep
        BY <2>1 DEF TimerStep, TimerExpire, FetchPin, FetchNull, PublishKey, Off
    <2>8. ASSUME NEW f \in Files PROVE ~OpenStep(f) /\ ~Close(f) /\ ~Up(f)
        BY <1>2, <2>1
           DEF OpenStep, OpenBusy, Busy, OpenTrylock, Acquired, OpenDown, Down,
               DownTaking, Close, CloseTo, Up
    <2>9. ASSUME NEW f \in Files, NEW p \in Pins PROVE ~RequestIrq(f, p) /\ ~FreeIrq(f, p)
        BY <2>1 DEF RequestIrq, FreeIrq
    <2>10. ASSUME NEW t \in Threads, NEW f \in Files PROVE ~ReadStart(t, f)
        BY <2>1 DEF ReadStart
    <2>11. ASSUME NEW t \in Threads PROVE ~ReadStep(t) /\ ~Interrupted(t)
        BY <2>1 DEF ReadStep, WaitEvent, WaitTo, CopyToUser, ClearEvent, Interrupted
    <2>12. QED
        BY <1>1, <2>2, <2>3, <2>4, <2>5, <2>6, <2>7, <2>8, <2>9, <2>10, <2>11
           DEF Next, ReadInvalid, ReadAgain, Halted
<1>3. CASE loaded /\ ~ExitModule
    <2>1. loaded' = loaded
        BY <1>3, Zenon
           DEF Next, InitModule, SetPin, Irq, IrqWithTimer, Tick, TimerStep,
               TimerExpire, FetchPin, FetchNull, PublishKey, OpenStep, OpenBusy, OpenTrylock, Acquired, OpenDown, Down,
               DownTaking, RequestIrq, Close, CloseTo, FreeIrq, Up, ReadInvalid,
               ReadAgain, ReadStart, ReadStep, WaitEvent, WaitTo,
               CopyToUser, ClearEvent, Interrupted, Halted, vars, kernel
    <2>2. QED
        BY <1>3, <2>1
<1>4. QED
    BY <1>1, <1>2, <1>3

\* A thread goes to sleep only on ev_timer = 0, and the step that sets ev_timer
\* wakes every sleeper.
LEMMA WakeupStep == SafeInv /\ [Next]_vars => NoLostWakeup'
<1> SUFFICES ASSUME SafeInv, [Next]_vars PROVE NoLostWakeup'
    OBVIOUS
<1> USE DEF SafeInv, TypeOK, NoLostWakeup
<1>1. CASE PublishKey
    BY <1>1 DEF PublishKey, Wake
<1>2. CASE ExitModule
    BY <1>2 DEF ExitModule, ExitWithTimer, reads
<1>3. ASSUME NEW t \in Threads, NEW f \in Files, ReadStart(t, f) PROVE NoLostWakeup'
    BY <1>3 DEF ReadStart, globals
<1>4. ASSUME NEW t \in Threads, ReadStep(t) \/ Interrupted(t) PROVE NoLostWakeup'
    BY <1>4
       DEF ReadStep, WaitEvent, WaitTo, CopyToUser, ClearEvent, Interrupted, globals
<1>5. CASE UNCHANGED <<pc, ev_timer>>
    BY <1>5
<1>6. QED
    BY <1>1, <1>2, <1>3, <1>4, <1>5
       DEF Next, InitModule, SetPin, Irq, IrqWithTimer, Tick, TimerStep, TimerExpire, FetchPin, FetchNull, OpenStep,
           OpenBusy, OpenTrylock, Acquired, OpenDown, Down, DownTaking, RequestIrq,
           Close, CloseTo, FreeIrq, Up, ReadInvalid, ReadAgain, Halted, vars, globals,
           reads

\* Only an interrupt changes irq_pd while the function runs, and it arms the
\* timer again.
LEMMA FetchedStep == SafeInv /\ [Next]_vars => Fetched'
<1> SUFFICES ASSUME SafeInv, [Next]_vars PROVE Fetched'
    OBVIOUS
<1> USE DEF SafeInv, TypeOK, Fetched
<1>1. CASE InitModule \/ ExitModule
    BY <1>1 DEF InitModule, ExitModule, ExitWithTimer, ProcessRuns, softirq
<1>2. ASSUME NEW p \in Pins, Irq(p) PROVE Fetched'
    BY <1>2 DEF Irq, IrqWithTimer, softirq, NULL, Off
<1>3. CASE Tick
    BY <1>3 DEF Tick, softirq, Off
<1>4. CASE TimerStep
    BY <1>4 DEF TimerStep, TimerExpire, FetchPin, FetchNull, PublishKey, softirq, globals
<1>5. CASE UNCHANGED <<irq_pd, timer, tfn, pindesc>>
    BY <1>5
<1>6. QED
    BY <1>1, <1>2, <1>3, <1>4, <1>5
       DEF Next, SetPin, OpenStep, OpenBusy, OpenTrylock, Acquired, OpenDown, Down,
           DownTaking, RequestIrq, Close, CloseTo, FreeIrq, Up, ReadInvalid, ReadAgain,
           ReadStart, ReadStep, WaitEvent, WaitTo, CopyToUser, ClearEvent, Interrupted,
           Halted, vars, globals, softirq

-----------------------------------------------------------------------------

\* The inductive invariant holds in every reachable state, whatever programs
\* open, read and close, however the keys move, with or without signals.
THEOREM SafeInvariant == Spec => []SafeInv
<1>1. Init => SafeInv
    <2> SUFFICES ASSUME Init PROVE SafeInv
        OBVIOUS
    <2>1. Owners = {}
        BY DEF Init, Owners
    <2>2. LockConserved /\ LinesOwned
        BY <2>1 DEF Init, LockConserved, LinesOwned
    <2>3. Quiesced /\ ReadersInside /\ NoLostWakeup /\ Fetched
        BY DEF Init, Quiesced, ReadersInside, NoLostWakeup, Fetched
    <2>4. QED
        BY <2>2, <2>3, TypeInit DEF SafeInv
<1>2. SafeInv /\ [Next]_vars => SafeInv'
    <2>1. SafeInv => TypeOK /\ LockConserved /\ Fetched
        BY DEF SafeInv
    <2>2. QED
        BY <2>1, TypeStep, LockStep, LinesStep, ReadersStep, QuiescedStep, WakeupStep,
           FetchedStep
           DEF SafeInv
<1>3. QED
    BY <1>1, <1>2, PTL DEF Spec

\* Every variable of the driver keeps its type: in particular the semaphore's
\* count stays in 0..1 and key_val fits its byte.
THEOREM TypeCorrect == Spec => []TypeOK
<1>1. SafeInv => TypeOK
    BY DEF SafeInv
<1>2. QED
    BY <1>1, SafeInvariant, PTL

\* At most one file is open, and it has all the interrupt lines: buttons_open
\* and buttons_release need not test what request_irq returns.
THEOREM OpenIsExclusive == Spec => []ExclusiveOpen
<1>1. SafeInv => ExclusiveOpen
    BY DEF SafeInv, ExclusiveOpen
<1>2. QED
    BY <1>1, SafeInvariant, PTL

\* Nothing of the module is left to run once buttons_exit has returned.
THEOREM CleanExit == Spec => []Quiesced
<1>1. SafeInv => Quiesced
    BY DEF SafeInv
<1>2. QED
    BY <1>1, SafeInvariant, PTL

\* No reader sleeps through a key that was published.
THEOREM WakeupsKept == Spec => []NoLostWakeup
<1>1. SafeInv => NoLostWakeup
    BY DEF SafeInv
<1>2. QED
    BY <1>1, SafeInvariant, PTL

-----------------------------------------------------------------------------

\* Every step keeps key_val up to date with the pin of the last interrupt, and
\* keeps the account of the debounce delay.
LEMMA KeyStep == KeyInv /\ [Next]_vars => (KeyCurrent /\ TimerQuiet)'
<1> SUFFICES ASSUME KeyInv, [Next]_vars PROVE KeyCurrent' /\ TimerQuiet'
    OBVIOUS
<1> USE DEF KeyInv, SafeInv, TypeOK, KeyCurrent, TimerQuiet
<1>1. CASE InitModule
    BY <1>1 DEF InitModule, hw, history, Off
<1>2. CASE ExitModule
    BY <1>2 DEF ExitModule, ExitWithTimer, Off
<1>3. ASSUME NEW p \in Pins, SetPin(p) PROVE KeyCurrent' /\ TimerQuiet'
    <2>1. CASE irq_pd = p
        BY <1>3, <2>1 DEF SetPin, globals, softirq, kernel
    <2>2. CASE irq_pd # p
        <3>1. irq_pd # NULL => level'[irq_pd] = level[irq_pd]
            BY <1>3, <2>2 DEF SetPin
        <3>2. irq_pd \notin (pending \union missed)' => irq_pd \notin pending \union missed
            BY <1>3, <2>2 DEF SetPin
        <3>3. QED
            BY <1>3, <3>1, <3>2 DEF SetPin, globals, softirq, kernel, KeyCode
    <2>3. QED
        BY <2>1, <2>2
<1>4. ASSUME NEW p \in Pins, Irq(p) PROVE KeyCurrent' /\ TimerQuiet'
    <2>1. timer' # Off /\ quiet' = Delay - timer'
        BY <1>4 DEF Irq, IrqWithTimer, Off
    <2>2. loaded
        BY <1>4 DEF Irq, IrqWithTimer, Quiesced
    <2>3. QED
        BY <1>4, <2>1, <2>2 DEF Irq, IrqWithTimer, kernel
<1>5. CASE Tick
    BY <1>5 DEF Tick, Off, hw, softirq, kernel
<1>6. CASE PublishKey
    BY <1>6 DEF PublishKey, Fetched, hw, kernel, KeyCode
<1>7. CASE TimerExpire \/ FetchPin \/ FetchNull
    BY <1>7 DEF TimerExpire, FetchPin, FetchNull, hw, globals, softirq, kernel, history, Off
<1>8. CASE UNCHANGED <<level, pending, missed, irq_pd, timer, tfn, key_val, quiet, loaded>>
    BY <1>8 DEF KeyCode
<1>9. QED
    BY <1>1, <1>2, <1>3, <1>4, <1>5, <1>6, <1>7, <1>8
       DEF Next, TimerStep, OpenStep, OpenBusy, OpenTrylock, Acquired, OpenDown, Down,
           DownTaking, RequestIrq, Close, CloseTo, FreeIrq, Up, ReadInvalid, ReadAgain,
           ReadStart, ReadStep, WaitEvent, WaitTo, CopyToUser, ClearEvent,
           Interrupted, Halted, vars, hw, globals, softirq, kernel, history

\* KeyInv is inductive on top of SafeInv.
LEMMA KeyInvariant == Spec => []KeyInv
<1>1. Init => KeyCurrent /\ TimerQuiet
    BY DEF Init, KeyCurrent, TimerQuiet, NULL
<1>2. SafeInv /\ KeyCurrent /\ TimerQuiet /\ [Next]_vars => (KeyCurrent /\ TimerQuiet)'
    BY KeyStep DEF KeyInv
<1>3. SafeInv /\ KeyCurrent /\ TimerQuiet => KeyInv
    BY DEF KeyInv
<1>4. QED
    BY <1>1, <1>2, <1>3, SafeInvariant, PTL DEF Spec

\* When the timer has run for the last interrupt and the pin has not moved
\* since, key_val is that pin's code with its present level.
THEOREM KeyIsCurrent == Spec => []KeyCurrent
<1>1. KeyInv => KeyCurrent
    BY DEF KeyInv
<1>2. QED
    BY <1>1, KeyInvariant, PTL

\* The timer function starts only after Delay jiffies without an interrupt, and
\* what it publishes is settled or the timer is armed for another look.
THEOREM DebounceHolds == Spec => Debounced
<1>1. ASSUME KeyInv, Next, tfn = "idle", tfn' = "fetch"
      PROVE  quiet = Delay \/ irq_pd = NULL
    <2>1. TimerExpire
        BY <1>1
           DEF Next, TimerStep, FetchPin, FetchNull, PublishKey, InitModule, ExitModule,
               ExitWithTimer, SetPin, Irq, IrqWithTimer, Tick, OpenStep, OpenBusy,
               OpenTrylock, Acquired, OpenDown, Down, DownTaking, RequestIrq, Close,
               CloseTo, FreeIrq, Up, ReadInvalid, ReadAgain, ReadStart, ReadStep,
               WaitEvent, WaitTo, CopyToUser, ClearEvent, Interrupted, Halted, vars,
               softirq
    <2>2. QED
        BY <1>1, <2>1 DEF TimerExpire, KeyInv, SafeInv, TypeOK, TimerQuiet, Off
<1>2. ASSUME KeyInv, tfn = "getpin", timer = Off PROVE quiet = Delay
    BY <1>2 DEF KeyInv, SafeInv, Fetched, TimerQuiet
<1>3. KeyInv /\ [Next]_vars =>
        [/\ tfn = "idle" /\ tfn' = "fetch" => quiet = Delay \/ irq_pd = NULL
         /\ tfn = "getpin" /\ tfn' = "idle" => quiet = Delay \/ timer # Off]_vars
    BY <1>1, <1>2
<1>4. QED
    BY <1>3, KeyInvariant, PTL DEF Spec, Debounced

=============================================================================
