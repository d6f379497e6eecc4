---------------------------- MODULE IrqButtonsProofs ----------------------------
(***************************************************************************)
(* Proofs about IrqButtons for any pins, files and threads, and with or    *)
(* without signals.                                                        *)
(***************************************************************************)
EXTENDS IrqButtons, TLAPS

\* The handler's wake-up reaches every sleeper: it is on the queue.  A poller
\* joins the queue before its first test and leaves it when poll returns.
SleepersQueued ==
    \A t \in Threads : Asleep(t) \/ pc[t] = "polltest" => t \in button_waitq

\* A thread on the queue is inside the call that put it there.  The entry lives
\* on that call's stack or in its poll table, so one that stayed would be read
\* by the next wake-up after its memory is gone.
OnlyWaitersQueued ==
    \A t \in Threads :
        t \in button_waitq => Asleep(t) \/ pc[t] \in {"wait", "polltest", "polllast"}

\* rmmod waits for the last close.
GoneIsClosed == ~loaded => \A f \in Files : file[f] = "closed"

-----------------------------------------------------------------------------
(* Types.                                                                   *)

\* A key code fits its byte, with bit 7 set or not.
LEMMA KeyCodeType ==
    ASSUME NEW p \in Pins, NEW v \in {0, 1}
    PROVE  KeyCode(p, v) \in 0..255
<1>1. p \in 1..127 BY PinsAssumption
<1>. QED  BY <1>1 DEF KeyCode

\* Before insmod.
LEMMA InitType == Init => TypeOK
<1>. SUFFICES ASSUME Init PROVE TypeOK
  OBVIOUS
<1>1. loaded \in BOOLEAN BY Zenon DEF Init
<1>. QED  BY <1>1 DEF Init, TypeOK, FileStates, ThreadStates, Timeouts, Answers, None

\* Interrupts, and the levels they follow.
LEMMA PinType ==
    ASSUME TypeOK, NEW p \in Pins, SetPin(p) \/ Irq(p)
    PROVE  TypeOK'
<1>1. CASE SetPin(p)
  BY <1>1 DEF SetPin, TypeOK, opens, reads, polls
<1>2. CASE Irq(p)
  <2>1. key_val' \in 0..255 BY <1>2, KeyCodeType DEF Irq, TypeOK
  <2>2. pc' \in [Threads -> ThreadStates] BY <1>2 DEF Irq, Wake, TypeOK, ThreadStates
  <2>. QED  BY <1>2, <2>1, <2>2 DEF Irq, TypeOK, opens, polls
<1>. QED  BY <1>1, <1>2

\* insmod, rmmod, open, close and fasync keep the types.
LEMMA FileType ==
    ASSUME TypeOK,
           \/ InitModule \/ ExitModule
           \/ \E f \in Files : Open(f) \/ Close(f)
           \/ \E f \in Files, on \in BOOLEAN : Fasync(f, on)
           \/ \E f \in Files, p \in Pins : RequestIrq(f, p) \/ FreeIrq(f, p)
    PROVE  TypeOK'
<1>1. CASE InitModule \/ ExitModule
  <2>1. loaded' \in BOOLEAN BY <1>1, Zenon DEF InitModule, ExitModule
  <2>. QED  BY <1>1, <2>1 DEF InitModule, ExitModule, TypeOK, hw, reads, polls
<1>2. CASE \E f \in Files : Open(f) \/ Close(f)
  BY <1>2 DEF Open, Close, CloseFreeing, TypeOK, FileStates, hw, reads, polls
<1>3. CASE \E f \in Files, on \in BOOLEAN : Fasync(f, on)
  BY <1>3 DEF Fasync, TypeOK, hw, opens, reads, polls
<1>4. CASE \E f \in Files, p \in Pins : RequestIrq(f, p) \/ FreeIrq(f, p)
  BY <1>4 DEF RequestIrq, FreeIrq, TypeOK, FileStates, reads, polls
<1>. QED  BY <1>1, <1>2, <1>3, <1>4

\* read and poll keep the types.
LEMMA ThreadType ==
    ASSUME TypeOK, NEW t \in Threads,
           \/ \E f \in Files : ReadInvalid(t, f) \/ ReadStart(t, f) \/ \E k \in Timeouts : PollStart(t, f, k)
           \/ CallStep(t) \/ PollTimeout(t) \/ Interrupted(t) \/ PollInterrupted(t)
    PROVE  TypeOK'
<1>1. CASE \E f \in Files : ReadInvalid(t, f)
  BY <1>1 DEF ReadInvalid, TypeOK, vars, hw, opens, reads, polls
<1>2. CASE \E f \in Files : ReadStart(t, f) \/ \E k \in Timeouts : PollStart(t, f, k)
  BY <1>2 DEF ReadStart, PollStart, TypeOK, ThreadStates, Timeouts, Answers, hw, opens, polls
<1>3. CASE WaitEvent(t) \/ Interrupted(t) \/ CopyToUser(t) \/ ClearEvent(t)
  BY <1>3 DEF WaitEvent, Interrupted, CopyToUser, ClearEvent, TypeOK, ThreadStates, Timeouts, Answers, hw, opens, polls
<1>4. CASE PollWait(t) \/ PollTest(t) \/ PollLast(t) \/ PollTimeout(t) \/ PollInterrupted(t)
  BY <1>4 DEF PollWait, PollWaitOn, PollTest, PollLast, PollTimeout, PollInterrupted,
              PollGivesUp, PollReturn, Answer, TypeOK, ThreadStates, Timeouts, Answers, hw, opens, polls
<1>. QED  BY <1>1, <1>2, <1>3, <1>4 DEF CallStep

\* So does every step.
LEMMA NextType == TypeOK /\ [Next]_vars => TypeOK'
<1>. SUFFICES ASSUME TypeOK, [Next]_vars PROVE TypeOK'
  OBVIOUS
<1>1. CASE UNCHANGED vars
  BY <1>1 DEF TypeOK, vars, hw, opens, reads, polls
<1>2. CASE Next
  BY <1>2, PinType, FileType, ThreadType DEF Next
<1>. QED  BY <1>1, <1>2

\* Every variable keeps its type: in particular the key code stays a byte,
\* with bit 7 for a release (third_drv.c, buttons_irq).
THEOREM TypeCorrect == Spec => []TypeOK
  BY InitType, NextType, PTL DEF Spec

-----------------------------------------------------------------------------
(* Sleepers.                                                                *)

WakeInv == SleepersQueued /\ NoLostWakeup /\ OnlyWaitersQueued

\* The handler sets ev_press, and leaves nobody asleep.
LEMMA IrqWakes ==
    ASSUME TypeOK, WakeInv, NEW p \in Pins, Irq(p)
    PROVE  WakeInv'
<1>. SUFFICES ASSUME NEW t \in Threads
              PROVE  /\ ~Asleep(t)'
                     /\ pc'[t] = "polltest" => t \in button_waitq'
                     /\ t \in button_waitq' => pc'[t] \in {"wait", "polltest", "polllast"}
  BY DEF WakeInv, SleepersQueued, NoLostWakeup, OnlyWaitersQueued
<1>1. pc'[t] = IF t \notin button_waitq \/ ~Asleep(t) THEN pc[t]
               ELSE IF pc[t] = "sleep" THEN "wait" ELSE "polltest"
  BY DEF Irq, Wake
<1>2. button_waitq' = button_waitq BY DEF Irq
<1>. QED  BY <1>1, <1>2 DEF WakeInv, SleepersQueued, OnlyWaitersQueued, Asleep

\* A call of thread t touches no other thread, and goes to sleep only on the
\* queue and with ev_press 0.
LEMMA CallsSleepSafely ==
    ASSUME TypeOK, WakeInv, NEW t \in Threads,
           \/ \E f \in Files : ReadStart(t, f) \/ \E k \in Timeouts : PollStart(t, f, k)
           \/ CallStep(t) \/ PollTimeout(t) \/ Interrupted(t) \/ PollInterrupted(t)
    PROVE  WakeInv'
<1>1. ASSUME NEW u \in Threads, u # t
      PROVE  pc'[u] = pc[u] /\ (u \in button_waitq' <=> u \in button_waitq)
  <2>1. CASE \E f \in Files : ReadStart(t, f) \/ \E k \in Timeouts : PollStart(t, f, k)
    BY <1>1, <2>1 DEF ReadStart, PollStart, TypeOK
  <2>2. CASE WaitEvent(t) \/ Interrupted(t) \/ CopyToUser(t) \/ ClearEvent(t)
    BY <1>1, <2>2 DEF WaitEvent, Interrupted, CopyToUser, ClearEvent, TypeOK
  <2>3. CASE PollWait(t) \/ PollTest(t) \/ PollLast(t) \/ PollTimeout(t) \/ PollInterrupted(t)
    BY <1>1, <2>3 DEF PollWait, PollWaitOn, PollTest, PollLast, PollTimeout,
                      PollInterrupted, PollGivesUp, PollReturn, TypeOK
  <2>. QED  BY <2>1, <2>2, <2>3 DEF CallStep
<1>2. ev_press = 0 => ev_press' = 0
  BY DEF ReadStart, PollStart, CallStep, PollTimeout, Interrupted, PollInterrupted,
         WaitEvent, CopyToUser, ClearEvent, PollWait, PollWaitOn, PollTest, PollLast,
         PollGivesUp, PollReturn
<1>3. /\ Asleep(t)' => t \in button_waitq' /\ ev_press' = 0
      /\ pc'[t] = "polltest" => t \in button_waitq'
      /\ t \in button_waitq' => Asleep(t)' \/ pc'[t] \in {"wait", "polltest", "polllast"}
  <2>1. CASE \E f \in Files : ReadStart(t, f) \/ \E k \in Timeouts : PollStart(t, f, k)
    BY <2>1 DEF ReadStart, PollStart, TypeOK, Asleep, WakeInv, OnlyWaitersQueued
  <2>2. CASE WaitEvent(t) \/ Interrupted(t) \/ CopyToUser(t) \/ ClearEvent(t)
    BY <2>2 DEF WaitEvent, Interrupted, CopyToUser, ClearEvent, TypeOK, Asleep,
                WakeInv, OnlyWaitersQueued
  <2>3. CASE PollTest(t)
    BY <2>3 DEF PollTest, PollReturn, Answer, TypeOK, Asleep, WakeInv, SleepersQueued
  <2>4. CASE PollWait(t) \/ PollLast(t) \/ PollTimeout(t) \/ PollInterrupted(t)
    BY <2>4 DEF PollWait, PollWaitOn, PollLast, PollTimeout, PollInterrupted,
                PollGivesUp, PollReturn, TypeOK, Asleep, WakeInv, OnlyWaitersQueued
  <2>. QED  BY <2>1, <2>2, <2>3, <2>4 DEF CallStep
<1>. QED  BY <1>1, <1>2, <1>3 DEF WakeInv, SleepersQueued, NoLostWakeup, OnlyWaitersQueued, Asleep

\* Every step keeps sleepers on the queue and ev_press 0 while they sleep.
LEMMA NextWake == TypeOK /\ WakeInv /\ [Next]_vars => WakeInv'
<1>. SUFFICES ASSUME TypeOK, WakeInv, [Next]_vars PROVE WakeInv'
  OBVIOUS
<1>1. ASSUME UNCHANGED reads, ev_press' = ev_press \/ ev_press' = 0
      PROVE  WakeInv'
  BY <1>1 DEF reads, WakeInv, SleepersQueued, NoLostWakeup, OnlyWaitersQueued, Asleep
<1>2. CASE InitModule \/ ExitModule
  BY <1>1, <1>2 DEF InitModule, ExitModule
<1>3. CASE \E p \in Pins : SetPin(p)
  BY <1>1, <1>3 DEF SetPin
<1>4. CASE \E f \in Files : Open(f) \/ Close(f) \/ \E on \in BOOLEAN : Fasync(f, on)
  BY <1>1, <1>4 DEF Open, Close, CloseFreeing, Fasync
<1>5. CASE \E f \in Files, p \in Pins : RequestIrq(f, p) \/ FreeIrq(f, p)
  BY <1>1, <1>5 DEF RequestIrq, FreeIrq
<1>6. CASE UNCHANGED vars \/ \E t \in Threads, f \in Files : ReadInvalid(t, f)
  BY <1>1, <1>6 DEF ReadInvalid, vars
<1>. QED  BY <1>2, <1>3, <1>4, <1>5, <1>6, IrqWakes, CallsSleepSafely DEF Next

\* The queue and its sleepers, in every reachable state.
LEMMA WakeInductive == Spec => []WakeInv
<1>1. Init => WakeInv
  BY DEF Init, WakeInv, SleepersQueued, NoLostWakeup, OnlyWaitersQueued, Asleep
<1>. QED  BY <1>1, NextWake, TypeCorrect, PTL DEF Spec

\* No wake-up is lost: whoever sleeps in third_drv_read or in poll sleeps with
\* ev_press 0, whatever other readers, signals, timeouts and interrupts do.
THEOREM WakeUpsKept == Spec => []NoLostWakeup
<1>1. WakeInv => NoLostWakeup BY DEF WakeInv
<1>. QED  BY <1>1, WakeInductive, PTL

\* However a read or a poll ends (with a key, at its time or by a signal), it
\* has left button_waitq: no wake-up follows an entry whose call is over.
THEOREM QueueLeft == Spec => []OnlyWaitersQueued
<1>1. WakeInv => OnlyWaitersQueued BY DEF WakeInv
<1>. QED  BY <1>1, WakeInductive, PTL

-----------------------------------------------------------------------------
(* Interrupt lines.                                                         *)

LineInv == LinesWillBeFreed /\ GoneIsClosed

\* The file that will free line q.
Frees(f, q) ==
    \/ file[f] = "requesting" /\ q \notin left[f]
    \/ file[f] = "open"
    \/ file[f] = "freeing" /\ q \in left[f]

\* Open and release of one file, line by line, beside any number of others.
LEMMA FileLines ==
    ASSUME TypeOK, LineInv, NEW f \in Files,
           \/ Open(f) \/ Close(f)
           \/ \E p \in Pins : RequestIrq(f, p) \/ FreeIrq(f, p)
    PROVE  LineInv'
<1>1. GoneIsClosed'
  BY DEF LineInv, GoneIsClosed, TypeOK, Open, Close, CloseFreeing, RequestIrq, FreeIrq
<1>2. ASSUME NEW q \in handler' PROVE \E g \in Files : Frees(g, q)'
  <2>1. CASE Open(f)
    BY <1>2, <2>1 DEF Open, LineInv, LinesWillBeFreed, Frees, TypeOK, hw
  <2>2. CASE Close(f)
    BY <1>2, <2>2 DEF Close, CloseFreeing, LineInv, LinesWillBeFreed, Frees, TypeOK, hw
  <2>3. ASSUME NEW p \in Pins, RequestIrq(f, p) PROVE \E g \in Files : Frees(g, q)'
    <3>1. CASE q = p BY <2>3, <3>1 DEF RequestIrq, Frees, TypeOK
    <3>2. CASE q # p
      BY <1>2, <2>3, <3>2 DEF RequestIrq, LineInv, LinesWillBeFreed, Frees, TypeOK
    <3>. QED  BY <3>1, <3>2
  <2>4. ASSUME NEW p \in Pins, FreeIrq(f, p) PROVE \E g \in Files : Frees(g, q)'
    BY <1>2, <2>4 DEF FreeIrq, LineInv, LinesWillBeFreed, Frees, TypeOK
  <2>. QED  BY <2>1, <2>2, <2>3, <2>4
<1>. QED  BY <1>1, <1>2 DEF LineInv, LinesWillBeFreed, Frees

\* Every step keeps the lines, and the files that will free them.
LEMMA NextLines == TypeOK /\ LineInv /\ [Next]_vars => LineInv'
<1>. SUFFICES ASSUME TypeOK, LineInv, [Next]_vars PROVE LineInv'
  OBVIOUS
<1>1. ASSUME UNCHANGED <<handler, file, left>>,
             ~loaded' => ~loaded \/ \A f \in Files : file[f] = "closed"
      PROVE  LineInv'
  BY <1>1 DEF LineInv, LinesWillBeFreed, GoneIsClosed
<1>2. CASE InitModule \/ ExitModule
  BY <1>1, <1>2 DEF InitModule, ExitModule, hw
<1>3. CASE \E p \in Pins : SetPin(p) \/ Irq(p)
  BY <1>1, <1>3 DEF SetPin, Irq, opens
<1>4. CASE \E f \in Files, on \in BOOLEAN : Fasync(f, on)
  BY <1>1, <1>4 DEF Fasync, hw, opens
<1>5. CASE \E t \in Threads, f \in Files : ReadInvalid(t, f) \/ ReadStart(t, f) \/ \E k \in Timeouts : PollStart(t, f, k)
  BY <1>1, <1>5 DEF ReadInvalid, ReadStart, PollStart, vars, hw, opens
<1>6. CASE \E t \in Threads :
              CallStep(t) \/ PollTimeout(t) \/ Interrupted(t) \/ PollInterrupted(t)
  BY <1>1, <1>6 DEF CallStep, PollTimeout, Interrupted, PollInterrupted, WaitEvent,
         CopyToUser, ClearEvent, PollWait, PollWaitOn, PollTest, PollLast,
         PollGivesUp, PollReturn, hw, opens
<1>7. CASE UNCHANGED vars
  BY <1>1, <1>7 DEF vars, hw, opens
<1>. QED  BY <1>2, <1>3, <1>4, <1>5, <1>6, <1>7, FileLines DEF Next

\* The lines: each has a file that will free it, and rmmod waits for the last
\* close.
THEOREM LinesInductive == Spec => []LineInv
<1>1. Init => LineInv BY DEF Init, LineInv, LinesWillBeFreed, GoneIsClosed
<1>. QED  BY <1>1, NextLines, TypeCorrect, PTL DEF Spec

\* Whatever opens and closes overlap, every registered line has a file that is
\* still to free it: the registrations are shared and the return values of
\* request_irq in third_drv_open are ignored, and no line outlives its users.
THEOREM LinesAreFreed == Spec => []LinesWillBeFreed
<1>1. LineInv => LinesWillBeFreed BY DEF LineInv
<1>. QED  BY <1>1, LinesInductive, PTL

\* After rmmod no interrupt runs the handler, although third_drv_exit frees no
\* line itself.
THEOREM NoHandlerAfterExit == Spec => [](~loaded => handler = {})
<1>1. LineInv => (~loaded => handler = {})
  BY DEF LineInv, LinesWillBeFreed, GoneIsClosed
<1>. QED  BY <1>1, LinesInductive, PTL

=============================================================================
