------------------------------- MODULE IrqButtons -------------------------------
(***************************************************************************)
(* The interrupt-driven button drivers third_drv.c, forth_drv.c and        *)
(* fifth_drv.c under src/Drivers.  The three share open, close, read and   *)
(* the interrupt handler; the fourth adds poll, the fifth asynchronous     *)
(* notification.  The module models the fifth with the operations of all.  *)
(*                                                                         *)
(* Unlike buttons_all nothing makes the open exclusive: any number of      *)
(* files share the lines, ev_press and the key, and nobody looks at what   *)
(* request_irq returns.  Atomicity is as in ButtonsAll: the handler is one *)
(* action, a system call one action per access to the driver's globals.    *)
(***************************************************************************)
EXTENDS Integers

CONSTANTS
    Pins,       \* the key codes of pins_desc[]: one per interrupt line
    Files,      \* the open file descriptions user programs may create
    Threads,    \* the threads that read and poll
    Signals     \* whether a signal may end a sleep

ASSUME PinsAssumption == Pins \subseteq 1..127 /\ Pins # {}
ASSUME SignalsAssumption == Signals \in BOOLEAN

None == 0       \* no pin, no file

VARIABLES
    level,      \* level[p]: what s3c2410_gpio_getpin returns for p, 0 or 1
    pending,    \* lines with a latched edge the CPU has not yet taken
    handler,    \* lines with buttons_irq registered, hence unmasked
    ev_press,   \* 1 when a key was published and not yet read
    key_val,    \* the published key code
    button_waitq,\* the threads on the wait queue
    button_async,\* the files on the fasync list; nothing signals their owners
    loaded,     \* the module is inserted
    file,       \* file[f]: where f is between open and release
    left,       \* left[f]: the lines f's open or release has still to handle
    pc,         \* pc[t]: where thread t is in read or poll
    rfile,      \* rfile[t]: the file thread t uses, or None
    timeout,    \* timeout[t]: the kind of timeout t's poll was called with
    answer      \* answer[t]: what t's last poll said when it ended

hw == <<level, pending, handler>>
opens == <<loaded, file, left>>
reads == <<pc, rfile, button_waitq>>
polls == <<timeout, answer>>
vars == <<hw, ev_press, key_val, button_async, opens, reads, polls>>

FileStates == {"closed", "requesting", "open", "freeing"}
ThreadStates == {"idle", "wait", "sleep", "copy", "clear",
                 "poll", "polltest", "pollsleep", "polllast"}
Timeouts == {"zero", "finite", "forever"}     \* 0, positive, negative
Answers == {"key", "nothing"}                 \* POLLIN or 0
InPoll(t) == pc[t] \in {"poll", "polltest", "pollsleep", "polllast"}
Asleep(t) == pc[t] \in {"sleep", "pollsleep"}

KeyCodeWide(p, v) == IF v = 1 THEN 256 + p ELSE p     \* mutant: bit 8

\* A pressed key reads 0 and sends its code; a released one has bit 7 set.
KeyCode(p, v) == IF v = 1 THEN 128 + p ELSE p

TypeOK ==
    /\ level \in [Pins -> {0, 1}]
    /\ pending \subseteq Pins
    /\ handler \subseteq Pins
    /\ ev_press \in {0, 1}
    /\ key_val \in 0..255
    /\ button_waitq \subseteq Threads
    /\ button_async \subseteq Files
    /\ loaded \in BOOLEAN
    /\ file \in [Files -> FileStates]
    /\ left \in [Files -> SUBSET Pins]
    /\ pc \in [Threads -> ThreadStates]
    /\ rfile \in [Threads -> Files \union {None}]
    /\ timeout \in [Threads -> Timeouts]
    /\ answer \in [Threads -> Answers]

Init ==
    /\ level \in [Pins -> {0, 1}]
    /\ pending = {}
    /\ handler = {}
    /\ ev_press = 0
    /\ key_val = 0
    /\ button_waitq = {}
    /\ button_async = {}
    /\ loaded = FALSE
    /\ file = [f \in Files |-> "closed"]
    /\ left = [f \in Files |-> {}]
    /\ pc = [t \in Threads |-> "idle"]
    /\ rfile = [t \in Threads |-> None]
    /\ timeout = [t \in Threads |-> "zero"]
    /\ answer = [t \in Threads |-> "nothing"]

-----------------------------------------------------------------------------
(* insmod and rmmod.                                                        *)

InitModule ==
    /\ ~loaded
    /\ loaded' = TRUE
    /\ UNCHANGED <<hw, ev_press, key_val, button_async, file, left, reads, polls>>

\* The module's owner field pins it while a file is open.  Exit frees no line:
\* it relies on the closes.  The next insmod loads a fresh image.
ExitModule ==
    /\ loaded
    /\ \A f \in Files : file[f] = "closed"
    /\ loaded' = FALSE
    /\ ev_press' = 0
    /\ key_val' = 0
    /\ button_async' = {}
    /\ UNCHANGED <<hw, file, left, reads, polls>>

-----------------------------------------------------------------------------
(* The keys and the interrupt handler.                                      *)

\* A line changes level.  The edge of an unmasked line is latched; that of a
\* masked line may or may not be, depending on what the pin is set up for.
SetPin(p) ==
    /\ level' = [level EXCEPT ![p] = 1 - @]
    /\ \/ pending' = pending \union {p}
       \/ p \notin handler \union pending /\ pending' = pending
    /\ UNCHANGED <<handler, ev_press, key_val, button_async, opens, reads, polls>>

NoWake == pc' = pc             \* mutant: nobody is woken

\* wake_up_interruptible(&button_waitq): every sleeper on the queue runs, and
\* tests ev_press again.
Wake ==
    pc' = [t \in Threads |->
             IF t \notin button_waitq \/ ~Asleep(t) THEN pc[t]
             ELSE IF pc[t] = "sleep" THEN "wait" ELSE "polltest"]

\* buttons_irq: publish the key and wake the queue.  Nothing sends SIGIO.
Irq(p) ==
    /\ p \in handler \intersect pending
    /\ pending' = pending \ {p}
    /\ key_val' = KeyCode(p, level[p])
    /\ ev_press' = 1
    /\ Wake
    /\ UNCHANGED <<level, handler, button_async, opens, rfile, button_waitq, polls>>

-----------------------------------------------------------------------------
(* open and close.                                                          *)

Open(f) ==
    /\ loaded
    /\ file[f] = "closed"
    /\ file' = [file EXCEPT ![f] = "requesting"]
    /\ left' = [left EXCEPT ![f] = Pins]
    /\ UNCHANGED <<hw, ev_press, key_val, button_async, loaded, reads, polls>>

\* request_irq for one line: a line another open has taken stays with that
\* registration (-EBUSY, which is ignored).
RequestIrq(f, p) ==
    /\ file[f] = "requesting"
    /\ p \in left[f]
    /\ handler' = handler \union {p}
    /\ left' = [left EXCEPT ![f] = @ \ {p}]
    /\ file' = [file EXCEPT ![f] = IF left[f] = {p} THEN "open" ELSE @]
    /\ UNCHANGED <<level, pending, ev_press, key_val, button_async, loaded, reads, polls>>

\* The release of a file nobody uses any more.  The fasync entry stays.
CloseFreeing(f, lines) ==
    /\ file[f] = "open"
    /\ \A t \in Threads : rfile[t] # f
    /\ file' = [file EXCEPT ![f] = "freeing"]
    /\ left' = [left EXCEPT ![f] = lines]
    /\ UNCHANGED <<hw, ev_press, key_val, button_async, loaded, reads, polls>>
\* Mutant: one free_irq call is missing.
CloseKeepsOne(f) ==
    LET kept == CHOOSE p \in Pins : TRUE
    IN  CloseFreeing(f, Pins \ {kept})
Close(f) == CloseFreeing(f, Pins)

\* free_irq for one line: pins_desc[] identifies the registration, not the
\* file, so it ends whoever made it; there may be none.
FreeIrq(f, p) ==
    /\ file[f] = "freeing"
    /\ p \in left[f]
    /\ handler' = handler \ {p}
    /\ left' = [left EXCEPT ![f] = @ \ {p}]
    /\ file' = [file EXCEPT ![f] = IF left[f] = {p} THEN "closed" ELSE @]
    /\ UNCHANGED <<level, pending, ev_press, key_val, button_async, loaded, reads, polls>>

\* fcntl(F_SETFL) with or without FASYNC: fasync_helper adds or removes f.
Fasync(f, on) ==
    /\ file[f] = "open"
    /\ button_async' = IF on THEN button_async \union {f} ELSE button_async \ {f}
    /\ UNCHANGED <<hw, ev_press, key_val, opens, reads, polls>>

-----------------------------------------------------------------------------
(* read by thread t through file f.                                         *)

\* size # 1 returns -EINVAL at once.
ReadInvalid(t, f) == file[f] = "open" /\ pc[t] = "idle" /\ UNCHANGED vars

\* Otherwise it enters wait_event_interruptible, ...
ReadStart(t, f) ==
    /\ file[f] = "open"
    /\ pc[t] = "idle"
    /\ pc' = [pc EXCEPT ![t] = "wait"]
    /\ rfile' = [rfile EXCEPT ![t] = f]
    /\ UNCHANGED <<hw, ev_press, key_val, button_async, opens, button_waitq, polls>>

\* ... which queues the caller before it tests ev_press, so the test and going
\* to sleep are one step.
WaitEvent(t) ==
    /\ pc[t] = "wait"
    /\ IF ev_press = 1
       THEN /\ pc' = [pc EXCEPT ![t] = "copy"]
            /\ button_waitq' = button_waitq \ {t}
       ELSE /\ pc' = [pc EXCEPT ![t] = "sleep"]
            /\ button_waitq' = button_waitq \union {t}
    /\ UNCHANGED <<hw, ev_press, key_val, button_async, opens, rfile, polls>>

\* A signal ends the sleep; the result -ERESTARTSYS is ignored.
Interrupted(t) ==
    /\ Signals
    /\ pc[t] = "sleep"
    /\ pc' = [pc EXCEPT ![t] = "copy"]
    /\ button_waitq' = button_waitq \ {t}
    /\ UNCHANGED <<hw, ev_press, key_val, button_async, opens, rfile, polls>>

\* copy_to_user.
CopyToUser(t) ==
    /\ pc[t] = "copy"
    /\ pc' = [pc EXCEPT ![t] = "clear"]
    /\ UNCHANGED <<hw, ev_press, key_val, button_async, opens, rfile, button_waitq, polls>>

\* ev_press = 0 and return.
ClearEvent(t) ==
    /\ pc[t] = "clear"
    /\ ev_press' = 0
    /\ pc' = [pc EXCEPT ![t] = "idle"]
    /\ rfile' = [rfile EXCEPT ![t] = None]
    /\ UNCHANGED <<hw, key_val, button_async, opens, button_waitq, polls>>

-----------------------------------------------------------------------------
(* poll(2) by thread t: the kernel's do_poll around the driver's poll.      *)

\* poll(2) is called with a timeout of kind k.
PollStart(t, f, k) ==
    /\ file[f] = "open"
    /\ pc[t] = "idle"
    /\ pc' = [pc EXCEPT ![t] = "poll"]
    /\ rfile' = [rfile EXCEPT ![t] = f]
    /\ timeout' = [timeout EXCEPT ![t] = k]
    /\ answer' = [answer EXCEPT ![t] = "nothing"]
    /\ UNCHANGED <<hw, ev_press, key_val, button_async, opens, button_waitq>>

\* poll_wait puts the caller on the queue; it stays there until poll returns.
\* A poll that does not wait has no poll table, and poll_wait does nothing.
PollWaitOn(t, q) ==
    /\ pc[t] = "poll"
    /\ IF timeout[t] = "zero"
       THEN /\ pc' = [pc EXCEPT ![t] = "polllast"]
            /\ button_waitq' = button_waitq
       ELSE /\ pc' = [pc EXCEPT ![t] = "polltest"]
            /\ button_waitq' = q
    /\ UNCHANGED <<hw, ev_press, key_val, button_async, opens, rfile, polls>>
\* Mutant: no poll_wait.
PollNoWait(t) == PollWaitOn(t, button_waitq)
PollWait(t) == PollWaitOn(t, button_waitq \union {t})

\* poll(2) returns answer a: the caller leaves the queue.
PollReturn(t, a) ==
    /\ pc' = [pc EXCEPT ![t] = "idle"]
    /\ rfile' = [rfile EXCEPT ![t] = None]
    /\ button_waitq' = button_waitq \ {t}
    /\ timeout' = [timeout EXCEPT ![t] = "zero"]
    /\ answer' = [answer EXCEPT ![t] = a]
    /\ UNCHANGED <<hw, ev_press, key_val, button_async, opens>>

AnswerNothing == "nothing"     \* mutant: mask stays 0

\* The mask the driver's poll returns.
Answer == IF ev_press = 1 THEN "key" ELSE "nothing"

\* The driver's answer.  do_poll has set the task's state before it asks, so
\* the test and going to sleep are one step.
PollTest(t) ==
    /\ pc[t] = "polltest"
    /\ IF Answer = "key"
       THEN PollReturn(t, Answer)
       ELSE /\ pc' = [pc EXCEPT ![t] = "pollsleep"]
            /\ UNCHANGED <<hw, ev_press, key_val, button_async, opens, rfile,
                           button_waitq, polls>>

PollGivesUp(t) ==
    /\ pc[t] = "pollsleep"
    /\ pc' = [pc EXCEPT ![t] = "polllast"]
    /\ UNCHANGED <<hw, ev_press, key_val, button_async, opens, rfile, button_waitq, polls>>

\* The time is over, if there is a limit, or a signal has come: do_poll asks
\* once more ...
PollTimeout(t) == timeout[t] = "finite" /\ PollGivesUp(t)
PollInterrupted(t) == Signals /\ PollGivesUp(t)

\* ... and returns whatever the answer is.
PollLast(t) == pc[t] = "polllast" /\ PollReturn(t, Answer)

-----------------------------------------------------------------------------

CallStep(t) ==
    \/ WaitEvent(t) \/ CopyToUser(t) \/ ClearEvent(t)
    \/ PollWait(t) \/ PollTest(t) \/ PollLast(t)

Next ==
    \/ InitModule
    \/ ExitModule
    \/ \E p \in Pins : SetPin(p) \/ Irq(p)
    \/ \E f \in Files : Open(f) \/ Close(f)
    \/ \E f \in Files, on \in BOOLEAN : Fasync(f, on)
    \/ \E f \in Files, p \in Pins : RequestIrq(f, p) \/ FreeIrq(f, p)
    \/ \E t \in Threads, f \in Files :
          \/ ReadInvalid(t, f)
          \/ ReadStart(t, f)
          \/ \E k \in Timeouts : PollStart(t, f, k)
    \/ \E t \in Threads :
          CallStep(t) \/ PollTimeout(t) \/ Interrupted(t) \/ PollInterrupted(t)

\* Interrupts are delivered and a runnable thread inside a system call is
\* scheduled.  Nothing is assumed of timeouts and signals: a poll may have been
\* called without a limit.  Programs owe nothing.
Fairness ==
    /\ \A p \in Pins : WF_vars(Irq(p))
    /\ \A t \in Threads : WF_vars(CallStep(t))
    /\ \A f \in Files, p \in Pins : WF_vars(RequestIrq(f, p) \/ FreeIrq(f, p))

Spec == Init /\ [][Next]_vars /\ Fairness

-----------------------------------------------------------------------------
(* Invariants.                                                              *)

\* Every registered line will be freed: some file is still to run the
\* free_irq calls of its close.  So when the last file is closed, in whatever
\* order opens and closes overlapped, and after rmmod, which frees nothing
\* itself, no interrupt can run the handler.
LinesWillBeFreed ==
    \A p \in handler : \E f \in Files :
        \/ file[f] = "requesting" /\ p \notin left[f]
        \/ file[f] = "open"
        \/ file[f] = "freeing" /\ p \in left[f]

\* No wake-up is lost: nobody sleeps in read or poll while ev_press is set.
NoLostWakeup == \A t \in Threads : Asleep(t) => ev_press = 0

-----------------------------------------------------------------------------
(* Liveness.                                                                *)

\* An edge latched while a read or a poll sleeps ends the sleep, unless a close
\* is under way: it may take the line first.
KeyWakes ==
    \A t \in Threads :
        (Asleep(t) /\ pending \intersect handler # {})
            ~> (~Asleep(t) \/ \E f \in Files : file[f] = "freeing")

\* A key published while a poll is under way is what that poll answers, at
\* whatever point of its asking, sleeping or giving up the interrupt came, and
\* with no help from a timeout; unless a read or rmmod takes the key first.
PollAnswered ==
    \A t \in Threads :
        (InPoll(t) /\ ev_press = 1) ~> (answer[t] = "key" \/ ev_press = 0)

=============================================================================
