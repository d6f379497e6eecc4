------------------------------- MODULE ButtonsAll -------------------------------
(***************************************************************************)
(* The debounced button driver src/Drivers/7.buttons_all/buttons.c: the    *)
(* module's init and exit, its file operations run by any number of        *)
(* threads, the interrupt handler buttons_irq and the timer function that  *)
(* publishes a key once its line has been quiet for HZ/100 jiffies.        *)
(*                                                                         *)
(* The machine has one processor.  The interrupt handler runs with         *)
(* interrupts off and is one action.  The timer function runs in a softirq *)
(* with interrupts on: it keeps every process from running, but the lines  *)
(* and buttons_irq can come between its accesses, so it is one action for  *)
(* each access they can disturb.  System calls can be interrupted and      *)
(* preempted between their accesses to the driver's globals, so each such  *)
(* access is one action.                                                   *)
(***************************************************************************)
EXTENDS Integers, FiniteSets

CONSTANTS
    Pins,       \* the key codes of pins_desc[]: one per interrupt line
    Files,      \* the open file descriptions user programs may create
    Threads,    \* the threads that may read
    Delay,      \* HZ/100 in jiffies
    FirstExpiry,\* jiffies until the timer added by init is due (see InitModule)
    Signals     \* whether a signal may end a sleep

ASSUME PinsAssumption == Pins \subseteq 1..127 /\ Pins # {}
ASSUME DelayAssumption == Delay \in Nat \ {0}
ASSUME FirstExpiryAssumption == FirstExpiry \subseteq Nat /\ FirstExpiry # {}
ASSUME SignalsAssumption == Signals \in BOOLEAN

NULL == 0       \* the initial value of the pointer irq_pd
Off == -1       \* the timer is not pending

VARIABLES
    \* The hardware: lines, latched edges, and the lines the kernel has a
    \* handler for.
    level,      \* level[p]: what s3c2410_gpio_getpin returns for p, 0 or 1
    pending,    \* lines with a latched edge the CPU has not yet taken
    handler,    \* lines with buttons_irq registered, hence unmasked
    \* The globals of buttons.c.
    irq_pd,     \* the pin of the last interrupt, or NULL
    timer,      \* button_timer: Off, or the jiffies left before it is due
    ev_timer,   \* 1 when a key was published and not yet read
    key_val,    \* the published key code
    button_lock,\* the count of the semaphore
    \* buttons_timer_function while it runs.
    tfn,        \* what it does next: nothing, the irq_pd read, or the getpin
    pindesc,    \* its local copy of irq_pd
    \* Processes and the kernel.
    loaded,     \* the module is inserted
    panicked,   \* the kernel dereferenced NULL
    file,       \* file[f]: where f is between open and release
    nonblock,   \* nonblock[f]: f was opened with O_NONBLOCK
    left,       \* left[f]: the lines f's open or release has still to handle
    pc,         \* pc[t]: where thread t is in buttons_read
    rfile,      \* rfile[t]: the file thread t reads, or NULL
    \* History variables: they constrain no step.
    quiet,      \* jiffies since the last interrupt, counted up to Delay
    missed,     \* lines whose last change was not latched
    unread      \* a key was published and copied to nobody

hw == <<level, pending, handler>>
globals == <<irq_pd, timer, ev_timer, key_val>>
kernel == <<loaded, panicked>>
softirq == <<tfn, pindesc>>
opens == <<button_lock, file, nonblock, left>>
reads == <<pc, rfile>>
history == <<quiet, missed, unread>>
vars == <<hw, globals, softirq, kernel, opens, reads, history>>

FileStates ==
    {"closed", "down", "requesting", "open", "freeing", "up"}
ReadStates == {"idle", "wait", "sleep", "copy", "clear"}
TimerStates == {"idle", "fetch", "getpin"}

\* A process runs only while the processor is not in the timer softirq.
ProcessRuns == ~panicked /\ tfn = "idle"

\* The files that are past down() and before up().
Owners == {f \in Files : file[f] \in {"requesting", "open", "freeing", "up"}}

\* A pressed key reads 0 and sends its code; a released one has bit 7 set.
KeyCode(p, v) == IF v = 1 THEN 128 + p ELSE p

TypeOK ==
    /\ level \in [Pins -> {0, 1}]
    /\ pending \subseteq Pins
    /\ handler \subseteq Pins
    /\ irq_pd \in Pins \union {NULL}
    /\ timer \in Nat \union {Off}
    /\ ev_timer \in {0, 1}
    /\ key_val \in 0..255
    /\ button_lock \in {0, 1}
    /\ tfn \in TimerStates
    /\ pindesc \in Pins \union {NULL}
    /\ loaded \in BOOLEAN
    /\ panicked \in BOOLEAN
    /\ file \in [Files -> FileStates]
    /\ nonblock \in [Files -> BOOLEAN]
    /\ left \in [Files -> SUBSET Pins]
    /\ pc \in [Threads -> ReadStates]
    /\ rfile \in [Threads -> Files \union {NULL}]
    /\ quiet \in 0..Delay
    /\ missed \subseteq Pins
    /\ unread \in BOOLEAN

-----------------------------------------------------------------------------
(* The initial state: the module is not loaded, its image holds the static  *)
(* initial values, no key has moved.                                        *)

Init ==
    /\ level \in [Pins -> {0, 1}]
    /\ pending = {}
    /\ handler = {}
    /\ irq_pd = NULL
    /\ timer = Off
    /\ ev_timer = 0
    /\ key_val = 0
    /\ button_lock = 1
    /\ tfn = "idle"
    /\ pindesc = NULL
    /\ loaded = FALSE
    /\ panicked = FALSE
    /\ file = [f \in Files |-> "closed"]
    /\ nonblock = [f \in Files |-> FALSE]
    /\ left = [f \in Files |-> {}]
    /\ pc = [t \in Threads |-> "idle"]
    /\ rfile = [t \in Threads |-> NULL]
    /\ quiet = Delay
    /\ missed = {}
    /\ unread = FALSE

-----------------------------------------------------------------------------
(* insmod and rmmod.                                                        *)

\* buttons_init adds the timer without setting expires, which is 0: it is due
\* at once, or, while jiffies has not yet reached 0 after boot, when it does.
InitModule ==
    /\ ProcessRuns
    /\ ~loaded
    /\ loaded' = TRUE
    /\ timer' \in FirstExpiry
    /\ UNCHANGED <<hw, irq_pd, ev_timer, key_val, softirq, panicked, opens, reads, history>>

\* buttons_exit.  button_fops.owner pins the module while a file is open or
\* being opened.  The globals get their initial values back because the next
\* insmod loads a fresh image.
ExitWithTimer(tm) ==
    /\ ProcessRuns
    /\ loaded
    /\ \A f \in Files : file[f] = "closed"
    /\ loaded' = FALSE
    /\ timer' = tm
    /\ irq_pd' = NULL
    /\ ev_timer' = 0
    /\ key_val' = 0
    /\ button_lock' = 1
    /\ unread' = FALSE
    /\ UNCHANGED <<hw, softirq, panicked, file, nonblock, left, reads, quiet, missed>>
ExitKeepsTimer == ExitWithTimer(timer)      \* mutant: no del_timer
ExitModule == ExitWithTimer(Off)

-----------------------------------------------------------------------------
(* The keys and the interrupt controller.                                   *)

\* A line changes level.  The edge of an unmasked line is latched; that of a
\* masked line may or may not be, depending on what the pin is set up for.
SetPin(p) ==
    /\ ~panicked
    /\ level' = [level EXCEPT ![p] = 1 - @]
    /\ \/ /\ pending' = pending \union {p}
          /\ missed' = missed \ {p}
       \/ /\ p \notin handler \union pending
          /\ pending' = pending
          /\ missed' = missed \union {p}
    /\ UNCHANGED <<handler, globals, softirq, kernel, opens, reads, quiet, unread>>

\* buttons_irq: remember the pin and restart the debounce delay.
IrqWithTimer(p, tm) ==
    /\ ~panicked
    /\ p \in handler \intersect pending
    /\ pending' = pending \ {p}
    /\ irq_pd' = p
    /\ timer' = tm
    /\ quiet' = 0
    /\ UNCHANGED <<level, handler, ev_timer, key_val, softirq, kernel, opens, reads, missed, unread>>
\* Mutants: a pending timer is left alone; no restart while a key is unread.
IrqKeepsExpiry(p) == IrqWithTimer(p, IF timer = Off THEN Delay ELSE timer)
IrqSkipsUnread(p) == IrqWithTimer(p, IF ev_timer = 1 THEN timer ELSE Delay)
Irq(p) == IrqWithTimer(p, Delay)

\* A jiffy passes.
Tick ==
    /\ ~panicked
    /\ timer > 0 \/ quiet < Delay
    /\ timer' = IF timer > 0 THEN timer - 1 ELSE timer
    /\ quiet' = IF quiet < Delay THEN quiet + 1 ELSE quiet
    /\ UNCHANGED <<hw, irq_pd, ev_timer, key_val, softirq, kernel, opens, reads, missed, unread>>

\* Mutant: nobody is woken.
NoWake == pc' = pc

\* wake_up_interruptible(&button_waitq): every sleeper tests ev_timer again.
Wake == pc' = [t \in Threads |-> IF pc[t] = "sleep" THEN "wait" ELSE pc[t]]

\* The timer is due: the kernel takes it off its list and calls
\* buttons_timer_function with interrupts on.
TimerExpire ==
    /\ ProcessRuns
    /\ timer = 0
    /\ timer' = Off
    /\ tfn' = "fetch"
    /\ UNCHANGED <<hw, irq_pd, ev_timer, key_val, pindesc, kernel, opens, reads, history>>

\* pindesc = irq_pd, by now perhaps the pin of a later interrupt.
FetchPin ==
    /\ ~panicked
    /\ tfn = "fetch"
    /\ irq_pd # NULL
    /\ pindesc' = irq_pd
    /\ tfn' = "getpin"
    /\ UNCHANGED <<hw, globals, kernel, opens, reads, history>>

\* The same with irq_pd still NULL: pindesc->pin is read through it.
FetchNull ==
    /\ ~panicked
    /\ tfn = "fetch"
    /\ irq_pd = NULL
    /\ panicked' = TRUE
    /\ UNCHANGED <<hw, globals, softirq, loaded, opens, reads, history>>

\* getpin, and the key is published.  The lines may move and buttons_irq may
\* run between the two, but neither sees key_val or ev_timer and no process
\* runs before the function has returned: that is as if they came after.
PublishKey ==
    /\ ~panicked
    /\ tfn = "getpin"
    /\ key_val' = KeyCode(pindesc, level[pindesc])
    /\ ev_timer' = 1
    /\ Wake
    /\ tfn' = "idle"
    /\ pindesc' = NULL
    /\ unread' = TRUE
    /\ UNCHANGED <<hw, irq_pd, timer, kernel, opens, rfile, quiet, missed>>

TimerStep == TimerExpire \/ FetchPin \/ FetchNull \/ PublishKey

-----------------------------------------------------------------------------
(* buttons_open.                                                            *)

\* What open has left to do once it is past the semaphore.
Acquired(f) ==
    /\ file' = [file EXCEPT ![f] = "requesting"]
    /\ left' = [left EXCEPT ![f] = Pins]

\* O_NONBLOCK: down_trylock fails and the file is not opened.
Busy(f) == ProcessRuns /\ loaded /\ file[f] = "closed" /\ button_lock = 0
OpenBusyGoesOn(f) ==            \* mutant: the failure is not returned
    /\ Busy(f)
    /\ Acquired(f)
    /\ UNCHANGED <<hw, globals, softirq, kernel, button_lock, nonblock, reads, history>>
OpenBusy(f) == Busy(f) /\ UNCHANGED vars

\* O_NONBLOCK: down_trylock takes the semaphore.
OpenTrylock(f) ==
    /\ ProcessRuns
    /\ loaded
    /\ file[f] = "closed"
    /\ button_lock = 1
    /\ button_lock' = 0
    /\ nonblock' = [nonblock EXCEPT ![f] = TRUE]
    /\ Acquired(f)
    /\ UNCHANGED <<hw, globals, softirq, kernel, reads, history>>

\* Otherwise the caller enters down(), ...
OpenDown(f) ==
    /\ ProcessRuns
    /\ loaded
    /\ file[f] = "closed"
    /\ file' = [file EXCEPT ![f] = "down"]
    /\ nonblock' = [nonblock EXCEPT ![f] = FALSE]
    /\ UNCHANGED <<hw, globals, softirq, kernel, button_lock, left, reads, history>>

\* ... which returns once it has taken the semaphore.
DownTaking(f, n) ==
    /\ ProcessRuns
    /\ file[f] = "down"
    /\ button_lock >= n
    /\ button_lock' = button_lock - n
    /\ Acquired(f)
    /\ UNCHANGED <<hw, globals, softirq, kernel, nonblock, reads, history>>
DownInterrupted(f) == DownTaking(f, 0)      \* mutant: a signal ends the wait
Down(f) == DownTaking(f, 1)

\* request_irq for one line; -EBUSY, were the line taken, goes unnoticed.  The
\* last one ends the open.
RequestIrq(f, p) ==
    /\ ProcessRuns
    /\ file[f] = "requesting"
    /\ p \in left[f]
    /\ handler' = handler \union {p}
    /\ left' = [left EXCEPT ![f] = @ \ {p}]
    /\ file' = [file EXCEPT ![f] = IF left[f] = {p} THEN "open" ELSE @]
    /\ UNCHANGED <<level, pending, globals, softirq, kernel, button_lock, nonblock, reads, history>>

-----------------------------------------------------------------------------
(* buttons_release, called when nobody uses the file any more.              *)

CloseTo(f, state) ==
    /\ ProcessRuns
    /\ file[f] = "open"
    /\ \A t \in Threads : rfile[t] # f
    /\ file' = [file EXCEPT ![f] = state]
    /\ left' = [left EXCEPT ![f] = Pins]
    /\ UNCHANGED <<hw, globals, softirq, kernel, button_lock, nonblock, reads, history>>
CloseKeepsLines(f) == CloseTo(f, "up")      \* mutant: no free_irq
Close(f) == CloseTo(f, "freeing")

\* free_irq for one line.  The source passes pins_desc[i] itself where the
\* kernel wants its address, which no compiler accepts; the address is meant.
FreeIrq(f, p) ==
    /\ ProcessRuns
    /\ file[f] = "freeing"
    /\ p \in left[f]
    /\ handler' = handler \ {p}
    /\ left' = [left EXCEPT ![f] = @ \ {p}]
    /\ file' = [file EXCEPT ![f] = IF left[f] = {p} THEN "up" ELSE @]
    /\ UNCHANGED <<level, pending, globals, softirq, kernel, button_lock, nonblock, reads, history>>

Up(f) ==
    /\ ProcessRuns
    /\ file[f] = "up"
    /\ button_lock' = button_lock + 1
    /\ file' = [file EXCEPT ![f] = "closed"]
    /\ UNCHANGED <<hw, globals, softirq, kernel, nonblock, left, reads, history>>

-----------------------------------------------------------------------------
(* buttons_read by thread t through file f.                                 *)

\* The calls that return at once: size # 1 (-EINVAL) ...
ReadInvalid(t, f) ==
    /\ ProcessRuns
    /\ file[f] = "open"
    /\ pc[t] = "idle"
    /\ UNCHANGED vars

\* ... and a nonblocking read that finds no event (-EAGAIN).
ReadAgain(t, f) ==
    /\ ProcessRuns
    /\ file[f] = "open"
    /\ nonblock[f]
    /\ pc[t] = "idle"
    /\ ev_timer = 0
    /\ UNCHANGED vars

\* A nonblocking read that finds one goes on to copy it; a blocking one
\* enters wait_event_interruptible.
ReadStart(t, f) ==
    /\ ProcessRuns
    /\ file[f] = "open"
    /\ pc[t] = "idle"
    /\ nonblock[f] => ev_timer = 1
    /\ pc' = [pc EXCEPT ![t] = IF nonblock[f] THEN "copy" ELSE "wait"]
    /\ rfile' = [rfile EXCEPT ![t] = f]
    /\ UNCHANGED <<hw, globals, softirq, kernel, opens, history>>

\* wait_event_interruptible puts the caller on button_waitq and then tests
\* ev_timer, so the test and going to sleep are one step.
WaitTo(t, next) ==
    /\ ProcessRuns
    /\ pc[t] = "wait"
    /\ pc' = [pc EXCEPT ![t] = next]
    /\ UNCHANGED <<hw, globals, softirq, kernel, opens, rfile, history>>
WaitUntested(t) == WaitTo(t, "sleep")   \* mutant: tested before it was queued
WaitEvent(t) == WaitTo(t, IF ev_timer = 1 THEN "copy" ELSE "sleep")

\* A signal ends the sleep; the result -ERESTARTSYS is ignored.
Interrupted(t) ==
    /\ ProcessRuns
    /\ Signals
    /\ pc[t] = "sleep"
    /\ pc' = [pc EXCEPT ![t] = "copy"]
    /\ UNCHANGED <<hw, globals, softirq, kernel, opens, rfile, history>>

\* copy_to_user.
CopyToUser(t) ==
    /\ ProcessRuns
    /\ pc[t] = "copy"
    /\ pc' = [pc EXCEPT ![t] = "clear"]
    /\ unread' = FALSE
    /\ UNCHANGED <<hw, globals, softirq, kernel, opens, rfile, quiet, missed>>

\* ev_timer = 0 and return.
ClearEvent(t) ==
    /\ ProcessRuns
    /\ pc[t] = "clear"
    /\ ev_timer' = 0
    /\ pc' = [pc EXCEPT ![t] = "idle"]
    /\ rfile' = [rfile EXCEPT ![t] = NULL]
    /\ UNCHANGED <<hw, irq_pd, timer, key_val, softirq, kernel, opens, history>>

\* After an oops in the timer interrupt the kernel has panicked.
Halted == panicked /\ UNCHANGED vars

-----------------------------------------------------------------------------

OpenStep(f) == OpenBusy(f) \/ OpenTrylock(f) \/ OpenDown(f) \/ Down(f)
ReadStep(t) == WaitEvent(t) \/ CopyToUser(t) \/ ClearEvent(t)

Next ==
    \/ InitModule
    \/ ExitModule
    \/ \E p \in Pins : SetPin(p) \/ Irq(p)
    \/ Tick
    \/ TimerStep
    \/ \E f \in Files : OpenStep(f) \/ Close(f) \/ Up(f)
    \/ \E f \in Files, p \in Pins : RequestIrq(f, p) \/ FreeIrq(f, p)
    \/ \E t \in Threads, f \in Files :
          ReadInvalid(t, f) \/ ReadAgain(t, f) \/ ReadStart(t, f)
    \/ \E t \in Threads : ReadStep(t) \/ Interrupted(t)
    \/ Halted

\* Interrupts are delivered, time passes, expired timers run and a runnable
\* thread inside a system call is scheduled.  Programs owe nothing.
Fairness ==
    /\ \A p \in Pins : WF_vars(Irq(p))
    /\ WF_vars(Tick)
    /\ WF_vars(TimerStep)
    /\ \A t \in Threads : WF_vars(ReadStep(t))
    /\ \A f \in Files, p \in Pins : WF_vars(RequestIrq(f, p) \/ FreeIrq(f, p))
    /\ \A f \in Files : WF_vars(Up(f)) /\ WF_vars(Down(f))

Spec == Init /\ [][Next]_vars /\ Fairness

-----------------------------------------------------------------------------
(* Invariants.                                                              *)

\* The semaphore's count and its owners agree: it is 1 and no file is between
\* down() and up(), or it is 0 and exactly one file is.
LockConserved ==
    \/ button_lock = 1 /\ Owners = {}
    \/ button_lock = 0 /\ \E f \in Files : Owners = {f}

\* The interrupt lines belong to the owner of the semaphore: request_irq never
\* meets a line that is taken, free_irq never one that is free, an open file
\* has all its lines and without an owner no handler is registered.
LinesOwned ==
    /\ \A f \in Files :
          /\ file[f] = "requesting" => handler = Pins \ left[f]
          /\ file[f] = "open" => handler = Pins
          /\ file[f] = "freeing" => handler = left[f]
          /\ file[f] = "up" => handler = {}
    /\ Owners = {} => handler = {}

\* buttons_open is exclusive, and whoever has the device has all its lines.
ExclusiveOpen == LockConserved /\ LinesOwned

\* buttons_exit leaves nothing behind that would run code of the module: no
\* handler, no pending timer, nobody inside an operation.
Quiesced ==
    ~loaded =>
        /\ handler = {}
        /\ timer = Off
        /\ tfn = "idle"
        /\ \A f \in Files : file[f] = "closed"
        /\ \A t \in Threads : pc[t] = "idle"

\* No wake-up is lost: nobody sleeps on button_waitq while ev_timer is set.
NoLostWakeup == \A t \in Threads : pc[t] = "sleep" => ev_timer = 0

\* The published key is the present one: when the timer function has run for
\* the last interrupt and that pin has not moved since, key_val is its code
\* and level, whatever interrupts came while the function ran.
KeyCurrent ==
    (/\ irq_pd # NULL
     /\ timer = Off /\ tfn = "idle"
     /\ irq_pd \notin pending \union missed)
        => key_val = KeyCode(irq_pd, level[irq_pd])

\* A published key stays readable until it was copied to some reader: a
\* nonblocking read returns at once only "if no key event has occurred", a
\* blocking one waits for one (buttons.c:69).
EventKept == unread => ev_timer = 1

-----------------------------------------------------------------------------
(* Action properties.                                                       *)

\* Every bounce restarts the delay: the timer function starts only after Delay
\* jiffies without an interrupt (or for the timer of init).  An interrupt can
\* still come while the function runs, and then it publishes a level that is
\* not settled; but never as the last word: the timer is armed again.
Debounced ==
    [][/\ tfn = "idle" /\ tfn' = "fetch" => quiet = Delay \/ irq_pd = NULL
       /\ tfn = "getpin" /\ tfn' = "idle" => quiet = Delay \/ timer # Off]_vars

-----------------------------------------------------------------------------
(* Liveness.                                                                *)

\* A key pressed while a reader sleeps wakes it, unless the lines never stop
\* changing (each edge restarts the delay) or the kernel has panicked.
KeyWakesReader ==
    \/ []<><<\E p \in Pins : SetPin(p)>>_vars
    \/ \A t \in Threads :
          (pc[t] = "sleep" /\ pending # {}) ~> (panicked \/ pc[t] # "sleep")

=============================================================================
