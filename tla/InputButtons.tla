------------------------------ MODULE InputButtons ------------------------------
(***************************************************************************)
(* The button driver on the input subsystem,                               *)
(* src/Drivers/8.buttons_input/buttons_inp.c.  It has no file operations:  *)
(* init registers an input device, starts the debounce timer and takes the *)
(* interrupt lines, exit undoes that, and in between the handler and the   *)
(* timer function report keys to the input core.  Both can run in the      *)
(* middle of init and of exit, and the handler in the middle of the timer  *)
(* function, which is a softirq: no process runs until it has returned.    *)
(***************************************************************************)
EXTENDS Integers

CONSTANTS
    Pins,       \* the entries of pins_desc[], each a line and a key
    Delay,      \* HZ/100 in jiffies
    FirstExpiry \* jiffies until the timer added by init is due

ASSUME PinsAssumption == Pins \subseteq Nat \ {0} /\ Pins # {}
ASSUME DelayAssumption == Delay \in Nat \ {0}
ASSUME FirstExpiryAssumption == FirstExpiry \subseteq Nat /\ FirstExpiry # {}

NULL == 0
Off == -1       \* the timer is not pending

VARIABLES
    level,      \* level[p]: what s3c2410_gpio_getpin returns for p
    pending,    \* lines with a latched edge the CPU has not yet taken
    handler,    \* lines with buttons_irq registered
    irq_pd,     \* the pin of the last interrupt, or NULL
    timer,      \* buttons_timer: Off, or the jiffies left
    tfn,        \* what the timer function does next: nothing, the irq_pd
                \* read, or the getpin
    pindesc,    \* its local copy of irq_pd
    device,     \* what buttons_dev points to
    keys,       \* the keys whose bits the input core has set in the device
    oops,       \* the calls that used a NULL pointer or a device that is gone
    stage,      \* where init or exit is
    left,       \* the lines it has still to request or free
    \* History.
    missed,     \* lines whose last change was not latched
    quiet       \* jiffies since the last interrupt, counted up to Delay

hw == <<level, pending, handler>>
module == <<stage, left, device>>
softirq == <<tfn, pindesc>>
vars == <<hw, irq_pd, timer, softirq, keys, oops, module, missed, quiet>>

\* In "dead" insmod or rmmod was killed by its oops: the module stays as it is.
Stages == {"out", "timer", "requesting", "in", "freeing", "deleting", "unregister",
           "free", "dead"}
Devices == {"none", "allocated", "registered"}
OopsCalls == {"set_bit", "timer", "unregister", "free"}

\* insmod and rmmod do not run while the processor is in the timer softirq.
ProcessRuns == tfn = "idle"

TypeOK ==
    /\ level \in [Pins -> {0, 1}]
    /\ pending \subseteq Pins
    /\ handler \subseteq Pins
    /\ irq_pd \in Pins \union {NULL}
    /\ timer \in Nat \union {Off}
    /\ tfn \in {"idle", "fetch", "getpin"}
    /\ pindesc \in Pins \union {NULL}
    /\ device \in Devices
    /\ keys \subseteq Pins
    /\ oops \subseteq OopsCalls
    /\ stage \in Stages
    /\ left \subseteq Pins
    /\ missed \subseteq Pins
    /\ quiet \in 0 .. Delay

Init ==
    /\ level \in [Pins -> {0, 1}]
    /\ pending = {}
    /\ handler = {}
    /\ irq_pd = NULL
    /\ timer = Off
    /\ tfn = "idle"
    /\ pindesc = NULL
    /\ device = "none"
    /\ keys = {}
    /\ oops = {}
    /\ stage = "out"
    /\ left = {}
    /\ missed = {}
    /\ quiet = Delay

-----------------------------------------------------------------------------
(* buttons_init.                                                            *)

\* input_allocate_device, set_bit and input_register_device, whose failure is
\* ignored.
Register ==
    /\ ProcessRuns
    /\ stage = "out"
    /\ device' \in {"allocated", "registered"}
    /\ keys' = {}
    /\ stage' = "timer"
    /\ UNCHANGED <<hw, irq_pd, timer, softirq, oops, left, missed, quiet>>

\* No memory: set_bit writes through the NULL that was returned.
RegisterNull ==
    /\ ProcessRuns
    /\ stage = "out"
    /\ oops' = oops \union {"set_bit"}
    /\ stage' = "dead"
    /\ UNCHANGED <<hw, irq_pd, timer, softirq, device, keys, left, missed, quiet>>

\* add_timer with expires 0: due at once or when jiffies gets to 0.
AddTimer ==
    /\ ProcessRuns
    /\ stage = "timer"
    /\ timer' \in FirstExpiry
    /\ stage' = "requesting"
    /\ left' = Pins
    /\ UNCHANGED <<hw, irq_pd, softirq, device, keys, oops, missed, quiet>>

RequestIrq(p) ==
    /\ ProcessRuns
    /\ stage = "requesting"
    /\ p \in left
    /\ handler' = handler \union {p}
    /\ left' = left \ {p}
    /\ stage' = IF left = {p} THEN "in" ELSE stage
    /\ UNCHANGED <<level, pending, irq_pd, timer, softirq, device, keys, oops, missed, quiet>>

-----------------------------------------------------------------------------
(* buttons_exit.                                                            *)

ExitStart ==
    /\ ProcessRuns
    /\ stage = "in"
    /\ stage' = "freeing"
    /\ left' = Pins
    /\ UNCHANGED <<hw, irq_pd, timer, softirq, device, keys, oops, missed, quiet>>

\* free_irq for one line.  The source passes request_irq's five arguments,
\* which no compiler accepts; the line and &pins_desc[i] are meant.
FreeIrq(p) ==
    /\ ProcessRuns
    /\ stage = "freeing"
    /\ p \in left
    /\ handler' = handler \ {p}
    /\ left' = left \ {p}
    /\ stage' = IF left = {p} THEN "deleting" ELSE stage
    /\ UNCHANGED <<level, pending, irq_pd, timer, softirq, device, keys, oops, missed, quiet>>

DelTimerTo(tm) ==
    /\ ProcessRuns
    /\ stage = "deleting"
    /\ timer' = tm
    /\ stage' = "unregister"
    /\ UNCHANGED <<hw, irq_pd, softirq, left, device, keys, oops, missed, quiet>>
DelTimerNot == DelTimerTo(timer)        \* mutant: the timer is left to run out
DelTimer == DelTimerTo(Off)

\* input_unregister_device, on a device that was perhaps never registered, and
\* with it goes the driver's only reference.
Unregister ==
    /\ ProcessRuns
    /\ stage = "unregister"
    /\ oops' = IF device = "registered" THEN oops ELSE oops \union {"unregister"}
    /\ device' = "none"
    /\ keys' = {}
    /\ stage' = "free"
    /\ UNCHANGED <<hw, irq_pd, timer, softirq, left, missed, quiet>>

\* input_free_device gives back a reference again, on a device that is gone.
\* That is not noticed, or the end of rmmod.  The next insmod loads a fresh
\* image, with irq_pd NULL.
FreeDevice ==
    /\ ProcessRuns
    /\ stage = "free"
    /\ oops' = oops \union {"free"}
    /\ irq_pd' = NULL
    /\ stage' \in {"out", "dead"}
    /\ UNCHANGED <<hw, timer, softirq, left, device, keys, missed, quiet>>

-----------------------------------------------------------------------------
(* Keys, interrupts and time.                                               *)

\* A line changes level; the edge of a masked line may or may not be latched.
SetPin(p) ==
    /\ level' = [level EXCEPT ![p] = 1 - @]
    /\ \/ /\ pending' = pending \union {p}
          /\ missed' = missed \ {p}
       \/ /\ p \notin handler \union pending
          /\ pending' = pending
          /\ missed' = missed \union {p}
    /\ UNCHANGED <<handler, irq_pd, timer, softirq, keys, oops, module, quiet>>

\* buttons_irq.
IrqWithTimer(p, tm) ==
    /\ p \in handler \intersect pending
    /\ pending' = pending \ {p}
    /\ irq_pd' = p
    /\ timer' = tm
    /\ quiet' = 0
    /\ UNCHANGED <<level, handler, softirq, keys, oops, module, missed>>
IrqKeepsExpiry(p) == IrqWithTimer(p, IF timer = Off THEN Delay ELSE timer)  \* mutant
Irq(p) == IrqWithTimer(p, Delay)

Tick ==
    /\ timer > 0 \/ quiet < Delay
    /\ timer' = IF timer > 0 THEN timer - 1 ELSE timer
    /\ quiet' = IF quiet < Delay THEN quiet + 1 ELSE quiet
    /\ UNCHANGED <<hw, irq_pd, softirq, keys, oops, module, missed>>

\* What input_event makes of the pin: a pressed key reads 0.
ReportedInverted(p) == IF level[p] = 1 THEN keys \union {p} ELSE keys \ {p}  \* mutant
Reported(p) == IF level[p] = 0 THEN keys \union {p} ELSE keys \ {p}

\* Running without a device is running in a module that is gone.
TimerOops == IF device = "none" THEN oops \union {"timer"} ELSE oops

\* The timer is due and buttons_timer_function is called, with interrupts on.
TimerExpire ==
    /\ tfn = "idle"
    /\ timer = 0
    /\ timer' = Off
    /\ tfn' = "fetch"
    /\ oops' = TimerOops
    /\ UNCHANGED <<hw, irq_pd, pindesc, keys, module, missed, quiet>>

\* pindesc = irq_pd, by now perhaps the pin of a later interrupt.
FetchPin ==
    /\ tfn = "fetch"
    /\ irq_pd # NULL
    /\ pindesc' = irq_pd
    /\ tfn' = "getpin"
    /\ UNCHANGED <<hw, irq_pd, timer, keys, oops, module, missed, quiet>>

\* Before the first interrupt it returns.
FetchUnchecked ==                       \* mutant: irq_pd is not tested
    /\ tfn = "fetch"
    /\ irq_pd = NULL
    /\ tfn' = "idle"
    /\ keys' = keys \union {irq_pd}
    /\ oops' = oops \union {"timer"}
    /\ UNCHANGED <<hw, irq_pd, timer, pindesc, module, missed, quiet>>
FetchNothing ==
    /\ tfn = "fetch"
    /\ irq_pd = NULL
    /\ tfn' = "idle"
    /\ UNCHANGED <<hw, irq_pd, timer, pindesc, keys, oops, module, missed, quiet>>

\* getpin, and the key is reported; what comes between the two sees none of it.
ReportKey ==
    /\ tfn = "getpin"
    /\ keys' = Reported(pindesc)
    /\ oops' = TimerOops
    /\ tfn' = "idle"
    /\ pindesc' = NULL
    /\ UNCHANGED <<hw, irq_pd, timer, module, missed, quiet>>

TimerStep == TimerExpire \/ FetchPin \/ FetchNothing \/ ReportKey

-----------------------------------------------------------------------------

ModuleStep ==
    \/ AddTimer \/ DelTimer \/ Unregister \/ FreeDevice
    \/ \E p \in Pins : RequestIrq(p) \/ FreeIrq(p)

Next ==
    \/ Register \/ RegisterNull \/ ExitStart \/ ModuleStep
    \/ \E p \in Pins : SetPin(p) \/ Irq(p)
    \/ Tick \/ TimerStep

\* insmod and rmmod run to their end, interrupts are delivered, time passes and
\* an expired timer runs.
Fairness ==
    /\ WF_vars(ModuleStep)
    /\ \A p \in Pins : WF_vars(Irq(p))
    /\ WF_vars(Tick)
    /\ WF_vars(TimerStep)

Spec == Init /\ [][Next]_vars /\ Fairness

-----------------------------------------------------------------------------

\* The timer function uses neither a NULL irq_pd nor a device that is gone,
\* although the timer is started before the first interrupt and interrupts come
\* until the last line is freed.  (buttons_init and buttons_exit themselves do:
\* oops records set_bit without memory, and the free after every unregister.)
NoTimerOops == "timer" \notin oops

\* Every bounce restarts the delay: the timer function starts only after Delay
\* jiffies without an interrupt (or for the timer of init).  An interrupt can
\* still come while it runs; then what it reports is not settled, but never the
\* last word: the timer is armed again.
Debounced ==
    [][/\ tfn = "idle" /\ tfn' = "fetch" => quiet = Delay \/ irq_pd = NULL
       /\ tfn = "getpin" /\ tfn' = "idle" => quiet = Delay \/ timer # Off]_vars

\* Once the lines are still and the module stays, the last key whose edge
\* reached the handler ends up reported as it is: no order of edges, interrupts
\* and expiries leaves that one out.  An earlier key's edge within the delay may
\* be left out, because irq_pd has room for one pin.
EdgeReported ==
    \/ []<><<\E p \in Pins : SetPin(p)>>_vars
    \/ []<>(stage # "in")
    \/ <>[](irq_pd # NULL => (irq_pd \in keys <=> level[irq_pd] = 0))

=============================================================================
