--------------------------------- MODULE S3cTs ---------------------------------
(***************************************************************************)
(* The touch screen driver src/Drivers/11.ts/s3c_ts.c: the pen interrupt,  *)
(* the conversion interrupt and the timer that looks at the pen again      *)
(* every HZ/100 jiffies while it is down, all of them driving the mode of  *)
(* the touch screen controller.                                            *)
(*                                                                         *)
(* IRQ_TC and IRQ_ADC are demultiplexed from one line of the interrupt     *)
(* controller, one after the other, so their handlers are atomic.  The     *)
(* timer function runs with interrupts enabled and is split where they can *)
(* come in.  Module init and exit run only when the timer function does    *)
(* not: there is one processor.  Times are left out: a pending timer and a *)
(* conversion end in any order.                                            *)
(***************************************************************************)
EXTENDS TsFilter

VARIABLES
    pen,        \* the stylus: "up" or "down", bit 15 of ADCDAT0
    mode,       \* ADCTSC: "off", "wait_down", "wait_up" or "measure"
    tc,         \* IRQ_TC is latched
    busy,       \* a conversion is running
    adc,        \* IRQ_ADC is latched
    module,     \* "out", "irqs", "init", "in", "exit1", "exit2", or "oops"
    timer,      \* ts_timer is pending
    tpc,        \* what the timer function does next
    x, y,       \* x[] and y[] of adc_irq up to its static cnt, which is Len(x)
    touch,      \* BTN_TOUCH (and ABS_PRESSURE) as last reported
    report,     \* <<ABS_X, ABS_Y>> if the last step reported them, else <<>>
    since       \* history: samples taken since a handler last saw the pen up

hw == <<pen, mode, tc, busy, adc>>
samples == <<x, y>>
vars == <<hw, module, timer, tpc, samples, touch, report, since>>

TypeOK ==
    /\ pen \in {"up", "down"}
    /\ mode \in {"off", "wait_down", "wait_up", "measure"}
    /\ tc \in BOOLEAN
    /\ busy \in BOOLEAN
    /\ adc \in BOOLEAN
    /\ module \in {"out", "irqs", "init", "in", "exit1", "exit2", "oops"}
    /\ timer \in BOOLEAN
    /\ tpc \in {"idle", "report", "wait", "measure", "start"}
    /\ x \in Seq(XCoords)
    /\ y \in Seq(YCoords)
    /\ Len(x) < 4 /\ Len(y) = Len(x)
    /\ touch \in {"up", "down"}
    /\ report = <<>> \/ report \in Nat \X Nat
    /\ since \in 0..3

Init ==
    /\ pen = "up"
    /\ mode = "off"
    /\ tc = FALSE
    /\ busy = FALSE
    /\ adc = FALSE
    /\ module = "out"
    /\ timer = FALSE
    /\ tpc = "idle"
    /\ x = <<>>
    /\ y = <<>>
    /\ touch = "up"
    /\ report = <<>>
    /\ since = 0

\* Nothing but the last conversion of four reports a position.
NoReport == report' = <<>>

-----------------------------------------------------------------------------
(* The stylus and the converter.                                            *)

\* In a waiting mode the controller latches IRQ_TC when the stylus does what
\* it waits for.
PenMoves ==
    /\ module # "oops"
    /\ pen' = IF pen = "up" THEN "down" ELSE "up"
    /\ tc' = (tc \/ (mode = "wait_down" /\ pen' = "down")
                 \/ (mode = "wait_up" /\ pen' = "up"))
    /\ UNCHANGED <<mode, busy, adc, module, timer, tpc, samples, touch, since>>
    /\ NoReport

ConversionEnds ==
    /\ busy
    /\ module # "oops"
    /\ busy' = FALSE
    /\ adc' = TRUE
    /\ UNCHANGED <<pen, mode, tc, module, timer, tpc, samples, touch, since>>
    /\ NoReport

-----------------------------------------------------------------------------
(* The handlers.                                                            *)

\* pen_up_func: report and wait for the next touch.
PenUp ==
    /\ touch' = "up"
    /\ since' = 0
    /\ mode' = "wait_down"
    /\ UNCHANGED busy

\* pen_down_func: measuring mode, start the converter.
PenDown ==
    /\ mode' = "measure"
    /\ busy' = TRUE
    /\ UNCHANGED touch

\* pen_down_up_irq
PenDownUpIrq ==
    /\ tc
    /\ module \in {"irqs", "init", "in", "exit1"}
    /\ tc' = FALSE
    /\ \/ pen = "up" /\ PenUp
       \/ pen = "down" /\ PenDown /\ UNCHANGED since
    /\ UNCHANGED <<pen, adc, module, timer, tpc, samples>>
    /\ NoReport

\* adc_irq with the pen up: drop the samples.
AdcIrqUp ==
    /\ adc
    /\ module \in {"irqs", "init", "in", "exit1", "exit2"}
    /\ pen = "up"
    /\ adc' = FALSE
    /\ x' = <<>>
    /\ y' = <<>>
    /\ PenUp
    /\ NoReport
    /\ UNCHANGED <<pen, tc, module, timer, tpc>>

\* adc_irq with the pen down: one more sample, then another conversion, ...
SampleBelow(n) ==
    /\ adc
    /\ module \in {"irqs", "init", "in", "exit1", "exit2"}
    /\ pen = "down"
    /\ Len(x) < n
    /\ adc' = FALSE
    /\ \E a \in XCoords, b \in YCoords : x' = Append(x, a) /\ y' = Append(y, b)
    /\ since' = since + 1
    /\ PenDown
    /\ NoReport
    /\ UNCHANGED <<pen, tc, module, timer, tpc>>
AdcIrqSampleFive == SampleBelow(4)      \* mutant: cnt runs past x[] and y[]
AdcIrqSample == SampleBelow(3)

\* ... or the last one, <<a, b>>: report the mean if s3c_filter_ts accepts the
\* samples, start over, wait for the pen to go up and look again when the timer
\* is due.  Before init_timer, mod_timer stops at its BUG_ON.
LastSample(a, b, armed) ==
    /\ adc
    /\ module \in {"irqs", "init", "in", "exit1", "exit2"}
    /\ pen = "down"
    /\ Len(x) = 3
    /\ adc' = FALSE
    /\ x' = <<>>
    /\ y' = <<>>
    /\ since' = 0
    /\ LET s == Append(x, a)
           t == Append(y, b)
       IN  IF Filter(s, t)
           THEN touch' = "down" /\ report' = <<Mean(s), Mean(t)>>
           ELSE UNCHANGED touch /\ NoReport
    /\ mode' = "wait_up"
    /\ timer' = armed
    /\ module' = IF module = "irqs" THEN "oops" ELSE module
    /\ UNCHANGED <<pen, tc, busy, tpc>>
LastSampleNoTimer(a, b) == LastSample(a, b, timer)  \* mutant: no mod_timer
AdcIrqLast(a, b) == LastSample(a, b, TRUE)

-----------------------------------------------------------------------------
(* s3c_ts_timer_function.                                                   *)

\* Read the pen's state, ...
TimerPenIsUp ==
    /\ timer
    /\ tpc = "idle"
    /\ module \in {"init", "in", "exit1", "exit2"}
    /\ timer' = FALSE
    /\ tpc' = IF pen = "up" THEN "report" ELSE "measure"
    /\ since' = IF pen = "up" THEN 0 ELSE since
    /\ UNCHANGED <<hw, module, samples, touch>>
    /\ NoReport

\* ... then pen_up_func: report, ...
Reporting(state) ==
    /\ tpc = "report"
    /\ tpc' = "wait"
    /\ touch' = state
    /\ UNCHANGED <<hw, module, timer, samples, since>>
    /\ NoReport
TimerSilent == Reporting(touch)             \* mutant: no report
TimerReport == Reporting("up")

\* ... wait for a touch; one that is already there may or may not be latched.
TimerWait ==
    /\ tpc = "wait"
    /\ tpc' = "idle"
    /\ mode' = "wait_down"
    /\ \E latched \in {FALSE, pen = "down"} : tc' = (tc \/ latched)
    /\ UNCHANGED <<pen, busy, adc, module, timer, samples, touch, since>>
    /\ NoReport

\* ... or pen_down_func: measuring mode, ...
TimerMeasure ==
    /\ tpc = "measure"
    /\ tpc' = "start"
    /\ mode' = "measure"
    /\ UNCHANGED <<pen, tc, busy, adc, module, timer, samples, touch, since>>
    /\ NoReport

\* ... start the converter.
Starting(b) ==
    /\ tpc = "start"
    /\ tpc' = "idle"
    /\ busy' = b
    /\ UNCHANGED <<pen, mode, tc, adc, module, timer, samples, touch, since>>
    /\ NoReport
TimerNoStart == Starting(busy)              \* mutant: no start_adc
TimerStart == Starting(TRUE)

-----------------------------------------------------------------------------
(* insmod and rmmod.                                                        *)

\* s3c_ts_init: the handlers, which the interrupts of an earlier load may await,
InitIrqs ==
    /\ module = "out"
    /\ ~timer
    /\ module' = "irqs"
    /\ x' = <<>>
    /\ y' = <<>>
    /\ since' = 0
    /\ touch' = "up"
    /\ UNCHANGED <<hw, timer, tpc>>
    /\ NoReport

\* ... the timer, with expires 0, ...
InitTimer ==
    /\ module = "irqs"
    /\ module' = "init"
    /\ timer' = TRUE
    /\ UNCHANGED <<hw, tpc, samples, touch, since>>
    /\ NoReport

\* ... and then enter_wait_pen_down_mode.
InitMode ==
    /\ module = "init"
    /\ tpc = "idle"
    /\ module' = "in"
    /\ mode' = "wait_down"
    /\ \E latched \in {FALSE, pen = "down"} : tc' = (tc \/ latched)
    /\ UNCHANGED <<pen, busy, adc, timer, tpc, samples, touch, since>>
    /\ NoReport

\* s3c_ts_exit: del_timer, ...
ExitDelTimer ==
    /\ module = "in"
    /\ tpc = "idle"
    /\ module' = "exit1"
    /\ timer' = FALSE
    /\ UNCHANGED <<hw, tpc, samples, touch, since>>
    /\ NoReport

\* ... free_irq(IRQ_TC), ...
ExitFreeTc ==
    /\ module = "exit1"
    /\ tpc = "idle"
    /\ module' = "exit2"
    /\ UNCHANGED <<hw, timer, tpc, samples, touch, since>>
    /\ NoReport

\* ... free_irq(IRQ_ADC), the registers, the clock and the input device, which
\* input_unregister_device has freed when input_free_device gets it: that is not
\* noticed, or it is the end of rmmod.
ExitFreeAdc ==
    /\ module = "exit2"
    /\ tpc = "idle"
    /\ module' \in {"out", "oops"}
    /\ UNCHANGED <<hw, timer, tpc, samples, touch, since>>
    /\ NoReport

\* A timer that adc_irq has armed after del_timer runs into freed memory.
TimerAfterExit ==
    /\ module = "out"
    /\ timer
    /\ module' = "oops"
    /\ UNCHANGED <<hw, timer, tpc, samples, touch, since>>
    /\ NoReport

Halted == module = "oops" /\ UNCHANGED vars

-----------------------------------------------------------------------------

AdcIrq ==
    \/ AdcIrqUp
    \/ AdcIrqSample
    \/ \E a \in XCoords, b \in YCoords : AdcIrqLast(a, b)
TimerStep == TimerReport \/ TimerWait \/ TimerMeasure \/ TimerStart

Next ==
    \/ PenMoves \/ ConversionEnds
    \/ PenDownUpIrq \/ AdcIrq
    \/ TimerPenIsUp \/ TimerStep
    \/ InitIrqs \/ InitTimer \/ InitMode \/ ExitDelTimer \/ ExitFreeTc \/ ExitFreeAdc
    \/ TimerAfterExit \/ Halted

\* Conversions end, interrupts are taken and the timer runs; the pen is free.
Fairness ==
    /\ WF_vars(ConversionEnds)
    /\ WF_vars(PenDownUpIrq)
    /\ WF_vars(AdcIrq)
    /\ WF_vars(TimerPenIsUp)
    /\ WF_vars(TimerStep)

Spec == Init /\ [][Next]_vars /\ Fairness

-----------------------------------------------------------------------------
(* Properties.                                                              *)

\* A pen reported down is being watched: the timer will look at it again or a
\* conversion, running or finished, will.  The pen interrupt alone is never
\* relied upon, whatever order interrupts and timer came in.
TouchWatched ==
    module = "in" /\ touch = "down" => timer \/ tpc # "idle" \/ busy \/ adc

\* The controller is never left where nothing can move it on: measuring without
\* a conversion, or waiting for the pen to go up without the timer that covers
\* for a missed interrupt.
NotWedged ==
    module = "in" =>
        /\ mode = "measure" => busy \/ adc \/ tpc = "start"
        /\ mode = "wait_up" => timer \/ tpc # "idle" \/ busy \/ adc

\* While the driver is in, one link of the chain of conversion, interrupt and
\* timer is always alive, in every order of the three.
NeverStuck == TouchWatched /\ NotWedged

\* The samples averaged belong to one touch: when the pen is up after a
\* conversion the value is dropped and the next touch is awaited (s3c_ts.c:86),
\* so no sample taken before a handler saw the pen up is used.
SamplesOfOneTouch ==
    [][Len(x) = 3 /\ mode' = "wait_up" /\ mode # "wait_up" => since = 3]_vars

\* The filter drops what it is for and nothing else: samples that agree within
\* ERR_LIMIT on both axes, a pen held still, are reported; when on either axis
\* the third or the fourth is beyond the limit from both of the two before it,
\* on the same side, nothing is.
FilterSound ==
    [][\A a \in XCoords, b \in YCoords :
          AdcIrqLast(a, b) =>
              /\ Steady(Append(x, a)) /\ Steady(Append(y, b)) => report' # <<>>
              /\ Jumps(Append(x, a)) \/ Jumps(Append(y, b)) => report' = <<>>]_vars

\* What is reported lies among the samples it was computed from, so within the
\* range input_set_abs_params announced.
ReportAmongSamples ==
    [][\A a \in XCoords, b \in YCoords :
          AdcIrqLast(a, b) /\ report' # <<>>
              => /\ Between(report'[1], Append(x, a))
                 /\ Between(report'[2], Append(y, b))]_vars

\* The reports are those the samples justify.
ReportsJustified == FilterSound /\ ReportAmongSamples

\* A lifted pen is reported, unless it comes down again or the driver goes.
LiftReported ==
    (module = "in" /\ pen = "up" /\ touch = "down")
        ~> (touch = "up" \/ pen = "down" \/ module # "in")

=============================================================================
