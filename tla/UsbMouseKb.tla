------------------------------- MODULE UsbMouseKb -------------------------------
(***************************************************************************)
(* The driver src/Drivers/12.usb/usb_mousekb.c, which turns the buttons of *)
(* a USB mouse into keys.  One URB is submitted by the probe and again by  *)
(* its own completion handler; disconnect kills it and frees everything,   *)
(* the input device once too often.                                        *)
(* The URB, its buffer and the input device are reached through static     *)
(* variables, which every probe overwrites, and the handler compares with  *)
(* a static pre_val that nothing resets.                                   *)
(* Probe and disconnect run in the hub thread, one at a time; the handler  *)
(* runs in interrupt context, at any time and whole.  The allocations of   *)
(* the probe succeed here; their refusals are the table of Bringup.        *)
(***************************************************************************)
EXTENDS Naturals, FiniteSets

CONSTANTS
    Mice,       \* the interfaces the driver can be bound to
    MaxProbes   \* a bound on the probes

ASSUME MaxProbesAssumption == MaxProbes \in Nat

None == "none"
Buttons == {0, 1, 2}            \* the bits of a report's first byte
Probe == 1 .. MaxProbes
ASSUME MiceAssumption == None \notin Mice

VARIABLES
    module,     \* where the module is
    bound,      \* the mice that were probed and not disconnected
    worker,     \* the mouse the hub thread is disconnecting, or None
    hub,        \* where the hub thread is in disconnect
    probes,     \* how often probe ran; the statics are those of the last time
    urb,        \* urb[n]: the state of the URB of the n-th probe
    usb_buf,    \* the byte in the buffer usb_buf points to, as a set of bits
    pre_val,    \* the byte the handler saw last
    keys,       \* the keys that are down on the device uk_dev points to
    \* History.
    misuse,     \* what was used although it was not there, see Misuses
    crossed,    \* two mice were bound at the same time
    stale       \* the bits of pre_val that another mouse left there

vars == <<module, bound, worker, hub, probes, urb, usb_buf, pre_val, keys,
          misuse, crossed, stale>>

\* "deaf": loaded, but usb_register has failed; "leaving": in usb_deregister.
\* In "dead" rmmod, or the hub thread, was killed by an oops.
Modules == {"out", "in", "deaf", "leaving", "dead"}
HubStates == {"idle", "killing", "putting", "dead"}

\* "urb": what the last probe allocated, by the handler or by disconnect after it
\* was freed; "input": the input device, by input_free_device after it was
\* unregistered; "driver": usb_mousekb_driver, unregistered without being so.
Misuses == {"urb", "input", "driver"}

TypeOK ==
    /\ module \in Modules
    /\ hub \in HubStates
    /\ bound \subseteq Mice
    /\ worker \in bound \union {None}
    /\ probes \in 0 .. MaxProbes
    /\ urb \in [Probe -> {"none", "idle", "active", "freed"}]
    /\ usb_buf \subseteq Buttons
    /\ pre_val \subseteq Buttons
    /\ keys \subseteq {"L", "S"}
    /\ misuse \subseteq Misuses
    /\ crossed \in BOOLEAN
    /\ stale \subseteq pre_val

Init ==
    /\ module = "out"
    /\ bound = {}
    /\ worker = None
    /\ hub = "idle"
    /\ probes = 0
    /\ urb = [n \in Probe |-> "none"]
    /\ usb_buf = {}
    /\ pre_val = {}
    /\ keys = {}
    /\ misuse = {}
    /\ crossed = FALSE
    /\ stale = {}

thread == <<bound, worker, hub>>
statics == <<probes, urb, usb_buf, pre_val, keys, crossed, stale>>

-----------------------------------------------------------------------------
(* The module.                                                              *)

\* usb_mousekb_init; when usb_register fails it returns 0 all the same.
ModuleInit ==
    /\ module = "out"
    /\ module' \in {"in", "deaf"}
    /\ UNCHANGED <<thread, statics, misuse>>

\* usb_mousekb_exit: no more probes, and every mouse is disconnected.
ModuleExit ==
    /\ module = "in"
    /\ module' = "leaving"
    /\ UNCHANGED <<thread, statics, misuse>>

\* The same after a failure: usb_deregister takes a driver off a bus it is not
\* on.  That is not noticed, or it is the end of rmmod.
ExitDeaf ==
    /\ module = "deaf"
    /\ misuse' = misuse \union {"driver"}
    /\ module' \in {"out", "dead"}
    /\ UNCHANGED <<thread, statics>>

\* The module is gone; loaded again, its statics are zero.
ModuleGone ==
    /\ module = "leaving"
    /\ bound = {}
    /\ module' = "out"
    /\ pre_val' = {}
    /\ stale' = {}
    /\ UNCHANGED <<thread, probes, urb, usb_buf, keys, misuse, crossed>>

-----------------------------------------------------------------------------
(* The hub thread.                                                          *)

\* usb_mousekb_probe.  The buffer is not initialised; pipe is not either, so
\* that usb_submit_urb may take the URB or refuse it, which nobody looks at.
ProbeMouse(m) ==
    /\ module = "in"
    /\ hub = "idle"
    /\ m \notin bound
    /\ probes < MaxProbes
    /\ bound' = bound \union {m}
    /\ probes' = probes + 1
    /\ \E state \in {"idle", "active"} : urb' = [urb EXCEPT ![probes + 1] = state]
    /\ usb_buf' \in SUBSET Buttons
    /\ keys' = {}
    /\ crossed' = (crossed \/ bound # {})
    /\ stale' = pre_val
    /\ UNCHANGED <<module, worker, hub, pre_val, misuse>>

\* usbmousekb_disconnect, when a mouse is unplugged or the module leaves:
\* usb_kill_urb unlinks what uk_urb points to, whichever mouse has gone.
UrbUsed(ok) == misuse' = IF ok THEN misuse ELSE misuse \union {"urb"}
Disconnect(m) ==
    /\ hub = "idle"
    /\ m \in bound
    /\ worker' = m
    /\ hub' = "killing"
    /\ UrbUsed(urb[probes] # "freed")
    /\ UNCHANGED <<module, bound, statics>>

\* ... it returns when the URB has completed; the URB and the buffer are freed
\* and the device is unregistered, which gives back the only reference to it.
FreeAllWhen(killed) ==
    /\ hub = "killing"
    /\ killed
    /\ urb' = [urb EXCEPT ![probes] = "freed"]
    /\ UrbUsed(urb[probes] = "idle")
    /\ keys' = {}
    /\ stale' = pre_val
    /\ hub' = "putting"
    /\ UNCHANGED <<module, bound, worker, probes, usb_buf, pre_val, crossed>>
FreeAllUnkilled == FreeAllWhen(TRUE)    \* mutant: no usb_kill_urb
FreeAll == FreeAllWhen(urb[probes] # "active")

\* input_free_device gives back a reference again, on a device that is gone.
\* That is not noticed, and disconnect returns, or it kills the hub thread.
FreeInput ==
    /\ hub = "putting"
    /\ misuse' = misuse \union {"input"}
    /\ \/ hub' = "idle" /\ worker' = None /\ bound' = bound \ {worker}
       \/ hub' = "dead" /\ UNCHANGED <<worker, bound>>
    /\ UNCHANGED <<module, statics>>

-----------------------------------------------------------------------------
(* The completion of a URB.                                                 *)

\* Until it returns, usb_kill_urb has resubmissions refused.
RejectingNot == FALSE                   \* mutant: the URB is only unlinked
Rejecting == hub = "killing"

\* The byte v is compared with pre_val bit by bit, in the order of the bits.
\* Bits 0 and 2 are both KEY_L: the later comparison decides.
KeysAfter(v) ==
    LET Edge(b) == (b \in v) # (b \in pre_val)
        Apply(key, b, K) ==
            IF ~Edge(b) THEN K ELSE IF b \in v THEN K \union {key} ELSE K \ {key}
    IN  Apply("L", 2, Apply("S", 1, Apply("L", 0, keys)))

\* usb_submit_urb(uk_urb): an URB that is not idle is refused, and an idle one
\* may be.
Resubmit(after) ==
    \/ urb' = after
    \/ /\ after[probes] = "idle"
       /\ ~Rejecting
       /\ urb' = [after EXCEPT ![probes] = "active"]

\* usb_mousekb_irq for the n-th URB, with the byte v in usb_buf.  It looks
\* neither at the status nor at the URB it is called for.
HandlerSeeing(n, v, prev) ==
    /\ urb[n] = "active"
    /\ usb_buf' = v
    /\ keys' = KeysAfter(v)
    /\ pre_val' = prev
    /\ stale' = stale \intersect v
    /\ Resubmit([urb EXCEPT ![n] = "idle"])
    /\ UrbUsed(urb[probes] # "freed")
    /\ UNCHANGED <<module, thread, probes, crossed>>
\* Mutants: pre_val is not updated; it keeps the changes, not the byte.
HandlerForgets(n, v) == HandlerSeeing(n, v, pre_val)
HandlerChanges(n, v) == HandlerSeeing(n, v, (v \ pre_val) \union (pre_val \ v))
Handler(n, v) == HandlerSeeing(n, v, v)

\* The mouse has reported: the bytes are in the buffer of that URB, which is
\* usb_buf when it is the last one.
Report(n, v) == (n # probes => v = usb_buf) /\ Handler(n, v)

\* The URB was unlinked, or the mouse is gone: the buffer is as it was.
Failed(n) == Handler(n, usb_buf)

-----------------------------------------------------------------------------

Next ==
    \/ ModuleInit \/ ModuleExit \/ ExitDeaf \/ ModuleGone
    \/ \E m \in Mice : ProbeMouse(m) \/ Disconnect(m)
    \/ FreeAll \/ FreeInput
    \/ \E n \in Probe : Failed(n) \/ \E v \in SUBSET Buttons : Report(n, v)

\* The hub thread goes on, and a URB that was unlinked completes.
Fairness ==
    /\ WF_vars(FreeAll) /\ WF_vars(FreeInput)
    /\ WF_vars(Rejecting /\ Failed(probes))
    /\ WF_vars(module = "leaving" /\ \E m \in Mice : Disconnect(m))
    /\ WF_vars(ModuleGone)

Spec == Init /\ [][Next]_vars /\ Fairness

-----------------------------------------------------------------------------
(* Properties.                                                              *)

\* As long as no two mice were there at once, neither the handler nor
\* disconnect uses the URB, its buffer or the input device after FreeAll has
\* freed them, and they are freed only when the controller no longer writes to
\* them: usb_kill_urb against a handler that submits its URB again, unplugging,
\* unloading and plugging in again.  (It does not speak of input_free_device,
\* whose put of a device that is gone misuse records at every disconnect.)
KilledBeforeFreed ==
    \/ crossed
    \/ /\ "urb" \notin misuse
       /\ \A n \in Probe :
             urb[n] = "active" => n = probes /\ bound # {} /\ hub \in {"idle", "killing"}

\* No key is stuck and none is missed: S is down exactly while the last byte
\* has its button, unless another mouse left that bit in pre_val, and L only
\* while one of its two buttons is.
KeysFollowButtons ==
    LET own == pre_val \ stale
    IN  \/ "urb" \in misuse
        \/ /\ "S" \in keys <=> 1 \in own
           /\ "L" \in keys => own \intersect {0, 2} # {}

\* The handler cannot keep the URB going for ever: usb_kill_urb returns, and
\* unloading ends, unless the last call of disconnect kills the hub thread.
DisconnectEnds ==
    /\ hub = "killing" ~> hub = "putting"
    /\ module = "leaving" ~> module = "out" \/ hub = "dead"

=============================================================================
