---------------------------- MODULE UsbMouseKbProofs ----------------------------
(***************************************************************************)
(* Proofs about UsbMouseKb, for any mice and any number of probes.  The    *)
(* statics of the driver belong to the last probe: as long as no two mice  *)
(* were there at once that is the only URB that can be active, and it is   *)
(* neither freed nor missing while a mouse is bound and disconnect has not *)
(* come to its frees.  What two mice do is recorded in crossed and misuse. *)
(***************************************************************************)
EXTENDS UsbMouseKb, TLAPS

\* The URBs of probes to come are not there, and when no mouse is bound the
\* last disconnect has freed the URB and removed the input device.
LastIsFreed ==
    /\ \A n \in Probe : n > probes => urb[n] = "none"
    /\ bound = {} => probes = 0 \/ urb[probes] = "freed"
    /\ bound = {} => keys = {} \/ "urb" \in misuse

\* Disconnect has freed what uk_urb points to, and has not returned.
Freed == hub \in {"putting", "dead"}
HubPlace ==
    /\ hub = "idle" <=> worker = None
    /\ Freed => urb[probes] = "freed" /\ (keys = {} \/ "urb" \in misuse)
    /\ bound # {} => probes # 0

\* One mouse at a time: uk_urb is its URB until the mouse is gone.
OneMouse ==
    ~crossed =>
        /\ "urb" \notin misuse
        /\ \A m, n \in bound : m = n
        /\ bound # {} /\ ~Freed => urb[probes] \in {"idle", "active"}
        /\ \A n \in Probe : urb[n] = "active" => bound # {} /\ n = probes

IInv == TypeOK /\ LastIsFreed /\ HubPlace /\ OneMouse /\ KeysFollowButtons

\* Before insmod.
LEMMA InitInv == Init => IInv
<1>. SUFFICES ASSUME Init PROVE IInv
  OBVIOUS
<1>1. TypeOK
  <2>1. 0 \in 0 .. MaxProbes BY MaxProbesAssumption
  <2>. QED  BY <2>1, Zenon DEF Init, TypeOK, Modules, HubStates
<1>2. LastIsFreed /\ HubPlace /\ OneMouse
  BY DEF Init, LastIsFreed, HubPlace, Freed, OneMouse, Probe
<1>3. KeysFollowButtons BY DEF Init, KeysFollowButtons
<1>. QED  BY <1>1, <1>2, <1>3 DEF IInv

-----------------------------------------------------------------------------
(* Loading and unloading.                                                   *)

\* insmod and rmmod keep the invariant, whether usb_register succeeded or not.
LEMMA ModuleInv ==
    ASSUME IInv,
           ModuleInit \/ ModuleExit \/ ExitDeaf \/ ModuleGone \/ UNCHANGED vars
    PROVE  IInv'
<1>1. CASE ModuleInit \/ ModuleExit \/ ExitDeaf \/ UNCHANGED vars
  <2>1. UNCHANGED <<thread, statics>>
    BY <1>1 DEF ModuleInit, ModuleExit, ExitDeaf, vars, thread, statics
  <2>2. /\ module' \in Modules /\ misuse' \subseteq Misuses
        /\ "urb" \in misuse' <=> "urb" \in misuse
    BY <1>1
    DEF IInv, TypeOK, Modules, Misuses, ModuleInit, ModuleExit, ExitDeaf, vars
  <2>3. TypeOK' BY <2>1, <2>2 DEF thread, statics, IInv, TypeOK
  <2>4. LastIsFreed' /\ HubPlace' /\ OneMouse' /\ KeysFollowButtons'
    BY <2>1, <2>2
    DEF thread, statics, IInv, LastIsFreed, HubPlace, Freed, OneMouse, KeysFollowButtons
  <2>. QED  BY <2>3, <2>4 DEF IInv
<1>2. CASE ModuleGone
  <2>1. UNCHANGED thread /\ UNCHANGED <<probes, urb, usb_buf, keys, misuse, crossed>>
    BY <1>2 DEF ModuleGone
  <2>2. TypeOK' BY <1>2, <2>1 DEF ModuleGone, thread, IInv, TypeOK, Modules
  <2>3. LastIsFreed' /\ HubPlace' /\ OneMouse'
    BY <2>1 DEF thread, IInv, LastIsFreed, HubPlace, Freed, OneMouse
  <2>4. KeysFollowButtons'
    \* The mice are gone, so their keys are.
    BY <1>2 DEF ModuleGone, IInv, LastIsFreed, KeysFollowButtons
  <2>. QED  BY <2>2, <2>3, <2>4 DEF IInv
<1>. QED  BY <1>1, <1>2

-----------------------------------------------------------------------------
(* The hub thread.                                                          *)

\* probe overwrites the statics: harmless when no mouse is bound, crossed
\* otherwise.
LEMMA ProbeInv ==
    ASSUME IInv, NEW m \in Mice, ProbeMouse(m)
    PROVE  IInv'
<1>1. probes + 1 \in Probe /\ probes \in Nat /\ MaxProbes \in Nat
  BY MaxProbesAssumption DEF ProbeMouse, IInv, TypeOK, Probe
<1>2. PICK state \in {"idle", "active"} : urb' = [urb EXCEPT ![probes + 1] = state]
  BY DEF ProbeMouse
<1>3. urb' \in [Probe -> {"none", "idle", "active", "freed"}]
  BY <1>1, <1>2 DEF IInv, TypeOK
<1>4. crossed' \in BOOLEAN /\ (~crossed' => ~crossed /\ bound = {})
  BY Zenon DEF ProbeMouse, IInv, TypeOK
<1>5. TypeOK' BY <1>1, <1>3, <1>4 DEF ProbeMouse, IInv, TypeOK
<1>6. LastIsFreed'
  BY <1>1, <1>2 DEF ProbeMouse, IInv, TypeOK, LastIsFreed, Probe
<1>7. HubPlace' /\ ~Freed' BY <1>1 DEF ProbeMouse, IInv, HubPlace, Freed
<1>8. OneMouse'
  <2>. SUFFICES ASSUME ~crossed' PROVE OneMouse'
    BY DEF OneMouse
  <2>1. bound' = {m} /\ probes' = probes + 1 /\ "urb" \notin misuse' /\ probes + 1 # 0
    BY <1>1, <1>4 DEF ProbeMouse, IInv, OneMouse
  <2>2. urb'[probes + 1] \in {"idle", "active"} BY <1>1, <1>2 DEF IInv, TypeOK
  <2>3. \A n \in Probe : urb'[n] = "active" => n = probes + 1
    BY <1>1, <1>2, <1>4 DEF IInv, TypeOK, OneMouse
  <2>. QED  BY <2>1, <2>2, <2>3 DEF OneMouse
<1>9. KeysFollowButtons' BY DEF ProbeMouse, KeysFollowButtons
<1>. QED  BY <1>5, <1>6, <1>7, <1>8, <1>9 DEF IInv

\* What a use of the URB adds to misuse.
LEMMA UrbUse ==
    ASSUME IInv, NEW ok \in BOOLEAN, UrbUsed(ok)
    PROVE  /\ misuse' \subseteq Misuses
           /\ "urb" \in misuse' <=> "urb" \in misuse \/ ~ok
  BY DEF IInv, TypeOK, UrbUsed, Misuses

\* The kill of the static URB.
LEMMA DisconnectInv ==
    ASSUME IInv, NEW m \in Mice, Disconnect(m)
    PROVE  IInv'
<1>1. /\ hub = "idle" /\ m \in bound /\ worker' = m /\ hub' = "killing"
      /\ UNCHANGED <<module, bound>> /\ UNCHANGED statics
  BY DEF Disconnect
<1>2. /\ misuse' \subseteq Misuses
      /\ "urb" \in misuse' <=> "urb" \in misuse \/ urb[probes] = "freed"
  BY UrbUse DEF Disconnect
<1>3. TypeOK' BY <1>1, <1>2 DEF statics, IInv, TypeOK, HubStates
<1>4. LastIsFreed' BY <1>1 DEF statics, IInv, LastIsFreed
<1>5. HubPlace' /\ ~Freed /\ ~Freed'
  BY <1>1, MiceAssumption DEF statics, IInv, HubPlace, Freed
<1>6. OneMouse' BY <1>1, <1>2, <1>5 DEF statics, IInv, OneMouse
<1>7. KeysFollowButtons' BY <1>1, <1>2 DEF statics, IInv, KeysFollowButtons
<1>. QED  BY <1>3, <1>4, <1>5, <1>6, <1>7 DEF IInv

\* disconnect frees what the last probe allocated.
LEMMA FreeAllInv ==
    ASSUME IInv, FreeAll
    PROVE  IInv'
<1>1. /\ hub = "killing" /\ hub' = "putting" /\ urb[probes] # "active"
      /\ urb' = [urb EXCEPT ![probes] = "freed"] /\ keys' = {} /\ stale' = pre_val
      /\ UNCHANGED <<module, bound, worker, probes, usb_buf, pre_val, crossed>>
  BY DEF FreeAll, FreeAllWhen
<1>2. /\ misuse' \subseteq Misuses
      /\ "urb" \in misuse' <=> "urb" \in misuse \/ urb[probes] # "idle"
  BY UrbUse DEF FreeAll, FreeAllWhen
<1>3. worker \in bound /\ probes \in Probe
  BY <1>1, MaxProbesAssumption DEF IInv, TypeOK, HubPlace, Probe
<1>4. TypeOK' BY <1>1, <1>2 DEF IInv, TypeOK, HubStates
<1>5. LastIsFreed' BY <1>1, <1>3 DEF IInv, TypeOK, LastIsFreed
<1>6. HubPlace' /\ ~Freed /\ Freed' BY <1>1, <1>3 DEF IInv, TypeOK, HubPlace, Freed
<1>7. OneMouse' BY <1>1, <1>2, <1>3, <1>6 DEF IInv, TypeOK, OneMouse
<1>8. KeysFollowButtons' BY <1>1 DEF KeysFollowButtons
<1>. QED  BY <1>4, <1>5, <1>6, <1>7, <1>8 DEF IInv

\* input_free_device, whether it is survived or not.
LEMMA FreeInputInv ==
    ASSUME IInv, FreeInput
    PROVE  IInv'
<1>1. /\ hub = "putting" /\ misuse' = misuse \union {"input"}
      /\ UNCHANGED module /\ UNCHANGED statics
      /\ \/ hub' = "idle" /\ worker' = None /\ bound' = bound \ {worker}
         \/ hub' = "dead" /\ UNCHANGED <<worker, bound>>
  BY DEF FreeInput
<1>2. misuse' \subseteq Misuses /\ ("urb" \in misuse' <=> "urb" \in misuse)
  BY <1>1 DEF IInv, TypeOK, Misuses
<1>3. worker \in bound /\ urb[probes] = "freed" /\ Freed
  BY <1>1 DEF IInv, TypeOK, HubPlace, Freed
<1>4. TypeOK' BY <1>1, <1>2 DEF statics, IInv, TypeOK, HubStates
<1>5. LastIsFreed'
  <2>1. keys = {} \/ "urb" \in misuse BY <1>3 DEF IInv, HubPlace
  <2>. QED  BY <1>1, <1>2, <1>3, <2>1 DEF statics, IInv, LastIsFreed
<1>6. HubPlace' BY <1>1, <1>3, MiceAssumption DEF statics, IInv, TypeOK, HubPlace, Freed
<1>7. OneMouse' BY <1>1, <1>2, <1>3 DEF statics, IInv, OneMouse, Freed
<1>8. KeysFollowButtons' BY <1>1, <1>2 DEF statics, IInv, KeysFollowButtons
<1>. QED  BY <1>4, <1>5, <1>6, <1>7, <1>8 DEF IInv

-----------------------------------------------------------------------------
(* The completion handler.                                                  *)

\* What the comparison of two bytes does to the keys.
LEMMA KeysCompared ==
    ASSUME NEW v, keys \subseteq {"L", "S"}, stale \subseteq pre_val,
           "S" \in keys <=> 1 \in pre_val \ stale,
           "L" \in keys => (pre_val \ stale) \intersect {0, 2} # {}
    PROVE  /\ "S" \in KeysAfter(v) <=> 1 \in v \ stale
           /\ "L" \in KeysAfter(v) => (v \ stale) \intersect {0, 2} # {}
<1>1. "S" \in KeysAfter(v) <=> 1 \in v \ stale BY DEF KeysAfter
<1>2. "L" \in KeysAfter(v) =>
         \/ 2 \in v /\ 2 \notin pre_val
         \/ (2 \in v <=> 2 \in pre_val) /\ 0 \in v /\ 0 \notin pre_val
         \/ (2 \in v <=> 2 \in pre_val) /\ (0 \in v <=> 0 \in pre_val) /\ "L" \in keys
  BY DEF KeysAfter
<1>3. "L" \in KeysAfter(v) => (v \ stale) \intersect {0, 2} # {} BY <1>2
<1>. QED  BY <1>1, <1>3

\* An URB that is not freed stays so, whatever the handler does, and the only
\* one it makes active is that of the last probe.
LEMMA HandlerUrb ==
    ASSUME IInv, NEW n \in Probe, NEW v, Handler(n, v)
    PROVE  /\ urb' \in [Probe -> {"none", "idle", "active", "freed"}]
           /\ urb[n] = "active" /\ probes \in Probe
           /\ urb[probes] = "freed" => urb'[probes] = "freed"
           /\ \A k \in Probe :
                 /\ k # n /\ k # probes => urb'[k] = urb[k]
                 /\ urb'[k] \in {"idle", "active"} <=> urb[k] \in {"idle", "active"}
                 /\ urb'[k] = "active" => k = probes \/ urb[k] = "active"
                 /\ urb[k] = "none" => urb'[k] = "none"
<1>. DEFINE after == [urb EXCEPT ![n] = "idle"]
<1>1. after \in [Probe -> {"none", "idle", "active", "freed"}] BY DEF IInv, TypeOK
<1>2. urb[n] = "active" /\ Resubmit(after) BY DEF Handler, HandlerSeeing
<1>3. probes \in Probe
  BY <1>2, MaxProbesAssumption DEF IInv, TypeOK, LastIsFreed, Probe
<1>4. CASE urb' = after BY <1>1, <1>2, <1>3, <1>4 DEF IInv, TypeOK
<1>5. CASE after[probes] = "idle" /\ urb' = [after EXCEPT ![probes] = "active"]
  BY <1>1, <1>2, <1>3, <1>5 DEF IInv, TypeOK
<1>. QED  BY <1>2, <1>4, <1>5 DEF Resubmit

\* usb_mousekb_irq, whether its resubmission is taken or refused.
LEMMA HandlerInv ==
    ASSUME IInv, NEW n \in Probe, NEW v \in SUBSET Buttons, Handler(n, v)
    PROVE  IInv'
<1>1. /\ usb_buf' = v /\ keys' = KeysAfter(v) /\ pre_val' = v /\ stale' = stale \intersect v
      /\ UNCHANGED <<module, probes, crossed>> /\ UNCHANGED thread
  BY DEF Handler, HandlerSeeing
<1>2. /\ misuse' \subseteq Misuses
      /\ "urb" \in misuse' <=> "urb" \in misuse \/ urb[probes] = "freed"
  BY UrbUse DEF Handler, HandlerSeeing
<1>3. keys' \subseteq {"L", "S"} BY <1>1 DEF KeysAfter, IInv, TypeOK
<1>4. TypeOK' BY <1>1, <1>2, <1>3, HandlerUrb DEF thread, IInv, TypeOK
<1>5. probes \in Nat /\ n \in Nat /\ n # 0
  BY MaxProbesAssumption DEF IInv, TypeOK, Probe
<1>6. LastIsFreed'
  <2>1. bound = {} => "urb" \in misuse'
    \* A URB that is active was submitted by a probe; the last one is freed.
    BY <1>2, <1>5, HandlerUrb DEF IInv, LastIsFreed
  <2>2. \A k \in Probe : k > probes => urb'[k] = "none"
    BY HandlerUrb DEF IInv, LastIsFreed
  <2>3. bound = {} => probes = 0 \/ urb'[probes] = "freed"
    BY HandlerUrb DEF IInv, LastIsFreed
  <2>. QED  BY <1>1, <2>1, <2>2, <2>3 DEF thread, LastIsFreed
<1>7. HubPlace'
  BY <1>1, <1>2, HandlerUrb DEF thread, IInv, HubPlace, Freed
<1>8. OneMouse'
  <2>. SUFFICES ASSUME ~crossed PROVE OneMouse'
    BY <1>1 DEF OneMouse
  <2>1. /\ "urb" \notin misuse /\ bound # {} /\ n = probes
        /\ urb[probes] \in {"idle", "active"}
    BY HandlerUrb DEF IInv, OneMouse
  <2>2. probes \in Probe BY <2>1
  <2>3. urb'[probes] \in {"idle", "active"} BY <2>1, <2>2, HandlerUrb
  <2>4. \A k \in Probe : urb'[k] = "active" => k = probes
    BY HandlerUrb DEF IInv, OneMouse
  <2>. QED  BY <1>1, <1>2, <1>5, <2>1, <2>3, <2>4 DEF thread, IInv, OneMouse, Freed
<1>9. KeysFollowButtons'
  <2>1. pre_val' \ stale' = v \ stale BY <1>1
  <2>2. CASE "urb" \in misuse BY <1>2, <2>2 DEF KeysFollowButtons
  <2>3. CASE "urb" \notin misuse
    <3>1. /\ "S" \in keys <=> 1 \in pre_val \ stale
          /\ "L" \in keys => (pre_val \ stale) \intersect {0, 2} # {}
      BY <2>3 DEF IInv, KeysFollowButtons
    <3>2. keys \subseteq {"L", "S"} /\ stale \subseteq pre_val BY DEF IInv, TypeOK
    <3>3. /\ "S" \in keys' <=> 1 \in v \ stale
          /\ "L" \in keys' => (v \ stale) \intersect {0, 2} # {}
      BY <1>1, <3>1, <3>2, KeysCompared
    <3>. QED  BY <2>1, <3>3 DEF KeysFollowButtons
  <2>. QED  BY <2>2, <2>3
<1>. QED  BY <1>4, <1>6, <1>7, <1>8, <1>9 DEF IInv

-----------------------------------------------------------------------------

\* Every step keeps the invariant.
LEMMA NextInv == IInv /\ [Next]_vars => IInv'
<1>. SUFFICES ASSUME IInv, [Next]_vars PROVE IInv'
  OBVIOUS
<1>1. ASSUME NEW n \in Probe, Failed(n) \/ \E v \in SUBSET Buttons : Report(n, v) PROVE IInv'
  <2>1. usb_buf \in SUBSET Buttons BY DEF IInv, TypeOK
  <2>. QED  BY <1>1, <2>1, HandlerInv DEF Failed, Report
<1>. QED  BY <1>1, ModuleInv, ProbeInv, DisconnectInv, FreeAllInv, FreeInputInv DEF Next

\* The inductive invariant.
THEOREM Inductive == Spec => []IInv
  BY InitInv, NextInv, PTL DEF Spec

\* Every variable keeps its type.
THEOREM TypeCorrect == Spec => []TypeOK
<1>1. IInv => TypeOK BY DEF IInv
<1>. QED  BY <1>1, Inductive, PTL

\* With one mouse at a time neither usb_mousekb_irq nor usbmousekb_disconnect
\* uses the URB, its buffer or the input device after FreeAll has freed them,
\* and an active URB is never freed, however often mice come and go and the
\* module is unloaded.  What input_free_device does after that is not part of it.
THEOREM UrbKilledBeforeFreed == Spec => []KilledBeforeFreed
<1>1. IInv => KilledBeforeFreed
  <2>. SUFFICES ASSUME IInv, ~crossed PROVE KilledBeforeFreed
    BY DEF KilledBeforeFreed
  <2>1. \A n \in Probe : urb[n] = "active" => hub \in {"idle", "killing"}
    BY DEF IInv, TypeOK, HubStates, OneMouse, HubPlace, Freed
  <2>. QED  BY <2>1 DEF IInv, OneMouse, KilledBeforeFreed
<1>. QED  BY <1>1, Inductive, PTL

\* No key of usb_mousekb_irq is stuck and no press of S is missed, but for the
\* bits that another mouse left in pre_val.
THEOREM KeysAreTheButtons == Spec => []KeysFollowButtons
<1>1. IInv => KeysFollowButtons BY DEF IInv
<1>. QED  BY <1>1, Inductive, PTL

=============================================================================
