----------------------------- MODULE UsbSkelProofs -----------------------------
(***************************************************************************)
(* Proofs about UsbSkel for any connections, any finite set of files and   *)
(* any number of URBs a host controller accepts.                           *)
(***************************************************************************)
EXTENDS UsbSkel, FiniteSetTheorems, TLAPS

-----------------------------------------------------------------------------
(* The inductive invariant.                                                 *)

\* What exists while khubd is where: the endpoints are enabled until unbinding
\* begins, the minor and intfdata lead to the usb_skel from probe's end until
\* disconnect, and URBs are in flight only before disconnect is called.
HubInv ==
    /\ bound = None <=> hub = "idle"
    /\ eps = IF hub \in {"probe", "bound"} THEN {bound} ELSE {}
    /\ intfdata = IF hub \in {"bound", "flush", "detach"} THEN {bound} ELSE {}
    /\ minor = IF hub \in {"bound", "flush", "detach"} THEN bound ELSE None
    /\ \A c \in Conns : urbs[c] > 0 => bound = c /\ hub \in {"bound", "flush"}
    /\ hub = "probe" => \A u \in Users : dev[u] # bound

\* Between looking the usb_skel up and counting the reference, open holds
\* skel_open_lock, and disconnect has not got past it.
OpenInv ==
    \A u \in Users :
        /\ dev[u] = None <=> pc[u] \in {"idle", "open"}
        /\ pc[u] = "get" =>
              open_lock = u /\ dev[u] = bound /\ hub \in {"bound", "flush", "detach"}

\* A usb_skel that was never allocated has nothing counted.
FreshInv == \A c \in Conns : mem[c] = "none" => pm[c] = 0

Control == TypeOK /\ HubInv /\ OpenInv /\ FreshInv /\ NoIoWhenGone
IInv == Control /\ RefsCounted /\ PmBalanced

-----------------------------------------------------------------------------
(* Counting.                                                                *)

Bit(b) == IF b THEN 1 ELSE 0

\* Two sets of files that differ at most in u.
LEMMA OneMoved ==
    ASSUME NEW S \in SUBSET Users, NEW T \in SUBSET Users, NEW u, S \ {u} = T \ {u}
    PROVE  /\ Cardinality(S) \in Nat /\ Cardinality(T) \in Nat
           /\ Cardinality(T) + Bit(u \in S) = Cardinality(S) + Bit(u \in T)
           /\ u \in S => Cardinality(S) > 0
<1>1. IsFiniteSet(S) /\ IsFiniteSet(T) BY UsersAssumption, FS_Subset
<1>2. Cardinality(S) \in Nat /\ Cardinality(T) \in Nat BY <1>1, FS_CardinalityType
<1>3. Cardinality(S \ {u}) = IF u \in S THEN Cardinality(S) - 1 ELSE Cardinality(S)
  BY <1>1, FS_RemoveElement
<1>4. Cardinality(T \ {u}) = IF u \in T THEN Cardinality(T) - 1 ELSE Cardinality(T)
  BY <1>1, FS_RemoveElement
<1>5. u \in S => Cardinality(S) > 0
  <2>1. Cardinality(S \ {u}) \in Nat BY <1>1, FS_RemoveElement, FS_CardinalityType
  <2>. QED  BY <1>2, <1>3, <2>1
<1>. QED  BY <1>2, <1>3, <1>4, <1>5 DEF Bit

\* The files of c that hold a reference or keep it awake, when only
\* the file u has moved.
OthersStay(u) == \A v \in Users \ {u} : pc'[v] = pc[v] /\ dev'[v] = dev[v]

\* A step of one file changes each count by what it does to that file.
LEMMA Counted ==
    ASSUME NEW u \in Users, OthersStay(u), NEW c \in Conns
    PROVE  /\ Cardinality(Holders(c)) \in Nat /\ Cardinality(Holders(c)') \in Nat
           /\ Cardinality(Openers(c)) \in Nat /\ Cardinality(Openers(c)') \in Nat
           /\ Cardinality(Holders(c)') + Bit(u \in Holders(c))
                = Cardinality(Holders(c)) + Bit(u \in Holders(c)')
           /\ Cardinality(Openers(c)') + Bit(u \in Openers(c))
                = Cardinality(Openers(c)) + Bit(u \in Openers(c)')
<1>1. Holders(c) \ {u} = Holders(c)' \ {u} BY DEF Holders, OthersStay
<1>3. Openers(c) \ {u} = Openers(c)' \ {u} BY DEF Openers, OthersStay
<1>4. /\ Holders(c) \subseteq Users /\ Holders(c)' \subseteq Users
      /\ Openers(c) \subseteq Users /\ Openers(c)' \subseteq Users
  BY DEF Holders, Openers
<1>5. /\ Cardinality(Holders(c)) \in Nat /\ Cardinality(Holders(c)') \in Nat
      /\ Cardinality(Holders(c)') + Bit(u \in Holders(c))
                = Cardinality(Holders(c)) + Bit(u \in Holders(c)')
  BY <1>1, <1>4, OneMoved
<1>7. /\ Cardinality(Openers(c)) \in Nat /\ Cardinality(Openers(c)') \in Nat
      /\ Cardinality(Openers(c)') + Bit(u \in Openers(c))
                = Cardinality(Openers(c)) + Bit(u \in Openers(c)')
  BY <1>3, <1>4, OneMoved
<1>. QED  BY <1>5, <1>7

\* A file in a set is counted by it.
LEMMA Occupied ==
    ASSUME NEW c, NEW u \in Users
    PROVE  /\ Cardinality(Holders(c)) \in Nat
           /\ Cardinality(Openers(c)) \in Nat
           /\ u \in Holders(c) => Cardinality(Holders(c)) > 0
           /\ u \in Openers(c) => Cardinality(Openers(c)) > 0
<1>1. /\ Holders(c) \subseteq Users
      /\ Openers(c) \subseteq Users
  BY DEF Holders, Openers
<1>. QED  BY <1>1, OneMoved

\* The counts are numbers, because the files are finitely many.
LEMMA CountsNatural ==
    ASSUME NEW c
    PROVE  /\ Cardinality(Holders(c)) \in Nat
           /\ Cardinality(Openers(c)) \in Nat
<1>1. /\ Holders(c) \subseteq Users
      /\ Openers(c) \subseteq Users
  BY DEF Holders, Openers
<1>. QED  BY <1>1, OneMoved

\* No file refers to c: nothing is counted for it.
LEMMA Unused ==
    ASSUME NEW c \in Conns, \A u \in Users : dev[u] # c
    PROVE  /\ Cardinality(Holders(c)) = 0
           /\ Cardinality(Openers(c)) = 0
<1>1. Holders(c) = {} /\ Openers(c) = {}
  BY DEF Holders, Openers
<1>. QED  BY <1>1, FS_EmptySet

\* Whoever has a usb_skel in hand has a live one.
LEMMA InHand == IInv => NoUseAfterFree
<1>. SUFFICES ASSUME IInv PROVE NoUseAfterFree
  OBVIOUS
<1>. USE DEF IInv, Control
<1>1. ASSUME NEW c \in Conns, bound = c PROVE mem[c] = "live"
  BY <1>1, CountsNatural DEF RefsCounted, TypeOK
<1>2. ASSUME NEW u \in Users, dev[u] # None PROVE mem[dev[u]] = "live"
  <2>1. dev[u] \in Conns BY <1>2 DEF TypeOK
  <2>2. CASE pc[u] = "get" BY <1>1, <2>1, <2>2 DEF OpenInv
  <2>3. CASE pc[u] # "get"
    <3>1. u \in Holders(dev[u]) BY <2>3 DEF Holders
    <3>. QED  BY <2>1, <3>1, Occupied DEF RefsCounted
  <2>. QED  BY <2>2, <2>3
<1>3. ASSUME NEW c \in Conns, urbs[c] > 0 PROVE mem[c] = "live"
  BY <1>1, <1>3 DEF HubInv
<1>. QED  BY <1>1, <1>2, <1>3 DEF NoUseAfterFree, TypeOK

-----------------------------------------------------------------------------
(* Initial states.                                                          *)

\* Before insmod.
LEMMA InitInv == Init => IInv
<1>. SUFFICES ASSUME Init PROVE IInv
  OBVIOUS
<1>1. TypeOK
  BY UrbsAssumption DEF Init, TypeOK, HubStates, UserStates
<1>2. HubInv /\ OpenInv /\ FreshInv /\ NoIoWhenGone
  BY NoneAssumption DEF Init, HubInv, OpenInv, FreshInv, NoIoWhenGone
<1>3. RefsCounted /\ PmBalanced
  <2>1. ASSUME NEW c \in Conns
        PROVE  kref[c] = Cardinality(Holders(c)) + (IF bound = c THEN 1 ELSE 0)
               /\ kref[c] = 0 /\ mem[c] = "none"
    BY Unused, NoneAssumption DEF Init
  <2>. QED  BY <2>1 DEF Init, RefsCounted, PmBalanced
<1>. QED  BY <1>1, <1>2, <1>3 DEF IInv, Control

-----------------------------------------------------------------------------
(* The module and khubd: no file moves, so the counts of files stay.        *)

\* A step that leaves the files alone leaves what they count alone.
LEMMA FilesStay ==
    ASSUME UNCHANGED <<pc, dev>>, NEW c
    PROVE  Holders(c)' = Holders(c) /\ Openers(c)' = Openers(c)
  BY DEF Holders, Openers

\* insmod and the two halves of rmmod: they wait for khubd and the files.
LEMMA ModuleInv ==
    ASSUME IInv, UsbSkelInit \/ UsbSkelExit \/ UsbSkelGone \/ UNCHANGED vars
    PROVE  IInv'
<1>1. /\ driver' \in {"out", "in", "going"}
      /\ UNCHANGED <<hub, bound, eps, intf, skel, open_lock, pc, dev>>
  BY DEF UsbSkelInit, UsbSkelExit, UsbSkelGone, vars, core, IInv, Control, TypeOK
<1>2. UNCHANGED <<intfdata, minor, pm, mem, kref, interface, io_mutex, urbs>>
  BY <1>1 DEF intf, skel
<1>3. Control'
  BY <1>1, <1>2 DEF IInv, Control, TypeOK, HubInv, OpenInv, FreshInv, NoIoWhenGone
<1>4. RefsCounted' /\ PmBalanced'
  BY <1>1, <1>2, FilesStay DEF IInv, RefsCounted, PmBalanced
<1>. QED  BY <1>3, <1>4 DEF IInv

\* probe's allocation: a new usb_skel with one reference.
LEMMA ProbeAllocInv ==
    ASSUME IInv, NEW c \in Conns, ProbeAlloc(c)
    PROVE  IInv'
<1>. USE DEF IInv, Control
<1>1. \A u \in Users : dev[u] # c
  BY InHand, NoneAssumption DEF ProbeAlloc, NoUseAfterFree
<1>2. urbs[c] = 0 BY NoneAssumption DEF ProbeAlloc, HubInv, TypeOK
<1>3. UNCHANGED <<driver, intfdata, minor, pm, io_mutex, urbs, open_lock, pc, dev>>
  BY DEF ProbeAlloc, intf
<1>4. TypeOK' BY <1>3, UrbsAssumption DEF ProbeAlloc, TypeOK, HubStates
<1>5. HubInv'
  BY <1>1, <1>3, NoneAssumption DEF ProbeAlloc, HubInv, TypeOK
<1>6. OpenInv' /\ FreshInv' /\ NoIoWhenGone'
  BY <1>3 DEF ProbeAlloc, TypeOK, OpenInv, FreshInv, NoIoWhenGone
<1>7. RefsCounted'
  BY <1>1, <1>3, FilesStay, Unused, NoneAssumption
  DEF ProbeAlloc, TypeOK, RefsCounted, HubInv
<1>9. PmBalanced'
  BY <1>1, <1>3, FilesStay, Unused
  DEF ProbeAlloc, TypeOK, PmBalanced, FreshInv
<1>. QED  BY <1>4, <1>5, <1>6, <1>7, <1>9

\* The steps of khubd that take or give no reference.
LEMMA HubInvKept ==
    ASSUME IInv,
           ProbeRegister \/ UnbindDisable \/ UnbindFlush \/ DisconnectDetach \/ DisconnectStop
    PROVE  IInv'
<1>. USE DEF IInv, Control
<1>1. /\ UNCHANGED <<driver, bound, pm, mem, kref, io_mutex, urbs, open_lock, pc, dev>>
      /\ interface' \subseteq interface
  BY DEF ProbeRegister, UnbindDisable, UnbindFlush, DisconnectDetach, DetachLocked,
         DisconnectStop, StopLocked, intf, skel
<1>2. bound \in Conns
  BY DEF ProbeRegister, UnbindDisable, UnbindFlush, DisconnectDetach, DetachLocked,
         DisconnectStop, StopLocked, HubInv, TypeOK
<1>3. TypeOK'
  BY <1>1, <1>2 DEF ProbeRegister, UnbindDisable, UnbindFlush, DisconnectDetach,
         DetachLocked, DisconnectStop, StopLocked, intf, TypeOK, HubStates
<1>4. HubInv'
  <2>1. CASE ProbeRegister
    BY <1>1, <1>2, <2>1, NoneAssumption DEF ProbeRegister, HubInv, TypeOK
  <2>2. CASE UnbindDisable
    BY <1>1, <1>2, <2>2, NoneAssumption DEF UnbindDisable, HubInv, TypeOK, intf
  <2>3. CASE UnbindFlush
    BY <1>1, <1>2, <2>3, NoneAssumption DEF UnbindFlush, HubInv, TypeOK, intf
  <2>4. CASE DisconnectDetach
    BY <1>1, <1>2, <2>4, NoneAssumption DEF DisconnectDetach, DetachLocked, HubInv, TypeOK
  <2>5. CASE DisconnectStop
    BY <1>1, <1>2, <2>5, NoneAssumption DEF DisconnectStop, StopLocked, HubInv, TypeOK, intf
  <2>. QED  BY <2>1, <2>2, <2>3, <2>4, <2>5
<1>5. OpenInv'
  BY <1>1, NoneAssumption DEF ProbeRegister, UnbindDisable, UnbindFlush, DisconnectDetach, DetachLocked,
         DisconnectStop, StopLocked, OpenInv
<1>6. NoIoWhenGone'
  BY <1>1, NoneAssumption DEF ProbeRegister, UnbindDisable, UnbindFlush, DisconnectDetach,
         DetachLocked, DisconnectStop, StopLocked, skel, NoIoWhenGone
<1>7. FreshInv' /\ RefsCounted' /\ PmBalanced'
  BY <1>1, FilesStay
  DEF FreshInv, RefsCounted, PmBalanced, TypeOK
<1>. QED  BY <1>3, <1>4, <1>5, <1>6, <1>7

\* probe's reference is given up, by its error path or by disconnect.
LEMMA HubPutInv ==
    ASSUME IInv, ProbeError \/ DisconnectPut
    PROVE  IInv'
<1>. USE DEF IInv, Control
<1>1. /\ bound \in Conns /\ bound' = None /\ hub' = "idle" /\ hub \in {"probe", "put"}
      /\ KrefPut(bound) /\ eps' = eps \ {bound}
      /\ UNCHANGED <<driver, intfdata, minor, pm, interface, io_mutex, urbs,
                     open_lock, pc, dev>>
  BY DEF ProbeError, DisconnectPut, HubInv, TypeOK, intf
<1>2. kref[bound] > 0 /\ mem[bound] = "live"
  BY <1>1, CountsNatural DEF RefsCounted, TypeOK
<1>3. TypeOK' BY <1>1, <1>2 DEF KrefPut, TypeOK, HubStates
<1>4. HubInv' BY <1>1, NoneAssumption DEF HubInv, TypeOK
<1>5. OpenInv' /\ NoIoWhenGone' BY <1>1 DEF OpenInv, NoIoWhenGone
<1>6. FreshInv' BY <1>1, <1>2 DEF KrefPut, FreshInv, TypeOK
<1>7. RefsCounted'
  BY <1>1, <1>2, FilesStay, CountsNatural, NoneAssumption DEF KrefPut, RefsCounted, TypeOK
<1>8. PmBalanced'
  BY <1>1, <1>2, FilesStay DEF KrefPut, PmBalanced, TypeOK
<1>. QED  BY <1>3, <1>4, <1>5, <1>6, <1>7, <1>8

\* A URB completes.
LEMMA CallbackInv ==
    ASSUME IInv, NEW c \in Conns, WriteBulkCallback(c)
    PROVE  IInv'
<1>. USE DEF IInv, Control
<1>1. UNCHANGED <<driver, hub, bound, eps, intfdata, minor, pm, mem, kref, interface,
                  io_mutex, open_lock, pc, dev>>
  BY DEF WriteBulkCallback, core, intf
<1>2. TypeOK' BY <1>1, UrbsAssumption DEF WriteBulkCallback, TypeOK
<1>3. HubInv' BY <1>1 DEF WriteBulkCallback, HubInv, TypeOK
<1>4. OpenInv' /\ FreshInv' /\ NoIoWhenGone' BY <1>1 DEF OpenInv, FreshInv, NoIoWhenGone
<1>5. RefsCounted' /\ PmBalanced'
  BY <1>1, FilesStay DEF RefsCounted, PmBalanced
<1>. QED  BY <1>2, <1>3, <1>4, <1>5

-----------------------------------------------------------------------------
(* The files.                                                               *)

\* Moving one file leaves the others where they are.
LEMMA Moves ==
    ASSUME TypeOK, NEW u \in Users, NEW label \in UserStates, Goto(u, label),
           dev' = dev \/ \E c : dev' = [dev EXCEPT ![u] = c]
    PROVE  /\ OthersStay(u)
           /\ pc'[u] = label
           /\ pc' \in [Users -> UserStates]
           /\ dev' = dev => dev'[u] = dev[u]
           /\ \A c : dev' = [dev EXCEPT ![u] = c] => dev'[u] = c
  BY DEF TypeOK, Goto, OthersStay

\* What the counts need of a step of u that changes neither kref nor what u
\* counts for.
LEMMA SameCounts ==
    ASSUME IInv, NEW u \in Users, OthersStay(u),
           UNCHANGED <<bound, kref, mem, pm, interface>>,
           \A c \in Conns : /\ u \in Holders(c)' <=> u \in Holders(c)
                            /\ u \in Openers(c)' <=> u \in Openers(c)
    PROVE  RefsCounted' /\ PmBalanced' /\ FreshInv'
<1>1. \A c \in Conns : /\ Cardinality(Holders(c)') = Cardinality(Holders(c))
                       /\ Cardinality(Openers(c)') = Cardinality(Openers(c))
  BY Counted DEF Bit
<1>. QED  BY <1>1 DEF IInv, Control, TypeOK, RefsCounted, PmBalanced, FreshInv

\* The parts of the invariant about khubd, when it does not move and no URB is
\* submitted.
LEMMA HubStays ==
    ASSUME IInv, UNCHANGED <<hub, bound, eps, intfdata, minor, urbs>>,
           \A v \in Users : dev'[v] = bound => dev[v] = bound \/ hub # "probe"
    PROVE  HubInv'
  BY DEF IInv, Control, HubInv

\* Open before it has found anything.
LEMMA OpenCallInv ==
    ASSUME IInv, NEW u \in Users, OpenCall(u) \/ OpenNoDevice(u)
    PROVE  IInv'
<1>. USE DEF IInv, Control
<1>1. PICK label \in {"idle", "open"} : Goto(u, label) /\ pc[u] \in {"idle", "open"}
  BY DEF OpenCall, OpenNoDevice
<1>2. UNCHANGED <<driver, hub, bound, eps, intfdata, minor, pm, mem, kref, interface,
                  io_mutex, urbs, open_lock, dev>>
  BY DEF OpenCall, OpenNoDevice, core, intf, skel
<1>3. /\ OthersStay(u) /\ pc'[u] = label /\ pc' \in [Users -> UserStates]
      /\ dev'[u] = dev[u]
  BY <1>1, <1>2, Moves DEF UserStates
<1>4. TypeOK' BY <1>2, <1>3 DEF TypeOK
<1>5. HubInv' BY <1>2, HubStays
<1>6. OpenInv' /\ NoIoWhenGone'
  BY <1>1, <1>2, <1>3 DEF OpenInv, NoIoWhenGone, OthersStay
<1>7. dev[u] = None BY <1>1 DEF OpenInv
<1>8. \A c \in Conns : u \notin Holders(c) /\ u \notin Openers(c)
  BY <1>7, NoneAssumption DEF Holders, Openers
<1>9. \A c \in Conns : u \notin Holders(c)' /\ u \notin Openers(c)'
  BY <1>2, <1>7, NoneAssumption DEF Holders, Openers
<1>. QED  BY <1>2, <1>3, <1>4, <1>5, <1>6, <1>8, <1>9, SameCounts

\* Open has found the usb_skel, under skel_open_lock.
LEMMA OpenFindInv ==
    ASSUME IInv, NEW u \in Users, OpenFind(u)
    PROVE  IInv'
<1>. USE DEF IInv, Control
<1>1. UNCHANGED <<driver, hub, bound, eps, intfdata, minor, pm, mem, kref, interface,
                  io_mutex, urbs>>
  BY DEF OpenFind, core, intf, skel
<1>2. /\ OthersStay(u) /\ pc'[u] = "get" /\ pc' \in [Users -> UserStates]
      /\ dev'[u] = minor
  BY Moves DEF OpenFind, UserStates
<1>3. minor = bound /\ bound \in Conns /\ hub \in {"bound", "flush", "detach"}
  BY DEF OpenFind, HubInv, TypeOK
<1>4. dev[u] = None BY DEF OpenFind, OpenInv
<1>5. TypeOK' BY <1>1, <1>2, <1>3 DEF OpenFind, TypeOK
<1>6. HubInv' BY <1>1, <1>3, HubStays
<1>7. OpenInv' BY <1>1, <1>2, <1>3, NoneAssumption DEF OpenFind, OpenInv, OthersStay
<1>8. NoIoWhenGone' BY <1>1, <1>2 DEF NoIoWhenGone, OthersStay
<1>9. \A c \in Conns : u \notin Holders(c) /\ u \notin Openers(c)
  BY <1>4, NoneAssumption DEF Holders, Openers
<1>10. \A c \in Conns : u \notin Holders(c)' /\ u \notin Openers(c)'
  BY <1>2 DEF Holders, Openers
<1>. QED  BY <1>1, <1>2, <1>5, <1>6, <1>7, <1>8, <1>9, <1>10, SameCounts

\* kref_get: one more reference, one more holder.
LEMMA OpenGetInv ==
    ASSUME IInv, NEW u \in Users, OpenGet(u)
    PROVE  IInv'
<1>. USE DEF IInv, Control
<1>1. UNCHANGED <<driver, hub, bound, eps, intfdata, minor, pm, mem, interface,
                  io_mutex, urbs, dev>>
  BY DEF OpenGet, GetCounting, core, intf
<1>2. /\ OthersStay(u) /\ pc'[u] = "pm" /\ pc' \in [Users -> UserStates]
      /\ pc[u] = "get" /\ dev'[u] = dev[u]
  BY <1>1, Moves DEF OpenGet, GetCounting, UserStates
<1>3. dev[u] = bound /\ bound \in Conns /\ mem[bound] = "live"
  BY <1>2, InHand DEF OpenInv, HubInv, TypeOK, NoUseAfterFree
<1>4. kref' = [kref EXCEPT ![bound] = @ + 1] /\ open_lock' = None
  BY <1>3 DEF OpenGet, GetCounting
<1>5. TypeOK' BY <1>1, <1>2, <1>3, <1>4 DEF TypeOK
<1>6. HubInv' BY <1>1, HubStays
<1>7. OpenInv' /\ FreshInv' /\ NoIoWhenGone'
  BY <1>1, <1>2, <1>3, NoneAssumption DEF OpenInv, FreshInv, NoIoWhenGone, OthersStay
<1>8. ASSUME NEW c \in Conns
      PROVE  /\ Cardinality(Holders(c)') = Cardinality(Holders(c)) + Bit(c = bound)
             /\ Cardinality(Openers(c)') = Cardinality(Openers(c))
  <2>1. /\ u \notin Holders(c) /\ u \notin Openers(c)
        /\ u \in Holders(c)' <=> c = bound
        /\ u \notin Openers(c)'
    BY <1>2, <1>3 DEF Holders, Openers
  <2>. QED  BY <1>2, <2>1, Counted DEF Bit
<1>9. RefsCounted'
  BY <1>1, <1>3, <1>4, <1>8, CountsNatural DEF RefsCounted, TypeOK, Bit
<1>10. PmBalanced'
  BY <1>1, <1>8 DEF PmBalanced, TypeOK
<1>. QED  BY <1>5, <1>6, <1>7, <1>9, <1>10

\* usb_autopm_get_interface and usb_autopm_put_interface: the usage count
\* follows the open files for as long as dev->interface is there.
LEMMA PmInv ==
    ASSUME IInv, NEW u \in Users, OpenPm(u) \/ ReleasePm(u)
    PROVE  IInv'
<1>. USE DEF IInv, Control
<1>1. UNCHANGED <<driver, hub, bound, eps, intfdata, minor, mem, kref, interface,
                  io_mutex, urbs, open_lock, dev>>
  BY DEF OpenPm, ReleasePm, ReleasePutting, core, skel
<1>2. PICK label \in {"ready", "put"} :
         /\ Goto(u, label)
         /\ label = "ready" => OpenPm(u)
         /\ label = "put" => ReleasePm(u)
  BY DEF OpenPm, ReleasePm, ReleasePutting
<1>3. /\ OthersStay(u) /\ pc'[u] = label /\ pc' \in [Users -> UserStates]
      /\ dev'[u] = dev[u] /\ pc[u] = IF label = "ready" THEN "pm" ELSE "ready"
  BY <1>1, <1>2, Moves DEF OpenPm, ReleasePm, ReleasePutting, UserStates
<1>4. dev[u] \in Conns /\ mem[dev[u]] = "live"
  BY <1>3, InHand DEF OpenInv, TypeOK, NoUseAfterFree
<1>5. ASSUME NEW c \in Conns
      PROVE  /\ Cardinality(Holders(c)') = Cardinality(Holders(c))
             /\ label = "ready" =>
                   Cardinality(Openers(c)') = Cardinality(Openers(c)) + Bit(c = dev[u])
             /\ label = "put" =>
                   Cardinality(Openers(c)) = Cardinality(Openers(c)') + Bit(c = dev[u])
  <2>1. /\ u \in Holders(c)' <=> u \in Holders(c)
        /\ u \in Openers(c) <=> c = dev[u] /\ label = "put"
        /\ u \in Openers(c)' <=> c = dev[u] /\ label = "ready"
    BY <1>3 DEF Holders, Openers
  <2>. QED  BY <1>3, <2>1, Counted DEF Bit
<1>6. /\ label = "ready" => pm' = [pm EXCEPT ![dev[u]] = @ + 1]
      /\ label = "put" =>
            pm' = IF dev[u] \in interface THEN [pm EXCEPT ![dev[u]] = @ - 1] ELSE pm
  BY <1>2 DEF OpenPm, ReleasePm, ReleasePutting
<1>7. label = "put" /\ dev[u] \in interface => pm[dev[u]] > 0
  <2>1. label = "put" => u \in Openers(dev[u]) BY <1>3 DEF Openers
  <2>. QED  BY <2>1, <1>4, Occupied DEF PmBalanced
<1>8. TypeOK' BY <1>1, <1>3, <1>4, <1>6, <1>7 DEF TypeOK
<1>9. HubInv' BY <1>1, HubStays
<1>10. OpenInv' /\ NoIoWhenGone'
  BY <1>1, <1>3 DEF OpenInv, NoIoWhenGone, OthersStay
<1>11. FreshInv' BY <1>1, <1>4, <1>6 DEF FreshInv, TypeOK
<1>12. RefsCounted'
  BY <1>1, <1>5 DEF RefsCounted
<1>13. PmBalanced'
  <2>. SUFFICES ASSUME NEW c \in interface
                PROVE  pm'[c] = Cardinality(Openers(c)')
    BY <1>1 DEF PmBalanced
  <2>1. c \in Conns BY DEF TypeOK
  <2>2. pm[c] = Cardinality(Openers(c)) BY DEF PmBalanced
  <2>3. Cardinality(Openers(c)') \in Nat BY <2>1, <1>3, Counted
  <2>. QED  BY <1>2, <1>4, <1>5, <1>6, <2>1, <2>2, <2>3, CountsNatural DEF Bit, TypeOK
<1>. QED  BY <1>8, <1>9, <1>10, <1>11, <1>12, <1>13

\* kref_put: one reference less, one holder less; the last one frees.
LEMMA PutInv ==
    ASSUME IInv, NEW u \in Users, OpenPmError(u) \/ ReleasePut(u)
    PROVE  IInv'
<1>. USE DEF IInv, Control
<1>1. /\ UNCHANGED <<driver, hub, bound, eps, intfdata, minor, pm, interface,
                     io_mutex, urbs, open_lock>>
      /\ KrefPut(dev[u]) /\ pc[u] \in {"pm", "put"}
      /\ Goto(u, "idle") /\ dev' = [dev EXCEPT ![u] = None]
  BY DEF OpenPmError, ReleasePut, Leave, core, intf
<1>2. /\ OthersStay(u) /\ pc'[u] = "idle" /\ pc' \in [Users -> UserStates]
      /\ dev'[u] = None
  BY <1>1, Moves DEF UserStates
<1>3. dev[u] \in Conns /\ mem[dev[u]] = "live"
  BY <1>1, InHand DEF OpenInv, TypeOK, NoUseAfterFree
<1>4. kref[dev[u]] > 0 BY <1>3 DEF RefsCounted
<1>5. ASSUME NEW c \in Conns
      PROVE  /\ Cardinality(Holders(c)) = Cardinality(Holders(c)') + Bit(c = dev[u])
             /\ Cardinality(Holders(c)') \in Nat
             /\ Cardinality(Openers(c)') = Cardinality(Openers(c))
  <2>1. /\ u \in Holders(c) <=> c = dev[u]
        /\ u \notin Openers(c)
        /\ u \notin Holders(c)' /\ u \notin Openers(c)'
    BY <1>1, <1>2, NoneAssumption DEF Holders, Openers
  <2>. QED  BY <1>2, <2>1, Counted DEF Bit
<1>6. TypeOK'
  <2>1. kref' \in [Conns -> Nat] BY <1>1, <1>3, <1>4 DEF KrefPut, TypeOK
  <2>2. mem' \in [Conns -> {"none", "live", "freed"}] BY <1>1, <1>3 DEF KrefPut, TypeOK
  <2>3. dev' \in [Users -> Conns \union {None}] BY <1>1 DEF TypeOK
  <2>. QED  BY <1>1, <1>2, <2>1, <2>2, <2>3 DEF TypeOK
<1>7. HubInv'
  BY <1>1, <1>2, HubStays DEF OthersStay, HubInv
<1>8. OpenInv' /\ NoIoWhenGone'
  BY <1>1, <1>2 DEF OpenInv, NoIoWhenGone, OthersStay
<1>9. FreshInv' BY <1>1, <1>3 DEF KrefPut, FreshInv, TypeOK
<1>10. RefsCounted'
  BY <1>1, <1>3, <1>4, <1>5, CountsNatural DEF KrefPut, RefsCounted, TypeOK, Bit
<1>11. PmBalanced'
  BY <1>1, <1>3, <1>5 DEF KrefPut, PmBalanced, TypeOK
<1>. QED  BY <1>6, <1>7, <1>8, <1>9, <1>10, <1>11

\* The steps of read and write that change nothing but io_mutex: it is free
\* when it is taken, and only its holder gives it back.
LEMMA IoInv ==
    ASSUME IInv, NEW u \in Users,
           \/ ReadBulk(u) \/ ReadDone(u) \/ WriteStart(u) \/ WriteInterrupted(u)
           \/ WriteDown(u) \/ WriteAlloc(u) \/ WriteNoDevice(u) \/ WriteLock(u)
           \/ WriteSubmitError(u) \/ WriteError(u)
    PROVE  IInv'
<1>. USE DEF IInv, Control
<1>. DEFINE Io == {"ready", "bulk", "down", "alloc", "lock", "submit", "up"}
<1>1. UNCHANGED <<driver, hub, bound, eps, intfdata, minor, pm, mem, kref, interface,
                  urbs, open_lock, dev>>
  BY DEF ReadBulk, ReadDone, DoneUnlocking, WriteStart, WriteInterrupted, WriteAlloc,
         WriteNoDevice, WriteLock, WriteSubmitError, WriteDown, WriteError, core, intf, skel
<1>2. PICK label \in Io : Goto(u, label) /\ pc[u] \in Io
  BY DEF ReadBulk, ReadDone, DoneUnlocking, WriteStart, WriteInterrupted, WriteAlloc,
         WriteNoDevice, WriteLock, WriteSubmitError, WriteDown, WriteError
<1>3. /\ OthersStay(u) /\ pc'[u] = label /\ pc' \in [Users -> UserStates]
      /\ dev'[u] = dev[u]
  BY <1>1, <1>2, Moves DEF UserStates
<1>4. dev[u] \in Conns BY <1>2 DEF OpenInv, TypeOK
<1>5. \/ /\ pc'[u] \notin {"bulk", "submit"}
         /\ io_mutex' = io_mutex
      \/ /\ pc'[u] \in {"bulk", "submit"}
         /\ io_mutex[dev[u]] = None /\ dev[u] \in interface
         /\ io_mutex' = [io_mutex EXCEPT ![dev[u]] = u]
      \/ /\ pc[u] \in {"bulk", "submit"} /\ pc'[u] \notin {"bulk", "submit"}
         /\ io_mutex' = [io_mutex EXCEPT ![dev[u]] = None]
  BY DEF ReadBulk, ReadDone, DoneUnlocking, WriteStart, WriteInterrupted, WriteAlloc,
         WriteNoDevice, WriteLock, WriteSubmitError, WriteDown, WriteError, Goto, skel, TypeOK
<1>6. TypeOK' BY <1>1, <1>3, <1>4, <1>5 DEF TypeOK
<1>7. HubInv' BY <1>1, HubStays
<1>8. OpenInv'
  BY <1>1, <1>2, <1>3 DEF OpenInv, OthersStay
<1>9. NoIoWhenGone'
  <2>. SUFFICES ASSUME NEW v \in Users, pc'[v] \in {"bulk", "submit"}
                PROVE  dev[v] \in interface /\ io_mutex'[dev[v]] = v
    BY <1>1 DEF NoIoWhenGone
  <2>1. CASE v = u BY <1>4, <1>5, <2>1 DEF TypeOK
  <2>2. CASE v # u
    <3>1. dev[v] \in interface /\ io_mutex[dev[v]] = v
      BY <1>3, <2>2 DEF OthersStay, NoIoWhenGone
    <3>2. pc[u] \in {"bulk", "submit"} => io_mutex[dev[u]] = u BY DEF NoIoWhenGone
    <3>3. v # None BY NoneAssumption
    <3>. QED  BY <1>4, <1>5, <2>2, <3>1, <3>2, <3>3 DEF TypeOK
  <2>. QED  BY <2>1, <2>2
<1>10. \A c \in Conns : /\ u \in Holders(c)' <=> u \in Holders(c)
                        /\ u \in Openers(c)' <=> u \in Openers(c)
  BY <1>2, <1>3 DEF Holders, Openers
<1>. QED  BY <1>1, <1>3, <1>6, <1>7, <1>8, <1>9, <1>10, SameCounts

\* A URB is submitted, to an enabled endpoint and under io_mutex.
LEMMA SubmitInv ==
    ASSUME IInv, NEW u \in Users, WriteSubmit(u)
    PROVE  IInv'
<1>. USE DEF IInv, Control
<1>1. UNCHANGED <<driver, hub, bound, eps, intfdata, minor, pm, mem, kref, interface,
                  open_lock, dev>>
  BY DEF WriteSubmit, core, intf
<1>2. /\ OthersStay(u) /\ pc[u] = "submit" /\ pc'[u] = "ready"
      /\ pc' \in [Users -> UserStates] /\ dev'[u] = dev[u]
  BY <1>1, Moves DEF WriteSubmit, UserStates
<1>3. /\ dev[u] \in Conns /\ bound = dev[u] /\ hub \in {"probe", "bound"}
      /\ io_mutex[dev[u]] = u
  BY <1>2 DEF WriteSubmit, HubInv, OpenInv, NoIoWhenGone, TypeOK
<1>4. TypeOK' BY <1>1, <1>2, <1>3, UrbsAssumption DEF WriteSubmit, TypeOK
<1>5. HubInv' BY <1>1, <1>3 DEF WriteSubmit, HubInv, TypeOK
<1>6. OpenInv' BY <1>1, <1>2 DEF OpenInv, OthersStay
<1>7. NoIoWhenGone'
  <2>. SUFFICES ASSUME NEW v \in Users, pc'[v] \in {"bulk", "submit"}
                PROVE  dev[v] \in interface /\ io_mutex'[dev[v]] = v
    BY <1>1 DEF NoIoWhenGone
  <2>1. v # u BY <1>2
  <2>2. dev[v] \in interface /\ io_mutex[dev[v]] = v
    BY <1>2, <2>1 DEF OthersStay, NoIoWhenGone
  <2>. QED  BY <1>3, <2>1, <2>2 DEF WriteSubmit, TypeOK
<1>8. \A c \in Conns : /\ u \in Holders(c)' <=> u \in Holders(c)
                       /\ u \in Openers(c)' <=> u \in Openers(c)
  BY <1>2 DEF Holders, Openers
<1>. QED  BY <1>1, <1>2, <1>4, <1>5, <1>6, <1>7, <1>8, SameCounts

-----------------------------------------------------------------------------

\* Every step keeps the invariant.
LEMMA NextInv == IInv /\ [Next]_vars => IInv'
<1>. SUFFICES ASSUME IInv, [Next]_vars PROVE IInv'
  OBVIOUS
<1>1. CASE UsbSkelInit \/ UsbSkelExit \/ UsbSkelGone \/ UNCHANGED vars
  BY <1>1, ModuleInv
<1>2. ASSUME NEW c \in Conns, ProbeAlloc(c) \/ WriteBulkCallback(c) PROVE IInv'
  BY <1>2, ProbeAllocInv, CallbackInv
<1>3. CASE ProbeStep \/ UnbindDisable \/ UnbindStep
  BY <1>3, HubInvKept, HubPutInv DEF ProbeStep, UnbindStep
<1>4. ASSUME NEW u \in Users, OpenCall(u) \/ OpenStep(u) PROVE IInv'
  BY <1>4, OpenCallInv, OpenFindInv, OpenGetInv, PmInv, PutInv DEF OpenStep
<1>5. ASSUME NEW u \in Users, ReleasePm(u) \/ ReleasePut(u) PROVE IInv'
  BY <1>5, PmInv, PutInv
<1>6. ASSUME NEW u \in Users,
             \/ ReadNoDevice(u) \/ ReadBulk(u) \/ ReadDone(u)
             \/ WriteStart(u) \/ WriteStep(u)
      PROVE  IInv'
  BY <1>6, ModuleInv, IoInv, SubmitInv DEF ReadNoDevice, WriteStep
<1>. QED  BY <1>1, <1>2, <1>3, <1>4, <1>5, <1>6 DEF Next

\* The inductive invariant: where khubd and each file are decides who holds a
\* reference and a use of the interface.
THEOREM Inductive == Spec => []IInv
  BY InitInv, NextInv, PTL DEF Spec

\* Every variable keeps its type: no count of usb-skeleton_ym.c goes below 0.
THEOREM TypeCorrect == Spec => []TypeOK
<1>1. IInv => TypeOK BY DEF IInv, Control
<1>. QED  BY <1>1, Inductive, PTL

\* dev->kref is the number of those who can still reach the usb_skel: probe's
\* reference and one for every file past kref_get in skel_open.
THEOREM ReferencesCounted == Spec => []RefsCounted
<1>1. IInv => RefsCounted BY DEF IInv
<1>. QED  BY <1>1, Inductive, PTL

\* No file operation, no disconnect and no completion handler reaches a
\* usb_skel that skel_delete has freed, whatever the order of unplugging,
\* opens, closes and URBs.
THEOREM NeverUsedAfterFree == Spec => []NoUseAfterFree
  BY InHand, Inductive, PTL

\* The pm usage count that skel_open takes is given back exactly once, by
\* skel_release and only while the interface is there.
THEOREM PmGivenBack == Spec => []PmBalanced
<1>1. IInv => PmBalanced BY DEF IInv
<1>. QED  BY <1>1, Inductive, PTL

\* skel_read and skel_write talk to the device only under io_mutex and before
\* skel_disconnect has cleared dev->interface.
THEOREM NoIoAfterDisconnect == Spec => []NoIoWhenGone
<1>1. IInv => NoIoWhenGone BY DEF IInv, Control
<1>. QED  BY <1>1, Inductive, PTL

=============================================================================
