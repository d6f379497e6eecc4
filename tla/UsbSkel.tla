-------------------------------- MODULE UsbSkel --------------------------------
(***************************************************************************)
(* The USB skeleton driver src/ex_source/usb-skeleton_ym.c: the life of    *)
(* struct usb_skel between probe, disconnect, the files that use it and    *)
(* the URBs in flight.                                                     *)
(*                                                                         *)
(* A connection stands for one usb_interface and the usb_skel that probe   *)
(* allocates for it.  One connection is present at a time; files of an     *)
(* earlier one may still be open.  A user is an open file description with *)
(* the thread that works on it: threads that share a file contend for the  *)
(* same locks of the same usb_skel as threads with a file each.            *)
(*                                                                         *)
(* limit_sem is declared as a pointer and used as &dev->limit_sem: the     *)
(* semaphore lies over the fields behind it, bulk_in_buffer, bulk_in_size  *)
(* and the endpoint addresses (not over kref and io_mutex).  Nothing is    *)
(* assumed of those fields: down may pass or block whatever was taken and  *)
(* given back, a transfer may end in any way, and no property here rests   *)
(* on the limit.                                                           *)
(***************************************************************************)
EXTENDS Integers, FiniteSets

CONSTANTS
    Conns,          \* the connections, each used once
    Users,          \* the files
    MaxUrbs,        \* URBs the host controller accepts: the bound of the model
    None

ASSUME UrbsAssumption == MaxUrbs \in Nat \ {0}
ASSUME NoneAssumption == None \notin Conns \union Users
ASSUME UsersAssumption == IsFiniteSet(Users)

VARIABLES
    driver,     \* the module: "out", "in", or "going" while it is removed
    hub,        \* where khubd (or rmmod) is in probe or disconnect
    bound,      \* the connection whose interface the driver is bound to
    eps,        \* the connections whose endpoints are enabled
    intfdata,   \* the interfaces whose intfdata points to their usb_skel
    minor,      \* the connection that has the minor number
    pm,         \* pm[c]: the pm usage count of the interface
    mem,        \* mem[c]: the usb_skel is "none", "live" or "freed"
    kref,       \* kref[c]: dev->kref
    interface,  \* the usb_skels whose dev->interface is not NULL
    io_mutex,   \* io_mutex[c]: the user that holds dev->io_mutex
    urbs,       \* urbs[c]: write URBs in flight
    open_lock,  \* the user that holds skel_open_lock
    pc,         \* pc[u]: where u is in a file operation
    dev         \* dev[u]: the usb_skel u works on, at last its private_data

core == <<driver, hub, bound, eps>>
intf == <<intfdata, minor, pm>>
skel == <<mem, kref, interface, io_mutex, urbs>>
vars == <<core, intf, skel, open_lock, pc, dev>>

UserStates ==
    {"idle", "open", "get", "pm", "ready", "bulk", "down", "alloc", "lock", "submit",
     "up", "put"}
HubStates == {"idle", "probe", "bound", "flush", "detach", "stop", "put"}

TypeOK ==
    /\ driver \in {"out", "in", "going"}
    /\ hub \in HubStates
    /\ bound \in Conns \union {None}
    /\ eps \subseteq Conns
    /\ intfdata \subseteq Conns
    /\ minor \in Conns \union {None}
    /\ pm \in [Conns -> Nat]
    /\ mem \in [Conns -> {"none", "live", "freed"}]
    /\ kref \in [Conns -> Nat]
    /\ interface \subseteq Conns
    /\ io_mutex \in [Conns -> Users \union {None}]
    /\ urbs \in [Conns -> 0..MaxUrbs]
    /\ open_lock \in Users \union {None}
    /\ pc \in [Users -> UserStates]
    /\ dev \in [Users -> Conns \union {None}]

Init ==
    /\ driver = "out"
    /\ hub = "idle"
    /\ bound = None
    /\ eps = {}
    /\ intfdata = {}
    /\ minor = None
    /\ pm = [c \in Conns |-> 0]
    /\ mem = [c \in Conns |-> "none"]
    /\ kref = [c \in Conns |-> 0]
    /\ interface = {}
    /\ io_mutex = [c \in Conns |-> None]
    /\ urbs = [c \in Conns |-> 0]
    /\ open_lock = None
    /\ pc = [u \in Users |-> "idle"]
    /\ dev = [u \in Users |-> None]

Goto(u, label) == pc' = [pc EXCEPT ![u] = label]
Leave(u) == Goto(u, "idle") /\ dev' = [dev EXCEPT ![u] = None]

\* kref_put(&dev->kref, skel_delete)
KrefPut(c) ==
    /\ kref' = [kref EXCEPT ![c] = @ - 1]
    /\ mem' = [mem EXCEPT ![c] = IF kref[c] = 1 THEN "freed" ELSE @]

-----------------------------------------------------------------------------
(* usb_skel_init, usb_skel_exit.                                            *)

UsbSkelInit ==
    /\ driver = "out"
    /\ driver' = "in"
    /\ UNCHANGED <<hub, bound, eps, intf, skel, open_lock, pc, dev>>

\* skel_fops.owner keeps the module while a file is open.  usb_deregister
\* unbinds the driver, which runs disconnect, ...
UsbSkelExit ==
    /\ driver = "in"
    /\ \A u \in Users : pc[u] = "idle"
    /\ driver' = "going"
    /\ UNCHANGED <<hub, bound, eps, intf, skel, open_lock, pc, dev>>

\* ... and returns when no interface is bound any more.
UsbSkelGone ==
    /\ driver = "going"
    /\ hub = "idle"
    /\ driver' = "out"
    /\ UNCHANGED <<hub, bound, eps, intf, skel, open_lock, pc, dev>>

-----------------------------------------------------------------------------
(* skel_probe, called by khubd for a new interface.                         *)

\* Allocate and initialise the usb_skel.
ProbeAlloc(c) ==
    /\ driver = "in"
    /\ hub = "idle"
    /\ mem[c] = "none"
    /\ hub' = "probe"
    /\ bound' = c
    /\ eps' = eps \union {c}
    /\ mem' = [mem EXCEPT ![c] = "live"]
    /\ kref' = [kref EXCEPT ![c] = 1]
    /\ interface' = interface \union {c}
    /\ UNCHANGED <<driver, intf, io_mutex, urbs, open_lock, pc, dev>>

\* Both endpoints found, the minor is registered: open can find the device.
ProbeRegister ==
    /\ hub = "probe"
    /\ hub' = "bound"
    /\ intfdata' = intfdata \union {bound}
    /\ minor' = bound
    /\ UNCHANGED <<driver, bound, eps, pm, skel, open_lock, pc, dev>>

\* No buffer, no endpoints or no minor: intfdata is NULL (again), the usb_skel
\* is given up and the interface stays unbound.
ProbeError ==
    /\ hub = "probe"
    /\ hub' = "idle"
    /\ bound' = None
    /\ eps' = eps \ {bound}
    /\ KrefPut(bound)
    /\ UNCHANGED <<driver, intf, interface, io_mutex, urbs, open_lock, pc, dev>>

-----------------------------------------------------------------------------
(* Unplugging, or rmmod: usb_unbind_interface and skel_disconnect.          *)

\* The USB core disables the endpoints, ...
UnbindDisable ==
    /\ hub = "bound"
    /\ hub' = "flush"
    /\ eps' = eps \ {bound}
    /\ UNCHANGED <<driver, bound, intf, skel, open_lock, pc, dev>>

\* ... waits for the URBs it has killed, and calls skel_disconnect.
UnbindFlush ==
    /\ hub = "flush"
    /\ urbs[bound] = 0
    /\ hub' = "detach"
    /\ UNCHANGED <<driver, bound, eps, intf, skel, open_lock, pc, dev>>

\* Under skel_open_lock: no open finds the device from here on.
DetachLocked(free) ==
    /\ hub = "detach"
    /\ free
    /\ hub' = "stop"
    /\ intfdata' = intfdata \ {bound}
    /\ minor' = None
    /\ UNCHANGED <<driver, bound, eps, pm, skel, open_lock, pc, dev>>
DetachUnlocked == DetachLocked(TRUE)        \* mutant: without skel_open_lock
DisconnectDetach == DetachLocked(open_lock = None)

\* Under dev->io_mutex: no more I/O starts.
StopLocked(free) ==
    /\ hub = "stop"
    /\ free
    /\ hub' = "put"
    /\ interface' = interface \ {bound}
    /\ UNCHANGED <<driver, bound, eps, intf, mem, kref, io_mutex, urbs,
                   open_lock, pc, dev>>
StopUnlocked == StopLocked(TRUE)            \* mutant: without dev->io_mutex
DisconnectStop == StopLocked(io_mutex[bound] = None)

\* Give up probe's reference; the core marks the interface unbound.
DisconnectPut ==
    /\ hub = "put"
    /\ hub' = "idle"
    /\ bound' = None
    /\ KrefPut(bound)
    /\ UNCHANGED <<driver, eps, intf, interface, io_mutex, urbs, open_lock,
                   pc, dev>>

-----------------------------------------------------------------------------
(* skel_open.                                                               *)

\* The USB core found the minor and pins the module.
OpenCall(u) ==
    /\ driver = "in"
    /\ minor # None
    /\ pc[u] = "idle"
    /\ Goto(u, "open")
    /\ UNCHANGED <<core, intf, skel, open_lock, dev>>

\* Take skel_open_lock and look the interface up: nothing there, ...
OpenNoDevice(u) ==
    /\ pc[u] = "open"
    /\ open_lock = None
    /\ minor = None \/ minor \notin intfdata
    /\ Goto(u, "idle")
    /\ UNCHANGED <<core, intf, skel, open_lock, dev>>

\* ... or its usb_skel.
OpenFind(u) ==
    /\ pc[u] = "open"
    /\ open_lock = None
    /\ minor # None
    /\ minor \in intfdata
    /\ open_lock' = u
    /\ dev' = [dev EXCEPT ![u] = minor]
    /\ Goto(u, "get")
    /\ UNCHANGED <<core, intf, skel>>

\* kref_get and unlock.
GetCounting(u, n) ==
    /\ pc[u] = "get"
    /\ kref' = [kref EXCEPT ![dev[u]] = @ + n]
    /\ open_lock' = None
    /\ Goto(u, "pm")
    /\ UNCHANGED <<core, intf, mem, interface, io_mutex, urbs, dev>>
OpenUncounted(u) == GetCounting(u, 0)       \* mutant: no kref_get
OpenGet(u) == GetCounting(u, 1)

\* usb_autopm_get_interface succeeds on an interface that is bound, ...
OpenPm(u) ==
    /\ pc[u] = "pm"
    /\ bound = dev[u]
    /\ pm' = [pm EXCEPT ![dev[u]] = @ + 1]
    /\ Goto(u, "ready")
    /\ UNCHANGED <<core, intfdata, minor, skel, open_lock, dev>>

\* ... and fails on one that is not, or when the device does not resume.
OpenPmError(u) ==
    /\ pc[u] = "pm"
    /\ KrefPut(dev[u])
    /\ Leave(u)
    /\ UNCHANGED <<core, intf, interface, io_mutex, urbs, open_lock>>

-----------------------------------------------------------------------------
(* skel_release.                                                            *)

\* Under io_mutex, which nobody else wants for long.
ReleasePutting(u, n) ==
    /\ pc[u] = "ready"
    /\ io_mutex[dev[u]] = None
    /\ pm' = IF dev[u] \in interface THEN [pm EXCEPT ![dev[u]] = @ - n] ELSE pm
    /\ Goto(u, "put")
    /\ UNCHANGED <<core, intfdata, minor, skel, open_lock, dev>>
ReleaseKeepsPm(u) == ReleasePutting(u, 0)   \* mutant: no usb_autopm_put_interface
ReleasePm(u) == ReleasePutting(u, 1)

ReleasePut(u) ==
    /\ pc[u] = "put"
    /\ KrefPut(dev[u])
    /\ Leave(u)
    /\ UNCHANGED <<core, intf, interface, io_mutex, urbs, open_lock>>

-----------------------------------------------------------------------------
(* skel_read.                                                               *)

\* Disconnected: -ENODEV, with io_mutex taken and released.
ReadNoDevice(u) ==
    /\ pc[u] = "ready"
    /\ io_mutex[dev[u]] = None
    /\ dev[u] \notin interface
    /\ UNCHANGED vars

\* usb_bulk_msg with io_mutex held, for at most ten seconds.
ReadBulk(u) ==
    /\ pc[u] = "ready"
    /\ io_mutex[dev[u]] = None
    /\ dev[u] \in interface
    /\ io_mutex' = [io_mutex EXCEPT ![dev[u]] = u]
    /\ Goto(u, "bulk")
    /\ UNCHANGED <<core, intf, mem, kref, interface, urbs, open_lock, dev>>

\* It returned data, an error or a timeout; the data was copied, or not.
DoneUnlocking(u, holder) ==
    /\ pc[u] = "bulk"
    /\ io_mutex' = [io_mutex EXCEPT ![dev[u]] = holder]
    /\ Goto(u, "ready")
    /\ UNCHANGED <<core, intf, mem, kref, interface, urbs, open_lock, dev>>
ReadDoneKeeps(u) ==             \* mutant: the error path keeps io_mutex
    \E holder \in {u, None} : DoneUnlocking(u, holder)
ReadDone(u) == DoneUnlocking(u, None)

-----------------------------------------------------------------------------
(* skel_write.                                                              *)

\* A write of no bytes returns at once; any other calls down_interruptible.
WriteStart(u) ==
    /\ pc[u] = "ready"
    /\ Goto(u, "down")
    /\ UNCHANGED <<core, intf, skel, open_lock, dev>>

WriteDown(u) ==
    /\ pc[u] = "down"
    /\ Goto(u, "alloc")
    /\ UNCHANGED <<core, intf, skel, open_lock, dev>>

\* down_interruptible was interrupted: -ERESTARTSYS.
WriteInterrupted(u) ==
    /\ pc[u] = "down"
    /\ Goto(u, "ready")
    /\ UNCHANGED <<core, intf, skel, open_lock, dev>>

\* The URB, its buffer and the user's data; what fails goes to "error".
WriteAlloc(u) ==
    /\ pc[u] = "alloc"
    /\ \E label \in {"lock", "up"} : Goto(u, label)
    /\ UNCHANGED <<core, intf, skel, open_lock, dev>>

\* Under io_mutex: give up if disconnect was called, ...
WriteNoDevice(u) ==
    /\ pc[u] = "lock"
    /\ io_mutex[dev[u]] = None
    /\ dev[u] \notin interface
    /\ Goto(u, "up")
    /\ UNCHANGED <<core, intf, skel, open_lock, dev>>

\* ... or go on to submit.
WriteLock(u) ==
    /\ pc[u] = "lock"
    /\ io_mutex[dev[u]] = None
    /\ dev[u] \in interface
    /\ io_mutex' = [io_mutex EXCEPT ![dev[u]] = u]
    /\ Goto(u, "submit")
    /\ UNCHANGED <<core, intf, mem, kref, interface, urbs, open_lock, dev>>

\* usb_submit_urb accepts the URB if the endpoint is enabled ...
WriteSubmit(u) ==
    /\ pc[u] = "submit"
    /\ dev[u] \in eps
    /\ urbs[dev[u]] < MaxUrbs
    /\ urbs' = [urbs EXCEPT ![dev[u]] = @ + 1]
    /\ io_mutex' = [io_mutex EXCEPT ![dev[u]] = None]
    /\ Goto(u, "ready")
    /\ UNCHANGED <<core, intf, mem, kref, interface, open_lock, dev>>

\* ... or fails.
WriteSubmitError(u) ==
    /\ pc[u] = "submit"
    /\ io_mutex' = [io_mutex EXCEPT ![dev[u]] = None]
    /\ Goto(u, "up")
    /\ UNCHANGED <<core, intf, mem, kref, interface, urbs, open_lock, dev>>

\* The label "error": the buffer and the URB are freed, and up.
WriteError(u) ==
    /\ pc[u] = "up"
    /\ Goto(u, "ready")
    /\ UNCHANGED <<core, intf, skel, open_lock, dev>>

\* skel_write_bulk_callback: the URB completed, or was killed.
WriteBulkCallback(c) ==
    /\ urbs[c] > 0
    /\ urbs' = [urbs EXCEPT ![c] = @ - 1]
    /\ UNCHANGED <<core, intf, mem, kref, interface, io_mutex, open_lock, pc, dev>>

-----------------------------------------------------------------------------

ProbeStep == ProbeRegister \/ ProbeError
UnbindStep == UnbindFlush \/ DisconnectDetach \/ DisconnectStop \/ DisconnectPut
OpenStep(u) ==
    OpenNoDevice(u) \/ OpenFind(u) \/ OpenGet(u) \/ OpenPm(u) \/ OpenPmError(u)
WriteStep(u) ==
    \/ WriteDown(u) \/ WriteInterrupted(u) \/ WriteAlloc(u) \/ WriteNoDevice(u)
    \/ WriteLock(u) \/ WriteSubmit(u) \/ WriteSubmitError(u) \/ WriteError(u)

Next ==
    \/ UsbSkelInit \/ UsbSkelExit \/ UsbSkelGone
    \/ \E c \in Conns : ProbeAlloc(c) \/ WriteBulkCallback(c)
    \/ ProbeStep \/ UnbindDisable \/ UnbindStep
    \/ \E u \in Users :
          \/ OpenCall(u) \/ OpenStep(u)
          \/ ReleasePm(u) \/ ReleasePut(u)
          \/ ReadNoDevice(u) \/ ReadBulk(u) \/ ReadDone(u)
          \/ WriteStart(u) \/ WriteStep(u)

\* khubd runs, a killed URB is given back, usb_bulk_msg times out, and a thread
\* inside a call goes on when it can.  A mutex is granted to a waiter that is
\* passed over again and again (strong fairness of DisconnectStop and of
\* DisconnectDetach): mutex_lock queues its waiters in order.
Fairness ==
    /\ WF_vars(UnbindFlush)
    /\ SF_vars(DisconnectDetach)
    /\ SF_vars(DisconnectStop)
    /\ WF_vars(DisconnectPut)
    /\ \A c \in Conns : WF_vars(c \notin eps /\ WriteBulkCallback(c))
    /\ \A u \in Users :
          /\ WF_vars(OpenStep(u))
          /\ WF_vars(ReadDone(u))
          /\ WF_vars(WriteSubmit(u) \/ WriteSubmitError(u))

Spec == Init /\ [][Next]_vars /\ Fairness

-----------------------------------------------------------------------------
(* Properties.                                                              *)

\* The users that hold a reference to the usb_skel of c; those among them whose
\* file counts for the pm usage of c.
Holders(c) == {u \in Users : dev[u] = c /\ pc[u] # "get"}
Openers(c) == {u \in Users : dev[u] = c /\ pc[u] \notin {"get", "pm", "put"}}

\* Every reference is counted: probe's until disconnect gives it up, and one
\* for each file past kref_get.  The usb_skel is freed with the last.
RefsCounted ==
    \A c \in Conns :
        /\ kref[c] = Cardinality(Holders(c)) + (IF bound = c THEN 1 ELSE 0)
        /\ mem[c] = "live" <=> kref[c] > 0

\* Nobody has a freed usb_skel in hand: no file operation, no disconnect and
\* no URB whose completion handler will call up(&dev->limit_sem).
NoUseAfterFree ==
    /\ \A u \in Users : dev[u] # None => mem[dev[u]] = "live"
    /\ bound # None => mem[bound] = "live"
    /\ \A c \in Conns : urbs[c] > 0 => mem[c] = "live"

\* "this lock makes sure we don't submit URBs to gone device" (line 199): for
\* as long as a read or a write talks to the device, disconnect has not
\* cleared dev->interface, and nobody else does.
NoIoWhenGone ==
    \A u \in Users : pc[u] \in {"bulk", "submit"} =>
        dev[u] \in interface /\ io_mutex[dev[u]] = u

\* What open takes release gives back, once: the interface's usage count is the
\* number of its open files for as long as release still decrements it.  The
\* device is neither kept from suspending for ever nor suspended under a file.
PmBalanced == \A c \in interface : pm[c] = Cardinality(Openers(c))

\* Open uses the interface it looked up only while the driver is bound to it:
\* skel_open_lock is there to "prevent skel_open() from racing
\* skel_disconnect()" (line 328).
OpenSeesInterface ==
    \A u \in Users : pc[u] \in {"get", "pm"} => bound = dev[u]

\* Unplugging ends: khubd is not blocked by readers, writers or openers.
UnbindEnds == hub = "flush" ~> hub = "idle"

=============================================================================
