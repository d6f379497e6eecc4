-------------------------------- MODULE Bringup --------------------------------
(***************************************************************************)
(* How the drivers come up and go down.  An init or probe function takes   *)
(* its resources one by one; some drivers look at a refusal and jump to a  *)
(* label that gives back what was taken, others go on as if nothing had    *)
(* happened.  From the moment something is registered, programs and the    *)
(* kernel call the driver, which may still be in its init function, or     *)
(* already in its exit function.                                           *)
(* The functions of each driver are the scripts of DriverTables.           *)
(***************************************************************************)
EXTENDS Naturals, Sequences

CONSTANTS
    Driver,     \* Driver[d]: the scripts of driver d and what it serves
    MaxFiles    \* a bound on the open files

ASSUME MaxFilesAssumption == MaxFiles \in Nat

Drivers == DOMAIN Driver
Functions == {"init", "undo", "exit"}

-----------------------------------------------------------------------------
(* The statements of a script.                                              *)

\* Where a refusal leads: a position in the undo script, or one of these.
Ignored == 0        \* the result is not looked at
Statement(op, what, to, puts) == [op |-> op, what |-> what, to |-> to, puts |-> puts]
\* Take r, or jump to a label; before the jump some drivers release S.
Get(r, label) == Statement("get", {r}, label, {})
GetOr(r, S, label) == Statement("get", {r}, label, S)
Check(label) == Statement("get", {}, label, {})
\* Take r and do not look whether it was refused.
Want(r) == Statement("get", {r}, Ignored, {})
\* A call that cannot be refused.
Add(r) == Statement("add", {r}, Ignored, {})
\* Read or write through pointers to S.
Touch(S) == Statement("touch", S, Ignored, {})
\* Release r through its pointer, or all of S in one call; with Free, a NULL
\* pointer does no harm.
PutAll(S) == Statement("put", S, Ignored, {})
Put(r) == PutAll({r})
Free(r) == Statement("free", {r}, Ignored, {})

\* What a script can have taken before its statement n, and what it releases
\* from its statement n on.
Takes(script, n) ==
    UNION {script[k].what : k \in {i \in DOMAIN script : i < n /\ script[i].op \in {"get", "add"}}}
Gives(script, n) ==
    UNION {script[k].what : k \in {i \in DOMAIN script : i >= n /\ script[i].op \in {"put", "free"}}}
Resources(d) == Takes(Driver[d].init, Len(Driver[d].init) + 1)

\* What a script follows pointers to from its statement n on.
Uses(script, n) ==
    UNION {script[k].what : k \in {i \in DOMAIN script : i >= n /\ script[i].op \in {"put", "touch"}}}
Releases(s) == s.op \in {"put", "free"}
AllNeeds(d) == UNION {e.needs : e \in Driver[d].serves}

\* Init functions take and the others release, nothing but the driver's resources
\* is used, every label releases what was taken before the jump, and the exit
\* function all but what it forgets.
Balanced ==
    \A d \in Drivers :
        /\ \A f \in Functions :
              /\ Len(Driver[d][f]) \in Nat
              /\ DOMAIN Driver[d][f] = 1 .. Len(Driver[d][f])
              /\ \A k \in DOMAIN Driver[d][f] :
                    Driver[d][f][k].op \in
                        {"touch"} \union (IF f = "init" THEN {"get", "add"} ELSE {"put", "free"})
              /\ Uses(Driver[d][f], 1) \subseteq Resources(d)
        /\ AllNeeds(d) \subseteq Resources(d)
        /\ \A k \in DOMAIN Driver[d].init :
              LET s == Driver[d].init[k]
              IN  /\ s.to \in Nat
                  /\ s.to # Ignored =>
                        Takes(Driver[d].init, k) \subseteq s.puts \union Gives(Driver[d].undo, s.to)
        /\ Driver[d].unloads \/ Driver[d].bus =>
              Resources(d) \subseteq Driver[d].forgets \union Gives(Driver[d].exit, 1)

\* When what an entry point comes through is there, what it needs is, or was
\* refused; a driver marked early sees to that by the end of its init function.
\* No init function fails once a file can be open.
RegistersLast(d) ==
    LET init == Driver[d].init
    IN  \A e \in Driver[d].serves :
            /\ e.through # {}
            /\ \A k \in 1 .. (Len(init) + 1) :
                  /\ Driver[d].early => k = Len(init) + 1
                  /\ e.through \subseteq Takes(init, k)
                  => /\ e.needs \subseteq Takes(init, k)
                     /\ e.file => AllNeeds(d) \subseteq Takes(init, k)
            /\ \A k \in DOMAIN init :
                  init[k].to # Ignored /\ e.through \subseteq Takes(init, k)
                  => ~e.file /\ e.needs \subseteq Takes(init, k) \ init[k].puts

\* Before something an entry point needs is released, what it comes through is.
UnregistersFirst(d) ==
    LET undo == Driver[d].undo
        exit == Driver[d].exit
    IN  \A e \in Driver[d].serves :
            /\ \A k \in DOMAIN undo :
                  Releases(undo[k]) /\ undo[k].what \intersect e.needs # {}
                  => ~(e.through \subseteq Gives(undo, k + 1))
            /\ Driver[d].unloads \/ Driver[d].bus =>
                  \A k \in DOMAIN exit :
                     Releases(exit[k]) /\ exit[k].what \intersect e.needs # {}
                     => ~(e.through \subseteq Driver[d].forgets \union Gives(exit, k + 1))

\* The scripts follow pointers to what was taken and not yet released, but for
\* the resources that error labels release blindly, taken or not, and for those
\* that the exit function releases twice.
UsesWhatIsThere(d) ==
    LET init == Driver[d].init
    IN  /\ \A k \in DOMAIN init :
              /\ init[k].op = "touch" => init[k].what \subseteq Takes(init, k)
              /\ init[k].to # Ignored =>
                    Uses(Driver[d].undo, init[k].to) \ Driver[d].blind
                        \subseteq Takes(init, k) \ init[k].puts
        /\ \A f \in {"undo", "exit"} : \A k \in DOMAIN Driver[d][f] :
              Releases(Driver[d][f][k]) =>
                 Driver[d][f][k].what \intersect Uses(Driver[d][f], k + 1)
                    \subseteq (IF f = "exit" THEN Driver[d].twice ELSE {})

Ordered == \A d \in Drivers : RegistersLast(d) /\ UnregistersFirst(d) /\ UsesWhatIsThere(d)

VARIABLES
    drv,    \* the driver that is, or was last, loaded
    mode,   \* the function it is in; "in" when it is loaded, "out" when not
    at,     \* the statement it is at
    held,   \* the resources it has
    lost,   \* the resources it was refused without noticing
    files,  \* the number of open files
    missing \* what it followed a pointer to although it was not there

bringup == <<drv, mode, at, held, lost, files, missing>>

\* An oops ends the function it happens in.  A pointer to what was there and has
\* been released counts, although that may go unnoticed.
oops == missing # {}

BringupTypeOK ==
    /\ drv \in Drivers
    /\ mode \in Functions \union {"in", "out"}
    /\ at \in Nat
    /\ held \subseteq Resources(drv)
    /\ lost \subseteq Resources(drv)
    /\ files \in 0 .. MaxFiles
    /\ missing \subseteq Resources(drv)

BringupInit ==
    /\ drv \in Drivers
    /\ mode = "out"
    /\ at = 1
    /\ held = {}
    /\ lost = {}
    /\ files = 0
    /\ missing = {}

-----------------------------------------------------------------------------
(* Executing a script.                                                      *)

Script == Driver[drv][mode]
At(op) ==
    /\ ~oops
    /\ mode \in Functions
    /\ at \in DOMAIN Script
    /\ Script[at].op = op

Acquire ==
    /\ At("get") \/ At("add")
    /\ held' = held \union Script[at].what
    /\ at' = at + 1
    /\ UNCHANGED <<drv, mode, lost, files, missing>>

\* Refused, and the driver jumps to its label.
RefuseTo(label) ==
    /\ At("get")
    /\ Script[at].to # Ignored
    /\ held' = held \ Script[at].puts
    /\ mode' = "undo"
    /\ at' = label
    /\ UNCHANGED <<drv, lost, files, missing>>
RefuseLater == RefuseTo(Script[at].to + 1)      \* mutant: the next label
Refuse == RefuseTo(Script[at].to)

\* Refused, and the driver goes on.
RefuseUnseen ==
    /\ At("get")
    /\ Script[at].to = Ignored
    /\ lost' = lost \union Script[at].what
    /\ at' = at + 1
    /\ UNCHANGED <<drv, mode, held, files, missing>>

\* Follow pointers to S.
Follow(S) == missing' = S \ held

Dereference ==
    /\ At("touch")
    /\ Follow(Script[at].what)
    /\ at' = at + 1
    /\ UNCHANGED <<drv, mode, held, lost, files>>

Release ==
    /\ \/ At("put") /\ Follow(Script[at].what)
       \/ At("free") /\ UNCHANGED missing
    /\ held' = held \ Script[at].what
    /\ at' = at + 1
    /\ UNCHANGED <<drv, mode, lost, files>>

Return ==
    /\ ~oops
    /\ mode \in Functions
    /\ at = Len(Script) + 1
    /\ mode' = [init |-> "in", undo |-> "out", exit |-> "out"][mode]
    /\ at' = 1
    /\ UNCHANGED <<drv, held, lost, files, missing>>

-----------------------------------------------------------------------------
(* The kernel and the programs around a driver.                             *)

\* insmod, or the platform bus brings device and driver together; the files
\* that outlived an earlier binding of the same driver are still there.
Load(d) ==
    /\ ~oops
    /\ mode = "out"
    /\ files = 0 \/ (d = drv /\ Driver[d].bus)
    /\ drv' = d
    /\ mode' = "init"
    /\ at' = 1
    /\ held' = {}
    /\ lost' = {}
    /\ UNCHANGED <<files, missing>>

\* rmmod: an open file keeps the module in.
UnloadFrom(first, free) ==
    /\ ~oops
    /\ mode = "in"
    /\ free
    /\ Driver[drv].unloads
    /\ mode' = "exit"
    /\ at' = first
    /\ UNCHANGED <<drv, held, lost, files, missing>>
\* Mutants: the exit function does not unregister; no owner in the operations.
UnloadRegistered == UnloadFrom(2, files = 0)
UnloadOpen == UnloadFrom(1, TRUE)
Unload == UnloadFrom(1, files = 0)

\* The device leaves the platform bus: no file keeps it.
Remove ==
    /\ ~oops
    /\ mode = "in"
    /\ Driver[drv].bus
    /\ mode' = "exit"
    /\ UNCHANGED <<drv, at, held, lost, files, missing>>

\* An entry point, reached through what is registered or through an open file.
Reached(e) == e.through \subseteq held \/ files > 0
Call(e) ==
    /\ ~oops
    /\ Reached(e)
    /\ Follow(e.needs)
    /\ UNCHANGED <<drv, mode, at, held, lost, files>>

Open(e) ==
    /\ ~oops
    /\ e.file
    /\ mode \in {"init", "in"} \/ Driver[drv].bus
    /\ e.through \subseteq held
    /\ e.needs \subseteq held
    /\ files < MaxFiles
    /\ files' = files + 1
    /\ UNCHANGED <<drv, mode, at, held, lost, missing>>

Close ==
    /\ ~oops
    /\ files > 0
    /\ files' = files - 1
    /\ UNCHANGED <<drv, mode, at, held, lost, missing>>

\* After an oops the machine is restarted.
Reboot ==
    /\ oops
    /\ mode' = "out"
    /\ at' = 1
    /\ held' = {}
    /\ lost' = {}
    /\ files' = 0
    /\ missing' = {}
    /\ UNCHANGED drv

BringupNext ==
    \/ Acquire \/ Refuse \/ RefuseUnseen \/ Dereference \/ Release \/ Return
    \/ \E d \in Drivers : Load(d)
    \/ Unload \/ Remove \/ Close \/ Reboot
    \/ \E e \in Driver[drv].serves : Call(e) \/ Open(e)

-----------------------------------------------------------------------------
(* Properties.                                                              *)

\* An init function that failed leaves nothing behind, wherever it failed; an
\* exit function leaves nothing but what it is known to forget; a driver that
\* is in has all it was not refused.
NothingLeft ==
    /\ mode = "undo" /\ at > Len(Script) => held = {}
    /\ mode = "out" => held \subseteq Driver[drv].forgets
    /\ mode = "in" => held \union lost = Resources(drv)

\* As long as something is registered, what its entry points use is there, or
\* was never got: registering comes last and unregistering first, in the init
\* and exit functions and on the error paths; the drivers of the table that are
\* marked early do the former the other way round.
PublishedReady ==
    \A e \in Driver[drv].serves :
        \/ oops
        \/ e.through \subseteq held => e.needs \subseteq held \union lost
        \/ Driver[drv].early /\ mode = "init"

\* Whatever a driver follows a pointer to in vain, that very resource was refused
\* and nobody looked; or is called for between registering and mapping; or is
\* released by an error label whether it was taken or not (map_destroy of a chip
\* that no probe found); or is released by the exit function for the second time
\* (an input device that unregistering has freed); or is needed by a file that
\* outlived the binding of its driver.
OopsExplained ==
    \A r \in missing :
        \/ r \in lost
        \/ mode = "init" /\ Driver[drv].early /\ r \notin Takes(Script, at)
        \/ mode = "undo" /\ r \in Driver[drv].blind
        \/ mode = "exit" /\ r \in Driver[drv].twice
        \/ Driver[drv].bus /\ files > 0 /\ r \in AllNeeds(drv)

=============================================================================
