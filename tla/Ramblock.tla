-------------------------------- MODULE Ramblock --------------------------------
(***************************************************************************)
(* The RAM disk src/Drivers/13.ramblock/ramblock.c: memory of its own, and *)
(* a queue of requests that the block layer fills and do_ramblock_request  *)
(* empties, both under ramblock_lock.  The function moves what is left of  *)
(* a request's current segment and ends that piece; the block layer then   *)
(* puts the next segment in its place or takes the request off the queue.  *)
(* Requests that the elevator merges are served one after the other, which *)
(* is one of the orders it may choose here.                                *)
(***************************************************************************)
EXTENDS Requests

CONSTANTS
    RAMBLOCK_SIZE,  \* the sectors of the disk
    Heads, Cylinders, SectorsPerTrack,  \* what ramblock_getgeo answers
    Procs,          \* the processes that submit requests
    MaxUsers        \* a bound on the openers

ASSUME SizeAssumption == RAMBLOCK_SIZE \in Nat

\* ramblock_getgeo describes a disk of that size.
ASSUME GeometryAssumption == Heads * Cylinders * SectorsPerTrack = RAMBLOCK_SIZE

None == "none"
ASSUME ProcsAssumption == None \notin Procs
Sectors == 0 .. (RAMBLOCK_SIZE - 1)

VARIABLES
    loaded,         \* the disk was added
    users,          \* the number of times it is open
    ramblock_buf,   \* ramblock_buf[s]: sector s
    queue,          \* the processes whose request is on the queue
    running,        \* do_ramblock_request runs, with ramblock_lock
    req,            \* the process whose request it is at, or None
    moved,          \* the current segment is copied and not yet ended
    bio,            \* bio[p]: the request of p, or NoBio
    sector,         \* sector[p]: req->sector
    seg,            \* seg[p]: the segment that current_nr_sectors is of
    todo,           \* todo[p]: the sectors not yet copied
    buf,            \* buf[p]: the memory of the segments
    result          \* result[p]: how the last request ended

request == <<bio, sector, seg, todo, buf, result>>
vars == <<loaded, users, ramblock_buf, queue, running, req, moved, request>>

Blank == [s \in Sectors |-> 0]

Init ==
    /\ loaded = FALSE
    /\ users = 0
    /\ ramblock_buf = Blank
    /\ queue = {}
    /\ running = FALSE
    /\ req = None
    /\ moved = FALSE
    /\ bio = [p \in Procs |-> NoBio]
    /\ sector = [p \in Procs |-> 0]
    /\ seg = [p \in Procs |-> 0]
    /\ todo = [p \in Procs |-> {}]
    /\ buf = [p \in Procs |-> <<>>]
    /\ result = [p \in Procs |-> "none"]

-----------------------------------------------------------------------------
(* The module and its users.                                                *)

\* ramblock_init, when all it asks for is granted: the memory is zero.
ModuleInit ==
    /\ ~loaded
    /\ loaded' = TRUE
    /\ ramblock_buf' = Blank
    /\ UNCHANGED <<users, queue, running, req, moved, request>>

\* ramblock_exit, when nobody has the disk open.
ModuleExit ==
    /\ loaded
    /\ users = 0 /\ ~running
    /\ loaded' = FALSE
    /\ ramblock_buf' = Blank
    /\ UNCHANGED <<users, queue, running, req, moved, request>>

Open ==
    /\ loaded
    /\ users < MaxUsers
    /\ users' = users + 1
    /\ UNCHANGED <<loaded, ramblock_buf, queue, running, req, moved, request>>

Close ==
    /\ users > 0
    /\ users = 1 => \A p \in Procs : bio[p] = NoBio
    /\ users' = users - 1
    /\ UNCHANGED <<loaded, ramblock_buf, queue, running, req, moved, request>>

-----------------------------------------------------------------------------
(* The block layer.                                                         *)

\* A request enters the queue, unless it ends beyond the capacity that
\* set_capacity gave: then it fails.
Submit(p, b) ==
    /\ users > 0
    /\ ~running
    /\ bio[p] = NoBio
    /\ bio' = [bio EXCEPT ![p] = b]
    /\ sector' = [sector EXCEPT ![p] = b.sector]
    /\ seg' = [seg EXCEPT ![p] = 1]
    /\ todo' = [todo EXCEPT ![p] = Covered(b)]
    /\ buf' = [buf EXCEPT ![p] = b.data]
    /\ result' = [result EXCEPT ![p] = "none"]
    /\ queue' = IF b.sector + b.len <= RAMBLOCK_SIZE THEN queue \union {p} ELSE queue
    /\ UNCHANGED <<loaded, users, ramblock_buf, running, req, moved>>

\* The request of p ends.
Complete(p, how) ==
    /\ result' = [result EXCEPT ![p] = how]
    /\ bio' = [bio EXCEPT ![p] = NoBio]
    /\ sector' = [sector EXCEPT ![p] = 0]
    /\ seg' = [seg EXCEPT ![p] = 0]
    /\ todo' = [todo EXCEPT ![p] = {}]
    /\ buf' = [buf EXCEPT ![p] = <<>>]

BeyondEnd(p) ==
    /\ bio[p] # NoBio
    /\ p \notin queue
    /\ Complete(p, "error")
    /\ UNCHANGED <<loaded, users, ramblock_buf, queue, running, req, moved>>

\* The queue is unplugged: by a process that waits, or after a while.
Unplug ==
    /\ ~running
    /\ queue # {}
    /\ running' = TRUE
    /\ UNCHANGED <<loaded, users, ramblock_buf, queue, req, moved, request>>

-----------------------------------------------------------------------------
(* do_ramblock_request.                                                     *)

\* elv_next_request: a request once begun is returned until it has ended.
NextRequest ==
    /\ running
    /\ req = None
    /\ \E p \in queue : req' = p
    /\ UNCHANGED <<loaded, users, ramblock_buf, queue, running, moved, request>>

\* The copy of current_nr_sectors from or to offset.
MoveAt(offset) ==
    LET b == bio[req]
        S == offset .. (offset + b.segs[seg[req]] - 1)
        Place(s) == sector[req] - b.sector + 1 + (s - offset)
        Back(k) == (k - 1) + b.sector - sector[req] + offset
    IN  /\ IF b.rw = "READ"
           THEN /\ buf' = [buf EXCEPT ![req] = [k \in DOMAIN @ |->
                              IF Back(k) \in S THEN ramblock_buf[Back(k)] ELSE @[k]]]
                /\ ramblock_buf' = ramblock_buf
           ELSE /\ ramblock_buf' = [s \in Sectors |->
                              IF s \in S THEN buf[req][Place(s)] ELSE ramblock_buf[s]]
                /\ buf' = buf
        /\ todo' = [todo EXCEPT ![req] = @ \ S]
        /\ UNCHANGED <<bio, sector, seg, result>>
\* Mutant: the offset of the request, not of what is left of it.
MoveFirst == MoveAt(bio[req].sector)
Move == MoveAt(sector[req])

Transfer ==
    /\ req # None
    /\ ~moved
    /\ Move
    /\ moved' = TRUE
    /\ UNCHANGED <<loaded, users, queue, running, req>>

\* end_request(req, 1).
EndRequest ==
    /\ moved
    /\ moved' = FALSE
    /\ IF seg[req] < Len(bio[req].segs)
       THEN /\ sector' = [sector EXCEPT ![req] = @ + bio[req].segs[seg[req]]]
            /\ seg' = [seg EXCEPT ![req] = @ + 1]
            /\ UNCHANGED <<bio, todo, buf, result, queue, req>>
       ELSE /\ Complete(req, "ok")
            /\ queue' = queue \ {req}
            /\ req' = None
    /\ UNCHANGED <<loaded, users, ramblock_buf, running>>

Return ==
    /\ running
    /\ queue = {}
    /\ running' = FALSE
    /\ UNCHANGED <<loaded, users, ramblock_buf, queue, req, moved, request>>

RequestFunction == NextRequest \/ Transfer \/ EndRequest \/ Return

Next ==
    \/ ModuleInit \/ ModuleExit \/ Open \/ Close \/ Unplug
    \/ \E p \in Procs : BeyondEnd(p) \/ \E b \in Bios : Submit(p, b)
    \/ RequestFunction

\* The block layer unplugs a queue by a timer, the function runs with
\* interrupts off.
Fairness ==
    /\ WF_vars(Unplug)
    /\ WF_vars(RequestFunction)
    /\ \A p \in Procs : WF_vars(BeyondEnd(p))

Spec == Init /\ [][Next]_vars /\ Fairness

\* The driver is a disk, as Ramdisk is: each piece of a request goes to its
\* own sectors whatever else is on the queue, a request succeeds only when all
\* its pieces are done, every request ends, and the contents outlive the users.
\* Nothing is ever flushed or frail: the memory is the driver's own.
D == INSTANCE Disk WITH
        disk <- ramblock_buf, flushing <- {}, buffered <- {}, frail <- {}
IsDisk == D!Spec

=============================================================================
