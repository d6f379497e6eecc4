---------------------------------- MODULE Disk ----------------------------------
(***************************************************************************)
(* What a RAM disk promises: an array of sectors that reads as zero until  *)
(* it is written, and whose contents change by writes only.  A request is  *)
(* transferred in pieces, in any order and interleaved with others; it may *)
(* fail with some pieces done, but succeeds only when all of them are.     *)
(*                                                                         *)
(* A sector is forgotten in three ways only: its sole user has the disk    *)
(* flushed, which drops each sector once; the disk is unloaded unused; or  *)
(* the sector is frail.  A disk whose sectors are pages of the page cache  *)
(* cannot do better: when the kernel frees the buffers a file system had   *)
(* there, it takes the pages for written back.                             *)
(***************************************************************************)
EXTENDS Requests

CONSTANTS
    Sectors,    \* the sector numbers
    Procs       \* the processes that submit requests

VARIABLES
    disk,       \* disk[s]: the contents of sector s
    loaded,     \* the driver is there
    users,      \* the number of openers
    bio,        \* bio[p]: the request p has submitted, or NoBio
    todo,       \* todo[p]: the sectors of it not yet transferred
    buf,        \* buf[p]: the request's buffer
    result,     \* result[p]: how p's last request ended
    flushing,   \* the sectors a flush has still to forget
    buffered,   \* the sectors where a file system has buffers
    frail       \* the sectors whose contents the system may drop

requests == <<bio, todo, buf, result>>
cached == <<flushing, buffered, frail>>
vars == <<disk, loaded, users, requests, cached>>

Zero == 0
Blank == [s \in Sectors |-> Zero]

Init ==
    /\ disk = Blank
    /\ loaded = FALSE
    /\ users = 0
    /\ bio = [p \in Procs |-> NoBio]
    /\ todo = [p \in Procs |-> {}]
    /\ buf = [p \in Procs |-> <<>>]
    /\ result = [p \in Procs |-> "none"]
    /\ flushing = {}
    /\ buffered = {}
    /\ frail = {}

\* The memory of the disk is cleared now, or was when it was unloaded.
Load ==
    /\ ~loaded
    /\ loaded' = TRUE
    /\ disk' \in {disk, Blank}
    /\ UNCHANGED <<users, requests, cached>>

Open ==
    /\ loaded
    /\ flushing = {}
    /\ users' = users + 1
    /\ UNCHANGED <<disk, loaded, requests, cached>>
Close ==
    /\ flushing = {}
    /\ users > 0
    /\ users' = users - 1
    /\ UNCHANGED <<disk, loaded, requests, cached>>

Submit(p) ==
    /\ users > 0
    /\ bio[p] = NoBio
    /\ \E b \in Bios :
          /\ bio' = [bio EXCEPT ![p] = b]
          /\ todo' = [todo EXCEPT ![p] = Covered(b)]
          /\ buf' = [buf EXCEPT ![p] = b.data]
    /\ result' = [result EXCEPT ![p] = "none"]
    /\ UNCHANGED <<disk, loaded, users, cached>>

\* What was frail or buffered may be so no more.
Settle == frail' \in SUBSET frail /\ buffered' \in SUBSET buffered

\* Some sectors pass between the disk and the same places of the buffer.
Transfer(p, S) ==
    /\ S # {} /\ S \subseteq todo[p] \intersect Sectors
    /\ todo' = [todo EXCEPT ![p] = @ \ S]
    /\ LET b == bio[p]
           Place(s) == s - b.sector + 1
       IN  IF b.rw = "WRITE"
           THEN /\ disk' = [s \in Sectors |-> IF s \in S THEN buf[p][Place(s)] ELSE disk[s]]
                /\ buf' = buf
                /\ Settle
           ELSE /\ buf' = [buf EXCEPT ![p] =
                      [k \in DOMAIN @ |->
                         IF k + b.sector - 1 \in S THEN disk[k + b.sector - 1] ELSE @[k]]]
                /\ UNCHANGED <<disk, buffered, frail>>
    /\ UNCHANGED <<loaded, users, bio, result, flushing>>

End(p) ==
    /\ bio[p] # NoBio
    /\ \/ todo[p] = {} /\ result' = [result EXCEPT ![p] = "ok"]
       \/ result' = [result EXCEPT ![p] = "error"]
    /\ bio' = [bio EXCEPT ![p] = NoBio]
    /\ todo' = [todo EXCEPT ![p] = {}]
    /\ buf' = [buf EXCEPT ![p] = <<>>]
    /\ UNCHANGED <<disk, loaded, users, cached>>

\* A write through the page cache or a file system's buffer.
Store(s, v) ==
    /\ users > 0
    /\ disk' = [disk EXCEPT ![s] = v]
    /\ Settle
    /\ UNCHANGED <<loaded, users, requests, flushing>>

Without(S) == [s \in Sectors |-> IF s \in S THEN Zero ELSE disk[s]]

\* The sole user has the contents forgotten, ...
FlushStart ==
    /\ users = 1
    /\ flushing = {}
    /\ flushing' = Sectors
    /\ UNCHANGED <<disk, loaded, users, requests, buffered, frail>>

\* ... some sectors at a time, each of them once.
Flush(S) ==
    /\ S # {} /\ S \subseteq flushing
    /\ flushing' = flushing \ S
    /\ disk' = Without(S)
    /\ Settle
    /\ UNCHANGED <<loaded, users, requests>>

\* A file system takes buffers in S; the kernel frees them.
TakeBuffers(S) ==
    /\ users > 0
    /\ buffered' = buffered \union S
    /\ UNCHANGED <<disk, loaded, users, requests, flushing, frail>>
FreeBuffers(S) ==
    /\ S \subseteq buffered
    /\ buffered' = buffered \ S
    /\ frail' = frail \union S
    /\ UNCHANGED <<disk, loaded, users, requests, flushing>>

\* Memory is short.  What is lost was frail.
Reclaim(S) ==
    /\ S \subseteq frail
    /\ disk' = Without(S)
    /\ Settle
    /\ UNCHANGED <<loaded, users, requests, flushing>>

Unload ==
    /\ loaded /\ users = 0
    /\ loaded' = FALSE
    /\ disk' = Blank
    /\ Settle
    /\ UNCHANGED <<users, requests, flushing>>

Next ==
    \/ Load \/ Open \/ Close \/ FlushStart \/ Unload
    \/ \E p \in Procs : Submit(p) \/ End(p)
    \/ \E p \in Procs, S \in SUBSET Sectors : Transfer(p, S)
    \/ \E s \in Sectors, v \in Values : Store(s, v)
    \/ \E S \in SUBSET Sectors : Flush(S) \/ TakeBuffers(S) \/ FreeBuffers(S) \/ Reclaim(S)

\* Every request ends.
Live == \A p \in Procs : bio[p] # NoBio ~> bio[p] = NoBio

Spec == Init /\ [][Next]_vars /\ Live

=============================================================================
