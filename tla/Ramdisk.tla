-------------------------------- MODULE Ramdisk --------------------------------
(***************************************************************************)
(* The RAM disk src/ex_source/ramdisk_ym.c for one of its devices.  It has *)
(* no memory of its own: its sectors are the pages of the block device's   *)
(* page cache, which the driver keeps from being freed by leaving them     *)
(* dirty, and which it fills with zeros when it meets them for the first   *)
(* time.  Requests (rd_make_request), the address-space operations, the    *)
(* virtual memory system and file systems that hold buffers of the device  *)
(* all work on the same pages.  The page lock orders them, except that a   *)
(* file system that has a buffer writes it without locking the page.       *)
(*                                                                         *)
(* ramdisk_writepages and a refused ioctl change nothing and are no steps. *)
(***************************************************************************)
EXTENDS Requests

CONSTANTS
    Capacity,   \* the sectors of the disk, rd_size * 2
    PageSectors,\* the sectors of a page, PAGE_CACHE_SIZE >> 9
    Procs,      \* the processes that submit requests
    CacheSectors,\* the sectors file systems and write(2) work on
    MaxUsers    \* a bound on the openers

ASSUME SizeAssumption == Capacity \in Nat \ {0} /\ PageSectors \in Nat \ {0}
ASSUME CacheAssumption == CacheSectors \subseteq 0 .. (Capacity - 1)
ASSUME MaxUsersAssumption == MaxUsers \in Nat \ {0}

Sectors == 0 .. (Capacity - 1)
Indices == 0 .. ((Capacity - 1) \div PageSectors)
Offsets == 0 .. (PageSectors - 1)
Index(s) == s \div PageSectors
Offset(s) == s % PageSectors

None == "none"
Zero == 0
Garbage == -1   \* what memory holds that nobody has initialised

VARIABLES
    \* The block device and its page cache.
    page,       \* page[i]: the page at index i, or Absent
    lock,       \* lock[i]: the process that has locked page i, or None
    users,      \* the number of times the device is open
    rd_bdev,    \* rd_open has seen the device
    bd_openers, \* the openers, plus one from the first rd_open on
    flushing,   \* the pages rd_ioctl has still to drop; it holds bd_mutex
    loaded,     \* the driver is there
    \* rd_make_request in process p, or a write(2) to the device.
    pc,         \* pc[p]: where p is
    bio,        \* bio[p]: its request, or NoBio
    seg,        \* seg[p]: the segment it is at
    at,         \* at[p]: the sector it is at
    size,       \* size[p]: the sectors left in the segment
    ret,        \* ret[p]: 1 when a segment has failed
    buf,        \* buf[p]: the memory of the segments
    result,     \* result[p]: how the last request ended
    \* History.
    moved       \* moved[p]: the sectors of the request that were copied

cache == <<page, lock>>
device == <<users, rd_bdev, bd_openers, flushing, loaded>>
request == <<bio, seg, at, size, ret, buf, result, moved>>
vars == <<cache, device, pc, request>>

ASSUME ProcsAssumption == None \notin Procs

-----------------------------------------------------------------------------
(* Pages.                                                                   *)

\* uptodate: PageUptodate; dirty: PageDirty; buffers: page_has_buffers, and
\* valid: the buffers (one sector each) that are uptodate.  cancelled is
\* history: the dirty bit was taken back when the buffers were freed.
PageRecords ==
    [uptodate : BOOLEAN, dirty : BOOLEAN, cancelled : BOOLEAN, buffers : BOOLEAN,
     valid : SUBSET Offsets, data : [Offsets -> Values \union {Garbage}]]
Absent == [uptodate |-> FALSE, dirty |-> FALSE, cancelled |-> FALSE,
           buffers |-> FALSE, valid |-> {}, data |-> <<>>]
NewPage == [Absent EXCEPT !.data = [o \in Offsets |-> Garbage]]
Found(i) == IF page[i] = Absent THEN NewPage ELSE page[i]

\* Mutant: nothing is cleared.
MakeUptodateBare(g) ==
    [g EXCEPT !.uptodate = TRUE, !.valid = IF g.buffers THEN Offsets ELSE {}]

\* make_page_uptodate, called when the page is not: clear what nobody wrote.
MakeUptodate(g) ==
    [g EXCEPT !.uptodate = TRUE,
              !.valid = IF g.buffers THEN Offsets ELSE {},
              !.data = [o \in Offsets |->
                          IF g.uptodate \/ (g.buffers /\ o \in g.valid)
                          THEN @[o] ELSE Zero]]

\* set_page_dirty.
Dirtied(g) == [g EXCEPT !.dirty = TRUE, !.cancelled = FALSE]

\* What a page means to a reader, who would make it uptodate first.
Holds(g, o) ==
    IF g # Absent /\ (g.uptodate \/ (g.buffers /\ o \in g.valid))
    THEN g.data[o] ELSE Zero
Contents == [s \in Sectors |-> Holds(page[Index(s)], Offset(s))]

TypeOK ==
    /\ page \in [Indices -> PageRecords \union {Absent}]
    /\ lock \in [Indices -> Procs \union {None}]
    /\ users \in 0 .. MaxUsers
    /\ rd_bdev \in BOOLEAN
    /\ bd_openers \in 0 .. (MaxUsers + 1)
    /\ flushing \subseteq Indices
    /\ loaded \in BOOLEAN
    /\ pc \in [Procs -> {"idle", "grab", "move", "unlock", "end", "prepared"}]
    /\ bio \in [Procs -> Bios \union {NoBio}]
    /\ seg \in [Procs -> Nat]
    /\ at \in [Procs -> Nat]
    /\ size \in [Procs -> Nat]
    /\ ret \in [Procs -> {0, 1}]
    /\ buf \in [Procs -> Seq(Values)]
    /\ result \in [Procs -> {"none", "ok", "error"}]
    /\ moved \in [Procs -> SUBSET Sectors]

Init ==
    /\ page = [i \in Indices |-> Absent]
    /\ lock = [i \in Indices |-> None]
    /\ users = 0
    /\ rd_bdev = FALSE
    /\ bd_openers = 0
    /\ flushing = {}
    /\ loaded = FALSE
    /\ pc = [p \in Procs |-> "idle"]
    /\ bio = [p \in Procs |-> NoBio]
    /\ seg = [p \in Procs |-> 0]
    /\ at = [p \in Procs |-> 0]
    /\ size = [p \in Procs |-> 0]
    /\ ret = [p \in Procs |-> 0]
    /\ buf = [p \in Procs |-> <<>>]
    /\ result = [p \in Procs |-> "none"]
    /\ moved = [p \in Procs |-> {}]

-----------------------------------------------------------------------------
(* Loading, opening, closing, flushing.                                     *)

\* rd_init, when all its allocations succeed.
InitModule ==
    /\ ~loaded
    /\ loaded' = TRUE
    /\ UNCHANGED <<cache, users, rd_bdev, bd_openers, flushing, pc, request>>

\* The block layer calls rd_open under bd_mutex and then counts the opener.
\* The first rd_open counts itself: the device never seems unused.
OpenCounting(extra) ==
    /\ loaded
    /\ flushing = {}
    /\ users < MaxUsers
    /\ users' = users + 1
    /\ rd_bdev' = TRUE
    /\ bd_openers' = bd_openers + 1 + (IF rd_bdev THEN 0 ELSE extra)
    /\ UNCHANGED <<cache, flushing, loaded, pc, request>>
OpenUncounted == OpenCounting(0)        \* mutant: no bd_openers++ in rd_open
Open == OpenCounting(1)

\* The last closer, were the count to reach 0, would have the pages dropped.
Close ==
    /\ flushing = {}
    /\ users > 0
    /\ users = 1 => \A p \in Procs : pc[p] = "idle"
    /\ users' = users - 1
    /\ bd_openers' = bd_openers - 1
    /\ page' = IF bd_openers = 1 THEN [i \in Indices |-> Absent] ELSE page
    /\ UNCHANGED <<lock, rd_bdev, flushing, loaded, pc, request>>

\* rd_ioctl: any command but BLKFLSBUF is -ENOTTY, more than one user -EBUSY.
\* Otherwise truncate_inode_pages drops the pages one by one, each when it is
\* not locked, while bd_mutex keeps others from opening.
FlushStart ==
    /\ users > 0
    /\ flushing = {}
    /\ bd_openers <= 2
    /\ flushing' = Indices
    /\ UNCHANGED <<cache, users, rd_bdev, bd_openers, loaded, pc, request>>

FlushPage(i) ==
    /\ i \in flushing
    /\ lock[i] = None
    /\ page' = [page EXCEPT ![i] = Absent]
    /\ flushing' = flushing \ {i}
    /\ UNCHANGED <<lock, users, rd_bdev, bd_openers, loaded, pc, request>>

\* rd_cleanup: the last blkdev_put drops the pages.  rmmod must be forced once
\* the device was opened, because the count never goes back to 0.
Cleanup ==
    /\ loaded
    /\ flushing = {}
    /\ users = 0
    /\ loaded' = FALSE
    /\ rd_bdev' = FALSE
    /\ bd_openers' = 0
    /\ page' = [i \in Indices |-> Absent]
    /\ UNCHANGED <<lock, users, flushing, pc, request>>

-----------------------------------------------------------------------------
(* rd_make_request and rd_blkdev_pagecache_IO in process p.                 *)

\* A request beyond the capacity fails at once.
Submit(p, b) ==
    /\ users > 0
    /\ pc[p] = "idle"
    /\ LET fits == b.sector + b.len <= Capacity
       IN  /\ pc' = [pc EXCEPT ![p] = IF fits THEN "grab" ELSE "end"]
           /\ ret' = [ret EXCEPT ![p] = IF fits THEN 0 ELSE 1]
    /\ bio' = [bio EXCEPT ![p] = b]
    /\ seg' = [seg EXCEPT ![p] = 1]
    /\ at' = [at EXCEPT ![p] = b.sector]
    /\ size' = [size EXCEPT ![p] = b.segs[1]]
    /\ buf' = [buf EXCEPT ![p] = b.data]
    /\ result' = [result EXCEPT ![p] = "none"]
    /\ moved' = [moved EXCEPT ![p] = {}]
    /\ UNCHANGED <<cache, device>>

\* The loop over the segments: whatever happened, sector moves on by bv_len.
EndSegment(p, rest) ==
    /\ at' = [at EXCEPT ![p] = @ + rest]
    /\ IF seg[p] < Len(bio[p].segs)
       THEN /\ seg' = [seg EXCEPT ![p] = @ + 1]
            /\ size' = [size EXCEPT ![p] = bio[p].segs[seg[p] + 1]]
            /\ pc' = [pc EXCEPT ![p] = "grab"]
       ELSE /\ size' = [size EXCEPT ![p] = 0]
            /\ pc' = [pc EXCEPT ![p] = "end"]
            /\ seg' = seg

\* grab_cache_page: find or create the page, and lock it.
Grab(p) ==
    LET i == Index(at[p])
    IN  /\ pc[p] = "grab"
        /\ lock[i] = None
        /\ lock' = [lock EXCEPT ![i] = p]
        /\ page' = [page EXCEPT ![i] = Found(i)]
        /\ pc' = [pc EXCEPT ![p] = "move"]
        /\ UNCHANGED <<device, request>>

\* grab_cache_page has no memory for a new page: the segment ends with
\* -ENOMEM, the segments after it are tried nevertheless.
GrabFails(p) ==
    /\ pc[p] = "grab"
    /\ page[Index(at[p])] = Absent
    /\ ret' = [ret EXCEPT ![p] = 1]
    /\ EndSegment(p, size[p])
    /\ UNCHANGED <<cache, device, bio, buf, result, moved>>

\* Make the page uptodate, copy what of the segment lies in it, and mark it
\* dirty when it was written.
Move(p) ==
    LET i == Index(at[p])
        off == Offset(at[p])
        room == PageSectors - off
        count == IF room > size[p] THEN size[p] ELSE room
        b == bio[p]
        g == MakeUptodate(page[i])
        \* The place in buf of what is at offset o of the page.
        Place(o) == at[p] - b.sector + 1 + (o - off)
        range == off .. (off + count - 1)
        S == at[p] .. (at[p] + count - 1)
    IN  /\ pc[p] = "move"
        /\ IF b.rw = "WRITE"
           THEN /\ page' = [page EXCEPT ![i] =
                      Dirtied([g EXCEPT !.data = [o \in Offsets |->
                              IF o \in range THEN buf[p][Place(o)] ELSE @[o]]])]
                /\ buf' = buf
           ELSE /\ page' = [page EXCEPT ![i] = g]
                /\ buf' = [buf EXCEPT ![p] = [k \in DOMAIN @ |->
                      IF k + b.sector - 1 \in S
                      THEN g.data[Offset(k + b.sector - 1)] ELSE @[k]]]
        /\ at' = [at EXCEPT ![p] = @ + count]
        /\ size' = [size EXCEPT ![p] = @ - count]
        /\ moved' = [moved EXCEPT ![p] = @ \union S]
        /\ pc' = [pc EXCEPT ![p] = "unlock"]
        /\ UNCHANGED <<lock, device, bio, seg, ret, result>>

\* unlock_page and put_page, for reads and writes alike.
UnlockOf(p, kinds) ==
    LET i == Index(at[p] - 1)
    IN  /\ pc[p] = "unlock"
        /\ lock' = [lock EXCEPT ![i] = IF bio[p].rw \in kinds THEN None ELSE @]
        /\ IF size[p] = 0
           THEN EndSegment(p, 0)
           ELSE /\ pc' = [pc EXCEPT ![p] = "grab"]
                /\ UNCHANGED <<at, seg, size>>
        /\ UNCHANGED <<page, device, bio, ret, buf, result, moved>>
\* Mutant: as the indentation of lines 158-161 reads.
UnlockWrites(p) == UnlockOf(p, {"WRITE"})
Unlock(p) == UnlockOf(p, {"READ", "WRITE"})

\* bio_endio or bio_io_error hands the request back; the locals are gone.
End(p) ==
    /\ pc[p] = "end"
    /\ result' = [result EXCEPT ![p] = IF ret[p] = 0 THEN "ok" ELSE "error"]
    /\ pc' = [pc EXCEPT ![p] = "idle"]
    /\ bio' = [bio EXCEPT ![p] = NoBio]
    /\ seg' = [seg EXCEPT ![p] = 0]
    /\ at' = [at EXCEPT ![p] = 0]
    /\ size' = [size EXCEPT ![p] = 0]
    /\ ret' = [ret EXCEPT ![p] = 0]
    /\ buf' = [buf EXCEPT ![p] = <<>>]
    /\ moved' = [moved EXCEPT ![p] = {}]
    /\ UNCHANGED <<cache, device>>

-----------------------------------------------------------------------------
(* The address-space operations, called by the kernel on locked pages.      *)

\* ramdisk_readpage.
Readpage(i) ==
    /\ users > 0
    /\ lock[i] = None
    /\ page' = [page EXCEPT ![i] = MakeUptodate(Found(i))]
    /\ UNCHANGED <<lock, device, pc, request>>

\* write(2) to the device: ramdisk_prepare_write on the locked page ...
PrepareWrite(p, s) ==
    LET i == Index(s)
    IN  /\ users > 0
        /\ pc[p] = "idle"
        /\ lock[i] = None
        /\ lock' = [lock EXCEPT ![i] = p]
        /\ page' = [page EXCEPT ![i] = MakeUptodate(Found(i))]
        /\ pc' = [pc EXCEPT ![p] = "prepared"]
        /\ at' = [at EXCEPT ![p] = s]
        /\ UNCHANGED <<device, bio, seg, size, ret, buf, result, moved>>

\* ... then the copy and ramdisk_commit_write.
CommitWrite(p, v) ==
    LET i == Index(at[p])
    IN  /\ pc[p] = "prepared"
        /\ page' = [page EXCEPT ![i] = Dirtied([page[i] EXCEPT !.data[Offset(at[p])] = v])]
        /\ lock' = [lock EXCEPT ![i] = None]
        /\ pc' = [pc EXCEPT ![p] = "idle"]
        /\ at' = [at EXCEPT ![p] = 0]
        /\ UNCHANGED <<device, bio, seg, size, ret, buf, result, moved>>

\* Memory reclaim takes a dirty page and clears the bit before it calls
\* ramdisk_writepage, which makes the page uptodate and dirty again.
WritepageLeaving(i, d) ==
    /\ page[i] # Absent
    /\ page[i].dirty
    /\ lock[i] = None
    /\ page' = [page EXCEPT ![i] = [MakeUptodate(@) EXCEPT !.dirty = d]]
    /\ UNCHANGED <<lock, device, pc, request>>
WritepageClean(i) == WritepageLeaving(i, FALSE)     \* mutant: no SetPageDirty
Writepage(i) == WritepageLeaving(i, TRUE)

-----------------------------------------------------------------------------
(* The kernel around the driver.                                            *)

\* Memory reclaim frees a clean page that nobody has locked.
Evict(i) ==
    /\ page[i] # Absent
    /\ ~page[i].dirty
    /\ lock[i] = None
    /\ page' = [page EXCEPT ![i] = Absent]
    /\ UNCHANGED <<lock, device, pc, request>>

\* A file system asks for a buffer: its page gets buffers, under the page lock,
\* that are uptodate if the page is.
FsGetBuffers(i) ==
    LET g == Found(i)
    IN  /\ users > 0
        /\ lock[i] = None
        /\ ~g.buffers
        /\ page' = [page EXCEPT ![i] =
              [g EXCEPT !.buffers = TRUE, !.valid = IF g.uptodate THEN Offsets ELSE {}]]
        /\ UNCHANGED <<lock, device, pc, request>>

\* It writes the whole of a buffer it has, makes it uptodate and marks it and
\* the page dirty: under the buffer's lock, not the page's.
FsBuffer(s, v) ==
    LET g == page[Index(s)]
    IN  /\ users > 0
        /\ g.buffers
        /\ page' = [page EXCEPT ![Index(s)] =
              Dirtied([g EXCEPT !.valid = @ \union {Offset(s)}, !.data[Offset(s)] = v])]
        /\ UNCHANGED <<lock, device, pc, request>>

\* Or make_page_uptodate, run by whoever has locked the page, has found the
\* buffer not uptodate just before and clears it now: the write is lost.
FsBufferRaced(s) ==
    /\ ~page[Index(s)].uptodate
    /\ Offset(s) \notin page[Index(s)].valid
    /\ FsBuffer(s, Zero)

\* The buffers of a page are freed because there are too many (pagevec_strip).
\* The file system has written them by hand before that: requests that copy the
\* page to itself, and leave it uptodate and dirty.  There is no releasepage in
\* ramdisk_aops, so try_to_free_buffers does it, and as the buffers are clean it
\* clears the page's dirty bit as well.
FreeBuffers(i) ==
    /\ page[i].buffers
    /\ lock[i] = None
    /\ page' = [page EXCEPT ![i] =
          [MakeUptodate(@) EXCEPT !.buffers = FALSE, !.valid = {},
                                  !.dirty = FALSE, !.cancelled = TRUE]]
    /\ UNCHANGED <<lock, device, pc, request>>

-----------------------------------------------------------------------------

RequestStep(p) == Move(p) \/ Unlock(p) \/ End(p) \/ GrabFails(p)

Next ==
    \/ InitModule \/ Open \/ Close \/ Cleanup
    \/ FlushStart
    \/ \E p \in Procs, b \in Bios : Submit(p, b)
    \/ \E p \in Procs : Grab(p) \/ RequestStep(p)
    \/ \E p \in Procs, s \in CacheSectors : PrepareWrite(p, s)
    \/ \E p \in Procs, v \in Values : CommitWrite(p, v)
    \/ \E i \in Indices :
          \/ FlushPage(i) \/ Readpage(i) \/ Writepage(i)
          \/ Evict(i) \/ FreeBuffers(i)
    \/ \E s \in CacheSectors :
          \/ FsGetBuffers(Index(s)) \/ FsBufferRaced(s)
          \/ \E v \in Values : FsBuffer(s, v)

\* A process inside the kernel goes on; a process waiting for a page gets it
\* in the end, as the waiters of a page lock are queued.
Fairness ==
    \A p \in Procs :
        /\ SF_vars(Grab(p))
        /\ WF_vars(RequestStep(p))
        /\ WF_vars(\E v \in Values : CommitWrite(p, v))

Spec == Init /\ [][Next]_vars /\ Fairness

-----------------------------------------------------------------------------
(* Properties.                                                              *)

\* What a clean page holds is zero, so nothing is lost when it is freed, unless
\* its dirty bit was taken back with its buffers.  Every path that stores data
\* in a page, by a request, by write(2) or by a file system's buffer, leaves it
\* dirty, writepage does not clean it, and a write after the bit was taken back
\* makes the page safe again.
CleanIsZero ==
    \A i \in Indices :
        ~page[i].dirty /\ ~page[i].cancelled => \A o \in Offsets : Holds(page[i], o) = Zero

\* A page is locked exactly while a process works on it, by that process, and
\* no process holds two: waiting for a page cannot end in a circle.
LockHeld ==
    \A i \in Indices, p \in Procs :
        (lock[i] = p) <=>
            \/ pc[p] \in {"move", "prepared"} /\ Index(at[p]) = i
            \/ pc[p] = "unlock" /\ Index(at[p] - 1) = i

\* The driver is a disk: Contents changes only as Disk allows, a read gets the
\* contents of that moment, and what is lost was dropped by a flush or was frail,
\* in a page whose buffers the kernel had freed and nobody had written since.
\* (A file system's write that make_page_uptodate clears is a store of zeros.)
todo == [p \in Procs |-> Covered(bio[p]) \ moved[p]]
SectorsOf(I) == {s \in Sectors : Index(s) \in I}
BufferedSectors == SectorsOf({i \in Indices : page[i].buffers})
FrailSectors == SectorsOf({i \in Indices : page[i].cancelled})
D == INSTANCE Disk WITH
        disk <- Contents,
        flushing <- SectorsOf(flushing),
        buffered <- BufferedSectors,
        frail <- FrailSectors
IsDisk == D!Spec

=============================================================================
