------------------------------ MODULE DiskProofs ------------------------------
(***************************************************************************)
(* Proofs about the two RAM disks, Ramdisk and Ramblock, for any size,     *)
(* requests and processes.                                                 *)
(*                                                                         *)
(* In Ramdisk a page carries its own invariant: what a reader would find   *)
(* in it is a value, and zero as long as the page is clean, unless it was  *)
(* cleaned with its buffers.  A process                                    *)
(* inside rd_blkdev_pagecache_IO has a place in its request, and the page  *)
(* of that place is its own while it copies.  In Ramblock a request on the *)
(* queue has a place as well, the sector of its current segment, and what  *)
(* is left of it begins there until memcpy is done.  From these both are   *)
(* a disk: the safety half of their refinement of Disk.                    *)
(***************************************************************************)
EXTENDS Ramdisk, SequenceTheorems, TLAPS

-----------------------------------------------------------------------------
(* Sectors and pages: the arithmetic of index and offset.                   *)

\* The index and the offset of a sector give the sector.
LEMMA DivMod ==
    ASSUME NEW s \in Nat
    PROVE  /\ PageSectors \in Nat \ {0}
           /\ Index(s) \in Nat
           /\ Offset(s) \in Offsets
           /\ PageSectors * Index(s) + Offset(s) = s
<1>1. PageSectors \in Nat \ {0} BY SizeAssumption
<1>2. s \div PageSectors \in Nat BY <1>1
<1>3. s % PageSectors \in 0 .. (PageSectors - 1) BY <1>1
<1>4. PageSectors * (s \div PageSectors) + (s % PageSectors) = s BY <1>1, SMTT(60)
<1>. QED  BY <1>1, <1>2, <1>3, <1>4 DEF Index, Offset, Offsets

\* A sector of the disk is in one of its pages.
LEMMA SectorPage ==
    ASSUME NEW s \in Sectors
    PROVE  Index(s) \in Indices /\ Offset(s) \in Offsets /\ s \in Nat
<1>1. s \in Nat /\ s <= Capacity - 1 /\ Capacity - 1 \in Nat
  BY SizeAssumption DEF Sectors
<1>2. ASSUME NEW P \in Nat \ {0}, NEW m \in Nat, NEW n \in Nat, m <= n
      PROVE  m \div P <= n \div P
  BY <1>2
<1>3. s \div PageSectors <= (Capacity - 1) \div PageSectors
  BY <1>1, <1>2, SizeAssumption
<1>4. (Capacity - 1) \div PageSectors \in Nat BY <1>1, SizeAssumption
<1>. QED  BY <1>1, <1>3, <1>4, DivMod DEF Index, Indices

\* The sectors from s on, as far as the page of s goes, are that page's, at
\* consecutive offsets.
LEMMA SamePage ==
    ASSUME NEW s \in Nat, NEW t \in Nat, s <= t, t < s + (PageSectors - Offset(s))
    PROVE  Index(t) = Index(s) /\ Offset(t) = Offset(s) + (t - s)
<1>. DEFINE P == PageSectors
<1>1. /\ P \in Nat \ {0} /\ Index(s) \in Nat /\ Index(t) \in Nat
      /\ Offset(s) \in 0 .. (P - 1) /\ Offset(t) \in 0 .. (P - 1)
      /\ P * Index(s) + Offset(s) = s /\ P * Index(t) + Offset(t) = t
  BY DivMod DEF Offsets
<1>. HIDE DEF P
<1>2. P * Index(t) < P * (Index(s) + 1) /\ P * Index(s) < P * (Index(t) + 1)
  <2>1. P * (Index(s) + 1) = P * Index(s) + P /\ P * (Index(t) + 1) = P * Index(t) + P
    BY <1>1
  <2>2. t < s + (P - Offset(s)) BY DEF P
  <2>3. P * Index(s) \in Int /\ P * Index(t) \in Int BY <1>1
  <2>. QED  BY <1>1, <2>1, <2>2, <2>3
<1>3. ASSUME NEW i \in Nat, NEW j \in Nat, P * i < P * (j + 1) PROVE i <= j
  BY <1>1, <1>3
<1>4. Index(t) = Index(s) BY <1>1, <1>2, <1>3
<1>5. PageSectors * Index(s) \in Int BY <1>1 DEF P
<1>. QED  BY <1>1, <1>4, <1>5 DEF P

\* A sector is its page and its offset.
LEMMA SectorIs ==
    ASSUME NEW s \in Nat, NEW t \in Nat, Index(s) = Index(t)
    PROVE  Offset(t) = Offset(s) + (t - s)
<1>1. /\ Offset(s) \in 0 .. (PageSectors - 1) /\ Offset(t) \in 0 .. (PageSectors - 1)
      /\ PageSectors * Index(s) + Offset(s) = s /\ PageSectors * Index(t) + Offset(t) = t
      /\ PageSectors * Index(s) \in Int
  BY DivMod DEF Offsets
<1>. QED  BY <1>1, SizeAssumption

-----------------------------------------------------------------------------
(* One page.                                                                *)

\* What a page must be, whatever was done to it: a reader finds values in it,
\* and zeros while it is clean and nobody took its dirty bit back.
PageOK(g) ==
    /\ g \in PageRecords \union {Absent}
    /\ g.buffers \/ g.valid = {}
    /\ \A o \in Offsets : Holds(g, o) \in Values
    /\ ~g.dirty /\ ~g.cancelled => \A o \in Offsets : Holds(g, o) = Zero

\* Page h has buffers, and is frail, exactly when g is; or only when g is.
SameMarks(h, g) == h.buffers = g.buffers /\ h.cancelled = g.cancelled
FewerMarks(h, g) == (h.buffers => g.buffers) /\ (h.cancelled => g.cancelled)

\* A page that is not in the cache reads as zeros.
LEMMA AbsentOK ==
    /\ PageOK(Absent) /\ Absent \notin PageRecords
    /\ \A o \in Offsets : Holds(Absent, o) = Zero
<1>1. 0 \in Offsets BY SizeAssumption DEF Offsets
<1>2. Absent \notin PageRecords
  <2>. SUFFICES ASSUME Absent \in PageRecords PROVE FALSE
    OBVIOUS
  <2>1. Absent.data \in [Offsets -> Values \union {Garbage}] BY DEF PageRecords
  <2>2. Absent.data = <<>> BY DEF Absent
  <2>3. DOMAIN Absent.data = Offsets BY <2>1
  <2>4. DOMAIN <<>> = {} OBVIOUS
  <2>. QED  BY <1>1, <2>2, <2>3, <2>4
<1>3. \A o \in Offsets : Holds(Absent, o) = Zero BY DEF Holds
<1>4. /\ Absent \in PageRecords \union {Absent}
      /\ Absent.buffers \/ Absent.valid = {}
  BY DEF Absent
<1>. QED  BY <1>2, <1>3, <1>4, ValuesAssumption DEF PageOK, Zero

\* A page that has just been allocated reads as zero, too.
LEMMA NewPageOK ==
    /\ PageOK(NewPage) /\ NewPage \in PageRecords /\ SameMarks(NewPage, Absent)
    /\ \A o \in Offsets : Holds(NewPage, o) = Zero
<1>1. NewPage = [uptodate |-> FALSE, dirty |-> FALSE, cancelled |-> FALSE, buffers |-> FALSE,
                 valid |-> {}, data |-> [o \in Offsets |-> Garbage]]
  <2>. SUFFICES ASSUME NEW h, h = NewPage
                PROVE  h = [uptodate |-> FALSE, dirty |-> FALSE, cancelled |-> FALSE, buffers |-> FALSE,
                            valid |-> {}, data |-> [o \in Offsets |-> Garbage]]
    OBVIOUS
  <2>. QED  BY DEF NewPage, Absent
<1>2. NewPage \in PageRecords BY <1>1 DEF PageRecords
<1>3. \A o \in Offsets : Holds(NewPage, o) = Zero BY <1>1 DEF Holds
<1>4. SameMarks(NewPage, Absent) BY <1>1 DEF SameMarks, Absent
<1>. QED  BY <1>1, <1>2, <1>3, <1>4, ValuesAssumption DEF PageOK, Zero

\* A page as grab_cache_page finds or makes it reads as before.
LEMMA FoundOK ==
    ASSUME NEW i, PageOK(page[i])
    PROVE  /\ PageOK(Found(i)) /\ Found(i) \in PageRecords /\ SameMarks(Found(i), page[i])
           /\ \A o \in Offsets : Holds(Found(i), o) = Holds(page[i], o)
<1>1. CASE page[i] = Absent BY <1>1, AbsentOK, NewPageOK DEF Found
<1>2. CASE page[i] # Absent
  <2>1. page[i] \in PageRecords BY <1>2 DEF PageOK
  <2>2. Found(i) = page[i] BY <1>2 DEF Found
  <2>. QED  BY <2>1, <2>2 DEF SameMarks
<1>. QED  BY <1>1, <1>2

\* make_page_uptodate changes nothing a reader would see.
LEMMA UptodateOK ==
    ASSUME NEW g \in PageRecords, PageOK(g)
    PROVE  /\ MakeUptodate(g) \in PageRecords
           /\ PageOK(MakeUptodate(g))
           /\ MakeUptodate(g).uptodate /\ SameMarks(MakeUptodate(g), g)
           /\ \A o \in Offsets : /\ Holds(MakeUptodate(g), o) = Holds(g, o)
                                 /\ MakeUptodate(g).data[o] = Holds(g, o)
<1>. DEFINE h == MakeUptodate(g)
            d == [o \in Offsets |->
                    IF g.uptodate \/ (g.buffers /\ o \in g.valid) THEN g.data[o] ELSE Zero]
            w == IF g.buffers THEN Offsets ELSE {}
<1>1. h = [uptodate |-> TRUE, dirty |-> g.dirty, cancelled |-> g.cancelled, buffers |-> g.buffers, valid |-> w, data |-> d]
  <2>. SUFFICES ASSUME NEW k, k = h
                PROVE  k = [uptodate |-> TRUE, dirty |-> g.dirty, cancelled |-> g.cancelled, buffers |-> g.buffers,
                            valid |-> w, data |-> d]
    OBVIOUS
  <2>. QED  BY DEF MakeUptodate, PageRecords
<1>2. g # Absent BY AbsentOK
<1>3. \A o \in Offsets : d[o] = Holds(g, o) BY <1>2 DEF Holds
<1>4. d \in [Offsets -> Values] BY <1>3 DEF PageOK
<1>5. w \in SUBSET Offsets /\ (g.buffers \/ w = {}) OBVIOUS
<1>. HIDE DEF d, w
<1>6. h \in PageRecords BY <1>1, <1>4, <1>5 DEF PageRecords
<1>7. h # Absent BY <1>6, AbsentOK
<1>. HIDE DEF h
<1>8. \A o \in Offsets : Holds(h, o) = d[o] /\ h.data[o] = d[o] BY <1>1, <1>7 DEF Holds
<1>9. PageOK(h)
  <2>1. /\ h.dirty = g.dirty /\ h.cancelled = g.cancelled
        /\ h.buffers = g.buffers /\ h.valid = w
    BY <1>1
  <2>. QED  BY <1>3, <1>4, <1>5, <1>6, <1>8, <2>1 DEF PageOK
<1>10. h.uptodate /\ SameMarks(h, g) BY <1>1 DEF SameMarks
<1>. QED  BY <1>3, <1>6, <1>8, <1>9, <1>10 DEF h

\* A page that is uptodate, with other data and dirty.
LEMMA WrittenOK ==
    ASSUME NEW g \in PageRecords, PageOK(g), g.uptodate, NEW d \in [Offsets -> Values]
    PROVE  /\ PageOK(Dirtied([g EXCEPT !.data = d]))
           /\ FewerMarks(Dirtied([g EXCEPT !.data = d]), g)
           /\ \A o \in Offsets : Holds(Dirtied([g EXCEPT !.data = d]), o) = d[o]
<1>. DEFINE h == Dirtied([g EXCEPT !.data = d])
<1>1. h = [uptodate |-> g.uptodate, dirty |-> TRUE, cancelled |-> FALSE, buffers |-> g.buffers,
           valid |-> g.valid, data |-> d]
  <2>. SUFFICES ASSUME NEW k, k = h
                PROVE  k = [uptodate |-> g.uptodate, dirty |-> TRUE, cancelled |-> FALSE, buffers |-> g.buffers,
                            valid |-> g.valid, data |-> d]
    OBVIOUS
  <2>. QED  BY DEF Dirtied, PageRecords
<1>. HIDE DEF h
<1>2. h \in PageRecords
  <2>1. d \in [Offsets -> Values \union {Garbage}] OBVIOUS
  <2>. QED  BY <1>1, <2>1 DEF PageRecords
<1>3. h # Absent BY <1>2, AbsentOK
<1>4. \A o \in Offsets : Holds(h, o) = d[o] BY <1>1, <1>3 DEF Holds
<1>5. PageOK(h)
  <2>1. h.dirty = TRUE /\ (h.buffers \/ h.valid = {}) BY <1>1 DEF PageOK
  <2>2. \A o \in Offsets : Holds(h, o) \in Values BY <1>4
  <2>. QED  BY <1>2, <2>1, <2>2 DEF PageOK
<1>6. FewerMarks(h, g) BY <1>1 DEF FewerMarks
<1>. QED  BY <1>4, <1>5, <1>6 DEF h

\* A page after ramdisk_writepage reads as before.
LEMMA WritepageOK ==
    ASSUME NEW g \in PageRecords, PageOK(g)
    PROVE  /\ PageOK([MakeUptodate(g) EXCEPT !.dirty = TRUE])
           /\ SameMarks([MakeUptodate(g) EXCEPT !.dirty = TRUE], g)
           /\ \A o \in Offsets :
                 Holds([MakeUptodate(g) EXCEPT !.dirty = TRUE], o) = Holds(g, o)
<1>. DEFINE m == MakeUptodate(g)
            h == [m EXCEPT !.dirty = TRUE]
<1>1. /\ m \in PageRecords /\ PageOK(m) /\ m.uptodate /\ SameMarks(m, g)
      /\ \A o \in Offsets : Holds(m, o) = Holds(g, o) /\ m.data[o] = Holds(g, o)
  BY UptodateOK
<1>. HIDE DEF m
<1>2. h = [uptodate |-> m.uptodate, dirty |-> TRUE, cancelled |-> m.cancelled, buffers |-> m.buffers,
           valid |-> m.valid, data |-> m.data]
  <2>. SUFFICES ASSUME NEW k, k = h
                PROVE  k = [uptodate |-> m.uptodate, dirty |-> TRUE, cancelled |-> m.cancelled, buffers |-> m.buffers,
                            valid |-> m.valid, data |-> m.data]
    OBVIOUS
  <2>. QED  BY <1>1 DEF PageRecords
<1>3. h \in PageRecords BY <1>1, <1>2 DEF PageRecords
<1>4. h # Absent BY <1>3, AbsentOK
<1>. HIDE DEF h
<1>5. \A o \in Offsets : Holds(h, o) = Holds(g, o) BY <1>1, <1>2, <1>4 DEF Holds
<1>6. PageOK(h) BY <1>1, <1>2, <1>3, <1>5 DEF PageOK
<1>7. SameMarks(h, g) BY <1>1, <1>2 DEF SameMarks
<1>. QED  BY <1>5, <1>6, <1>7 DEF m, h

\* The page when its buffers are made, when one is written, when they are freed.
WithBuffers(g) ==
    [g EXCEPT !.buffers = TRUE, !.valid = IF g.uptodate THEN Offsets ELSE {}]
BufferWritten(g, o, v) ==
    Dirtied([g EXCEPT !.valid = @ \union {o}, !.data[o] = v])
Stripped(g) ==
    [MakeUptodate(g) EXCEPT !.buffers = FALSE, !.valid = {},
                            !.dirty = FALSE, !.cancelled = TRUE]

\* A page that gets buffers reads as before.
LEMMA GetBuffersOK ==
    ASSUME NEW g \in PageRecords, PageOK(g), ~g.buffers
    PROVE  /\ PageOK(WithBuffers(g))
           /\ WithBuffers(g).buffers /\ WithBuffers(g).cancelled = g.cancelled
           /\ \A o \in Offsets : Holds(WithBuffers(g), o) = Holds(g, o)
<1>. SUFFICES ASSUME NEW h, h = WithBuffers(g)
              PROVE  /\ PageOK(h) /\ h.buffers /\ h.cancelled = g.cancelled
                     /\ \A o \in Offsets : Holds(h, o) = Holds(g, o)
  OBVIOUS
<1>. DEFINE w == IF g.uptodate THEN Offsets ELSE {}
<1>1. h = [uptodate |-> g.uptodate, dirty |-> g.dirty, cancelled |-> g.cancelled,
           buffers |-> TRUE, valid |-> w, data |-> g.data]
  BY DEF WithBuffers, PageRecords
<1>2. h \in PageRecords
  <2>1. w \in SUBSET Offsets OBVIOUS
  <2>. HIDE DEF w
  <2>. QED  BY <1>1, <2>1 DEF PageRecords
<1>3. h # Absent /\ g # Absent BY <1>2, AbsentOK
<1>4. \A o \in Offsets : Holds(h, o) = Holds(g, o) BY <1>1, <1>3 DEF Holds
<1>5. h.buffers = TRUE /\ h.dirty = g.dirty /\ h.cancelled = g.cancelled BY <1>1
<1>6. PageOK(h) BY <1>2, <1>4, <1>5 DEF PageOK
<1>. QED  BY <1>4, <1>5, <1>6

\* A file system's buffer: one sector is written, the others stay as they are.
LEMMA BufferOK ==
    ASSUME NEW g \in PageRecords, PageOK(g), g.buffers, NEW o \in Offsets, NEW v \in Values
    PROVE  /\ PageOK(BufferWritten(g, o, v)) /\ FewerMarks(BufferWritten(g, o, v), g)
           /\ BufferWritten(g, o, v) \in PageRecords
           /\ BufferWritten(g, o, v).uptodate = g.uptodate
           /\ \A k \in Offsets :
                 Holds(BufferWritten(g, o, v), k) = IF k = o THEN v ELSE Holds(g, k)
<1>. SUFFICES ASSUME NEW h, h = BufferWritten(g, o, v)
              PROVE  /\ PageOK(h) /\ FewerMarks(h, g)
                     /\ h \in PageRecords /\ h.uptodate = g.uptodate
                     /\ \A k \in Offsets : Holds(h, k) = IF k = o THEN v ELSE Holds(g, k)
  OBVIOUS
<1>. DEFINE w == g.valid \union {o}
            d == [g.data EXCEPT ![o] = v]
<1>1. h = [uptodate |-> g.uptodate, dirty |-> TRUE, cancelled |-> FALSE,
           buffers |-> g.buffers, valid |-> w, data |-> d]
  BY DEF BufferWritten, Dirtied, PageRecords
<1>2. d \in [Offsets -> Values \union {Garbage}] /\ w \in SUBSET Offsets BY DEF PageRecords
<1>3. h \in PageRecords
  <2>. HIDE DEF w, d
  <2>. QED  BY <1>1, <1>2 DEF PageRecords
<1>4. h # Absent /\ g # Absent BY <1>3, AbsentOK
<1>5. \A k \in Offsets : Holds(h, k) = IF k = o THEN v ELSE Holds(g, k)
  BY <1>1, <1>2, <1>4 DEF Holds, PageOK, PageRecords
<1>6. h.buffers = g.buffers /\ h.dirty = TRUE /\ h.cancelled = FALSE /\ h.uptodate = g.uptodate
  BY <1>1
<1>7. PageOK(h) BY <1>3, <1>5, <1>6 DEF PageOK
<1>. QED  BY <1>3, <1>5, <1>6, <1>7 DEF FewerMarks

\* A page whose buffers were freed still reads as before, but is frail.
LEMMA StrippedOK ==
    ASSUME NEW g \in PageRecords, PageOK(g)
    PROVE  /\ PageOK(Stripped(g)) /\ ~Stripped(g).buffers /\ Stripped(g).cancelled
           /\ \A o \in Offsets : Holds(Stripped(g), o) = Holds(g, o)
<1>. DEFINE m == MakeUptodate(g)
<1>1. /\ m \in PageRecords /\ m.uptodate
      /\ \A o \in Offsets : m.data[o] = Holds(g, o)
  BY UptodateOK
<1>2. Stripped(g) = [m EXCEPT !.buffers = FALSE, !.valid = {},
                              !.dirty = FALSE, !.cancelled = TRUE]
  BY DEF Stripped
<1>. HIDE DEF m
<1>. SUFFICES ASSUME NEW h, h = Stripped(g)
              PROVE  /\ PageOK(h) /\ ~h.buffers /\ h.cancelled
                     /\ \A o \in Offsets : Holds(h, o) = Holds(g, o)
  OBVIOUS
<1>3. h = [uptodate |-> m.uptodate, dirty |-> FALSE, cancelled |-> TRUE,
           buffers |-> FALSE, valid |-> {}, data |-> m.data]
  BY <1>1, <1>2 DEF PageRecords
<1>4. h \in PageRecords BY <1>1, <1>3 DEF PageRecords
<1>5. h # Absent BY <1>4, AbsentOK
<1>6. \A o \in Offsets : Holds(h, o) = Holds(g, o) BY <1>1, <1>3, <1>5 DEF Holds
<1>7. h.buffers = FALSE /\ h.cancelled = TRUE /\ h.valid = {} BY <1>3
<1>8. PageOK(h) BY <1>4, <1>6, <1>7 DEF PageOK
<1>. QED  BY <1>6, <1>7, <1>8

-----------------------------------------------------------------------------
(* The inductive invariant.                                                 *)

\* bd_openers is one more than the users once rd_open has seen the device, so
\* the last close never drops the pages; requests belong to users, and only
\* a sole user flushes.
Counted ==
    /\ rd_bdev => bd_openers = users + 1
    /\ ~rd_bdev => bd_openers = 0 /\ users = 0
    /\ users = 0 => \A p \in Procs : pc[p] = "idle"
    /\ flushing # {} => users = 1

\* The place of a request: its segments up to seg end where size is used up.
Cut(b) == CHOOSE f \in Cuts(b) : TRUE
InRequest(p) ==
    /\ bio[p].sector + bio[p].len <= Capacity
    /\ bio[p].sector <= at[p]
    /\ seg[p] \in 1 .. Len(bio[p].segs)
    /\ at[p] + size[p] = bio[p].sector + Cut(bio[p])[seg[p] + 1]
    /\ pc[p] \in {"grab", "move"} => size[p] > 0
    /\ pc[p] = "unlock" => at[p] > bio[p].sector
    /\ moved[p] \subseteq bio[p].sector .. (at[p] - 1)
    /\ ret[p] = 0 => moved[p] = bio[p].sector .. (at[p] - 1)
    /\ buf[p] \in [1 .. bio[p].len -> Values]
PlaceOK(p) ==
    /\ pc[p] \in {"idle", "prepared"} => bio[p] = NoBio /\ moved[p] = {}
    /\ pc[p] = "prepared" => at[p] \in Sectors
    /\ pc[p] \notin {"idle", "prepared"} => bio[p] \in Bios
    /\ pc[p] \in {"grab", "move", "unlock"} => InRequest(p)
    /\ pc[p] = "end" => (ret[p] = 0 => moved[p] = Covered(bio[p]))

\* The page a process works on stays there.
PageThere(p) ==
    /\ pc[p] \in {"move", "prepared"} => page[Index(at[p])] # Absent
    /\ pc[p] = "prepared" => page[Index(at[p])].uptodate
Works(p, i) ==
    \/ pc[p] \in {"move", "prepared"} /\ Index(at[p]) = i
    \/ pc[p] = "unlock" /\ Index(at[p] - 1) = i

PagesOK == \A i \in Indices : PageOK(page[i])
Places == \A p \in Procs : PlaceOK(p) /\ PageThere(p)
Locks == \A i \in Indices, p \in Procs : lock[i] = p <=> Works(p, i)

IInv == TypeOK /\ Counted /\ PagesOK /\ Places /\ Locks

\* What a request says of its segments.
LEMMA BioFacts ==
    ASSUME NEW b \in Bios
    PROVE  /\ b # NoBio /\ b.rw \in {"READ", "WRITE"}
           /\ b.sector \in Nat /\ b.len \in Nat
           /\ b.data \in [1 .. b.len -> Values] /\ b.data \in Seq(Values)
           /\ Len(b.segs) \in Nat \ {0}
           /\ Cut(b)[1] = 0 /\ Cut(b)[Len(b.segs) + 1] = b.len
           /\ \A k \in 1 .. Len(b.segs) :
                 /\ b.segs[k] \in Nat \ {0}
                 /\ Cut(b)[k] \in 0 .. b.len /\ Cut(b)[k + 1] \in 0 .. b.len
                 /\ Cut(b)[k + 1] = Cut(b)[k] + b.segs[k]
<1>1. /\ b.rw \in {"READ", "WRITE"} /\ b.sector \in Nat /\ b.len \in Nat
      /\ b.segs \in Seq(Nat \ {0}) /\ b.segs # <<>>
      /\ b.data \in [1 .. b.len -> Values] /\ Cuts(b) # {}
  BY BiosAssumption
<1>2. b # NoBio BY <1>1 DEF NoBio
<1>3. Len(b.segs) \in Nat \ {0} /\ \A k \in 1 .. Len(b.segs) : b.segs[k] \in Nat \ {0}
  BY <1>1
<1>4. b.data \in Seq(Values) BY <1>1, SeqDef
<1>5. Cut(b) \in Cuts(b) BY <1>1 DEF Cut
<1>6. /\ Cut(b) \in [1 .. (Len(b.segs) + 1) -> 0 .. b.len]
      /\ Cut(b)[1] = 0 /\ Cut(b)[Len(b.segs) + 1] = b.len
      /\ \A k \in 1 .. Len(b.segs) : Cut(b)[k + 1] = Cut(b)[k] + b.segs[k]
  BY <1>5 DEF Cuts
<1>7. \A k \in 1 .. Len(b.segs) :
         k \in 1 .. (Len(b.segs) + 1) /\ k + 1 \in 1 .. (Len(b.segs) + 1)
  BY <1>3
<1>. QED  BY <1>1, <1>2, <1>3, <1>4, <1>6, <1>7

\* Where a request is, it is on the disk.
LEMMA RequestAt ==
    ASSUME IInv, NEW p \in Procs
    PROVE  /\ pc[p] \in {"grab", "move", "prepared"} => at[p] \in Sectors
           /\ pc[p] \in {"grab", "move"} =>
                 /\ size[p] \in Nat \ {0} /\ at[p] + size[p] <= Capacity
                 /\ at[p] + size[p] <= bio[p].sector + bio[p].len
           /\ pc[p] = "unlock" => at[p] - 1 \in Sectors
<1>0. at[p] \in Nat /\ size[p] \in Nat /\ Capacity \in Nat
  BY SizeAssumption DEF IInv, TypeOK
<1>1. ASSUME pc[p] \in {"grab", "move", "unlock"}
      PROVE  /\ bio[p].sector \in Nat /\ bio[p].sector <= at[p]
             /\ at[p] + size[p] <= bio[p].sector + bio[p].len
             /\ bio[p].sector + bio[p].len <= Capacity /\ bio[p].len \in Nat
             /\ pc[p] \in {"grab", "move"} => size[p] > 0
             /\ pc[p] = "unlock" => at[p] > bio[p].sector
  <2>1. InRequest(p) /\ bio[p] \in Bios BY <1>1 DEF IInv, Places, PlaceOK
  <2>2. Cut(bio[p])[seg[p] + 1] \in 0 .. bio[p].len /\ bio[p].sector \in Nat /\ bio[p].len \in Nat
    BY <2>1, BioFacts DEF InRequest
  <2>. QED  BY <1>0, <2>1, <2>2 DEF InRequest
<1>2. pc[p] = "prepared" => at[p] \in Sectors BY DEF IInv, Places, PlaceOK
<1>. QED  BY <1>0, <1>1, <1>2 DEF Sectors

\* Before insmod.
LEMMA InitInv == Init => IInv
<1>. SUFFICES ASSUME Init PROVE IInv
  OBVIOUS
<1>1. TypeOK
  <2>1. /\ 0 \in 0 .. MaxUsers /\ 0 \in 0 .. (MaxUsers + 1) /\ 0 \in Nat
    BY MaxUsersAssumption
  <2>2. <<>> \in Seq(Values) OBVIOUS
  <2>3. buf \in [Procs -> Seq(Values)] BY <2>2 DEF Init
  <2>4. /\ page \in [Indices -> PageRecords \union {Absent}]
        /\ lock \in [Indices -> Procs \union {None}]
        /\ bio \in [Procs -> Bios \union {NoBio}]
        /\ moved \in [Procs -> SUBSET Sectors]
        /\ pc \in [Procs -> {"idle", "grab", "move", "unlock", "end", "prepared"}]
        /\ result \in [Procs -> {"none", "ok", "error"}]
        /\ ret \in [Procs -> {0, 1}]
    BY DEF Init
  <2>5. seg \in [Procs -> Nat] /\ at \in [Procs -> Nat] /\ size \in [Procs -> Nat]
    BY DEF Init
  <2>6. /\ users \in 0 .. MaxUsers /\ bd_openers \in 0 .. (MaxUsers + 1)
        /\ flushing \subseteq Indices /\ rd_bdev \in BOOLEAN /\ loaded \in BOOLEAN
    BY <2>1 DEF Init
  <2>. QED  BY <2>3, <2>4, <2>5, <2>6 DEF TypeOK
<1>2. Counted BY DEF Init, Counted
<1>3. PagesOK BY AbsentOK DEF Init, PagesOK
<1>4. Places BY DEF Init, Places, PlaceOK, PageThere
<1>5. Locks BY ProcsAssumption DEF Init, Locks, Works
<1>. QED  BY <1>1, <1>2, <1>3, <1>4, <1>5 DEF IInv

\* Locks is what LockHeld says, PagesOK contains CleanIsZero.
LEMMA Implied == IInv => LockHeld /\ CleanIsZero
<1>1. Locks => LockHeld BY DEF Locks, Works, LockHeld
<1>2. PagesOK => CleanIsZero BY DEF PagesOK, PageOK, CleanIsZero
<1>. QED  BY <1>1, <1>2 DEF IInv

-----------------------------------------------------------------------------
(* Steps of the device and of the kernel on pages that nobody has locked.   *)

\* Steps that leave pages, processes and requests alone.
LEMMA DeviceInv ==
    ASSUME IInv,
           \/ InitModule \/ Open \/ FlushStart
           \/ UNCHANGED vars
    PROVE  IInv' /\ UNCHANGED <<cache, pc, request>>
<1>1. UNCHANGED <<cache, pc, request>>
  BY DEF InitModule, Open, OpenCounting, FlushStart, vars
<1>2. /\ users' \in 0 .. MaxUsers /\ bd_openers' \in 0 .. (MaxUsers + 1)
      /\ flushing' \subseteq Indices /\ rd_bdev' \in BOOLEAN /\ loaded' \in BOOLEAN
      /\ Counted'
  <2>1. CASE InitModule
    BY <2>1 DEF InitModule, IInv, TypeOK, Counted
  <2>2. CASE Open
    BY <2>2, MaxUsersAssumption DEF Open, OpenCounting, IInv, TypeOK, Counted
  <2>3. CASE FlushStart
    BY <2>3, MaxUsersAssumption DEF FlushStart, IInv, TypeOK, Counted
  <2>4. CASE UNCHANGED vars
    BY <2>4 DEF vars, device, IInv, TypeOK, Counted
  <2>. QED  BY <2>1, <2>2, <2>3, <2>4
<1>3. TypeOK' BY <1>1, <1>2 DEF cache, request, IInv, TypeOK
<1>4. PagesOK' BY <1>1 DEF cache, IInv, PagesOK
<1>5. Locks' BY <1>1 DEF cache, request, IInv, Locks, Works
<1>6. Places'
  BY <1>1 DEF cache, request, IInv, Places, PlaceOK, InRequest, PageThere
<1>. QED  BY <1>1, <1>2, <1>3, <1>4, <1>5, <1>6 DEF IInv

\* The count keeps the pages when the last user closes the device.
LEMMA CloseInv ==
    ASSUME IInv, Close
    PROVE  IInv' /\ page' = page
<1>1. users \in Nat /\ MaxUsers \in Nat BY MaxUsersAssumption DEF IInv, TypeOK
<1>2. rd_bdev /\ bd_openers = users + 1 BY <1>1 DEF Close, IInv, Counted
<1>3. page' = page BY <1>1, <1>2 DEF Close
<1>4. UNCHANGED <<lock, rd_bdev, flushing, loaded, pc, request>> BY DEF Close
<1>5. Counted' BY <1>1, <1>2, <1>4 DEF Close, IInv, Counted
<1>6. TypeOK' BY <1>1, <1>2, <1>3, <1>4 DEF Close, request, IInv, TypeOK
<1>7. PagesOK' BY <1>3 DEF IInv, PagesOK
<1>8. Locks' BY <1>4 DEF request, IInv, Locks, Works
<1>9. Places' BY <1>3, <1>4 DEF request, IInv, Places, PlaceOK, InRequest, PageThere
<1>. QED  BY <1>3, <1>5, <1>6, <1>7, <1>8, <1>9 DEF IInv

\* rmmod drops the cache, when nobody works on it.
LEMMA CleanupInv ==
    ASSUME IInv, Cleanup
    PROVE  IInv'
<1>1. \A p \in Procs : pc[p] = "idle" BY DEF Cleanup, IInv, Counted
<1>2. /\ page' = [i \in Indices |-> Absent]
      /\ UNCHANGED <<lock, users, flushing, pc, request>>
      /\ users = 0 /\ ~rd_bdev' /\ bd_openers' = 0 /\ loaded' = FALSE /\ rd_bdev' = FALSE
  BY DEF Cleanup
<1>3. TypeOK'
  <2>1. page' \in [Indices -> PageRecords \union {Absent}] BY <1>2
  <2>2. rd_bdev' \in BOOLEAN /\ loaded' \in BOOLEAN BY <1>2
  <2>3. bd_openers' \in 0 .. (MaxUsers + 1) BY <1>2, MaxUsersAssumption
  <2>4. UNCHANGED <<lock, users, flushing, pc, request>> BY <1>2
  <2>. QED  BY <2>1, <2>2, <2>3, <2>4 DEF request, IInv, TypeOK
<1>4. Counted' BY <1>2 DEF IInv, Counted
<1>5. PagesOK' BY <1>2, AbsentOK DEF PagesOK
<1>6. Locks' BY <1>2 DEF request, IInv, Locks, Works
<1>7. Places' BY <1>1, <1>2 DEF request, IInv, Places, PlaceOK, PageThere
<1>. QED  BY <1>3, <1>4, <1>5, <1>6, <1>7 DEF IInv

\* A page becomes another, that nobody has locked or that stays as useful to
\* whoever has.
LEMMA PageInv ==
    ASSUME IInv, NEW i \in Indices, NEW h, PageOK(h),
           lock[i] = None \/ (h # Absent /\ h.uptodate = page[i].uptodate),
           page' = [page EXCEPT ![i] = h], flushing' \subseteq flushing,
           UNCHANGED <<lock, users, rd_bdev, bd_openers, loaded, pc, request>>
    PROVE  IInv'
<1>1. TypeOK'
  <2>1. h \in PageRecords \union {Absent} BY DEF PageOK
  <2>2. page' \in [Indices -> PageRecords \union {Absent}] BY <2>1 DEF IInv, TypeOK
  <2>. QED  BY <2>2 DEF request, IInv, TypeOK
<1>2. Counted' BY DEF IInv, Counted
<1>3. \A j \in Indices : page'[j] = IF j = i THEN h ELSE page[j] BY DEF IInv, TypeOK
<1>4. PagesOK' BY <1>3 DEF IInv, PagesOK
<1>5. Locks' BY DEF request, IInv, Locks, Works
<1>6. ASSUME NEW p \in Procs PROVE PlaceOK(p)' /\ PageThere(p)'
  <2>1. PlaceOK(p)' BY DEF request, IInv, Places, PlaceOK, InRequest
  <2>2. ASSUME pc[p] \in {"move", "prepared"}
        PROVE  \/ page'[Index(at[p])] = page[Index(at[p])]
               \/ /\ page'[Index(at[p])] # Absent
                  /\ page'[Index(at[p])].uptodate = page[Index(at[p])].uptodate
    <3>1. Index(at[p]) \in Indices BY <2>2, RequestAt, SectorPage
    <3>2. lock[Index(at[p])] = p BY <2>2, <3>1 DEF IInv, Locks, Works
    <3>. QED  BY <1>3, <3>1, <3>2, ProcsAssumption
  <2>3. PageThere(p)' BY <2>2 DEF request, IInv, Places, PageThere
  <2>. QED  BY <2>1, <2>3
<1>7. Places' BY <1>6 DEF Places
<1>. QED  BY <1>1, <1>2, <1>4, <1>5, <1>7 DEF IInv

\* What the kernel does to a page it has for itself, and what the page holds
\* after that.
LEMMA KernelPage ==
    ASSUME IInv, NEW i \in Indices,
           \/ FlushPage(i) \/ Evict(i) \/ Readpage(i) \/ Writepage(i)
           \/ FreeBuffers(i) \/ FsGetBuffers(i)
    PROVE  \E h : /\ PageOK(h) /\ lock[i] = None /\ page' = [page EXCEPT ![i] = h]
                  /\ flushing' \subseteq flushing
                  /\ UNCHANGED <<lock, users, rd_bdev, bd_openers, loaded, pc, request>>
                  /\ \/ (FlushPage(i) \/ Evict(i)) /\ h = Absent
                     \/ /\ flushing' = flushing
                        /\ \A o \in Offsets : Holds(h, o) = Holds(page[i], o)
                        /\ \/ SameMarks(h, page[i])
                           \/ page[i].buffers /\ ~h.buffers /\ h.cancelled
                           \/ users > 0 /\ h.buffers /\ h.cancelled = page[i].cancelled
<1>0. PageOK(page[i]) BY DEF IInv, PagesOK
<1>1. CASE FlushPage(i) \/ Evict(i)
  BY <1>1, AbsentOK DEF FlushPage, Evict, device
<1>2. CASE Readpage(i)
  <2>. DEFINE h == MakeUptodate(Found(i))
  <2>1. PageOK(h) /\ SameMarks(h, page[i])
    BY <1>0, FoundOK, UptodateOK DEF SameMarks
  <2>2. \A o \in Offsets : Holds(h, o) = Holds(page[i], o)
    BY <1>0, FoundOK, UptodateOK
  <2>3. /\ lock[i] = None /\ page' = [page EXCEPT ![i] = h]
        /\ UNCHANGED <<lock, device, pc, request>>
    BY <1>2 DEF Readpage
  <2>. HIDE DEF h
  <2>. QED  BY <2>1, <2>2, <2>3 DEF device
<1>3. CASE Writepage(i)
  <2>. DEFINE h == [MakeUptodate(page[i]) EXCEPT !.dirty = TRUE]
  <2>1. page[i] \in PageRecords BY <1>0, <1>3 DEF Writepage, WritepageLeaving, PageOK
  <2>2. /\ PageOK(h) /\ SameMarks(h, page[i])
        /\ \A o \in Offsets : Holds(h, o) = Holds(page[i], o)
    BY <1>0, <2>1, WritepageOK
  <2>3. /\ lock[i] = None /\ page' = [page EXCEPT ![i] = h]
        /\ UNCHANGED <<lock, device, pc, request>>
    BY <1>3 DEF Writepage, WritepageLeaving, IInv, TypeOK
  <2>. HIDE DEF h
  <2>. QED  BY <2>2, <2>3 DEF device
<1>4. CASE FreeBuffers(i)
  <2>. DEFINE h == Stripped(page[i])
  <2>1. page[i].buffers BY <1>4 DEF FreeBuffers
  <2>2. page[i] \in PageRecords BY <1>0, <2>1 DEF PageOK, Absent
  <2>3. /\ PageOK(h) /\ ~h.buffers /\ h.cancelled
        /\ \A o \in Offsets : Holds(h, o) = Holds(page[i], o)
    BY <1>0, <2>2, StrippedOK
  <2>4. /\ lock[i] = None /\ page' = [page EXCEPT ![i] = h]
        /\ UNCHANGED <<lock, device, pc, request>>
    BY <1>4 DEF FreeBuffers, Stripped, IInv, TypeOK
  <2>. HIDE DEF h
  <2>. QED  BY <2>1, <2>3, <2>4 DEF device
<1>5. CASE FsGetBuffers(i)
  <2>. DEFINE g == Found(i)
              h == WithBuffers(g)
  <2>1. /\ PageOK(g) /\ g \in PageRecords /\ SameMarks(g, page[i])
        /\ \A o \in Offsets : Holds(g, o) = Holds(page[i], o)
    BY <1>0, FoundOK
  <2>2. /\ users > 0 /\ lock[i] = None /\ ~g.buffers /\ page' = [page EXCEPT ![i] = h]
        /\ UNCHANGED <<lock, device, pc, request>>
    BY <1>5 DEF FsGetBuffers, WithBuffers
  <2>. HIDE DEF g
  <2>3. /\ PageOK(h) /\ h.buffers /\ h.cancelled = g.cancelled
        /\ \A o \in Offsets : Holds(h, o) = Holds(g, o)
    BY <2>1, <2>2, GetBuffersOK
  <2>. HIDE DEF h
  <2>. QED  BY <2>1, <2>2, <2>3 DEF device, SameMarks
<1>. QED  BY <1>1, <1>2, <1>3, <1>4, <1>5

\* A file system's buffer write leaves a page that reads as before but for
\* the sector written.
LEMMA BufferPage ==
    ASSUME IInv, NEW s \in CacheSectors, NEW v \in Values, FsBuffer(s, v)
    PROVE  \E h : /\ s \in Sectors /\ PageOK(h) /\ page' = [page EXCEPT ![Index(s)] = h]
                  /\ h # Absent /\ h.uptodate = page[Index(s)].uptodate
                  /\ FewerMarks(h, page[Index(s)])
                  /\ UNCHANGED <<lock, device, pc, request>>
                  /\ \A o \in Offsets :
                        Holds(h, o) = IF o = Offset(s) THEN v ELSE Holds(page[Index(s)], o)
<1>. DEFINE i == Index(s)
            g == page[i]
            h == BufferWritten(g, Offset(s), v)
<1>1. s \in Sectors BY CacheAssumption DEF Sectors
<1>2. i \in Indices /\ Offset(s) \in Offsets BY <1>1, SectorPage
<1>3. PageOK(g) BY <1>2 DEF IInv, PagesOK
<1>4. g.buffers BY DEF FsBuffer
<1>5. g \in PageRecords BY <1>3, <1>4 DEF PageOK, Absent
<1>6. page' = [page EXCEPT ![i] = h] /\ UNCHANGED <<lock, device, pc, request>>
  <2>1. page' = [page EXCEPT ![i] = h] BY DEF FsBuffer, BufferWritten
  <2>2. UNCHANGED <<lock, device, pc, request>> BY DEF FsBuffer
  <2>. QED  BY <2>1, <2>2
<1>7. /\ PageOK(h) /\ h \in PageRecords /\ h.uptodate = g.uptodate /\ FewerMarks(h, g)
      /\ \A o \in Offsets : Holds(h, o) = IF o = Offset(s) THEN v ELSE Holds(g, o)
  <2>. HIDE DEF g
  <2>. QED  BY <1>2, <1>3, <1>4, <1>5, BufferOK
<1>. HIDE DEF h
<1>8. h # Absent BY <1>7, AbsentOK
<1>. QED  BY <1>1, <1>6, <1>7, <1>8

\* What the kernel does to pages: flushing, reading, writing back, reclaim, and
\* the buffers of a file system.
KernelStep ==
    \/ \E i \in Indices :
          \/ FlushPage(i) \/ Evict(i) \/ Readpage(i) \/ Writepage(i)
          \/ FreeBuffers(i) \/ FsGetBuffers(i)
    \/ \E s \in CacheSectors, v \in Values : FsBuffer(s, v)

\* It keeps the invariant.
LEMMA KernelInv ==
    ASSUME IInv, KernelStep
    PROVE  IInv'
<1>1. ASSUME NEW i \in Indices,
             \/ FlushPage(i) \/ Evict(i) \/ Readpage(i) \/ Writepage(i)
             \/ FreeBuffers(i) \/ FsGetBuffers(i)
      PROVE  IInv'
  BY <1>1, KernelPage, PageInv
<1>2. ASSUME NEW s \in CacheSectors, NEW v \in Values, FsBuffer(s, v) PROVE IInv'
  <2>1. PICK h : /\ s \in Sectors /\ h # Absent /\ h.uptodate = page[Index(s)].uptodate
                 /\ PageOK(h) /\ page' = [page EXCEPT ![Index(s)] = h]
                 /\ UNCHANGED <<lock, device, pc, request>>
    BY <1>2, BufferPage
  <2>2. Index(s) \in Indices BY <2>1, SectorPage
  <2>. QED  BY <2>1, <2>2, PageInv DEF device
<1>. QED  BY <1>1, <1>2 DEF KernelStep

\* The steps that Next names are those.
LEMMA KernelSteps ==
    ASSUME \/ \E i \in Indices :
                 \/ FlushPage(i) \/ Readpage(i) \/ Writepage(i)
                 \/ Evict(i) \/ FreeBuffers(i)
           \/ \E s \in CacheSectors :
                 \/ FsGetBuffers(Index(s)) \/ FsBufferRaced(s)
                 \/ \E v \in Values : FsBuffer(s, v)
    PROVE  KernelStep
<1>1. \A s \in CacheSectors : Index(s) \in Indices
  BY CacheAssumption, SectorPage DEF Sectors
<1>2. \A s \in CacheSectors : FsBufferRaced(s) => FsBuffer(s, Zero) BY DEF FsBufferRaced
<1>3. Zero \in Values BY ValuesAssumption DEF Zero
<1>. QED  BY <1>1, <1>2, <1>3 DEF KernelStep

-----------------------------------------------------------------------------
(* Steps of a process.                                                      *)

\* What a step of p leaves alone: the other processes, and the pages that are
\* neither free nor p's own.
Frame(p) ==
    /\ \A q \in Procs \ {p} :
          /\ pc'[q] = pc[q] /\ bio'[q] = bio[q] /\ seg'[q] = seg[q] /\ at'[q] = at[q]
          /\ size'[q] = size[q] /\ ret'[q] = ret[q] /\ buf'[q] = buf[q] /\ moved'[q] = moved[q]
    /\ \/ UNCHANGED <<page, lock>>
       \/ \E i \in Indices :
             /\ lock[i] \in {None, p} /\ lock'[i] \in {None, p}
             /\ \A j \in Indices \ {i} : lock'[j] = lock[j] /\ page'[j] = page[j]
             /\ PageOK(page'[i])

\* A process that touches no page but its own leaves the others' places.
LEMMA FrameInv ==
    ASSUME IInv, NEW p \in Procs, Frame(p), TypeOK', Counted',
           PlaceOK(p)', PageThere(p)', \A i \in Indices : lock'[i] = p <=> Works(p, i)'
    PROVE  IInv'
<1>1. ASSUME NEW j \in Indices, NEW q \in Procs \ {p}
      PROVE  /\ lock'[j] = q <=> lock[j] = q
             /\ lock[j] = q => page'[j] = page[j]
  BY <1>1, ProcsAssumption DEF Frame
<1>2. PagesOK' BY DEF Frame, IInv, PagesOK
<1>3. Locks'
  <2>1. ASSUME NEW j \in Indices, NEW q \in Procs PROVE (lock[j] = q <=> Works(q, j))'
    <3>1. CASE q = p BY <3>1
    <3>2. CASE q # p BY <1>1, <3>2 DEF Frame, IInv, Locks, Works
    <3>. QED  BY <3>1, <3>2
  <2>. QED  BY <2>1 DEF Locks
<1>4. ASSUME NEW q \in Procs PROVE PlaceOK(q)' /\ PageThere(q)'
  <2>1. CASE q = p BY <2>1
  <2>2. CASE q # p
    <3>1. PlaceOK(q)' BY <2>2 DEF Frame, IInv, Places, PlaceOK, InRequest
    <3>2. ASSUME pc[q] \in {"move", "prepared"} PROVE page'[Index(at[q])] = page[Index(at[q])]
      <4>1. Index(at[q]) \in Indices BY <3>2, RequestAt, SectorPage
      <4>2. lock[Index(at[q])] = q BY <3>2, <4>1 DEF IInv, Locks, Works
      <4>. QED  BY <1>1, <2>2, <4>1, <4>2
    <3>3. PageThere(q)' BY <2>2, <3>2 DEF Frame, IInv, Places, PageThere
    <3>. QED  BY <3>1, <3>3
  <2>. QED  BY <2>1, <2>2
<1>5. Places' BY <1>4 DEF Places
<1>. QED  BY <1>2, <1>3, <1>5 DEF IInv

\* A process that is not idle, or has just begun, is a user's.
LEMMA StillCounted ==
    ASSUME IInv, NEW p \in Procs, users > 0 \/ pc[p] # "idle", UNCHANGED device
    PROVE  Counted' /\ users > 0
<1>1. users \in Nat BY MaxUsersAssumption DEF IInv, TypeOK
<1>2. users > 0 BY <1>1 DEF IInv, Counted
<1>. QED  BY <1>2 DEF device, IInv, Counted

\* No page is p's, before or after.
LEMMA NoPage ==
    ASSUME IInv, NEW p \in Procs, pc[p] \in {"idle", "grab", "end"},
           pc'[p] \in {"idle", "grab", "end"}, lock' = lock
    PROVE  \A i \in Indices : lock'[i] = p <=> Works(p, i)'
  BY DEF IInv, Locks, Works

\* A request begins at its first sector, with all of it to go.
LEMMA SubmitInv ==
    ASSUME IInv, NEW p \in Procs, NEW b \in Bios, Submit(p, b)
    PROVE  IInv'
<1>1. /\ pc' = [pc EXCEPT ![p] = IF b.sector + b.len <= Capacity THEN "grab" ELSE "end"]
      /\ ret' = [ret EXCEPT ![p] = IF b.sector + b.len <= Capacity THEN 0 ELSE 1]
      /\ bio' = [bio EXCEPT ![p] = b]
      /\ seg' = [seg EXCEPT ![p] = 1]
      /\ at' = [at EXCEPT ![p] = b.sector]
      /\ size' = [size EXCEPT ![p] = b.segs[1]]
      /\ buf' = [buf EXCEPT ![p] = b.data]
      /\ result' = [result EXCEPT ![p] = "none"]
      /\ moved' = [moved EXCEPT ![p] = {}]
      /\ UNCHANGED <<page, lock>> /\ UNCHANGED device
      /\ users > 0 /\ pc[p] = "idle"
  BY DEF Submit, cache
<1>2. /\ b.sector \in Nat /\ b.len \in Nat /\ b.segs[1] \in Nat \ {0}
      /\ b.data \in Seq(Values) /\ b.data \in [1 .. b.len -> Values]
      /\ Len(b.segs) \in Nat \ {0} /\ Cut(b)[1 + 1] = b.segs[1]
  BY BioFacts
<1>3. TypeOK' BY <1>1, <1>2 DEF device, IInv, TypeOK
<1>4. Counted' BY <1>1, StillCounted
<1>5. Frame(p) BY <1>1 DEF Frame, IInv, TypeOK
<1>6. /\ bio'[p] = b /\ at'[p] = b.sector /\ seg'[p] = 1 /\ size'[p] = b.segs[1]
      /\ buf'[p] = b.data /\ moved'[p] = {}
      /\ \/ pc'[p] = "grab" /\ b.sector + b.len <= Capacity
         \/ pc'[p] = "end" /\ ret'[p] = 1
  BY <1>1 DEF IInv, TypeOK
<1>7. PlaceOK(p)'
  <2>1. CASE pc'[p] = "grab" BY <1>2, <1>6, <2>1 DEF PlaceOK, InRequest
  <2>2. CASE pc'[p] = "end" BY <1>6, <2>2 DEF PlaceOK
  <2>. QED  BY <1>6, <2>1, <2>2
<1>8. PageThere(p)' BY <1>6 DEF PageThere
<1>9. \A i \in Indices : lock'[i] = p <=> Works(p, i)' BY <1>1, <1>6, NoPage
<1>. QED  BY <1>3, <1>4, <1>5, <1>7, <1>8, <1>9, FrameInv

\* grab_cache_page gives the page, locked, to a process that has none.
LEMMA GrabInv ==
    ASSUME IInv, NEW p \in Procs, Grab(p)
    PROVE  IInv' /\ page' = [page EXCEPT ![Index(at[p])] = Found(Index(at[p]))]
<1>. DEFINE i == Index(at[p])
<1>1. /\ pc[p] = "grab" /\ lock[i] = None
      /\ lock' = [lock EXCEPT ![i] = p]
      /\ page' = [page EXCEPT ![i] = Found(i)]
      /\ pc' = [pc EXCEPT ![p] = "move"]
      /\ UNCHANGED device /\ UNCHANGED request
  BY DEF Grab
<1>2. i \in Indices BY <1>1, RequestAt, SectorPage
<1>. HIDE DEF i
<1>3. PageOK(Found(i)) /\ Found(i) \in PageRecords /\ Found(i) # Absent
  BY <1>2, FoundOK, AbsentOK DEF IInv, PagesOK
<1>4. TypeOK'
  <2>1. page' \in [Indices -> PageRecords \union {Absent}] BY <1>1, <1>3 DEF IInv, TypeOK
  <2>. QED  BY <1>1, <2>1 DEF device, request, IInv, TypeOK
<1>5. Counted' BY <1>1, StillCounted
<1>6. page'[i] = Found(i) /\ lock'[i] = p /\ pc'[p] = "move" BY <1>1, <1>2 DEF IInv, TypeOK
<1>7. Frame(p)
  <2>1. \A j \in Indices \ {i} : lock'[j] = lock[j] /\ page'[j] = page[j]
    BY <1>1 DEF IInv, TypeOK
  <2>2. \A q \in Procs \ {p} : pc'[q] = pc[q] BY <1>1 DEF IInv, TypeOK
  <2>. QED  BY <1>1, <1>2, <1>3, <1>6, <2>1, <2>2 DEF Frame, request
<1>8. PlaceOK(p)'
  BY <1>1, <1>6 DEF request, IInv, Places, PlaceOK, InRequest
<1>9. PageThere(p)' BY <1>1, <1>3, <1>6 DEF request, PageThere, i
<1>10. \A j \in Indices : lock'[j] = p <=> Works(p, j)'
  <2>1. \A j \in Indices : lock[j] # p BY <1>1 DEF IInv, Locks, Works
  <2>2. \A j \in Indices : lock'[j] = p <=> j = i BY <1>1, <1>2, <2>1 DEF IInv, TypeOK
  <2>. QED  BY <1>1, <1>6, <2>2 DEF request, Works, i
<1>11. IInv' BY <1>4, <1>5, <1>7, <1>8, <1>9, <1>10, FrameInv
<1>. QED  BY <1>1, <1>11 DEF i

\* The next segment, or the end of the request; a segment that is not copied
\* has made ret 1.
LEMMA SegmentEnds ==
    ASSUME IInv, NEW p \in Procs, EndSegment(p, size[p]),
           pc[p] \in {"grab", "unlock"}, pc[p] = "unlock" => size[p] = 0,
           bio' = bio, buf' = buf, moved' = moved,
           ret'[p] = 1 \/ (ret'[p] = ret[p] /\ size[p] = 0)
    PROVE  /\ at' \in [Procs -> Nat] /\ seg' \in [Procs -> Nat] /\ size' \in [Procs -> Nat]
           /\ pc' \in [Procs -> {"idle", "grab", "move", "unlock", "end", "prepared"}]
           /\ pc'[p] \in {"grab", "end"} /\ PlaceOK(p)'
           /\ \A q \in Procs \ {p} :
                 /\ pc'[q] = pc[q] /\ at'[q] = at[q] /\ seg'[q] = seg[q] /\ size'[q] = size[q]
<1>. DEFINE b == bio[p]
<1>1. /\ InRequest(p) /\ b \in Bios /\ at[p] \in Nat /\ size[p] \in Nat
      /\ b.sector \in Nat /\ b.len \in Nat /\ Len(b.segs) \in Nat
  BY BioFacts DEF IInv, TypeOK, Places, PlaceOK
<1>2. /\ seg[p] \in 1 .. Len(b.segs) /\ Cut(b)[seg[p] + 1] \in 0 .. b.len
  BY <1>1, BioFacts DEF InRequest
<1>3. at' = [at EXCEPT ![p] = @ + size[p]] BY DEF EndSegment
<1>4. at'[p] = b.sector + Cut(b)[seg[p] + 1] /\ at'[p] = at[p] + size[p]
  BY <1>1, <1>3 DEF IInv, TypeOK, InRequest
<1>5. /\ moved'[p] \subseteq b.sector .. (at'[p] - 1)
      /\ ret'[p] = 0 => moved'[p] = b.sector .. (at'[p] - 1)
      /\ b.sector <= at'[p]
  BY <1>1, <1>4 DEF InRequest
<1>6. CASE seg[p] < Len(b.segs)
  <2>1. /\ seg' = [seg EXCEPT ![p] = @ + 1]
        /\ size' = [size EXCEPT ![p] = b.segs[seg[p] + 1]]
        /\ pc' = [pc EXCEPT ![p] = "grab"]
    BY <1>6 DEF EndSegment
  <2>2. /\ seg[p] + 1 \in 1 .. Len(b.segs) /\ b.segs[seg[p] + 1] \in Nat \ {0}
        /\ Cut(b)[(seg[p] + 1) + 1] = Cut(b)[seg[p] + 1] + b.segs[seg[p] + 1]
    <3>1. seg[p] + 1 \in 1 .. Len(b.segs) BY <1>1, <1>2, <1>6
    <3>2. \A k \in 1 .. Len(b.segs) :
             b.segs[k] \in Nat \ {0} /\ Cut(b)[k + 1] = Cut(b)[k] + b.segs[k]
      BY <1>1, BioFacts
    <3>. QED  BY <3>1, <3>2
  <2>3. /\ seg'[p] = seg[p] + 1 /\ size'[p] = b.segs[seg[p] + 1] /\ pc'[p] = "grab"
    BY <2>1 DEF IInv, TypeOK
  <2>4. PlaceOK(p)'
    <3>1. /\ bio'[p] = b /\ b.sector + b.len <= Capacity /\ buf'[p] \in [1 .. b.len -> Values]
      BY <1>1 DEF InRequest
    <3>2. at'[p] + size'[p] = b.sector + Cut(b)[seg'[p] + 1]
      <4>1. ASSUME NEW x \in Nat, NEW k \in Nat, NEW n \in Nat PROVE (x + k) + n = x + (k + n)
        OBVIOUS
      <4>2. b.sector \in Nat /\ Cut(b)[seg[p] + 1] \in Nat /\ b.segs[seg[p] + 1] \in Nat
        BY <1>1, <1>2, <2>2
      <4>3. Cut(b)[seg'[p] + 1] = Cut(b)[seg[p] + 1] + b.segs[seg[p] + 1] BY <2>2, <2>3
      <4>4. at'[p] + size'[p] = (b.sector + Cut(b)[seg[p] + 1]) + b.segs[seg[p] + 1]
        BY <1>4, <2>3
      <4>. QED  BY <4>1, <4>2, <4>3, <4>4
    <3>3. seg'[p] \in 1 .. Len(b.segs) /\ size'[p] > 0 BY <2>2, <2>3
    <3>4. InRequest(p)' BY <1>5, <2>3, <3>1, <3>2, <3>3 DEF InRequest
    <3>. QED  BY <1>1, <2>3, <3>1, <3>4 DEF PlaceOK
  <2>5. at' \in [Procs -> Nat] /\ seg' \in [Procs -> Nat] /\ size' \in [Procs -> Nat]
    <3>1. at[p] + size[p] \in Nat /\ seg[p] + 1 \in Nat BY <1>1, <1>2
    <3>2. at' \in [Procs -> Nat] BY <1>3, <3>1 DEF IInv, TypeOK
    <3>3. seg' \in [Procs -> Nat] BY <2>1, <3>1 DEF IInv, TypeOK
    <3>4. b.segs[seg[p] + 1] \in Nat BY <2>2
    <3>5. size' \in [Procs -> Nat] BY <2>1, <3>4 DEF IInv, TypeOK
    <3>. QED  BY <3>2, <3>3, <3>5
  <2>6. \A q \in Procs \ {p} :
           pc'[q] = pc[q] /\ at'[q] = at[q] /\ seg'[q] = seg[q] /\ size'[q] = size[q]
    BY <1>3, <2>1 DEF IInv, TypeOK
  <2>7. pc' \in [Procs -> {"idle", "grab", "move", "unlock", "end", "prepared"}]
    BY <2>1 DEF IInv, TypeOK
  <2>. QED  BY <2>3, <2>4, <2>5, <2>6, <2>7
<1>7. CASE ~(seg[p] < Len(b.segs))
  <2>1. /\ seg' = seg /\ size' = [size EXCEPT ![p] = 0] /\ pc' = [pc EXCEPT ![p] = "end"]
    BY <1>7 DEF EndSegment
  <2>2. seg[p] = Len(b.segs) BY <1>1, <1>2, <1>7
  <2>3. at'[p] = b.sector + b.len BY <1>1, <1>4, <2>2, BioFacts
  <2>4. pc'[p] = "end" BY <2>1 DEF IInv, TypeOK
  <2>5. PlaceOK(p)' BY <1>1, <1>5, <2>3, <2>4 DEF PlaceOK, Covered
  <2>. QED  BY <1>1, <1>3, <2>1, <2>4, <2>5 DEF IInv, TypeOK
<1>. QED  BY <1>6, <1>7

\* Without memory the piece is skipped and the place moves past it.
LEMMA GrabFailsInv ==
    ASSUME IInv, NEW p \in Procs, GrabFails(p)
    PROVE  IInv'
<1>1. /\ pc[p] = "grab" /\ ret' = [ret EXCEPT ![p] = 1] /\ EndSegment(p, size[p])
      /\ UNCHANGED <<page, lock>> /\ UNCHANGED device
      /\ bio' = bio /\ buf' = buf /\ result' = result /\ moved' = moved
  BY DEF GrabFails, cache
<1>2. ret' \in [Procs -> {0, 1}] /\ ret'[p] = 1 /\ \A q \in Procs \ {p} : ret'[q] = ret[q]
  BY <1>1 DEF IInv, TypeOK
<1>3. /\ at' \in [Procs -> Nat] /\ seg' \in [Procs -> Nat] /\ size' \in [Procs -> Nat]
      /\ pc' \in [Procs -> {"idle", "grab", "move", "unlock", "end", "prepared"}]
      /\ pc'[p] \in {"grab", "end"} /\ PlaceOK(p)'
      /\ \A q \in Procs \ {p} :
            /\ pc'[q] = pc[q] /\ at'[q] = at[q] /\ seg'[q] = seg[q] /\ size'[q] = size[q]
  BY <1>1, <1>2, SegmentEnds
<1>4. TypeOK' BY <1>1, <1>2, <1>3 DEF device, IInv, TypeOK
<1>5. Counted' BY <1>1, StillCounted
<1>6. Frame(p) BY <1>1, <1>2, <1>3 DEF Frame
<1>7. PageThere(p)' BY <1>3 DEF PageThere
<1>8. \A i \in Indices : lock'[i] = p <=> Works(p, i)' BY <1>1, <1>3, NoPage
<1>. QED  BY <1>3, <1>4, <1>5, <1>6, <1>7, <1>8, FrameInv

\* unlock_page ends the work on the page and on the piece.
LEMMA UnlockInv ==
    ASSUME IInv, NEW p \in Procs, Unlock(p)
    PROVE  IInv'
<1>. DEFINE i == Index(at[p] - 1)
<1>1. /\ pc[p] = "unlock"
      /\ lock' = [lock EXCEPT ![i] = IF bio[p].rw \in {"READ", "WRITE"} THEN None ELSE @]
      /\ page' = page /\ UNCHANGED device
      /\ bio' = bio /\ ret' = ret /\ buf' = buf /\ result' = result /\ moved' = moved
      /\ IF size[p] = 0
         THEN EndSegment(p, 0)
         ELSE pc' = [pc EXCEPT ![p] = "grab"] /\ at' = at /\ seg' = seg /\ size' = size
  BY DEF Unlock, UnlockOf
<1>2. i \in Indices BY <1>1, RequestAt, SectorPage
<1>3. bio[p] \in Bios BY <1>1 DEF IInv, Places, PlaceOK
<1>4. bio[p].rw \in {"READ", "WRITE"} BY <1>3, BioFacts
<1>. HIDE DEF i
<1>5. lock' = [lock EXCEPT ![i] = None] BY <1>1, <1>4
<1>6. lock[i] = p BY <1>1, <1>2 DEF IInv, Locks, Works, i
<1>7. /\ at' \in [Procs -> Nat] /\ seg' \in [Procs -> Nat] /\ size' \in [Procs -> Nat]
      /\ pc' \in [Procs -> {"idle", "grab", "move", "unlock", "end", "prepared"}]
      /\ pc'[p] \in {"grab", "end"} /\ PlaceOK(p)'
      /\ \A q \in Procs \ {p} :
            /\ pc'[q] = pc[q] /\ at'[q] = at[q] /\ seg'[q] = seg[q] /\ size'[q] = size[q]
  <2>1. CASE size[p] = 0 BY <1>1, <2>1, SegmentEnds
  <2>2. CASE size[p] # 0
    <3>1. pc' = [pc EXCEPT ![p] = "grab"] /\ at' = at /\ seg' = seg /\ size' = size
      BY <1>1, <2>2
    <3>2. size[p] > 0 BY <2>2 DEF IInv, TypeOK
    <3>3. pc'[p] = "grab" BY <3>1 DEF IInv, TypeOK
    <3>4. PlaceOK(p)'
      BY <1>1, <3>1, <3>2, <3>3 DEF IInv, Places, PlaceOK, InRequest
    <3>. QED  BY <3>1, <3>3, <3>4 DEF IInv, TypeOK
  <2>. QED  BY <2>1, <2>2
<1>8. TypeOK' BY <1>1, <1>5, <1>7 DEF device, IInv, TypeOK
<1>9. Counted' BY <1>1, StillCounted
<1>10. \A j \in Indices : lock'[j] = IF j = i THEN None ELSE lock[j]
  BY <1>5 DEF IInv, TypeOK
<1>11. Frame(p)
  <2>1. PageOK(page'[i]) BY <1>1, <1>2 DEF IInv, PagesOK
  <2>. QED  BY <1>1, <1>2, <1>6, <1>7, <1>10, <2>1 DEF Frame
<1>12. PageThere(p)' BY <1>7 DEF PageThere
<1>13. \A j \in Indices : lock'[j] = p <=> Works(p, j)'
  <2>1. \A j \in Indices : lock[j] = p => j = i BY <1>1 DEF IInv, Locks, Works, i
  <2>. QED  BY <1>7, <1>10, <2>1, ProcsAssumption DEF Works
<1>. QED  BY <1>7, <1>8, <1>9, <1>11, <1>12, <1>13, FrameInv

\* The end of a request returns the process.
LEMMA EndInv ==
    ASSUME IInv, NEW p \in Procs, End(p)
    PROVE  IInv'
<1>1. /\ pc[p] = "end" /\ UNCHANGED <<page, lock>> /\ UNCHANGED device
      /\ pc' = [pc EXCEPT ![p] = "idle"] /\ bio' = [bio EXCEPT ![p] = NoBio]
      /\ seg' = [seg EXCEPT ![p] = 0] /\ at' = [at EXCEPT ![p] = 0]
      /\ size' = [size EXCEPT ![p] = 0] /\ ret' = [ret EXCEPT ![p] = 0]
      /\ buf' = [buf EXCEPT ![p] = <<>>] /\ moved' = [moved EXCEPT ![p] = {}]
      /\ result' = [result EXCEPT ![p] = IF ret[p] = 0 THEN "ok" ELSE "error"]
  BY DEF End, cache
<1>2. TypeOK'
  <2>1. <<>> \in Seq(Values) OBVIOUS
  <2>. QED  BY <1>1, <2>1 DEF device, IInv, TypeOK
<1>3. Counted' BY <1>1, StillCounted
<1>4. Frame(p) BY <1>1 DEF Frame, IInv, TypeOK
<1>5. pc'[p] = "idle" /\ bio'[p] = NoBio /\ moved'[p] = {} BY <1>1 DEF IInv, TypeOK
<1>6. PlaceOK(p)' /\ PageThere(p)' BY <1>5 DEF PlaceOK, PageThere
<1>7. \A i \in Indices : lock'[i] = p <=> Works(p, i)' BY <1>1, <1>5, NoPage
<1>. QED  BY <1>2, <1>3, <1>4, <1>6, <1>7, FrameInv

-----------------------------------------------------------------------------
(* The copy of one piece, and write(2).                                     *)

\* The piece of the segment that lies in the page, as Move has it.
Count(p) ==
    IF PageSectors - Offset(at[p]) > size[p] THEN size[p] ELSE PageSectors - Offset(at[p])
Piece(p) == at[p] .. (at[p] + Count(p) - 1)

\* The sectors of a piece: they are on the disk, of the request, not yet
\* transferred, and in one page.
LEMMA PieceFacts ==
    ASSUME IInv, NEW p \in Procs, pc[p] = "move"
    PROVE  /\ Count(p) \in Nat \ {0} /\ Count(p) <= size[p]
           /\ Count(p) <= PageSectors - Offset(at[p])
           /\ at[p] \in Nat /\ at[p] + Count(p) <= Capacity
           /\ Piece(p) # {} /\ Piece(p) \subseteq Sectors /\ Piece(p) \subseteq Covered(bio[p])
           /\ Piece(p) \intersect moved[p] = {}
           /\ Index(at[p]) \in Indices /\ Index((at[p] + Count(p)) - 1) = Index(at[p])
<1>. DEFINE a == at[p]
            c == Count(p)
            b == bio[p]
<1>1. /\ a \in Sectors /\ a \in Nat /\ size[p] \in Nat \ {0}
      /\ a + size[p] <= Capacity /\ a + size[p] <= b.sector + b.len
  BY RequestAt, SectorPage
<1>2. InRequest(p) /\ b.sector \in Nat /\ b.len \in Nat /\ b.sector <= a
  BY BioFacts DEF IInv, Places, PlaceOK, InRequest
<1>3. PageSectors \in Nat /\ Offset(a) \in 0 .. (PageSectors - 1)
  BY <1>1, DivMod DEF Offsets
<1>4. c \in Nat \ {0} /\ c <= size[p] /\ c <= PageSectors - Offset(a)
  BY <1>1, <1>3 DEF Count
<1>5. Index(a) \in Indices BY <1>1, SectorPage
<1>. HIDE DEF c
<1>6. Index((a + c) - 1) = Index(a)
  <2>1. (a + c) - 1 \in Nat /\ a <= (a + c) - 1 /\ (a + c) - 1 < a + (PageSectors - Offset(a))
    BY <1>1, <1>3, <1>4
  <2>. QED  BY <1>1, <2>1, SamePage
<1>7. Piece(p) = a .. (a + c - 1) BY DEF Piece, c
<1>8. Piece(p) # {} /\ Piece(p) \subseteq Sectors BY <1>1, <1>4, <1>7, SizeAssumption DEF Sectors
<1>9. Piece(p) \subseteq Covered(b)
  <2>1. ASSUME NEW k \in Nat, NEW x \in Nat, NEW m \in Nat, NEW n \in Nat,
               x <= k, k + m <= x + n
        PROVE  k .. (k + m - 1) \subseteq x .. (x + n - 1)
    BY <2>1
  <2>2. a + c <= b.sector + b.len BY <1>1, <1>2, <1>4
  <2>3. a .. (a + c - 1) \subseteq b.sector .. (b.sector + b.len - 1)
    BY <1>1, <1>2, <1>4, <2>1, <2>2
  <2>. QED  BY <1>7, <2>3 DEF Covered
<1>10. Piece(p) \intersect moved[p] = {}
  <2>1. moved[p] \subseteq b.sector .. (a - 1) BY <1>2 DEF InRequest
  <2>2. ASSUME NEW k \in Nat, NEW x \in Nat, NEW m \in Nat
        PROVE  (k .. (k + m - 1)) \intersect (x .. (k - 1)) = {}
    OBVIOUS
  <2>3. (a .. (a + c - 1)) \intersect (b.sector .. (a - 1)) = {} BY <1>1, <1>2, <1>4, <2>2
  <2>. QED  BY <1>7, <2>1, <2>3
<1>11. a + c <= Capacity BY <1>1, <1>4, SizeAssumption
<1>. QED  BY <1>1, <1>4, <1>5, <1>6, <1>8, <1>9, <1>10, <1>11 DEF c

\* The page after the copy: what was written is in the sectors of the piece
\* and nowhere else; a read changes nothing a reader would see.
LEMMA MovePage ==
    ASSUME IInv, NEW p \in Procs, Move(p)
    PROVE  \E h : /\ PageOK(h) /\ page' = [page EXCEPT ![Index(at[p])] = h]
                  /\ FewerMarks(h, page[Index(at[p])])
                  /\ bio[p].rw # "WRITE" => SameMarks(h, page[Index(at[p])])
                  /\ \A s \in Sectors :
                        Index(s) = Index(at[p]) =>
                           Holds(h, Offset(s)) =
                              IF bio[p].rw = "WRITE" /\ s \in Piece(p)
                              THEN buf[p][(s - bio[p].sector) + 1]
                              ELSE Holds(page[Index(at[p])], Offset(s))
<1>. DEFINE i == Index(at[p])
            off == Offset(at[p])
            b == bio[p]
            g == MakeUptodate(page[i])
            range == off .. (off + Count(p) - 1)
            d == [o \in Offsets |-> IF o \in range THEN buf[p][(at[p] - b.sector) + 1 + (o - off)]
                                    ELSE g.data[o]]
<1>1. pc[p] = "move" BY DEF Move
<1>2. i \in Indices BY <1>1, PieceFacts
<1>3. PageOK(page[i]) /\ page[i] \in PageRecords
  BY <1>1, <1>2 DEF IInv, PagesOK, Places, PageThere, PageOK
<1>4. /\ g \in PageRecords /\ PageOK(g) /\ g.uptodate /\ SameMarks(g, page[i])
      /\ \A o \in Offsets : Holds(g, o) = Holds(page[i], o) /\ g.data[o] = Holds(page[i], o)
  BY <1>3, UptodateOK
<1>5. /\ b.rw = "WRITE" => page' = [page EXCEPT ![i] = Dirtied([g EXCEPT !.data = d])]
      /\ b.rw # "WRITE" => page' = [page EXCEPT ![i] = g]
  BY DEF Move, Count
<1>6. CASE b.rw # "WRITE"
  <2>. HIDE DEF g
  <2>1. \A s \in Sectors : Offset(s) \in Offsets BY SectorPage
  <2>2. FewerMarks(g, page[i]) BY <1>4 DEF SameMarks, FewerMarks
  <2>. QED  BY <1>4, <1>5, <1>6, <2>1, <2>2
<1>7. CASE b.rw = "WRITE"
  <2>1. /\ at[p] \in Nat /\ off \in 0 .. (PageSectors - 1) /\ PageSectors \in Nat
        /\ Count(p) \in Nat \ {0} /\ at[p] + Count(p) <= b.sector + b.len
    <3>1. at[p] \in Nat /\ Count(p) \in Nat \ {0} /\ Count(p) <= size[p]
      BY <1>1, PieceFacts
    <3>2. size[p] \in Nat /\ at[p] + size[p] <= b.sector + b.len BY <1>1, RequestAt
    <3>3. b.sector \in Nat /\ b.len \in Nat
      BY <1>1, BioFacts DEF IInv, Places, PlaceOK
    <3>. QED  BY <3>1, <3>2, <3>3, DivMod DEF Offsets
  <2>2. /\ b.sector \in Nat /\ b.len \in Nat /\ b.sector <= at[p]
        /\ buf[p] \in [1 .. b.len -> Values]
    BY <1>1, BioFacts DEF IInv, Places, PlaceOK, InRequest
  <2>. HIDE DEF g
  <2>3. d \in [Offsets -> Values]
    <3>. SUFFICES ASSUME NEW o \in Offsets
                  PROVE  (IF o \in range THEN buf[p][(at[p] - b.sector) + 1 + (o - off)]
                          ELSE g.data[o]) \in Values
      OBVIOUS
    <3>1. CASE o \in range
      <4>1. (at[p] - b.sector) + 1 + (o - off) \in 1 .. b.len
        <5>1. ASSUME NEW a \in Nat, NEW x \in Nat, NEW c \in Nat, NEW n \in Nat,
                     NEW f \in Nat, NEW k \in Nat,
                     x <= a, a + c <= x + n, f <= k, k <= f + c - 1
              PROVE  (a - x) + 1 + (k - f) \in 1 .. n
          BY <5>1
        <5>2. off \in Nat /\ o \in Nat /\ off <= o /\ o <= off + Count(p) - 1
          BY <2>1, <3>1
        <5>. QED  BY <2>1, <2>2, <5>1, <5>2
      <4>. QED  BY <2>2, <3>1, <4>1
    <3>2. CASE o \notin range BY <1>3, <1>4, <3>2 DEF PageOK
    <3>. QED  BY <3>1, <3>2
  <2>4. ASSUME NEW s \in Sectors, Index(s) = i
        PROVE  d[Offset(s)] = IF s \in Piece(p) THEN buf[p][(s - b.sector) + 1]
                              ELSE Holds(page[i], Offset(s))
    <3>1. s \in Nat /\ Offset(s) \in Offsets BY SectorPage
    <3>2. Offset(s) = off + (s - at[p]) BY <2>1, <2>4, <3>1, SectorIs
    <3>3. Offset(s) \in range <=> s \in Piece(p) BY <2>1, <3>1, <3>2 DEF Piece
    <3>4. (at[p] - b.sector) + 1 + (Offset(s) - off) = (s - b.sector) + 1
      <4>1. ASSUME NEW a \in Nat, NEW x \in Nat, NEW f \in Nat, NEW k \in Nat
            PROVE  (a - x) + 1 + ((f + (k - a)) - f) = (k - x) + 1
        OBVIOUS
      <4>2. off \in Nat /\ at[p] \in Nat /\ b.sector \in Nat BY <2>1, <2>2
      <4>. QED  BY <3>1, <3>2, <4>1, <4>2
    <3>. QED  BY <1>4, <3>1, <3>3, <3>4
  <2>. HIDE DEF d
  <2>. DEFINE h == Dirtied([g EXCEPT !.data = d])
  <2>5. /\ PageOK(h) /\ FewerMarks(h, page[i])
        /\ \A o \in Offsets : Holds(h, o) = d[o]
    BY <1>4, <2>3, WrittenOK DEF SameMarks, FewerMarks
  <2>6. page' = [page EXCEPT ![i] = h] BY <1>5, <1>7
  <2>. HIDE DEF h
  <2>7. \A s \in Sectors : Offset(s) \in Offsets BY SectorPage
  <2>8. ASSUME NEW s \in Sectors, Index(s) = i
        PROVE  Holds(h, Offset(s)) =
                  IF b.rw = "WRITE" /\ s \in Piece(p)
                  THEN buf[p][(s - b.sector) + 1] ELSE Holds(page[i], Offset(s))
    BY <1>7, <2>4, <2>5, <2>7, <2>8
  <2>. QED  BY <1>7, <2>5, <2>6, <2>8
<1>. QED  BY <1>6, <1>7

\* The memory of a request after a piece of it was read.
LEMMA MoveBuffer ==
    ASSUME IInv, NEW p \in Procs, Move(p)
    PROVE  /\ bio[p].rw = "WRITE" => buf' = buf
           /\ bio[p].rw # "WRITE" =>
                 buf' = [buf EXCEPT ![p] = [k \in DOMAIN @ |->
                            IF k + bio[p].sector - 1 \in Piece(p)
                            THEN Contents[k + bio[p].sector - 1] ELSE @[k]]]
           /\ buf' \in [Procs -> Seq(Values)] /\ buf'[p] \in [1 .. bio[p].len -> Values]
           /\ \A q \in Procs \ {p} : buf'[q] = buf[q]
<1>. DEFINE i == Index(at[p])
            b == bio[p]
            g == MakeUptodate(page[i])
            r == [k \in DOMAIN buf[p] |->
                     IF k + b.sector - 1 \in Piece(p)
                     THEN Contents[k + b.sector - 1] ELSE buf[p][k]]
<1>1. pc[p] = "move" BY DEF Move
<1>2. i \in Indices /\ Piece(p) \subseteq Sectors BY <1>1, PieceFacts
<1>3. PageOK(page[i]) /\ page[i] \in PageRecords
  BY <1>1, <1>2 DEF IInv, PagesOK, Places, PageThere, PageOK
<1>4. \A o \in Offsets : g.data[o] = Holds(page[i], o) BY <1>3, UptodateOK
<1>5. \A s \in Piece(p) : g.data[Offset(s)] = Contents[s]
  <2>. SUFFICES ASSUME NEW s \in Piece(p) PROVE g.data[Offset(s)] = Contents[s]
    OBVIOUS
  <2>1. s \in Sectors /\ s \in Nat /\ Offset(s) \in Offsets BY <1>2, SectorPage
  <2>2. /\ at[p] \in Nat /\ Count(p) \in Nat
        /\ Count(p) <= PageSectors - Offset(at[p])
        /\ PageSectors \in Nat /\ Offset(at[p]) \in Nat
    BY <1>1, PieceFacts, DivMod DEF Offsets
  <2>3. s >= at[p] /\ s < at[p] + (PageSectors - Offset(at[p])) BY <2>1, <2>2 DEF Piece
  <2>4. Index(s) = i BY <2>1, <2>2, <2>3, SamePage
  <2>. QED  BY <1>4, <2>1, <2>4 DEF Contents
<1>6. /\ b.rw = "WRITE" => buf' = buf
      /\ b.rw # "WRITE" =>
            buf' = [buf EXCEPT ![p] = [k \in DOMAIN @ |->
                       IF k + b.sector - 1 \in Piece(p)
                       THEN g.data[Offset(k + b.sector - 1)] ELSE @[k]]]
  BY DEF Move, Piece, Count
<1>. HIDE DEF g
<1>7. b.rw # "WRITE" => buf' = [buf EXCEPT ![p] = r] BY <1>5, <1>6
<1>8. buf[p] \in [1 .. b.len -> Values] /\ b.len \in Nat /\ buf \in [Procs -> Seq(Values)]
  BY <1>1, BioFacts DEF IInv, TypeOK, Places, PlaceOK, InRequest
<1>9. r \in [1 .. b.len -> Values]
  <2>1. \A s \in Piece(p) : Contents[s] \in Values
    BY <1>2, SectorPage DEF Contents, IInv, PagesOK, PageOK
  <2>. QED  BY <1>8, <2>1
<1>10. r \in Seq(Values) BY <1>8, <1>9, SeqDef
<1>. HIDE DEF r
<1>11. buf' \in [Procs -> Seq(Values)] /\ buf'[p] \in [1 .. b.len -> Values]
  BY <1>6, <1>7, <1>8, <1>9, <1>10
<1>12. \A q \in Procs \ {p} : buf'[q] = buf[q] BY <1>6, <1>7, <1>8
<1>. QED  BY <1>6, <1>7, <1>11, <1>12 DEF r

\* The copy of a piece between the page and the request.
LEMMA MoveInv ==
    ASSUME IInv, NEW p \in Procs, Move(p)
    PROVE  IInv'
<1>. DEFINE i == Index(at[p])
            c == Count(p)
<1>1. /\ pc[p] = "move" /\ pc' = [pc EXCEPT ![p] = "unlock"]
      /\ at' = [at EXCEPT ![p] = @ + c] /\ size' = [size EXCEPT ![p] = @ - c]
      /\ moved' = [moved EXCEPT ![p] = @ \union Piece(p)]
      /\ lock' = lock /\ UNCHANGED device
      /\ bio' = bio /\ seg' = seg /\ ret' = ret /\ result' = result
  BY DEF Move, Count, Piece
<1>2. PICK h : PageOK(h) /\ page' = [page EXCEPT ![i] = h] BY MovePage
<1>3. /\ c \in Nat \ {0} /\ c <= size[p] /\ at[p] \in Nat /\ size[p] \in Nat
      /\ Piece(p) \subseteq Sectors /\ i \in Indices /\ Index((at[p] + c) - 1) = i
      /\ Piece(p) = at[p] .. (at[p] + c - 1)
  BY <1>1, PieceFacts DEF IInv, TypeOK, Piece
<1>. HIDE DEF c
<1>4. TypeOK'
  <2>1. page' \in [Indices -> PageRecords \union {Absent}] BY <1>2 DEF PageOK, IInv, TypeOK
  <2>2. at' \in [Procs -> Nat] BY <1>1, <1>3 DEF IInv, TypeOK
  <2>3. size[p] - c \in Nat BY <1>3
  <2>4. size' \in [Procs -> Nat] BY <1>1, <2>3 DEF IInv, TypeOK
  <2>5. moved' \in [Procs -> SUBSET Sectors] BY <1>1, <1>3 DEF IInv, TypeOK
  <2>6. pc' \in [Procs -> {"idle", "grab", "move", "unlock", "end", "prepared"}]
    BY <1>1 DEF IInv, TypeOK
  <2>. QED  BY <1>1, <2>1, <2>2, <2>4, <2>5, <2>6, MoveBuffer DEF device, IInv, TypeOK
<1>5. Counted' BY <1>1, StillCounted
<1>6. lock[i] = p BY <1>1, <1>3 DEF IInv, Locks, Works
<1>7. Frame(p)
  <2>1. \A j \in Indices \ {i} : page'[j] = page[j] BY <1>2 DEF IInv, TypeOK
  <2>2. PageOK(page'[i]) BY <1>2, <1>3 DEF IInv, TypeOK
  <2>3. \A q \in Procs \ {p} :
           pc'[q] = pc[q] /\ at'[q] = at[q] /\ size'[q] = size[q] /\ moved'[q] = moved[q]
    BY <1>1 DEF IInv, TypeOK
  <2>. QED  BY <1>1, <1>3, <1>6, <2>1, <2>2, <2>3, MoveBuffer DEF Frame
<1>8. /\ pc'[p] = "unlock" /\ at'[p] = at[p] + c /\ size'[p] = size[p] - c
      /\ moved'[p] = moved[p] \union Piece(p)
  BY <1>1 DEF IInv, TypeOK
<1>9. PlaceOK(p)'
  <2>1. InRequest(p) /\ bio[p] \in Bios /\ bio[p].sector \in Nat
    BY <1>1, BioFacts DEF IInv, Places, PlaceOK
  <2>2. /\ at'[p] + size'[p] = at[p] + size[p]
        /\ at'[p] > bio[p].sector /\ bio[p].sector <= at'[p]
    <3>1. bio[p].sector <= at[p] BY <2>1 DEF InRequest
    <3>2. at[p] \in Nat /\ size[p] \in Nat /\ c \in Nat \ {0} BY <1>3 DEF IInv, TypeOK
    <3>3. ASSUME NEW x \in Nat, NEW a \in Nat, NEW n \in Nat \ {0}, NEW m \in Nat, x <= a
          PROVE  (a + n) + (m - n) = a + m /\ a + n > x /\ x <= a + n
      BY <3>3
    <3>. QED  BY <1>8, <2>1, <3>1, <3>2, <3>3
  <2>3. /\ moved'[p] \subseteq bio[p].sector .. (at'[p] - 1)
        /\ ret[p] = 0 => moved'[p] = bio[p].sector .. (at'[p] - 1)
    <3>1. ASSUME NEW x \in Nat, NEW a \in Nat, NEW n \in Nat \ {0}, x <= a
          PROVE  (x .. (a - 1)) \union (a .. (a + n - 1)) = x .. ((a + n) - 1)
      BY <3>1
    <3>2. (bio[p].sector .. (at[p] - 1)) \union Piece(p) = bio[p].sector .. (at'[p] - 1)
      BY <1>3, <1>8, <2>1, <3>1 DEF InRequest
    <3>. QED  BY <1>8, <2>1, <3>2 DEF InRequest
  <2>4. InRequest(p)'
    <3>1. /\ bio'[p] = bio[p] /\ seg'[p] = seg[p] /\ ret'[p] = ret[p]
          /\ buf'[p] \in [1 .. bio[p].len -> Values]
      BY <1>1, MoveBuffer
    <3>2. at'[p] + size'[p] = bio[p].sector + Cut(bio[p])[seg[p] + 1]
      BY <2>1, <2>2 DEF InRequest
    <3>3. bio[p].sector + bio[p].len <= Capacity /\ seg[p] \in 1 .. Len(bio[p].segs)
      BY <2>1 DEF InRequest
    <3>. QED  BY <1>8, <2>2, <2>3, <3>1, <3>2, <3>3 DEF InRequest
  <2>. QED  BY <1>1, <1>8, <2>1, <2>4 DEF PlaceOK
<1>10. PageThere(p)' BY <1>8 DEF PageThere
<1>11. \A j \in Indices : lock'[j] = p <=> Works(p, j)'
  <2>1. \A j \in Indices : lock[j] = p <=> j = i BY <1>1 DEF IInv, Locks, Works
  <2>. QED  BY <1>1, <1>3, <1>8, <2>1 DEF Works
<1>. QED  BY <1>4, <1>5, <1>7, <1>9, <1>10, <1>11, FrameInv

\* ramdisk_prepare_write makes the page valid before write(2) copies.
LEMMA PrepareWriteInv ==
    ASSUME IInv, NEW p \in Procs, NEW s \in CacheSectors, PrepareWrite(p, s)
    PROVE  /\ IInv' /\ page' = [page EXCEPT ![Index(s)] = MakeUptodate(Found(Index(s)))]
           /\ Index(s) \in Indices
<1>. DEFINE i == Index(s)
            h == MakeUptodate(Found(i))
<1>1. /\ users > 0 /\ pc[p] = "idle" /\ lock[i] = None
      /\ lock' = [lock EXCEPT ![i] = p]
      /\ page' = [page EXCEPT ![i] = h]
      /\ pc' = [pc EXCEPT ![p] = "prepared"]
      /\ at' = [at EXCEPT ![p] = s]
      /\ UNCHANGED device /\ UNCHANGED <<bio, seg, size, ret, buf, result, moved>>
  BY DEF PrepareWrite
<1>2. s \in Sectors BY CacheAssumption DEF Sectors
<1>3. i \in Indices /\ s \in Nat BY <1>2, SectorPage
<1>4. PageOK(h) /\ h \in PageRecords /\ h # Absent /\ h.uptodate
  BY <1>3, FoundOK, UptodateOK, AbsentOK DEF IInv, PagesOK
<1>. HIDE DEF h, i
<1>5. TypeOK'
  <2>1. page' \in [Indices -> PageRecords \union {Absent}] BY <1>1, <1>4 DEF IInv, TypeOK
  <2>. QED  BY <1>1, <1>3, <2>1 DEF device, IInv, TypeOK
<1>6. Counted' BY <1>1, StillCounted
<1>7. /\ page'[i] = h /\ lock'[i] = p /\ pc'[p] = "prepared" /\ at'[p] = s
      /\ \A j \in Indices \ {i} : lock'[j] = lock[j] /\ page'[j] = page[j]
  BY <1>1, <1>3 DEF IInv, TypeOK
<1>8. Frame(p)
  <2>1. \A q \in Procs \ {p} : pc'[q] = pc[q] /\ at'[q] = at[q] BY <1>1 DEF IInv, TypeOK
  <2>. QED  BY <1>1, <1>3, <1>4, <1>7, <2>1 DEF Frame
<1>9. PlaceOK(p)' BY <1>1, <1>2, <1>7 DEF IInv, Places, PlaceOK
<1>10. PageThere(p)' BY <1>4, <1>7 DEF PageThere, i
<1>11. \A j \in Indices : lock'[j] = p <=> Works(p, j)'
  <2>1. \A j \in Indices : lock[j] # p BY <1>1 DEF IInv, Locks, Works
  <2>2. \A j \in Indices : lock'[j] = p <=> j = i BY <1>7, <2>1
  <2>. QED  BY <1>7, <2>2 DEF Works, i
<1>12. IInv' BY <1>5, <1>6, <1>8, <1>9, <1>10, <1>11, FrameInv
<1>. QED  BY <1>1, <1>3, <1>12 DEF i, h

\* ramdisk_commit_write leaves a page that reads as before but for the sector
\* written.
LEMMA CommitPage ==
    ASSUME IInv, NEW p \in Procs, NEW v \in Values, CommitWrite(p, v)
    PROVE  \E h : /\ PageOK(h) /\ page' = [page EXCEPT ![Index(at[p])] = h]
                  /\ FewerMarks(h, page[Index(at[p])])
                  /\ \A o \in Offsets :
                        Holds(h, o) = IF o = Offset(at[p]) THEN v
                                      ELSE Holds(page[Index(at[p])], o)
<1>. DEFINE i == Index(at[p])
            g == page[i]
            d == [g.data EXCEPT ![Offset(at[p])] = v]
            h == Dirtied([g EXCEPT !.data = d])
<1>1. pc[p] = "prepared" BY DEF CommitWrite
<1>2. i \in Indices /\ Offset(at[p]) \in Offsets BY <1>1, RequestAt, SectorPage
<1>3. g # Absent /\ g.uptodate BY <1>1 DEF IInv, Places, PageThere
<1>4. PageOK(g) /\ g \in PageRecords BY <1>2, <1>3 DEF IInv, PagesOK, PageOK
<1>5. page' = [page EXCEPT ![i] = h] BY DEF CommitWrite
<1>. HIDE DEF g
<1>6. \A o \in Offsets : Holds(g, o) = g.data[o] /\ g.data[o] \in Values
  BY <1>3, <1>4 DEF Holds, PageOK
<1>7. d \in [Offsets -> Values] BY <1>2, <1>4, <1>6 DEF PageRecords
<1>8. \A o \in Offsets : d[o] = IF o = Offset(at[p]) THEN v ELSE Holds(g, o)
  BY <1>2, <1>4, <1>6 DEF PageRecords
<1>. HIDE DEF d
<1>9. PageOK(h) /\ FewerMarks(h, g) /\ \A o \in Offsets : Holds(h, o) = d[o]
  BY <1>3, <1>4, <1>7, WrittenOK
<1>. HIDE DEF h
<1>. QED  BY <1>5, <1>8, <1>9 DEF g

\* So it keeps the invariant, and the lock is given back.
LEMMA CommitWriteInv ==
    ASSUME IInv, NEW p \in Procs, NEW v \in Values, CommitWrite(p, v)
    PROVE  IInv'
<1>. DEFINE i == Index(at[p])
<1>1. /\ pc[p] = "prepared" /\ lock' = [lock EXCEPT ![i] = None]
      /\ pc' = [pc EXCEPT ![p] = "idle"] /\ at' = [at EXCEPT ![p] = 0]
      /\ UNCHANGED device /\ UNCHANGED <<bio, seg, size, ret, buf, result, moved>>
  BY DEF CommitWrite
<1>2. PICK h : PageOK(h) /\ page' = [page EXCEPT ![i] = h] BY CommitPage
<1>3. i \in Indices BY <1>1, RequestAt, SectorPage
<1>4. lock[i] = p BY <1>1, <1>3 DEF IInv, Locks, Works
<1>. HIDE DEF i
<1>5. TypeOK'
  <2>1. page' \in [Indices -> PageRecords \union {Absent}] BY <1>2 DEF PageOK, IInv, TypeOK
  <2>. QED  BY <1>1, <2>1 DEF device, IInv, TypeOK
<1>6. Counted' BY <1>1, StillCounted
<1>7. /\ page'[i] = h /\ lock'[i] = None /\ pc'[p] = "idle"
      /\ \A j \in Indices \ {i} : lock'[j] = lock[j] /\ page'[j] = page[j]
  BY <1>1, <1>2, <1>3 DEF IInv, TypeOK
<1>8. Frame(p)
  <2>1. \A q \in Procs \ {p} : pc'[q] = pc[q] /\ at'[q] = at[q] BY <1>1 DEF IInv, TypeOK
  <2>. QED  BY <1>1, <1>2, <1>3, <1>4, <1>7, <2>1 DEF Frame
<1>9. PlaceOK(p)' /\ PageThere(p)'
  BY <1>1, <1>7 DEF IInv, Places, PlaceOK, PageThere
<1>10. \A j \in Indices : lock'[j] = p <=> Works(p, j)'
  <2>1. \A j \in Indices : lock[j] = p => j = i BY <1>1 DEF IInv, Locks, Works, i
  <2>. QED  BY <1>7, <2>1, ProcsAssumption DEF Works
<1>. QED  BY <1>5, <1>6, <1>8, <1>9, <1>10, FrameInv

-----------------------------------------------------------------------------
(* The invariants.                                                          *)

\* Every step keeps the invariant.
LEMMA NextInv == IInv /\ [Next]_vars => IInv'
<1>. SUFFICES ASSUME IInv, [Next]_vars PROVE IInv'
  OBVIOUS
<1>1. CASE \/ InitModule \/ Open \/ FlushStart
           \/ UNCHANGED vars
  BY <1>1, DeviceInv
<1>2. CASE Close \/ Cleanup BY <1>2, CloseInv, CleanupInv
<1>3. CASE KernelStep BY <1>3, KernelInv
<1>4. CASE \E p \in Procs, b \in Bios : Submit(p, b) BY <1>4, SubmitInv
<1>5. CASE \E p \in Procs : Grab(p) \/ RequestStep(p)
  BY <1>5, GrabInv, MoveInv, UnlockInv, EndInv, GrabFailsInv DEF RequestStep
<1>6. CASE \/ \E p \in Procs, s \in CacheSectors : PrepareWrite(p, s)
           \/ \E p \in Procs, v \in Values : CommitWrite(p, v)
  BY <1>6, PrepareWriteInv, CommitWriteInv
<1>. QED  BY <1>1, <1>2, <1>3, <1>4, <1>5, <1>6, KernelSteps DEF Next

\* The inductive invariant.
THEOREM Inductive == Spec => []IInv
  BY InitInv, NextInv, PTL DEF Spec

\* Every variable keeps its type: a request never leaves the disk, and what it
\* reads into its memory are values, never a page's uninitialised contents.
THEOREM TypeCorrect == Spec => []TypeOK
<1>1. IInv => TypeOK BY DEF IInv
<1>. QED  BY <1>1, Inductive, PTL

\* A clean page holds zeros, so that memory reclaim may free it, unless its dirty
\* bit was taken back with its buffers: every path that stores something leaves
\* the page dirty, ramdisk_writepage too.
THEOREM CleanPagesAreZero == Spec => []CleanIsZero
  BY Implied, Inductive, PTL

\* A page is locked exactly while a process is between grab_cache_page and
\* unlock_page, or in a write(2), on that page.
THEOREM LocksAreHeld == Spec => []LockHeld
  BY Implied, Inductive, PTL

-----------------------------------------------------------------------------
(* The page cache is a disk: initial states and steps.                      *)

\* What the disk holds after page i became h; a page that reads as before
\* changes nothing.
LEMMA ContentsAfter ==
    ASSUME IInv, NEW i \in Indices, NEW h, page' = [page EXCEPT ![i] = h]
    PROVE  /\ Contents' =
                 [s \in Sectors |-> IF Index(s) = i THEN Holds(h, Offset(s)) ELSE Contents[s]]
           /\ (\A o \in Offsets : Holds(h, o) = Holds(page[i], o)) => Contents' = Contents
<1>1. \A j \in Indices : page'[j] = IF j = i THEN h ELSE page[j] BY DEF IInv, TypeOK
<1>2. \A s \in Sectors : Index(s) \in Indices /\ Offset(s) \in Offsets BY SectorPage
<1>3. Contents' = [s \in Sectors |-> Holds(page'[Index(s)], Offset(s))] BY DEF Contents
<1>. QED  BY <1>1, <1>2, <1>3 DEF Contents

\* The buffers and the frail sectors after page i became h.
LEMMA MarksAfter ==
    ASSUME IInv, NEW i \in Indices, NEW h, page' = [page EXCEPT ![i] = h]
    PROVE  /\ \A s \in Sectors :
                 /\ s \in BufferedSectors <=> page[Index(s)].buffers
                 /\ s \in FrailSectors <=> page[Index(s)].cancelled
                 /\ Index(s) = i => /\ s \in BufferedSectors' <=> h.buffers
                                    /\ s \in FrailSectors' <=> h.cancelled
                 /\ Index(s) # i => /\ s \in BufferedSectors' <=> s \in BufferedSectors
                                    /\ s \in FrailSectors' <=> s \in FrailSectors
           /\ BufferedSectors \subseteq Sectors /\ BufferedSectors' \subseteq Sectors
           /\ FrailSectors \subseteq Sectors /\ FrailSectors' \subseteq Sectors
<1>1. \A j \in Indices : page'[j] = IF j = i THEN h ELSE page[j] BY DEF IInv, TypeOK
<1>2. \A s \in Sectors : Index(s) \in Indices BY SectorPage
<1>3. \A s \in Sectors : /\ s \in BufferedSectors <=> page[Index(s)].buffers
                         /\ s \in FrailSectors <=> page[Index(s)].cancelled
                         /\ s \in BufferedSectors' <=> page'[Index(s)].buffers
                         /\ s \in FrailSectors' <=> page'[Index(s)].cancelled
  BY <1>2 DEF BufferedSectors, FrailSectors, SectorsOf
<1>. QED  BY <1>1, <1>2, <1>3 DEF BufferedSectors, FrailSectors, SectorsOf

\* Pages that have the same marks, and pages that have fewer.
LEMMA MarksKept ==
    ASSUME IInv, NEW i \in Indices, NEW h, page' = [page EXCEPT ![i] = h]
    PROVE  /\ SameMarks(h, page[i]) =>
                 BufferedSectors' = BufferedSectors /\ FrailSectors' = FrailSectors
           /\ FewerMarks(h, page[i]) =>
                 BufferedSectors' \subseteq BufferedSectors /\ FrailSectors' \subseteq FrailSectors
<1>1. ASSUME SameMarks(h, page[i])
      PROVE  BufferedSectors' = BufferedSectors /\ FrailSectors' = FrailSectors
  <2>1. \A s \in Sectors : /\ s \in BufferedSectors' <=> s \in BufferedSectors
                           /\ s \in FrailSectors' <=> s \in FrailSectors
    BY <1>1, MarksAfter DEF SameMarks
  <2>2. BufferedSectors \subseteq Sectors /\ BufferedSectors' \subseteq Sectors
    BY MarksAfter
  <2>3. FrailSectors \subseteq Sectors /\ FrailSectors' \subseteq Sectors
    BY MarksAfter
  <2>4. BufferedSectors' = BufferedSectors BY <2>1, <2>2
  <2>5. FrailSectors' = FrailSectors BY <2>1, <2>3
  <2>. QED  BY <2>4, <2>5
<1>2. FewerMarks(h, page[i]) =>
         BufferedSectors' \subseteq BufferedSectors /\ FrailSectors' \subseteq FrailSectors
  BY MarksAfter DEF FewerMarks
<1>. QED  BY <1>1, <1>2

\* One sector of a page is given another value.
LEMMA StoredAt ==
    ASSUME IInv, NEW s \in Sectors, NEW v, NEW h, page' = [page EXCEPT ![Index(s)] = h],
           \A o \in Offsets :
              Holds(h, o) = IF o = Offset(s) THEN v ELSE Holds(page[Index(s)], o)
    PROVE  Contents' = [Contents EXCEPT ![s] = v]
<1>1. Index(s) \in Indices /\ s \in Nat BY SectorPage
<1>2. Contents' = [t \in Sectors |->
                     IF Index(t) = Index(s) THEN Holds(h, Offset(t)) ELSE Contents[t]]
  BY <1>1, ContentsAfter
<1>3. ASSUME NEW t \in Sectors
      PROVE  (IF Index(t) = Index(s) THEN Holds(h, Offset(t)) ELSE Contents[t])
             = IF t = s THEN v ELSE Contents[t]
  <2>1. t \in Nat /\ Offset(t) \in Offsets BY SectorPage
  <2>2. Index(t) = Index(s) /\ Offset(t) = Offset(s) => t = s
    BY <1>1, <2>1, DivMod
  <2>3. Index(t) = Index(s) => Contents[t] = Holds(page[Index(s)], Offset(t)) BY DEF Contents
  <2>. QED  BY <2>1, <2>2, <2>3
<1>4. Contents' = [t \in Sectors |-> IF t = s THEN v ELSE Contents[t]] BY <1>2, <1>3
<1>5. DOMAIN Contents = Sectors /\ Contents = [t \in Sectors |-> Contents[t]] BY DEF Contents
<1>. QED  BY <1>4, <1>5

\* The cache begins as a blank disk.
LEMMA DiskInit == Init => D!Init
<1>. SUFFICES ASSUME Init PROVE D!Init
  OBVIOUS
<1>1. Contents = [s \in Sectors |-> 0]
  BY SectorPage, AbsentOK DEF Init, Contents, Zero
<1>2. todo = [p \in Procs |-> {}] BY DEF Init, todo, Covered, NoBio
<1>3. SectorsOf(flushing) = {} /\ BufferedSectors = {} /\ FrailSectors = {}
  BY DEF Init, Absent, SectorsOf, BufferedSectors, FrailSectors
<1>. QED  BY <1>1, <1>2, <1>3 DEF Init, NoBio, D!Init, D!Blank, D!Zero, D!NoBio

\* What the abstract disk sees of the variables.
LEMMA DiskStutter ==
    ASSUME Contents' = Contents, loaded' = loaded, users' = users, bio' = bio, moved' = moved,
           buf' = buf, result' = result, flushing' = flushing,
           BufferedSectors' = BufferedSectors, FrailSectors' = FrailSectors
    PROVE  UNCHANGED D!vars
  BY DEF D!vars, D!requests, D!cached, todo, SectorsOf

\* What it sees of the pages.
LEMMA PagesSame ==
    ASSUME page' = page
    PROVE  Contents' = Contents /\ BufferedSectors' = BufferedSectors /\ FrailSectors' = FrailSectors
  BY DEF Contents, BufferedSectors, FrailSectors, SectorsOf

\* Opening, closing, flushing and unloading.
LEMMA DeviceRefines ==
    ASSUME IInv,
           \/ InitModule \/ Open \/ FlushStart \/ UNCHANGED vars
           \/ Close \/ Cleanup
    PROVE  [D!Next]_(D!vars)
<1>0. CASE UNCHANGED vars
  BY <1>0, PagesSame, DiskStutter DEF vars, device, request, cache
<1>1. CASE InitModule
  <2>1. /\ ~loaded /\ loaded' = TRUE /\ users' = users /\ flushing' = flushing
        /\ page' = page /\ UNCHANGED request
    BY <1>1 DEF InitModule, cache
  <2>2. todo' = todo /\ SectorsOf(flushing)' = SectorsOf(flushing)
    BY <2>1 DEF todo, request, SectorsOf
  <2>3. D!Load
    BY <2>1, <2>2, PagesSame DEF D!Load, D!requests, D!cached, request
  <2>. QED  BY <2>3 DEF D!Next
<1>2. CASE Open \/ Close
  <2>1. flushing = {} /\ flushing' = flushing /\ page' = page /\ UNCHANGED request
    BY <1>2, CloseInv DEF Open, OpenCounting, Close, cache
  <2>2. /\ loaded' = loaded
        /\ (loaded /\ users' = users + 1) \/ (users > 0 /\ users' = users - 1)
    BY <1>2 DEF Open, OpenCounting, Close
  <2>3. todo' = todo BY <2>1 DEF todo, request
  <2>4. SectorsOf(flushing) = {} /\ SectorsOf(flushing)' = SectorsOf(flushing)
    BY <2>1 DEF SectorsOf
  <2>5. D!Open \/ D!Close
    BY <2>1, <2>2, <2>3, <2>4, PagesSame DEF D!Open, D!Close, D!requests, D!cached, request
  <2>. QED  BY <2>5 DEF D!Next
<1>3. CASE FlushStart
  <2>1. /\ loaded' = loaded /\ users = 1 /\ users' = users /\ flushing = {} /\ flushing' = Indices
        /\ page' = page /\ UNCHANGED request
    <3>1. users \in Nat BY MaxUsersAssumption DEF IInv, TypeOK
    <3>. QED  BY <1>3, <3>1 DEF FlushStart, IInv, Counted, cache
  <2>2. todo' = todo BY <2>1 DEF todo, request
  <2>3. SectorsOf(flushing) = {} /\ SectorsOf(flushing)' = Sectors
    BY <2>1, SectorPage DEF SectorsOf
  <2>4. D!FlushStart
    BY <2>1, <2>2, <2>3, PagesSame DEF D!FlushStart, D!requests, request
  <2>. QED  BY <2>4 DEF D!Next
<1>4. CASE Cleanup
  <2>1. /\ loaded /\ loaded' = FALSE
        /\ users = 0 /\ users' = users /\ page' = [i \in Indices |-> Absent]
        /\ flushing' = flushing /\ UNCHANGED request
    BY <1>4 DEF Cleanup
  <2>2. Contents' = [s \in Sectors |-> 0]
    BY <2>1, SectorPage, AbsentOK DEF Contents, Zero
  <2>3. BufferedSectors' = {} /\ FrailSectors' = {}
    BY <2>1 DEF BufferedSectors, FrailSectors, SectorsOf, Absent
  <2>4. todo' = todo /\ SectorsOf(flushing)' = SectorsOf(flushing)
    BY <2>1 DEF todo, request, SectorsOf
  <2>5. D!Unload
    BY <2>1, <2>2, <2>3, <2>4 DEF D!Unload, D!Settle, D!Blank, D!Zero, D!requests, request
  <2>. QED  BY <2>5 DEF D!Next
<1>. QED  BY <1>0, <1>1, <1>2, <1>3, <1>4

\* A page is dropped by a flush, or by reclaim: then it held zeros or was frail.
LEMMA DropRefines ==
    ASSUME IInv, NEW i \in Indices, FlushPage(i) \/ Evict(i),
           page' = [page EXCEPT ![i] = Absent],
           UNCHANGED <<lock, users, rd_bdev, bd_openers, loaded, pc, request>>
    PROVE  [D!Next]_(D!vars)
<1>. DEFINE S == {s \in Sectors : Index(s) = i}
<1>1. Contents' = [s \in Sectors |-> IF s \in S THEN 0 ELSE Contents[s]]
  <2>1. Contents' = [s \in Sectors |->
                       IF Index(s) = i THEN Holds(Absent, Offset(s)) ELSE Contents[s]]
    BY ContentsAfter
  <2>2. \A s \in Sectors : Holds(Absent, Offset(s)) = 0 BY AbsentOK, SectorPage DEF Zero
  <2>. QED  BY <2>1, <2>2
<1>2. D!Settle
  <2>1. FewerMarks(Absent, page[i]) BY DEF FewerMarks, Absent
  <2>. QED  BY <2>1, MarksKept DEF D!Settle
<1>3. todo' = todo BY DEF todo, request
<1>4. CASE FlushPage(i) /\ S # {}
  <2>1. i \in flushing /\ flushing' = flushing \ {i} BY <1>4 DEF FlushPage
  <2>2. S \subseteq SectorsOf(flushing) /\ SectorsOf(flushing)' = SectorsOf(flushing) \ S
    BY <2>1 DEF SectorsOf
  <2>3. D!Flush(S)
    BY <1>1, <1>2, <1>3, <1>4, <2>2 DEF D!Flush, D!Without, D!Zero, D!requests, request
  <2>. QED  BY <2>3 DEF D!Next
<1>5. CASE FlushPage(i) /\ S = {}
  <2>1. flushing' = flushing \ {i} BY <1>5 DEF FlushPage
  <2>2. SectorsOf(flushing)' = SectorsOf(flushing) BY <1>5, <2>1 DEF SectorsOf
  <2>3. Contents' = Contents BY <1>1, <1>5 DEF Contents
  <2>4. D!Reclaim({})
    BY <1>2, <1>3, <2>2, <2>3 DEF D!Reclaim, D!Without, D!requests, request, Contents
  <2>. QED  BY <2>4 DEF D!Next
<1>6. CASE Evict(i)
  <2>1. flushing' = flushing /\ ~page[i].dirty BY <1>6 DEF Evict, device
  <2>2. SectorsOf(flushing)' = SectorsOf(flushing) BY <2>1 DEF SectorsOf
  <2>3. CASE page[i].cancelled
    <3>1. S \subseteq FrailSectors BY <2>3 DEF FrailSectors, SectorsOf
    <3>2. D!Reclaim(S)
      BY <1>1, <1>2, <1>3, <2>2, <3>1 DEF D!Reclaim, D!Without, D!Zero, D!requests, request
    <3>. QED  BY <3>2 DEF D!Next
  <2>4. CASE ~page[i].cancelled
    <3>1. \A o \in Offsets : Holds(page[i], o) = Zero BY <2>1, <2>4 DEF IInv, PagesOK, PageOK
    <3>2. \A s \in S : Contents[s] = 0 BY <3>1, SectorPage DEF Contents, Zero
    <3>3. Contents' = Contents BY <1>1, <3>2 DEF Contents
    <3>4. D!Reclaim({})
      BY <1>2, <1>3, <2>2, <3>3 DEF D!Reclaim, D!Without, D!requests, request, Contents
    <3>. QED  BY <3>4 DEF D!Next
  <2>. QED  BY <2>3, <2>4
<1>. QED  BY <1>4, <1>5, <1>6

\* The kernel on pages: dropped, given buffers or rid of them, written through a
\* buffer, or nothing a reader would see.
LEMMA KernelRefines ==
    ASSUME IInv, KernelStep
    PROVE  [D!Next]_(D!vars)
<1>1. ASSUME NEW i \in Indices,
             \/ FlushPage(i) \/ Evict(i) \/ Readpage(i) \/ Writepage(i)
             \/ FreeBuffers(i) \/ FsGetBuffers(i)
      PROVE  [D!Next]_(D!vars)
  <2>. DEFINE S == {s \in Sectors : Index(s) = i}
  <2>1. PICK h : /\ page' = [page EXCEPT ![i] = h]
                 /\ UNCHANGED <<lock, users, rd_bdev, bd_openers, loaded, pc, request>>
                 /\ \/ (FlushPage(i) \/ Evict(i)) /\ h = Absent
                    \/ /\ flushing' = flushing
                       /\ \A o \in Offsets : Holds(h, o) = Holds(page[i], o)
                       /\ \/ SameMarks(h, page[i])
                          \/ page[i].buffers /\ ~h.buffers /\ h.cancelled
                          \/ users > 0 /\ h.buffers /\ h.cancelled = page[i].cancelled
    BY <1>1, KernelPage
  <2>2. CASE (FlushPage(i) \/ Evict(i)) /\ h = Absent
    BY <2>1, <2>2, DropRefines
  <2>3. ASSUME flushing' = flushing, \A o \in Offsets : Holds(h, o) = Holds(page[i], o)
        PROVE  /\ Contents' = Contents /\ todo' = todo
               /\ SectorsOf(flushing)' = SectorsOf(flushing)
    <3>1. page' = [page EXCEPT ![i] = h] BY <2>1
    <3>2. Contents' = Contents BY <1>1, <2>3, <3>1, ContentsAfter
    <3>3. todo' = todo BY <2>1 DEF todo, request
    <3>4. SectorsOf(flushing)' = SectorsOf(flushing) BY <2>3 DEF SectorsOf
    <3>. QED  BY <3>2, <3>3, <3>4
  <2>4. CASE /\ flushing' = flushing /\ \A o \in Offsets : Holds(h, o) = Holds(page[i], o)
             /\ SameMarks(h, page[i])
    BY <2>1, <2>3, <2>4, MarksKept, DiskStutter DEF request
  <2>5. CASE /\ flushing' = flushing /\ \A o \in Offsets : Holds(h, o) = Holds(page[i], o)
             /\ page[i].buffers /\ ~h.buffers /\ h.cancelled
    <3>1. /\ S \subseteq BufferedSectors /\ BufferedSectors' = BufferedSectors \ S
          /\ FrailSectors' = FrailSectors \union S
      BY <2>1, <2>5, MarksAfter
    <3>2. D!FreeBuffers(S) BY <2>1, <2>3, <2>5, <3>1 DEF D!FreeBuffers, D!requests, request
    <3>. QED  BY <3>2 DEF D!Next
  <2>6. CASE /\ flushing' = flushing /\ \A o \in Offsets : Holds(h, o) = Holds(page[i], o)
             /\ users > 0 /\ h.buffers /\ h.cancelled = page[i].cancelled
    <3>1. BufferedSectors' = BufferedSectors \union S /\ FrailSectors' = FrailSectors
      BY <2>1, <2>6, MarksAfter
    <3>2. D!TakeBuffers(S) BY <2>1, <2>3, <2>6, <3>1 DEF D!TakeBuffers, D!requests, request
    <3>. QED  BY <3>2 DEF D!Next
  <2>. QED  BY <2>1, <2>2, <2>4, <2>5, <2>6
<1>2. ASSUME NEW s \in CacheSectors, NEW v \in Values, FsBuffer(s, v)
      PROVE  [D!Next]_(D!vars)
  <2>1. PICK h : /\ s \in Sectors /\ page' = [page EXCEPT ![Index(s)] = h]
                 /\ FewerMarks(h, page[Index(s)])
                 /\ UNCHANGED <<lock, device, pc, request>>
                 /\ \A o \in Offsets :
                       Holds(h, o) = IF o = Offset(s) THEN v ELSE Holds(page[Index(s)], o)
    BY <1>2, BufferPage
  <2>2. Contents' = [Contents EXCEPT ![s] = v] BY <2>1, StoredAt
  <2>3. users > 0 BY <1>2 DEF FsBuffer
  <2>4. D!Settle
    <3>1. Index(s) \in Indices BY <2>1, SectorPage
    <3>. QED  BY <2>1, <3>1, MarksKept DEF D!Settle
  <2>5. D!Store(s, v)
    BY <2>1, <2>2, <2>3, <2>4 DEF D!Store, D!requests, todo, request, device, SectorsOf
  <2>. QED  BY <2>1, <2>5 DEF D!Next
<1>. QED  BY <1>1, <1>2 DEF KernelStep

\* Requests: submitted, transferred piece by piece, ended; write(2) stores.
LEMMA RequestRefines ==
    ASSUME IInv, NEW p \in Procs,
           \/ \E b \in Bios : Submit(p, b)
           \/ Grab(p) \/ Unlock(p) \/ GrabFails(p) \/ End(p)
    PROVE  [D!Next]_(D!vars)
<1>1. ASSUME NEW b \in Bios, Submit(p, b) PROVE [D!Next]_(D!vars)
  <2>1. /\ users > 0 /\ pc[p] = "idle" /\ bio' = [bio EXCEPT ![p] = b]
        /\ buf' = [buf EXCEPT ![p] = b.data] /\ result' = [result EXCEPT ![p] = "none"]
        /\ moved' = [moved EXCEPT ![p] = {}]
        /\ page' = page /\ loaded' = loaded /\ users' = users /\ flushing' = flushing
    BY <1>1 DEF Submit, cache, device
  <2>2. bio[p] = NoBio BY <2>1 DEF IInv, Places, PlaceOK
  <2>3. todo' = [todo EXCEPT ![p] = Covered(b)] BY <2>1 DEF todo, IInv, TypeOK
  <2>4. UNCHANGED <<Contents, D!cached>> BY <2>1, PagesSame DEF D!cached, SectorsOf
  <2>5. D!Submit(p)
    BY <2>1, <2>2, <2>3, <2>4 DEF D!Submit, D!Covered, D!NoBio, NoBio, Covered
  <2>. QED  BY <2>5 DEF D!Next
<1>2. CASE Grab(p)
  <2>. DEFINE i == Index(at[p])
  <2>1. /\ page' = [page EXCEPT ![i] = Found(i)] /\ UNCHANGED device /\ UNCHANGED request
        /\ pc[p] = "grab"
    BY <1>2 DEF Grab
  <2>2. i \in Indices BY <2>1, RequestAt, SectorPage
  <2>3. /\ SameMarks(Found(i), page[i])
        /\ \A o \in Offsets : Holds(Found(i), o) = Holds(page[i], o)
    BY <2>2, FoundOK DEF IInv, PagesOK
  <2>. DEFINE h == Found(i)
  <2>. HIDE DEF i
  <2>4. /\ page' = [page EXCEPT ![i] = h] /\ SameMarks(h, page[i])
        /\ \A o \in Offsets : Holds(h, o) = Holds(page[i], o)
    BY <2>1, <2>3
  <2>. HIDE DEF h
  <2>5. UNCHANGED <<Contents, BufferedSectors, FrailSectors>>
    BY <2>2, <2>4, ContentsAfter, MarksKept
  <2>. QED  BY <2>1, <2>5, DiskStutter DEF request, device
<1>3. CASE Unlock(p) \/ GrabFails(p)
  <2>1. page' = page /\ UNCHANGED device /\ UNCHANGED <<bio, buf, result, moved>>
    BY <1>3 DEF Unlock, UnlockOf, GrabFails, cache
  <2>. QED  BY <2>1, PagesSame, DiskStutter DEF device
<1>4. CASE End(p)
  <2>1. /\ pc[p] = "end" /\ bio' = [bio EXCEPT ![p] = NoBio] /\ buf' = [buf EXCEPT ![p] = <<>>]
        /\ moved' = [moved EXCEPT ![p] = {}]
        /\ page' = page /\ loaded' = loaded /\ users' = users /\ flushing' = flushing
        /\ result' = [result EXCEPT ![p] = IF ret[p] = 0 THEN "ok" ELSE "error"]
    BY <1>4 DEF End, cache, device
  <2>2. bio[p] \in Bios /\ (ret[p] = 0 => moved[p] = Covered(bio[p]))
    BY <2>1 DEF IInv, Places, PlaceOK
  <2>3. bio[p] # NoBio /\ (ret[p] = 0 => todo[p] = {}) BY <2>2, BioFacts DEF todo
  <2>4. todo' = [todo EXCEPT ![p] = {}]
    <3>1. \A q \in Procs : /\ bio'[q] = IF q = p THEN NoBio ELSE bio[q]
                           /\ moved'[q] = IF q = p THEN {} ELSE moved[q]
      BY <2>1 DEF IInv, TypeOK
    <3>2. Covered(NoBio) = {} BY DEF Covered, NoBio
    <3>3. todo' = [q \in Procs |-> IF q = p THEN {} ELSE todo[q]] BY <3>1, <3>2 DEF todo
    <3>. QED  BY <3>3 DEF todo
  <2>5. UNCHANGED <<Contents, D!cached>> BY <2>1, PagesSame DEF D!cached, SectorsOf
  <2>6. D!End(p) BY <2>1, <2>3, <2>4, <2>5 DEF D!End, D!NoBio, NoBio
  <2>. QED  BY <2>6 DEF D!Next
<1>. QED  BY <1>1, <1>2, <1>3, <1>4

\* The copy of a piece is a transfer of Disk.
LEMMA MoveRefines ==
    ASSUME IInv, NEW p \in Procs, Move(p)
    PROVE  [D!Next]_(D!vars)
<1>. DEFINE i == Index(at[p])
            b == bio[p]
            S == Piece(p)
<1>1. /\ pc[p] = "move" /\ moved' = [moved EXCEPT ![p] = @ \union S]
      /\ UNCHANGED <<loaded, users, flushing, bio, result>>
  BY DEF Move, Count, Piece, device
<1>2. /\ S # {} /\ S \subseteq Sectors /\ S \subseteq Covered(b) /\ S \intersect moved[p] = {}
      /\ i \in Indices
  BY <1>1, PieceFacts
<1>3. S \subseteq todo[p] \intersect Sectors BY <1>2 DEF todo
<1>4. todo' = [todo EXCEPT ![p] = @ \ S] BY <1>1 DEF todo, IInv, TypeOK
<1>5. PICK h : /\ page' = [page EXCEPT ![i] = h]
               /\ FewerMarks(h, page[i]) /\ (b.rw # "WRITE" => SameMarks(h, page[i]))
               /\ \A s \in Sectors :
                     Index(s) = i =>
                        Holds(h, Offset(s)) =
                           IF b.rw = "WRITE" /\ s \in S
                           THEN buf[p][(s - b.sector) + 1]
                           ELSE Holds(page[i], Offset(s))
  BY MovePage
<1>6. \A s \in S : Index(s) = i
  <2>1. /\ at[p] \in Nat /\ Count(p) \in Nat /\ Count(p) <= PageSectors - Offset(at[p])
        /\ PageSectors \in Nat /\ Offset(at[p]) \in Nat
    BY <1>1, PieceFacts, DivMod DEF Offsets
  <2>2. \A s \in S : s \in Nat /\ at[p] <= s /\ s < at[p] + (PageSectors - Offset(at[p]))
    BY <2>1 DEF Piece
  <2>. QED  BY <2>1, <2>2, SamePage
<1>7. Contents' = [s \in Sectors |-> IF b.rw = "WRITE" /\ s \in S
                                      THEN buf[p][(s - b.sector) + 1] ELSE Contents[s]]
  <2>1. Contents' = [s \in Sectors |-> IF Index(s) = i THEN Holds(h, Offset(s)) ELSE Contents[s]]
    BY <1>2, <1>5, ContentsAfter
  <2>2. \A s \in Sectors : Index(s) = i => Contents[s] = Holds(page[i], Offset(s))
    BY DEF Contents
  <2>. QED  BY <1>5, <1>6, <2>1, <2>2
<1>8. D!Transfer(p, S)
  <2>0. SectorsOf(flushing)' = SectorsOf(flushing) BY <1>1 DEF SectorsOf
  <2>1. CASE b.rw = "WRITE"
    <3>1. Contents' = [s \in Sectors |-> IF s \in S THEN buf[p][(s - b.sector) + 1]
                                          ELSE Contents[s]]
      BY <1>7, <2>1
    <3>2. buf' = buf BY <2>1, MoveBuffer
    <3>3. D!Settle BY <1>2, <1>5, MarksKept DEF D!Settle
    <3>. QED  BY <1>1, <1>2, <1>3, <1>4, <2>0, <2>1, <3>1, <3>2, <3>3 DEF D!Transfer
  <2>2. CASE b.rw # "WRITE"
    <3>1. Contents' = Contents BY <1>7, <2>2 DEF Contents
    <3>2. buf' = [buf EXCEPT ![p] = [k \in DOMAIN @ |->
                     IF k + b.sector - 1 \in S THEN Contents[k + b.sector - 1] ELSE @[k]]]
      BY <2>2, MoveBuffer
    <3>3. UNCHANGED <<BufferedSectors, FrailSectors>> BY <1>2, <1>5, <2>2, MarksKept
    <3>. QED  BY <1>1, <1>2, <1>3, <1>4, <2>0, <2>2, <3>1, <3>2, <3>3 DEF D!Transfer
  <2>. QED  BY <2>1, <2>2
<1>9. S \in SUBSET Sectors BY <1>2
<1>. QED  BY <1>8, <1>9 DEF D!Next

\* The two halves of a write(2): only the second one stores.
LEMMA WriteRefines ==
    ASSUME IInv, NEW p \in Procs,
           \/ \E s \in CacheSectors : PrepareWrite(p, s)
           \/ \E v \in Values : CommitWrite(p, v)
    PROVE  [D!Next]_(D!vars)
<1>1. ASSUME NEW s \in CacheSectors, PrepareWrite(p, s) PROVE [D!Next]_(D!vars)
  <2>. DEFINE i == Index(s)
              h == MakeUptodate(Found(i))
  <2>1. i \in Indices /\ page' = [page EXCEPT ![i] = h] BY <1>1, PrepareWriteInv
  <2>2. UNCHANGED device /\ UNCHANGED <<bio, buf, result, moved>> BY <1>1 DEF PrepareWrite
  <2>3. SameMarks(h, page[i]) /\ \A o \in Offsets : Holds(h, o) = Holds(page[i], o)
    BY <2>1, FoundOK, UptodateOK DEF IInv, PagesOK, SameMarks
  <2>. HIDE DEF h, i
  <2>4. UNCHANGED <<Contents, BufferedSectors, FrailSectors>>
    BY <2>1, <2>3, ContentsAfter, MarksKept
  <2>. QED  BY <2>2, <2>4, DiskStutter DEF device
<1>2. ASSUME NEW v \in Values, CommitWrite(p, v) PROVE [D!Next]_(D!vars)
  <2>1. PICK h : /\ page' = [page EXCEPT ![Index(at[p])] = h]
                 /\ FewerMarks(h, page[Index(at[p])])
                 /\ \A o \in Offsets :
                       Holds(h, o) = IF o = Offset(at[p]) THEN v
                                     ELSE Holds(page[Index(at[p])], o)
    BY <1>2, CommitPage
  <2>2. /\ pc[p] = "prepared" /\ UNCHANGED device /\ UNCHANGED <<bio, buf, result, moved>>
    BY <1>2 DEF CommitWrite
  <2>3. at[p] \in Sectors BY <2>2, RequestAt
  <2>4. Contents' = [Contents EXCEPT ![at[p]] = v] BY <2>1, <2>3, StoredAt
  <2>5. users > 0 BY <2>2, StillCounted
  <2>6. D!Settle
    <3>1. Index(at[p]) \in Indices BY <2>3, SectorPage
    <3>. QED  BY <2>1, <3>1, MarksKept DEF D!Settle
  <2>7. D!Store(at[p], v)
    BY <2>2, <2>4, <2>5, <2>6 DEF D!Store, D!requests, todo, device, SectorsOf
  <2>. QED  BY <2>3, <2>7 DEF D!Next
<1>. QED  BY <1>1, <1>2

\* Every step is one of Disk or changes nothing that Disk sees.
LEMMA DiskNext == IInv /\ [Next]_vars => [D!Next]_(D!vars)
<1>. SUFFICES ASSUME IInv, [Next]_vars PROVE [D!Next]_(D!vars)
  OBVIOUS
<1>1. CASE \/ InitModule \/ Open \/ FlushStart
           \/ UNCHANGED vars \/ Close \/ Cleanup
  BY <1>1, DeviceRefines
<1>2. CASE KernelStep BY <1>2, KernelRefines
<1>3. CASE \E p \in Procs, b \in Bios : Submit(p, b) BY <1>3, RequestRefines
<1>4. CASE \E p \in Procs : Grab(p) \/ RequestStep(p)
  BY <1>4, RequestRefines, MoveRefines DEF RequestStep
<1>5. CASE \/ \E p \in Procs, s \in CacheSectors : PrepareWrite(p, s)
           \/ \E p \in Procs, v \in Values : CommitWrite(p, v)
  BY <1>5, WriteRefines
<1>. QED  BY <1>1, <1>2, <1>3, <1>4, <1>5, KernelSteps DEF Next

\* The safety half of the refinement.  Under requests, write(2), file systems
\* that use buffers, memory reclaim and flushes the page cache starts blank and
\* changes as Disk allows: every read returns the contents of that moment, a
\* request succeeds only when all of it was transferred, and a sector loses what
\* was written only to a flush, which drops it once, to unloading, or to reclaim
\* after its buffers were freed, while nobody has written its page since.  (A
\* file system's write that make_page_uptodate clears is a store of zeros.)
THEOREM PageCacheIsDisk == Spec => D!Init /\ [][D!Next]_(D!vars)
  BY DiskInit, DiskNext, Inductive, PTL DEF Spec

-----------------------------------------------------------------------------
(* The other RAM disk.  Its requests and processes are those of Ramdisk;    *)
(* copied and left stand for its variables moved and todo, whose names      *)
(* Ramdisk uses for others.                                                 *)

CONSTANTS RAMBLOCK_SIZE, Heads, Cylinders, SectorsPerTrack
VARIABLES ramblock_buf, queue, running, req, copied, sector, left

RB == INSTANCE Ramblock WITH moved <- copied, todo <- left

\* The segments of p's request that are copied: those before seg, and seg
\* itself between memcpy and end_request.
Copied(p) == IF copied /\ req = p THEN seg[p] + 1 ELSE seg[p]

\* A request on the queue lies on the disk, sector is where its current
\* segment begins, and what is left begins where the copied segments end.
Queued(p) ==
    /\ bio[p] \in Bios
    /\ bio[p].sector + bio[p].len <= RAMBLOCK_SIZE
    /\ seg[p] \in 1 .. Len(bio[p].segs)
    /\ sector[p] = bio[p].sector + Cut(bio[p])[seg[p]]
    /\ left[p] = (bio[p].sector + Cut(bio[p])[Copied(p)]) .. (bio[p].sector + bio[p].len - 1)
    /\ buf[p] \in [1 .. bio[p].len -> Values]

RequestTypes ==
    /\ bio \in [Procs -> Bios \union {NoBio}]
    /\ sector \in [Procs -> Nat]
    /\ seg \in [Procs -> Nat]
    /\ left \in [Procs -> SUBSET Nat]
    /\ buf \in [Procs -> Seq(Values)]
    /\ result \in [Procs -> {"none", "ok", "error"}]

\* do_ramblock_request is at a request of the queue, and at none when it does
\* not run; a disk that is not there has no users.
QueueInv ==
    /\ ramblock_buf \in [RB!Sectors -> Values]
    /\ queue \subseteq Procs
    /\ req \in queue \union {None}
    /\ copied => req # None
    /\ running \/ req = None
    /\ loaded \/ users = 0

RBInv ==
    /\ RAMBLOCK_SIZE \in Nat
    /\ RequestTypes
    /\ QueueInv
    /\ \A p \in queue : Queued(p)

\* Before insmod, with a blank disk.
LEMMA RamblockInit == RAMBLOCK_SIZE \in Nat /\ RB!Init => RBInv /\ RB!D!Init
<1>. SUFFICES ASSUME RAMBLOCK_SIZE \in Nat, RB!Init PROVE RBInv /\ RB!D!Init
  OBVIOUS
<1>1. RequestTypes
  <2>1. <<>> \in Seq(Values) OBVIOUS
  <2>. QED  BY <2>1 DEF RB!Init, RB!NoBio, NoBio, RequestTypes
<1>2. QueueInv BY ValuesAssumption DEF RB!Init, QueueInv, RB!Blank, RB!None, None
<1>3. queue = {} BY DEF RB!Init
<1>4. RB!D!Init
  BY DEF RB!Init, RB!D!Init, RB!Blank, RB!D!Blank, RB!D!Zero, RB!NoBio, RB!D!NoBio
<1>. QED  BY <1>1, <1>2, <1>3, <1>4 DEF RBInv

\* Steps that leave the requests and the place of the function alone.
LEMMA RamblockModule ==
    ASSUME RBInv, RB!ModuleInit \/ RB!ModuleExit \/ RB!Open \/ RB!Close
    PROVE  RBInv' /\ RB!D!Next
<1>1. UNCHANGED <<queue, running, req, copied, bio, sector, seg, left, buf, result>>
  BY DEF RB!ModuleInit, RB!ModuleExit, RB!Open, RB!Close, RB!request
<1>2. RequestTypes' BY <1>1 DEF RBInv, RequestTypes
<1>3. \A p \in queue' : Queued(p)' BY <1>1 DEF RBInv, Queued, Copied
<1>4. CASE RB!ModuleInit \/ RB!ModuleExit
  <2>1. ramblock_buf' = RB!Blank /\ users = 0 /\ users' = users
    BY <1>4 DEF RB!ModuleInit, RB!ModuleExit, RBInv, QueueInv
  <2>2. RB!D!Load \/ RB!D!Unload
    <3>1. RB!Blank = RB!D!Blank BY DEF RB!Blank, RB!D!Blank, RB!D!Zero
    <3>2. CASE RB!ModuleInit
      BY <1>1, <2>1, <3>1, <3>2 DEF RB!ModuleInit, RB!D!Load, RB!D!requests, RB!D!cached
    <3>3. CASE RB!ModuleExit
      BY <1>1, <2>1, <3>1, <3>3 DEF RB!ModuleExit, RB!D!Unload, RB!D!Settle, RB!D!requests
    <3>. QED  BY <1>4, <3>2, <3>3
  <2>3. QueueInv' BY <1>1, <2>1, ValuesAssumption DEF RBInv, QueueInv, RB!Blank
  <2>. QED  BY <1>2, <1>3, <2>2, <2>3 DEF RBInv, RB!D!Next
<1>5. CASE RB!Open \/ RB!Close
  <2>1. ramblock_buf' = ramblock_buf /\ loaded' = loaded /\ (loaded \/ users > 0)
    BY <1>5 DEF RB!Open, RB!Close
  <2>2. RB!D!Open \/ RB!D!Close
    BY <1>1, <1>5, <2>1 
    DEF RB!Open, RB!Close, RB!D!Open, RB!D!Close, RB!D!requests, RB!D!cached
  <2>3. loaded BY <2>1 DEF RBInv, QueueInv
  <2>4. QueueInv' BY <1>1, <2>1, <2>3 DEF RBInv, QueueInv
  <2>. QED  BY <1>2, <1>3, <2>2, <2>4 DEF RBInv, RB!D!Next
<1>. QED  BY <1>4, <1>5

\* The function begins, takes a request, and returns.
LEMMA RamblockIdle ==
    ASSUME RBInv, RB!Unplug \/ RB!NextRequest \/ RB!Return \/ UNCHANGED RB!vars
    PROVE  RBInv' /\ UNCHANGED RB!D!vars
<1>1. UNCHANGED <<loaded, users, ramblock_buf, queue, copied, bio, sector, seg, left, buf, result>>
  BY DEF RB!Unplug, RB!NextRequest, RB!Return, RB!request, RB!vars
<1>2. RequestTypes' BY <1>1 DEF RBInv, RequestTypes
<1>3. /\ req' \in queue \union {None} /\ (copied => req' = req)
      /\ running' \/ req' = None
  BY DEF RB!Unplug, RB!NextRequest, RB!Return, RB!vars, RBInv, QueueInv, RB!None, None
<1>4. QueueInv' BY <1>1, <1>3 DEF RBInv, QueueInv
<1>5. \A p \in queue' : Queued(p)' BY <1>1, <1>3 DEF RBInv, Queued, Copied
<1>. QED  BY <1>1, <1>2, <1>4, <1>5 DEF RBInv, RB!D!vars, RB!D!requests, RB!D!cached

\* What BioFacts says of the current segment of a request on the queue.
LEMMA CurrentSegment ==
    ASSUME RBInv, NEW p \in queue
    PROVE  /\ p \in Procs /\ bio[p] \in Bios /\ bio[p] # NoBio /\ bio[p].rw \in {"READ", "WRITE"}
           /\ bio[p].sector \in Nat /\ bio[p].len \in Nat /\ Len(bio[p].segs) \in Nat
           /\ seg[p] \in 1 .. Len(bio[p].segs) /\ bio[p].segs[seg[p]] \in Nat \ {0}
           /\ Cut(bio[p])[seg[p]] \in Nat /\ Cut(bio[p])[seg[p] + 1] \in 0 .. bio[p].len
           /\ Cut(bio[p])[seg[p] + 1] = Cut(bio[p])[seg[p]] + bio[p].segs[seg[p]]
           /\ Cut(bio[p])[Len(bio[p].segs) + 1] = bio[p].len
<1>. DEFINE b == bio[p]
            n == seg[p]
<1>1. p \in Procs /\ b \in Bios /\ n \in 1 .. Len(b.segs) BY DEF RBInv, QueueInv, Queued
<1>. HIDE DEF b, n
<1>2. /\ b # NoBio /\ b.rw \in {"READ", "WRITE"} /\ b.sector \in Nat /\ b.len \in Nat
      /\ Len(b.segs) \in Nat /\ Cut(b)[Len(b.segs) + 1] = b.len
      /\ \A k \in 1 .. Len(b.segs) :
            /\ b.segs[k] \in Nat \ {0}
            /\ Cut(b)[k] \in 0 .. b.len /\ Cut(b)[k + 1] \in 0 .. b.len
            /\ Cut(b)[k + 1] = Cut(b)[k] + b.segs[k]
  BY <1>1, BioFacts
<1>3. Cut(b)[n] \in 0 .. b.len BY <1>1, <1>2
<1>4. Cut(b)[n] \in Nat BY <1>2, <1>3
<1>. QED  BY <1>1, <1>2, <1>4 DEF b, n

\* A step of one request leaves the others on the queue where they are.
LEMMA OthersQueued ==
    ASSUME RBInv, NEW p \in Procs, NEW q \in queue, q # p,
           bio'[q] = bio[q], sector'[q] = sector[q], seg'[q] = seg[q],
           left'[q] = left[q], buf'[q] = buf[q],
           (copied' /\ req' = q) <=> (copied /\ req = q)
    PROVE  Queued(q)'
  BY DEF RBInv, Queued, Copied

\* A request enters the queue, or is too long for the disk.
LEMMA RamblockSubmit ==
    ASSUME RBInv, NEW p \in Procs, NEW b \in Bios, RB!Submit(p, b)
    PROVE  RBInv' /\ RB!D!Next
<1>1. /\ users > 0 /\ bio[p] = NoBio
      /\ bio' = [bio EXCEPT ![p] = b] /\ sector' = [sector EXCEPT ![p] = b.sector]
      /\ seg' = [seg EXCEPT ![p] = 1] /\ left' = [left EXCEPT ![p] = Covered(b)]
      /\ buf' = [buf EXCEPT ![p] = b.data] /\ result' = [result EXCEPT ![p] = "none"]
      /\ UNCHANGED <<loaded, users, ramblock_buf, running, req, copied>>
  BY DEF RB!Submit, RB!NoBio, NoBio, RB!Covered, Covered
<1>2. queue' = IF b.sector + b.len <= RAMBLOCK_SIZE THEN queue \union {p} ELSE queue
  BY DEF RB!Submit
<1>3. /\ b.sector \in Nat /\ b.len \in Nat /\ b.data \in Seq(Values)
      /\ b.data \in [1 .. b.len -> Values] /\ Len(b.segs) \in Nat \ {0} /\ Cut(b)[1] = 0
  BY BioFacts
<1>4. Covered(b) \subseteq Nat BY <1>3 DEF Covered
<1>5. RequestTypes' BY <1>1, <1>3, <1>4 DEF RBInv, RequestTypes
<1>6. QueueInv' BY <1>1, <1>2 DEF RBInv, QueueInv
<1>7. p \notin queue /\ req # p
  <2>1. p \notin queue BY <1>1, BioFacts DEF RBInv, Queued
  <2>. QED  BY <2>1, ProcsAssumption DEF RBInv, QueueInv
<1>8. ASSUME NEW q \in queue PROVE Queued(q)'
  <2>1. q \in Procs /\ q # p BY <1>7 DEF RBInv, QueueInv
  <2>2. /\ bio'[q] = bio[q] /\ sector'[q] = sector[q] /\ seg'[q] = seg[q]
        /\ left'[q] = left[q] /\ buf'[q] = buf[q]
    BY <1>1, <2>1 DEF RBInv, RequestTypes
  <2>. QED  BY <1>1, <2>1, <2>2, OthersQueued
<1>9. ASSUME b.sector + b.len <= RAMBLOCK_SIZE PROVE Queued(p)'
  <2>1. /\ bio'[p] = b /\ sector'[p] = b.sector /\ seg'[p] = 1
        /\ left'[p] = Covered(b) /\ buf'[p] = b.data
    BY <1>1 DEF RBInv, RequestTypes
  <2>2. Copied(p)' = 1 BY <1>1, <1>7, <2>1 DEF Copied
  <2>3. b.sector + Cut(b)[1] = b.sector /\ 1 \in 1 .. Len(b.segs) BY <1>3
  <2>. QED  BY <1>3, <1>9, <2>1, <2>2, <2>3 DEF Queued, Covered
<1>10. \A q \in queue' : Queued(q)' BY <1>2, <1>8, <1>9
<1>11. RB!D!Submit(p)
  BY <1>1 DEF RB!D!Submit, RB!D!cached, RB!D!Covered, RB!D!NoBio, NoBio, Covered
<1>. QED  BY <1>5, <1>6, <1>10, <1>11 DEF RBInv, RB!D!Next

\* What the end of p's request leaves, on the queue or not.
LEMMA RamblockComplete ==
    ASSUME RBInv, NEW p \in Procs, NEW how \in {"ok", "error"}, RB!Complete(p, how)
    PROVE  /\ RequestTypes'
           /\ bio' = [bio EXCEPT ![p] = NoBio] /\ left' = [left EXCEPT ![p] = {}]
           /\ buf' = [buf EXCEPT ![p] = <<>>] /\ result' = [result EXCEPT ![p] = how]
           /\ \A q \in queue \ {p} :
                 /\ bio'[q] = bio[q] /\ sector'[q] = sector[q] /\ seg'[q] = seg[q]
                 /\ left'[q] = left[q] /\ buf'[q] = buf[q]
<1>1. /\ bio' = [bio EXCEPT ![p] = NoBio] /\ sector' = [sector EXCEPT ![p] = 0]
      /\ seg' = [seg EXCEPT ![p] = 0] /\ left' = [left EXCEPT ![p] = {}]
      /\ buf' = [buf EXCEPT ![p] = <<>>] /\ result' = [result EXCEPT ![p] = how]
  BY DEF RB!Complete, RB!NoBio, NoBio
<1>2. <<>> \in Seq(Values) OBVIOUS
<1>3. RequestTypes' BY <1>1, <1>2 DEF RBInv, RequestTypes
<1>4. \A q \in queue \ {p} :
         /\ bio'[q] = bio[q] /\ sector'[q] = sector[q] /\ seg'[q] = seg[q]
         /\ left'[q] = left[q] /\ buf'[q] = buf[q]
  BY <1>1 DEF RBInv, RequestTypes, QueueInv
<1>. QED  BY <1>1, <1>3, <1>4

\* The block layer refuses a request that is too long.
LEMMA RamblockBeyondEnd ==
    ASSUME RBInv, NEW p \in Procs, RB!BeyondEnd(p)
    PROVE  RBInv' /\ RB!D!Next
<1>1. /\ bio[p] # NoBio /\ p \notin queue /\ RB!Complete(p, "error")
      /\ UNCHANGED <<loaded, users, ramblock_buf, queue, running, req, copied>>
  BY DEF RB!BeyondEnd, RB!NoBio, NoBio
<1>2. /\ RequestTypes'
      /\ bio' = [bio EXCEPT ![p] = NoBio] /\ left' = [left EXCEPT ![p] = {}]
      /\ buf' = [buf EXCEPT ![p] = <<>>] /\ result' = [result EXCEPT ![p] = "error"]
  BY <1>1, RamblockComplete
<1>3. QueueInv' BY <1>1 DEF RBInv, QueueInv
<1>4. ASSUME NEW q \in queue PROVE Queued(q)'
  <2>1. q # p BY <1>1
  <2>2. /\ bio'[q] = bio[q] /\ sector'[q] = sector[q] /\ seg'[q] = seg[q]
        /\ left'[q] = left[q] /\ buf'[q] = buf[q]
    BY <1>1, <2>1, RamblockComplete
  <2>. QED  BY <1>1, <2>1, <2>2, OthersQueued
<1>5. RB!D!End(p) BY <1>1, <1>2 DEF RB!D!End, RB!D!cached, RB!D!NoBio, NoBio
<1>. QED  BY <1>1, <1>2, <1>3, <1>4, <1>5 DEF RBInv, RB!D!Next

\* end_request: the next segment is in place, or all of them were copied.
LEMMA RamblockEndRequest ==
    ASSUME RBInv, RB!EndRequest
    PROVE  RBInv' /\ [RB!D!Next]_(RB!D!vars)
<1>. DEFINE b == bio[req]
            n == seg[req]
<1>1. /\ copied /\ ~copied' /\ req # None
      /\ UNCHANGED <<loaded, users, ramblock_buf, running>>
  BY DEF RB!EndRequest, RBInv, QueueInv
<1>2. req \in queue /\ req \in Procs /\ Queued(req) BY <1>1 DEF RBInv, QueueInv
<1>3. /\ b \in Bios /\ b.sector \in Nat /\ b.len \in Nat /\ Len(b.segs) \in Nat
      /\ n \in 1 .. Len(b.segs) /\ b.segs[n] \in Nat
      /\ Cut(b)[n] \in Nat /\ Cut(b)[n + 1] = Cut(b)[n] + b.segs[n]
      /\ Cut(b)[Len(b.segs) + 1] = b.len
      /\ sector[req] = b.sector + Cut(b)[n]
  BY <1>2, CurrentSegment DEF Queued
<1>4. left[req] = (b.sector + Cut(b)[n + 1]) .. (b.sector + b.len - 1)
  BY <1>1, <1>2 DEF Queued, Copied
<1>5. CASE n < Len(b.segs)
  <2>1. /\ sector' = [sector EXCEPT ![req] = @ + b.segs[n]] /\ seg' = [seg EXCEPT ![req] = @ + 1]
        /\ UNCHANGED <<bio, left, buf, result, queue, req>>
    BY <1>5 DEF RB!EndRequest
  <2>2. sector[req] + b.segs[n] \in Nat /\ n + 1 \in Nat
    <3>1. sector[req] \in Nat /\ n \in Nat BY <1>2 DEF RBInv, RequestTypes
    <3>2. b.segs[n] \in Nat BY <1>3
    <3>. HIDE DEF b, n
    <3>. QED  BY <3>1, <3>2
  <2>3. RequestTypes' BY <1>2, <2>1, <2>2 DEF RBInv, RequestTypes
  <2>4. QueueInv' BY <1>1, <2>1 DEF RBInv, QueueInv
  <2>5. sector'[req] = sector[req] + b.segs[n] /\ seg'[req] = n + 1
    BY <1>2, <2>1 DEF RBInv, RequestTypes
  <2>6. sector'[req] = b.sector + Cut(b)[n + 1]
    <3>1. ASSUME NEW x \in Nat, NEW k \in Nat, NEW m \in Nat PROVE (x + k) + m = x + (k + m)
      OBVIOUS
    <3>. QED  BY <1>3, <2>5, <3>1
  <2>7. n + 1 \in 1 .. Len(b.segs) BY <1>3, <1>5
  <2>8. Queued(req)'
    <3>1. Copied(req)' = n + 1 BY <1>1, <2>1, <2>5 DEF Copied
    <3>. QED  BY <1>2, <1>4, <2>1, <2>5, <2>6, <2>7, <3>1 DEF Queued
  <2>9. ASSUME NEW q \in queue, q # req PROVE Queued(q)'
    <3>1. sector'[q] = sector[q] /\ seg'[q] = seg[q]
      BY <2>1, <2>9 DEF RBInv, RequestTypes, QueueInv
    <3>. QED  BY <1>1, <1>2, <2>1, <2>9, <3>1, OthersQueued
  <2>10. UNCHANGED RB!D!vars BY <1>1, <2>1 DEF RB!D!vars, RB!D!requests, RB!D!cached
  <2>. QED  BY <2>1, <2>3, <2>4, <2>8, <2>9, <2>10 DEF RBInv
<1>6. CASE ~(n < Len(b.segs))
  <2>1. RB!Complete(req, "ok") /\ queue' = queue \ {req} /\ req' = None
    BY <1>6 DEF RB!EndRequest, RB!None, None
  <2>2. /\ RequestTypes'
        /\ bio' = [bio EXCEPT ![req] = NoBio] /\ left' = [left EXCEPT ![req] = {}]
        /\ buf' = [buf EXCEPT ![req] = <<>>] /\ result' = [result EXCEPT ![req] = "ok"]
    BY <1>2, <2>1, RamblockComplete
  <2>3. QueueInv' BY <1>1, <2>1 DEF RBInv, QueueInv
  <2>4. ASSUME NEW q \in queue, q # req PROVE Queued(q)'
    <3>1. q \in Procs BY DEF RBInv, QueueInv
    <3>2. /\ bio'[q] = bio[q] /\ sector'[q] = sector[q] /\ seg'[q] = seg[q]
          /\ left'[q] = left[q] /\ buf'[q] = buf[q]
      BY <1>2, <2>1, <2>4, RamblockComplete
    <3>. QED  BY <1>1, <1>2, <2>4, <3>2, OthersQueued
  <2>5. left[req] = {}
    <3>1. n = Len(b.segs) BY <1>3, <1>6
    <3>. QED  BY <1>3, <1>4, <3>1
  <2>6. b # NoBio BY <1>3, BioFacts
  <2>7. RB!D!End(req) BY <1>1, <2>2, <2>5, <2>6 DEF RB!D!End, RB!D!cached, RB!D!NoBio, NoBio
  <2>. QED  BY <1>2, <2>1, <2>2, <2>3, <2>4, <2>7 DEF RBInv, RB!D!Next
<1>. QED  BY <1>5, <1>6

\* The sectors of one segment of m sectors, k sectors into a request of y
\* sectors from x on, on a disk of z sectors.
LEMMA SegmentSectors ==
    ASSUME NEW x \in Nat, NEW k \in Nat, NEW m \in Nat \ {0}, NEW y \in Nat, NEW z \in Nat,
           k + m <= y, x + y <= z
    PROVE  /\ x + k \in Nat
           /\ (x + k) .. (x + k + m - 1) # {}
           /\ (x + k) .. (x + k + m - 1) \subseteq (x + k) .. (x + y - 1)
           /\ (x + k) .. (x + k + m - 1) \subseteq 0 .. (z - 1)
           /\ ((x + k) .. (x + y - 1)) \ ((x + k) .. (x + k + m - 1)) = (x + (k + m)) .. (x + y - 1)
           /\ \A s \in (x + k) .. (x + k + m - 1) : s - x + 1 \in 1 .. y
<1>1. x + k \in (x + k) .. (x + k + m - 1) OBVIOUS
<1>2. ASSUME NEW s \in (x + k) .. (x + k + m - 1)
      PROVE  s \in (x + k) .. (x + y - 1) /\ s \in 0 .. (z - 1) /\ s - x + 1 \in 1 .. y
  OBVIOUS
<1>3. ((x + k) .. (x + y - 1)) \ ((x + k) .. (x + k + m - 1)) = (x + (k + m)) .. (x + y - 1)
  OBVIOUS
<1>. QED  BY <1>1, <1>2, <1>3

\* memcpy: the current segment, between its sectors and its place in memory.
LEMMA RamblockTransfer ==
    ASSUME RBInv, RB!Transfer
    PROVE  RBInv' /\ RB!D!Next
<1>. DEFINE b == bio[req]
            n == seg[req]
            a == sector[req]
            S == a .. (a + b.segs[n] - 1)
<1>1. /\ req # None /\ ~copied /\ copied' /\ RB!Move
      /\ UNCHANGED <<loaded, users, queue, running, req>>
  BY DEF RB!Transfer, RB!None, None
<1>2. req \in queue /\ req \in Procs /\ Queued(req) BY <1>1 DEF RBInv, QueueInv
<1>3. /\ b \in Bios /\ b.rw \in {"READ", "WRITE"} /\ b.sector \in Nat /\ b.len \in Nat
      /\ n \in 1 .. Len(b.segs) /\ b.segs[n] \in Nat \ {0}
      /\ Cut(b)[n] \in Nat /\ Cut(b)[n + 1] = Cut(b)[n] + b.segs[n] /\ Cut(b)[n + 1] <= b.len
      /\ a = b.sector + Cut(b)[n] /\ b.sector + b.len <= RAMBLOCK_SIZE
      /\ buf[req] \in [1 .. b.len -> Values]
  <2>1. /\ a = b.sector + Cut(b)[n] /\ b.sector + b.len <= RAMBLOCK_SIZE /\ buf[req] \in [1 .. b.len -> Values]
    BY <1>2 DEF Queued
  <2>2. Cut(b)[n + 1] \in 0 .. b.len /\ b.len \in Nat BY <1>2, CurrentSegment
  <2>3. Cut(b)[n + 1] <= b.len BY <2>2
  <2>. QED  BY <1>2, <2>1, <2>3, CurrentSegment
<1>4. left[req] = a .. (b.sector + b.len - 1)
  <2>1. Copied(req) = n BY <1>1 DEF Copied
  <2>2. left[req] = (b.sector + Cut(b)[Copied(req)]) .. (b.sector + b.len - 1) BY <1>2 DEF Queued
  <2>. HIDE DEF b, n, a
  <2>. QED  BY <1>3, <2>1, <2>2
<1>5. /\ a \in Nat /\ S # {} /\ S \subseteq left[req] /\ S \subseteq RB!Sectors
      /\ left[req] \ S = (b.sector + Cut(b)[n + 1]) .. (b.sector + b.len - 1)
      /\ \A s \in S : s - b.sector + 1 \in 1 .. b.len
  <2>. DEFINE x == b.sector
              k == Cut(b)[n]
              m == b.segs[n]
              y == b.len
  <2>1. x \in Nat /\ k \in Nat /\ m \in Nat \ {0} /\ y \in Nat /\ k + m <= y /\ x + y <= RAMBLOCK_SIZE
    BY <1>3
  <2>2. a = x + k /\ Cut(b)[n + 1] = k + m BY <1>3
  <2>3. S = a .. (a + m - 1) OBVIOUS
  <2>4. left[req] = a .. (x + y - 1) BY <1>4
  <2>. HIDE DEF x, k, m, y, a, b, n, S
  <2>5. /\ x + k \in Nat
        /\ (x + k) .. (x + k + m - 1) # {}
        /\ (x + k) .. (x + k + m - 1) \subseteq (x + k) .. (x + y - 1)
        /\ (x + k) .. (x + k + m - 1) \subseteq 0 .. (RAMBLOCK_SIZE - 1)
        /\ ((x + k) .. (x + y - 1)) \ ((x + k) .. (x + k + m - 1)) = (x + (k + m)) .. (x + y - 1)
        /\ \A s \in (x + k) .. (x + k + m - 1) : s - x + 1 \in 1 .. y
    BY <2>1, SegmentSectors DEF RBInv
  <2>6. /\ a \in Nat /\ S # {} /\ S \subseteq left[req] /\ S \subseteq RB!Sectors
        /\ left[req] \ S = (x + Cut(b)[n + 1]) .. (x + y - 1)
        /\ \A s \in S : s - x + 1 \in 1 .. y
    BY <2>2, <2>5, <2>3, <2>4 DEF RB!Sectors
  <2>. QED  BY <2>6 DEF x, y
<1>. HIDE DEF S
<1>6. left' = [left EXCEPT ![req] = @ \ S] /\ UNCHANGED <<bio, sector, seg, result>>
  BY <1>1 DEF RB!Move, RB!MoveAt, S
<1>7. ASSUME NEW s \in Int PROVE a - b.sector + 1 + (s - a) = s - b.sector + 1
  <2>1. ASSUME NEW x \in Nat, NEW k \in Nat, NEW t \in Int PROVE k - x + 1 + (t - k) = t - x + 1
    OBVIOUS
  <2>. QED  BY <1>3, <1>5, <2>1
<1>8. ASSUME NEW k \in Int PROVE (k - 1) + b.sector - a + a = k + b.sector - 1
  <2>1. ASSUME NEW x \in Nat, NEW y \in Nat PROVE (k - 1) + x - y + y = k + x - 1
    OBVIOUS
  <2>. QED  BY <1>3, <1>5, <2>1
<1>9. ASSUME b.rw = "READ"
       PROVE  /\ ramblock_buf' = ramblock_buf
              /\ buf' = [buf EXCEPT ![req] = [k \in 1 .. b.len |->
                    IF k + b.sector - 1 \in S THEN ramblock_buf[k + b.sector - 1] ELSE @[k]]]
  <2>1. /\ ramblock_buf' = ramblock_buf
        /\ buf' = [buf EXCEPT ![req] = [k \in DOMAIN buf[req] |->
              IF (k - 1) + b.sector - a + a \in S
              THEN ramblock_buf[(k - 1) + b.sector - a + a] ELSE buf[req][k]]]
    BY <1>1, <1>2, <1>9 DEF RB!Move, RB!MoveAt, S, RBInv, RequestTypes
  <2>2. DOMAIN buf[req] = 1 .. b.len BY <1>3
  <2>3. \A k \in 1 .. b.len : (k - 1) + b.sector - a + a = k + b.sector - 1 BY <1>8
  <2>4. [k \in DOMAIN buf[req] |->
              IF (k - 1) + b.sector - a + a \in S
              THEN ramblock_buf[(k - 1) + b.sector - a + a] ELSE buf[req][k]]
        = [k \in 1 .. b.len |->
              IF k + b.sector - 1 \in S THEN ramblock_buf[k + b.sector - 1] ELSE buf[req][k]]
    BY <2>2, <2>3, Zenon
  <2>. QED  BY <1>2, <2>1, <2>4 DEF RBInv, RequestTypes
<1>10. ASSUME b.rw = "WRITE"
       PROVE  /\ buf' = buf
              /\ ramblock_buf' = [s \in RB!Sectors |->
                    IF s \in S THEN buf[req][s - b.sector + 1] ELSE ramblock_buf[s]]
  <2>1. /\ buf' = buf
        /\ ramblock_buf' = [s \in RB!Sectors |->
              IF s \in S THEN buf[req][a - b.sector + 1 + (s - a)] ELSE ramblock_buf[s]]
    BY <1>1, <1>10 DEF RB!Move, RB!MoveAt, S
  <2>2. \A s \in RB!Sectors : a - b.sector + 1 + (s - a) = s - b.sector + 1
    BY <1>7 DEF RB!Sectors
  <2>. QED  BY <2>1, <2>2
<1>11. RB!D!Transfer(req, S)
  <2>1. UNCHANGED <<loaded, users, bio, result>> /\ S \subseteq left[req] \intersect RB!Sectors
    BY <1>1, <1>5, <1>6
  <2>2. CASE b.rw = "READ"
    <3>1. DOMAIN buf[req] = 1 .. b.len BY <1>3
    <3>. QED  BY <1>2, <1>5, <1>6, <1>9, <2>1, <2>2, <3>1 DEF RB!D!Transfer, RBInv, RequestTypes
  <2>3. CASE b.rw = "WRITE"
    BY <1>5, <1>6, <1>10, <2>1, <2>3 DEF RB!D!Transfer, RB!D!Settle
  <2>. QED  BY <1>3, <2>2, <2>3
<1>12. ramblock_buf' \in [RB!Sectors -> Values] /\ buf'[req] \in [1 .. b.len -> Values]
       /\ \A q \in Procs \ {req} : buf'[q] = buf[q]
  <2>1. ramblock_buf \in [RB!Sectors -> Values] /\ buf \in [Procs -> Seq(Values)]
    BY DEF RBInv, QueueInv, RequestTypes
  <2>2. CASE b.rw = "READ"
    <3>1. buf'[req] = [k \in 1 .. b.len |->
             IF k + b.sector - 1 \in S THEN ramblock_buf[k + b.sector - 1] ELSE buf[req][k]]
      BY <1>2, <1>9, <2>1, <2>2
    <3>2. \A q \in Procs \ {req} : buf'[q] = buf[q] BY <1>2, <1>9, <2>1, <2>2
    <3>3. \A s \in S : ramblock_buf[s] \in Values BY <1>5, <2>1
    <3>4. \A k \in 1 .. b.len : buf[req][k] \in Values BY <1>3
    <3>5. buf'[req] \in [1 .. b.len -> Values] BY <3>1, <3>3, <3>4
    <3>. QED  BY <1>9, <2>1, <2>2, <3>2, <3>5
  <2>3. CASE b.rw = "WRITE"
    <3>1. \A s \in S : buf[req][s - b.sector + 1] \in Values BY <1>3, <1>5
    <3>. QED  BY <1>3, <1>10, <2>1, <2>3, <3>1
  <2>. QED  BY <1>3, <2>2, <2>3
<1>13. RequestTypes'
  <2>1. buf' \in [Procs -> Seq(Values)]
    <3>1. buf'[req] \in Seq(Values)
      <4>1. ASSUME NEW l \in Nat, NEW w \in [1 .. l -> Values] PROVE w \in Seq(Values)
        OBVIOUS
      <4>. QED  BY <1>3, <1>12, <4>1
    <3>2. buf \in [Procs -> Seq(Values)] BY DEF RBInv, RequestTypes
    <3>3. \E w : buf' = [buf EXCEPT ![req] = w]
      <4>1. CASE b.rw = "READ" BY <1>9, <4>1
      <4>2. CASE b.rw = "WRITE"
        <5>1. buf' = [buf EXCEPT ![req] = buf[req]] BY <1>10, <3>2, <4>2
        <5>. QED  BY <5>1
      <4>. QED  BY <1>3, <4>1, <4>2
    <3>. QED  BY <1>2, <3>1, <3>2, <3>3
  <2>2. left' \in [Procs -> SUBSET Nat] BY <1>2, <1>6 DEF RBInv, RequestTypes
  <2>. QED  BY <1>6, <2>1, <2>2 DEF RBInv, RequestTypes
<1>14. QueueInv' BY <1>1, <1>12 DEF RBInv, QueueInv
<1>15. Queued(req)'
  <2>1. Copied(req)' = n + 1 BY <1>1, <1>6 DEF Copied
  <2>2. left'[req] = (b.sector + Cut(b)[n + 1]) .. (b.sector + b.len - 1)
    <3>1. left'[req] = left[req] \ S BY <1>2, <1>6 DEF RBInv, RequestTypes
    <3>. QED  BY <1>5, <3>1
  <2>. QED  BY <1>1, <1>2, <1>6, <1>12, <2>1, <2>2 DEF Queued
<1>16. ASSUME NEW q \in queue, q # req PROVE Queued(q)'
  <2>1. q \in Procs BY DEF RBInv, QueueInv
  <2>2. left'[q] = left[q] /\ buf'[q] = buf[q]
    BY <1>2, <1>6, <1>12, <1>16, <2>1 DEF RBInv, RequestTypes
  <2>. QED  BY <1>1, <1>2, <1>6, <1>16, <2>2, OthersQueued
<1>17. S \in SUBSET RB!Sectors BY <1>5
<1>. QED  BY <1>1, <1>2, <1>11, <1>13, <1>14, <1>15, <1>16, <1>17 DEF RBInv, RB!D!Next

\* Every step keeps the invariant and is one of Disk, or changes nothing that
\* Disk sees.
LEMMA RamblockNext ==
    RBInv /\ [RB!Next]_(RB!vars) => RBInv' /\ [RB!D!Next]_(RB!D!vars)
<1>. SUFFICES ASSUME RBInv, [RB!Next]_(RB!vars)
              PROVE  RBInv' /\ [RB!D!Next]_(RB!D!vars)
  OBVIOUS
<1>1. ASSUME NEW p \in Procs, RB!BeyondEnd(p) \/ \E b \in Bios : RB!Submit(p, b)
      PROVE  RBInv' /\ RB!D!Next
  BY <1>1, RamblockBeyondEnd, RamblockSubmit
<1>2. CASE RB!RequestFunction
  BY <1>2, RamblockIdle, RamblockTransfer, RamblockEndRequest DEF RB!RequestFunction
<1>. QED  BY <1>1, <1>2, RamblockIdle, RamblockModule DEF RB!Next

\* ramblock.c is a disk too, of whatever size: each segment that
\* do_ramblock_request copies goes to its own sectors, however many requests
\* are on the queue, and end_request reports success only when every segment
\* was copied.  It is the safety half of Ramblock's refinement of Disk.
THEOREM RequestQueueIsDisk ==
    RAMBLOCK_SIZE \in Nat /\ RB!Spec => RB!D!Init /\ [][RB!D!Next]_(RB!D!vars)
  BY RamblockInit, RamblockNext, PTL DEF RB!Spec

=============================================================================
