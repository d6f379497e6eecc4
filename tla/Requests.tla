-------------------------------- MODULE Requests --------------------------------
(***************************************************************************)
(* The requests of the block layer, as the RAM disks see them: struct bio  *)
(* of rd_make_request in src/ex_source/ramdisk_ym.c, and struct request of *)
(* do_ramblock_request in src/Drivers/13.ramblock/ramblock.c.              *)
(***************************************************************************)
EXTENDS Integers, Sequences

CONSTANTS
    Bios,       \* the requests: [rw, sector, len, segs, data]
    Values      \* the contents a sector can have, 0 among them

ASSUME ValuesAssumption == Values \subseteq Nat /\ 0 \in Values

\* A transfer of data from or to the sectors that begin with first; segs has
\* the number of sectors in each segment of its memory.
Bio(rw, first, segs, data) ==
    [rw |-> rw, sector |-> first, len |-> Len(data), segs |-> segs, data |-> data]
NoBio == [rw |-> "NONE", sector |-> 0, len |-> 0, segs |-> <<>>, data |-> <<>>]
Covered(b) == b.sector .. (b.sector + b.len - 1)

\* The sectors of a request before each of its segments, and all of them.
Cuts(b) ==
    {f \in [1 .. (Len(b.segs) + 1) -> 0 .. b.len] :
        /\ f[1] = 0
        /\ f[Len(b.segs) + 1] = b.len
        /\ \A k \in 1 .. Len(b.segs) : f[k + 1] = f[k] + b.segs[k]}

\* What the loops over the segments rely on: no segment is empty, and together
\* they are the request.
ASSUME BiosAssumption ==
    \A b \in Bios :
        /\ b.rw \in {"READ", "WRITE"}
        /\ b.sector \in Nat
        /\ b.len \in Nat
        /\ b.segs \in Seq(Nat \ {0})
        /\ b.segs # <<>>
        /\ b.data \in [1 .. b.len -> Values]
        /\ Cuts(b) # {}

=============================================================================
