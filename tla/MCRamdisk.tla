------------------------------ MODULE MCRamdisk ------------------------------
(***************************************************************************)
(* An instance of Ramdisk for TLC: two pages of two sectors, the last      *)
(* sector of the second one beyond the capacity.                           *)
(***************************************************************************)
EXTENDS Ramdisk

\* A write across the page boundary in one segment, a read of the same
\* sectors in two, and a read that ends beyond the capacity.
ThreeBios ==
    {Bio("WRITE", 1, <<2>>, <<1, 1>>),
     Bio("READ", 1, <<1, 1>>, <<0, 0>>),
     Bio("READ", 2, <<2>>, <<0, 0>>)}
=============================================================================
