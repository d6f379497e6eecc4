------------------------------ MODULE MCRamblock ------------------------------
(***************************************************************************)
(* An instance of Ramblock for TLC: requests of two segments that overlap, *)
(* and one that ends beyond the capacity.                                  *)
(***************************************************************************)
EXTENDS Ramblock

FourBios ==
    {Bio("WRITE", 0, <<1, 2>>, <<1, 2, 1>>),
     Bio("WRITE", 2, <<2>>, <<2, 2>>),
     Bio("READ", 1, <<2, 1>>, <<0, 0, 0>>),
     Bio("READ", 3, <<2>>, <<0, 0>>)}
=============================================================================
