------------------------------- MODULE MCHeap -------------------------------
(***************************************************************************)
(* A heap of two cells at first, with an int of four bits: three addresses *)
(* that are as far apart as an int can tell.                               *)
(***************************************************************************)
EXTENDS Heap

MCAddrs == {1, 4, 8}

=============================================================================
