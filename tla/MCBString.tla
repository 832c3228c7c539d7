----------------------------- MODULE MCBString -----------------------------
(***************************************************************************)
(* BString with sizes scaled down (2 for 8, 2 for 16, 4 for 1024) so that  *)
(* buffers of a few cells fill up and move.                                *)
(***************************************************************************)
EXTENDS BString

Symmetry == Permutations(Names)

MCTexts     == {<<>>, <<"a">>, <<" ", "b", " ">>, <<"a", "b", "a", "b">>}
MCPositions == {-1, 0, 1, 3}
MCLengths   == {-1, 0, 1, 4}
=============================================================================
