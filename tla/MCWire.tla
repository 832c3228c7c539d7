------------------------------- MODULE MCWire -------------------------------
(***************************************************************************)
(* A small instance of Wire.  The strings and blobs hold the characters    *)
(* that mean something to the parser, and the empty ones are there too.    *)
(***************************************************************************)
EXTENDS Wire

MCAttrs == {"@a"}
MCWords == {"w"}
MCNumbers == {0}
MCFloats == {14}
MCStrings == {<<>>, <<Char("["), Sep, Char("'")>>}
MCBlobs == {<<>>, <<Char("'"), Char("\""), Char("\n")>>}
MCLevels == 0..3

=============================================================================
