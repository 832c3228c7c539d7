------------------------------ MODULE MCRelay ------------------------------
(***************************************************************************)
(* Relay with frames of one and two cells, sockets of two, and enough    *)
(* frames both ways to fill every socket and both hands of the loop.       *)
(***************************************************************************)
EXTENDS Relay
=============================================================================
