-------------------------------- MODULE MCHub --------------------------------
(***************************************************************************)
(* Model checking of Hub.  MCHub_quiet is a network in which sends may    *)
(* fail but do not block, clients send well-formed messages and nobody     *)
(* connects while a connection closes; MCHub_calm has one connection more; *)
(* MCHub_rough lets clients and sockets do anything.  The other            *)
(* configurations each look at one sentence of the hub's documentation.    *)
(***************************************************************************)
EXTENDS Hub
=============================================================================
