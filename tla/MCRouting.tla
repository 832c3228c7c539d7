------------------------------ MODULE MCRouting ------------------------------
(***************************************************************************)
(* Model checking of Routing with paths of at most three words.            *)
(***************************************************************************)
EXTENDS Routing

Node(root, child) == [root |-> root, child |-> child]

\* The command route/register.
MCInternal == {Node("route", <<"register">>)}

(***************************************************************************)
(* A route above the internal one and one below it, a path with skipped    *)
(* children among the words, one as long as possible and one too long.     *)
(***************************************************************************)
MCNodes ==
  MCInternal \cup
  { Node("route", << >>),
    Node("route", <<"register", "chat">>),
    Node("chat", <<Skipped, "to", Skipped>>),
    Node("chat", <<"to", "about", "from">>) }

\* More skipped children than Route_find counts.
MCManyAttributes == MCNodes \cup {Node("chat", <<"to", Skipped, Skipped, Skipped>>)}
=============================================================================
