------------------------------- MODULE Routing -------------------------------
(***************************************************************************)
(* The hub's routing table (hub/routing.c).  Routes form a tree: a route   *)
(* is named by the path of words that leads to it from the root.  A member *)
(* that registers for a route is entered in the route's heap of members,   *)
(* and the route in the member's heap of routes.  The two heaps are bags:  *)
(* a member may register for the same route several times.                 *)
(*                                                                         *)
(* A message, or the structure a member registers for, is a Node.  Only    *)
(* its root word and the words among its children route it, the children   *)
(* of every other kind (numbers, strings, attributes) are skipped.         *)
(***************************************************************************)
EXTENDS Integers, FiniteSets, Sequences

CONSTANTS
  Members,   \* the members that may log in
  Nodes,     \* the structures they register for: [root: word, child: Seq]
  Skipped,   \* a child that is not a word
  Internal,  \* the Nodes of the hub's own commands (registrations[])
  MaxPath,   \* ROUTE_MAX_PATH
  MaxTimes,  \* bound: how often a member registers for one route
  NULL

ASSUME MaxPathAssumption == MaxPath \in Nat \ {0}
ASSUME InternalAssumption == Internal \subseteq Nodes
ASSUME NodesAssumption ==
  \A a \in Nodes : a.child \in Seq({a.child[k] : k \in DOMAIN a.child})

VARIABLES
  routes,    \* the paths that have a Route
  callback,  \* the paths with is_internal_callback set
  members,   \* members[r][m]: how often r->members holds m
  regs,      \* regs[m][r]: how often m->routes holds r
  alive      \* the members that are logged in

vars == <<routes, callback, members, regs, alive>>

-----------------------------------------------------------------------------
(***************************************************************************)
(* Route_extend_and_find collects the root and the words in path[], and    *)
(* gives up when a further child comes and path[] is full.  Route_add      *)
(* creates the missing routes on the way.                                  *)
(***************************************************************************)
Words(s) ==
  LET path[k \in 0 .. Len(s)] ==
        IF k = 0 THEN << >>
        ELSE IF s[k] = Skipped THEN path[k-1]
        ELSE Append(path[k-1], s[k])
  IN  path[Len(s)]

Path(a) == <<a.root>> \o Words(a.child)

\* The routes from the root's child down to p.
Prefixes(p) == {p} \cup {SubSeq(p, 1, k) : k \in 1 .. Len(p)-1}

PathFits(a) ==
  \A k \in DOMAIN a.child : 1 + Len(Words(SubSeq(a.child, 1, k-1))) < MaxPath

(***************************************************************************)
(* The two families of heaps once the routes on the way to p exist: a      *)
(* fresh route has no members and is in nobody's heap of routes.           *)
(***************************************************************************)
WithRoute(p) ==
  [r \in routes \cup Prefixes(p) |->
     IF r \in routes THEN members[r] ELSE [m \in Members |-> 0]]

RegsWithRoute(p) ==
  [m \in Members |-> [r \in routes \cup Prefixes(p) |->
     IF r \in routes THEN regs[m][r] ELSE 0]]

(***************************************************************************)
(* Route_find walks down from the root.  It counts every child on the way, *)
(* the skipped ones too.                                                   *)
(***************************************************************************)
Route_find(a) ==
  IF Prefixes(Path(a)) \subseteq routes /\ Len(a.child) <= MaxPath
  THEN Path(a) ELSE NULL

\* A delete that does not look whether the element was found.
Heap_delete_Unchecked(n) == n - 1

\* Heap_delete removes one occurrence, if there is one.
Heap_delete(n) == IF n > 0 THEN n - 1 ELSE 0

-----------------------------------------------------------------------------
\* Hub_commands_register runs Route_register_callback before anybody logs in.
Hub_commands_register ==
  /\ routes = UNION {Prefixes(Path(a)) : a \in Internal}
  /\ callback = {Path(a) : a \in Internal}

Init ==
  /\ Hub_commands_register
  /\ members = [r \in routes |-> [m \in Members |-> 0]]
  /\ regs = [m \in Members |-> [r \in routes |-> 0]]
  /\ alive = {}

\* Member_login: Member_create makes an empty heap of routes.
Member_login(m) ==
  /\ m \notin alive
  /\ alive' = alive \cup {m}
  /\ regs' = [regs EXCEPT ![m] = [r \in routes |-> 0]]
  /\ UNCHANGED <<routes, callback, members>>

(***************************************************************************)
(* Route_register.  A path that does not fit changes nothing.  Otherwise   *)
(* the routes on the way are created first, and only then Route_add_member *)
(* refuses a route that is internal.                                       *)
(***************************************************************************)
Route_register(a, m) ==
  LET p == Path(a) IN
  /\ m \in alive
  /\ PathFits(a)
  /\ p \in routes => regs[m][p] < MaxTimes
  /\ routes' = routes \cup Prefixes(p)
  /\ IF p \in callback
     THEN /\ members' = WithRoute(p)
          /\ regs' = RegsWithRoute(p)
     ELSE /\ members' = [WithRoute(p) EXCEPT ![p][m] = @ + 1]
          /\ regs' = [RegsWithRoute(p) EXCEPT ![m][p] = @ + 1]
  /\ UNCHANGED <<callback, alive>>

\* Forgetting the member's own heap.
Route_unregister_OneSided(a, m) ==
  LET r == Route_find(a) IN
  /\ m \in alive /\ r # NULL
  /\ members' = [members EXCEPT ![r][m] = Heap_delete(@)]
  /\ UNCHANGED <<routes, callback, regs, alive>>

\* Route_unregister.
Route_unregister(a, m) ==
  LET r == Route_find(a) IN
  /\ m \in alive
  /\ r # NULL
  /\ members' = [members EXCEPT ![r][m] = Heap_delete(@)]
  /\ regs' = [regs EXCEPT ![m][r] = Heap_delete(@)]
  /\ UNCHANGED <<routes, callback, alive>>

\* Deleting a member that registered twice only once.
Remaining_Once(r, m) ==
  IF regs[m][r] > 0 THEN Heap_delete(members[r][m]) ELSE members[r][m]

\* What HEAP_ITERATE leaves of r->members when it deletes m once for every
\* occurrence of r in m->routes.
Remaining(r, m) ==
  IF members[r][m] > regs[m][r] THEN members[r][m] - regs[m][r] ELSE 0

\* Route_unregister_all, which Member_logout calls before it frees the member.
Route_unregister_all(m) ==
  /\ members' = [r \in routes |-> [members[r] EXCEPT ![m] = Remaining(r, m)]]
  /\ regs' = [regs EXCEPT ![m] = [r \in routes |-> 0]]

\* Dropping the routes nobody needs any more.
Member_logout_Prunes(m) ==
  LET used == callback \cup {r \in routes : \E n \in Members \ {m} : regs[n][r] > 0}
      kept == UNION {Prefixes(r) : r \in used}
  IN
  /\ m \in alive
  /\ routes' = kept
  /\ members' = [r \in kept |-> [members[r] EXCEPT ![m] = 0]]
  /\ regs' = [n \in Members |-> [r \in kept |-> IF n = m THEN 0 ELSE regs[n][r]]]
  /\ alive' = alive \ {m}
  /\ UNCHANGED callback

Member_logout(m) ==
  /\ m \in alive
  /\ Route_unregister_all(m)
  /\ alive' = alive \ {m}
  /\ UNCHANGED <<routes, callback>>

Next ==
  \E m \in Members :
     \/ Member_login(m)
     \/ \E a \in Nodes : Route_register(a, m) \/ Route_unregister(a, m)
     \/ Member_logout(m)

Spec == Init /\ [][Next]_vars

-----------------------------------------------------------------------------
(***************************************************************************)
(* The two heaps count registrations, and every route has its heap.        *)
(***************************************************************************)
TypeOK ==
  /\ members \in [routes -> [Members -> Nat]]
  /\ regs \in [Members -> [routes -> Nat]]
  /\ callback \subseteq routes
  /\ alive \subseteq Members

(***************************************************************************)
(* A route holds a member exactly as often as the member holds the route.  *)
(* Route_unregister_all relies on it: it visits only the routes in the     *)
(* member's own heap.                                                      *)
(***************************************************************************)
Mutual == \A r \in routes, m \in Members : members[r][m] = regs[m][r]

(***************************************************************************)
(* No route keeps a pointer to a member that has logged out: Member_logout *)
(* frees the member, and Route_deliver would queue messages in freed       *)
(* memory.                                                                 *)
(***************************************************************************)
NoGhosts == \A r \in routes, m \in Members \ alive : members[r][m] = 0

(***************************************************************************)
(* "remember, routes don't go away, just the members diminish"             *)
(* (tests/test_routing.c): no operation removes a route, and one member's  *)
(* step never changes how another one is registered.                       *)
(***************************************************************************)
RoutesStay ==
  [][/\ routes \subseteq routes'
     /\ \E m \in Members : \A n \in Members \ {m}, r \in routes :
           members'[r][n] = members[r][n] /\ regs'[n][r] = regs[n][r]]_vars

(***************************************************************************)
(* A structure for which a member may register can be found again, as      *)
(* tests/test_routing.c expects of each of its examples.                   *)
(***************************************************************************)
FoundAgain ==
  \A a \in Nodes :
    PathFits(a) /\ Path(a) \in routes => Route_find(a) = Path(a)
=============================================================================
