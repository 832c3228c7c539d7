--------------------------- MODULE Routing_proofs ---------------------------
(***************************************************************************)
(* Proofs about Routing, for every set of members and of structures, every *)
(* path limit and any number of repeated registrations.                    *)
(***************************************************************************)
EXTENDS Routing, NaturalsInduction, WellFoundedInduction, SequenceTheorems, TLAPS

-----------------------------------------------------------------------------
(***************************************************************************)
(* Induction over the natural numbers in the form of a statement about     *)
(* sets, so that a set of numbers can stand for the predicate to prove,    *)
(* and what it gives for functions defined by recursion on a number: they  *)
(* exist, and they have the values their definition says.                  *)
(***************************************************************************)

(***************************************************************************)
(* A set with 0 in it that is closed under successor holds every number.   *)
(* The least number outside it would have a predecessor inside.            *)
(***************************************************************************)
LEMMA SetInduction ==
  ASSUME NEW S, 0 \in S, \A n \in Nat : n \in S => n + 1 \in S
  PROVE  Nat \subseteq S
<1> DEFINE T == Nat \ S
           R == OpToRel(<, Nat)
<1>1. IsWellFoundedOn(R, Nat)
  BY NatLessThanWellFounded, Zenon
<1>2. R = {x \in Nat \X Nat : x[1] < x[2]}
  BY Zenon DEF OpToRel
<1>3. T \subseteq Nat
  BY Zenon
<1> HIDE DEF R, T
<1> SUFFICES ASSUME T # {} PROVE FALSE
  BY Zenon DEF T
<1>4. PICK x \in T : \A y \in T : <<y, x>> \notin R
  BY <1>1, <1>3, WFMin, Zenon
<1>5. x \in Nat /\ x # 0
  BY Zenon DEF T
<1>6. x - 1 \in Nat /\ x - 1 < x /\ (x - 1) + 1 = x
  BY <1>5
<1>7. <<x - 1, x>> \in R
  BY <1>2, <1>5, <1>6, Zenon
<1>8. x - 1 \in S
  BY <1>4, <1>6, <1>7, Zenon DEF T
<1> QED
  BY <1>4, <1>6, <1>8, Zenon DEF T

(***************************************************************************)
(* The same up to a bound.                                                 *)
(***************************************************************************)
LEMMA BoundedInduction ==
  ASSUME NEW n \in Nat, NEW S, 0 \in S,
         \A k \in 1 .. n : k - 1 \in S => k \in S
  PROVE  0 .. n \subseteq S
<1> DEFINE T == {k \in Nat : k <= n => k \in S}
<1>1. 0 \in T
  BY Zenon
<1>2. ASSUME NEW k \in Nat, k \in T PROVE k + 1 \in T
  <2>1. CASE k + 1 <= n
    <3>1. k + 1 \in 1 .. n /\ (k + 1) - 1 = k /\ k <= n
      BY <2>1
    <3> QED
      BY <1>2, <3>1
  <2>2. CASE ~ (k + 1 <= n)
    BY <2>2
  <2> QED
    BY <2>1, <2>2, Zenon
<1> HIDE DEF T
<1>3. Nat \subseteq T
  BY <1>1, <1>2, SetInduction, Zenon
<1> QED
  BY <1>3 DEF T

(***************************************************************************)
(* f[k] is what k steps on values of V make of v.                          *)
(***************************************************************************)
Iterates(f, n, V, v, step) ==
  /\ f \in [0 .. n -> V]
  /\ f[0] = v
  /\ \A k \in 1 .. n : f[k] = step[k][f[k-1]]

(***************************************************************************)
(* There is such a function.                                               *)
(***************************************************************************)
LEMMA IterationExists ==
  ASSUME NEW n \in Nat, NEW V, NEW v \in V, NEW step \in [1 .. n -> [V -> V]]
  PROVE  \E f : Iterates(f, n, V, v, step)
<1> DEFINE Good(m, f) == Iterates(f, m, V, v, step)
           S == {m \in 0 .. n : \E f : Good(m, f)}
<1>1. 0 \in S
  <2> DEFINE f0 == [k \in 0 .. 0 |-> v]
  <2>1. Good(0, f0)
    BY DEF Iterates
  <2> HIDE DEF Good, f0
  <2> QED
    BY <2>1
<1>2. ASSUME NEW k \in 1 .. n, k - 1 \in S PROVE k \in S
  <2>1. PICK f : Good(k - 1, f)
    BY <1>2, Zenon
  <2> DEFINE g == [j \in 0 .. k |-> IF j = k THEN step[k][f[k-1]] ELSE f[j]]
  <2>2. k - 1 \in 0 .. k - 1 /\ k - 1 \in Nat
    OBVIOUS
  <2>3. step[k][f[k-1]] \in V
    BY <2>1, <2>2, Zenon DEF Iterates
  <2>4. \A j \in 0 .. k : j # k => j \in 0 .. k - 1
    OBVIOUS
  <2>5. g \in [0 .. k -> V]
    BY <2>1, <2>3, <2>4, Zenon DEF Iterates
  <2>6. g[0] = v
    BY <2>1 DEF Iterates
  <2>7. ASSUME NEW j \in 1 .. k PROVE g[j] = step[j][g[j-1]]
    <3>1. j - 1 \in 0 .. k /\ j - 1 # k /\ j \in 0 .. k
      OBVIOUS
    <3>2. g[j-1] = f[j-1]
      BY <3>1, Zenon
    <3>3. CASE j = k
      BY <3>1, <3>2, <3>3, Zenon
    <3>4. CASE j # k
      <4>1. j \in 1 .. k - 1
        BY <3>4
      <4>2. g[j] = f[j]
        BY <3>1, <3>4, Zenon
      <4> QED
        BY <2>1, <3>2, <4>1, <4>2, Zenon DEF Iterates
    <3> QED
      BY <3>3, <3>4, Zenon
  <2>8. Good(k, g)
    BY <2>5, <2>6, <2>7, Zenon DEF Iterates
  <2> HIDE DEF Good, g
  <2> QED
    BY <2>8
<1> HIDE DEF S
<1>3. 0 .. n \subseteq S
  BY <1>1, <1>2, BoundedInduction, Zenon
<1>4. PICK f : Good(n, f)
  BY <1>3 DEF S
<1> QED
  BY <1>4, Zenon

-----------------------------------------------------------------------------
(***************************************************************************)
(* What Route_extend_and_find collects.  Words is a recursion over the     *)
(* children; the first lemmas give its values and its type.                *)
(***************************************************************************)
WordsBody(s, f) ==
  [k \in 0 .. Len(s) |-> IF k = 0 THEN << >>
                         ELSE IF s[k] = Skipped THEN f[k-1]
                         ELSE Append(f[k-1], s[k])]

WordsFcn(s) == CHOOSE f : f = WordsBody(s, f)

(***************************************************************************)
(* The loop over the children of s has a result, which is Words(s).        *)
(***************************************************************************)
LEMMA WordsFcnDef ==
  ASSUME NEW S, NEW s \in Seq(S)
  PROVE  /\ Words(s) = WordsFcn(s)[Len(s)]
         /\ WordsFcn(s)[0] = << >>
         /\ \A k \in 1 .. Len(s) :
              WordsFcn(s)[k] = IF s[k] = Skipped THEN WordsFcn(s)[k-1]
                               ELSE Append(WordsFcn(s)[k-1], s[k])
<1> DEFINE n == Len(s)
           V == Seq(S)
           step == [k \in 1 .. n |-> [w \in Seq(S) |->
                      IF s[k] = Skipped THEN w ELSE Append(w, s[k])]]
<1>1. n \in Nat
  OBVIOUS
<1>2. \A k \in 1 .. n : s[k] \in S
  OBVIOUS
<1>3. step \in [1 .. n -> [V -> V]]
  BY <1>2
<1>4. << >> \in V
  OBVIOUS
<1> HIDE DEF step
<1>5. PICK f : Iterates(f, n, V, << >>, step)
  BY <1>1, <1>3, <1>4, IterationExists, Zenon
<1>6. f = WordsBody(s, f)
  <2>1. ASSUME NEW k \in 0 .. n, k # 0
        PROVE  step[k][f[k-1]] = IF s[k] = Skipped THEN f[k-1]
                                 ELSE Append(f[k-1], s[k])
    <3>1. k \in 1 .. n /\ k - 1 \in 0 .. n
      BY <1>1, <2>1
    <3>2. f[k-1] \in Seq(S)
      BY <1>5, <3>1, Zenon DEF Iterates
    <3> QED
      BY <3>1, <3>2, Zenon DEF step
  <2>2. \A k \in 0 .. n : k # 0 => k \in 1 .. n
    OBVIOUS
  <2>3. \A k \in 0 .. n :
          f[k] = IF k = 0 THEN << >> ELSE IF s[k] = Skipped THEN f[k-1]
                 ELSE Append(f[k-1], s[k])
    BY <1>5, <2>1, <2>2, Zenon DEF Iterates
  <2> QED
    BY <1>5, <2>3, Zenon DEF Iterates, WordsBody
<1>7. WordsFcn(s) = WordsBody(s, WordsFcn(s))
  BY <1>6, Zenon DEF WordsFcn
<1>8. Words(s) = WordsFcn(s)[Len(s)]
  BY Zenon DEF Words, WordsFcn, WordsBody
<1>9. \A g, k : k \in 0 .. n =>
        WordsBody(s, g)[k] = IF k = 0 THEN << >>
                             ELSE IF s[k] = Skipped THEN g[k-1]
                             ELSE Append(g[k-1], s[k])
  BY Zenon DEF WordsBody
<1>10. 0 \in 0 .. n /\ \A k \in 1 .. n : k \in 0 .. n /\ k # 0
  BY <1>1
<1> HIDE DEF n
<1> QED
  BY <1>7, <1>8, <1>9, <1>10, Zenon DEF n

(***************************************************************************)
(* After each child the words so far are a sequence.                       *)
(***************************************************************************)
LEMMA WordsFcnType ==
  ASSUME NEW S, NEW s \in Seq(S)
  PROVE  \A k \in 0 .. Len(s) : WordsFcn(s)[k] \in Seq(S)
<1> DEFINE f == WordsFcn(s)
           n == Len(s)
           T == {k \in 0 .. n : f[k] \in Seq(S)}
<1>1. /\ f[0] = << >>
      /\ \A k \in 1 .. n : f[k] = IF s[k] = Skipped THEN f[k-1]
                                   ELSE Append(f[k-1], s[k])
  BY WordsFcnDef, Zenon
<1> HIDE DEF f
<1>2. n \in Nat
  OBVIOUS
<1>3. << >> \in Seq(S)
  OBVIOUS
<1>4. 0 \in T
  <2>1. f[0] \in Seq(S)
    BY <1>1, <1>3, Zenon
  <2>2. 0 \in 0 .. n
    BY <1>2
  <2> QED
    BY <2>1, <2>2, Zenon
<1>5. ASSUME NEW k \in 1 .. n, k - 1 \in T PROVE k \in T
  <2>1. s[k] \in S /\ f[k-1] \in Seq(S)
    BY <1>5
  <2>2. f[k] = IF s[k] = Skipped THEN f[k-1] ELSE Append(f[k-1], s[k])
    BY <1>1, Zenon
  <2>3. Append(f[k-1], s[k]) \in Seq(S)
    BY <2>1
  <2>4. f[k] \in Seq(S)
    BY <2>1, <2>2, <2>3, Zenon
  <2> QED
    BY <1>2, <2>4
<1>6. 0 .. n \subseteq T
  <2> HIDE DEF T, n
  <2> QED
    BY <1>2, <1>4, <1>5, BoundedInduction, Zenon
<1> QED
  BY <1>6, Zenon DEF f

(***************************************************************************)
(* One more child adds at most one word.                                   *)
(***************************************************************************)
LEMMA WordsOfFront ==
  ASSUME NEW S, NEW s \in Seq(S), s # << >>
  PROVE  LET front == Words(SubSeq(s, 1, Len(s) - 1))
         IN  /\ front \in Seq(S)
             /\ Words(s) \in Seq(S)
             /\ Len(Words(s)) <= Len(front) + 1
<1> DEFINE n == Len(s)
           t == SubSeq(s, 1, n - 1)
           f == WordsFcn(s)
           g == WordsFcn(t)
           T == {k \in 0 .. n - 1 : f[k] = g[k]}
<1>1. n \in Nat \ {0}
  OBVIOUS
<1>2. /\ t \in Seq(S) /\ Len(t) = n - 1
      /\ \A k \in 1 .. n - 1 : t[k] = s[k]
  <2>1. 1 \in Int /\ n - 1 \in Int /\ \A k \in 1 .. n - 1 : s[k] \in S
    BY <1>1
  <2>2. \A k \in 1 .. n - 1 : 1 + k - 1 = k /\ k \in 1 .. (n - 1) - 1 + 1
    BY <1>1
  <2> HIDE DEF n
  <2>3. (IF 1 <= n - 1 THEN (n - 1) - 1 + 1 ELSE 0) = n - 1
    BY <1>1
  <2> QED
    BY <2>1, <2>2, <2>3, SubSeqProperties
<1>3. /\ Words(s) = f[n] /\ f[0] = << >>
      /\ \A k \in 1 .. n : f[k] = IF s[k] = Skipped THEN f[k-1]
                                   ELSE Append(f[k-1], s[k])
  BY WordsFcnDef, Zenon
<1>4. /\ Words(t) = g[n-1] /\ g[0] = << >>
      /\ \A k \in 1 .. n - 1 : g[k] = IF t[k] = Skipped THEN g[k-1]
                                       ELSE Append(g[k-1], t[k])
  <2> HIDE DEF t, n
  <2> QED
    BY <1>2, WordsFcnDef, Zenon
<1>5. /\ \A k \in 0 .. n : f[k] \in Seq(S)
      /\ \A k \in 0 .. n - 1 : g[k] \in Seq(S)
  BY <1>2, WordsFcnType, Zenon
<1> HIDE DEF f, g, t, n
<1>6. n - 1 \in Nat
  BY <1>1
<1>7. 0 \in T
  BY <1>3, <1>4, <1>6
<1>8. ASSUME NEW k \in 1 .. n - 1, k - 1 \in T PROVE k \in T
  <2>1. k \in 1 .. n /\ k \in 0 .. n - 1
    BY <1>1
  <2>2. t[k] = s[k] /\ f[k-1] = g[k-1]
    BY <1>2, <1>8, Zenon
  <2>3. f[k] = g[k]
    BY <1>3, <1>4, <2>1, <2>2, Zenon
  <2> QED
    BY <2>1, <2>3, Zenon
<1>9. 0 .. n - 1 \subseteq T
  <2> HIDE DEF T
  <2> QED
    BY <1>6, <1>7, <1>8, BoundedInduction, Zenon
<1>10. f[n-1] = g[n-1] /\ f[n-1] \in Seq(S)
  BY <1>1, <1>5, <1>6, <1>9
<1>11. n \in 1 .. n /\ s[n] \in S
  BY <1>1 DEF n
<1>12. f[n] = IF s[n] = Skipped THEN f[n-1] ELSE Append(f[n-1], s[n])
  BY <1>3, <1>11, Zenon
<1>13. f[n] \in Seq(S) /\ Len(f[n]) <= Len(g[n-1]) + 1
  BY <1>10, <1>11, <1>12
<1> QED
  BY <1>3, <1>4, <1>10, <1>13, Zenon DEF t, n

(***************************************************************************)
(* The words and other children of a structure.                            *)
(***************************************************************************)
Vocabulary(a) == {a.root} \cup {a.child[k] : k \in DOMAIN a.child}

(***************************************************************************)
(* Its children and the path that Route_extend_and_find collects are       *)
(* sequences of them.                                                      *)
(***************************************************************************)
LEMMA ChildType == ASSUME NEW a \in Nodes PROVE a.child \in Seq(Vocabulary(a))
<1> DEFINE C == {a.child[k] : k \in DOMAIN a.child}
<1>1. a.child \in Seq(C)
  BY NodesAssumption, Zenon
<1>2. C \subseteq Vocabulary(a)
  BY Zenon DEF Vocabulary
<1> HIDE DEF C
<1> QED
  BY <1>1, <1>2, SeqMonotonic, Zenon

(***************************************************************************)
(* The path has the root and one element for each word.                    *)
(***************************************************************************)
LEMMA PathType ==
  ASSUME NEW a \in Nodes
  PROVE  Path(a) \in Seq(Vocabulary(a)) /\ Len(Path(a)) = 1 + Len(Words(a.child))
<1> DEFINE S == Vocabulary(a)
           s == a.child
<1>1. s \in Seq(S)
  BY ChildType, Zenon
<1>2. a.root \in S
  BY Zenon DEF Vocabulary
<1> HIDE DEF S, s
<1>3. Words(s) \in Seq(S)
  <2>1. Len(s) \in 0 .. Len(s)
    BY <1>1
  <2> QED
    BY <1>1, <2>1, WordsFcnDef, WordsFcnType, Zenon
<1> QED
  BY <1>2, <1>3 DEF Path, S, s

(***************************************************************************)
(* If the checks of Route_extend_and_find let a structure through, the     *)
(* array path[ROUTE_MAX_PATH] has room for its words, although the code    *)
(* compares their number with the limit only when another child comes, and *)
(* not after it stored the last one.                                       *)
(***************************************************************************)
THEOREM PathStaysInArray ==
  ASSUME NEW a \in Nodes, PathFits(a)
  PROVE  Len(Path(a)) <= MaxPath
<1> DEFINE S == Vocabulary(a)
           s == a.child
           n == Len(s)
<1>1. s \in Seq(S)
  BY ChildType, Zenon
<1>2. Len(Path(a)) = 1 + Len(Words(s))
  BY PathType, Zenon
<1>3. \A k \in DOMAIN s : 1 + Len(Words(SubSeq(s, 1, k-1))) < MaxPath
  BY Zenon DEF PathFits
<1> HIDE DEF S, s
<1>4. CASE s = << >>
  <2>1. Len(s) = 0
    BY <1>4, Zenon
  <2>2. Words(s) = << >>
    BY <1>1, <2>1, WordsFcnDef, Zenon
  <2>3. Len(Words(s)) = 0
    BY <2>2
  <2> QED
    BY <1>2, <2>3, MaxPathAssumption
<1>5. CASE s # << >>
  <2>1. n \in DOMAIN s
    BY <1>1, <1>5
  <2> DEFINE front == Words(SubSeq(s, 1, n - 1))
  <2>2. front \in Seq(S) /\ Words(s) \in Seq(S) /\ Len(Words(s)) <= Len(front) + 1
    BY <1>1, <1>5, WordsOfFront, Zenon
  <2>3. 1 + Len(front) < MaxPath
    BY <1>3, <2>1, Zenon
  <2> HIDE DEF front
  <2>4. Len(front) \in Nat /\ Len(Words(s)) \in Nat
    BY <2>2
  <2> QED
    BY <1>2, <2>2, <2>3, <2>4, MaxPathAssumption
<1> QED
  BY <1>4, <1>5, Zenon

(***************************************************************************)
(* NoGhosts is not inductive alone: that logging out leaves nothing behind *)
(* follows from Mutual, since only the routes in the member's own heap are *)
(* visited.  In turn Mutual survives a login, which starts with an empty   *)
(* heap of routes, because of NoGhosts.                                    *)
(***************************************************************************)
IInv == TypeOK /\ Mutual /\ NoGhosts

(***************************************************************************)
(* The table Hub_commands_register builds is consistent.                   *)
(***************************************************************************)
LEMMA InitInv == Init => IInv
<1> SUFFICES ASSUME Init PROVE IInv
  BY Zenon
<1>1. callback \subseteq routes
  BY DEF Init, Hub_commands_register, Prefixes
<1>2. TypeOK
  BY <1>1, Zenon DEF Init, TypeOK
<1>3. Mutual /\ NoGhosts
  BY Zenon DEF Init, Mutual, NoGhosts
<1> QED
  BY <1>2, <1>3, Zenon DEF IInv

(***************************************************************************)
(* The heaps of Member_login's fresh member agree with the routes.         *)
(***************************************************************************)
LEMMA LoginInv ==
  ASSUME IInv, NEW m \in Members, Member_login(m) PROVE IInv'
<1> USE DEF IInv
<1>1. TypeOK'
  BY Zenon DEF TypeOK, Member_login
<1>2. Mutual'
  <2> SUFFICES ASSUME NEW r \in routes, NEW n \in Members
               PROVE members[r][n] = regs'[n][r]
    BY Zenon DEF Mutual, Member_login
  <2>1. CASE n = m
    BY <2>1, Zenon DEF Member_login, NoGhosts, TypeOK
  <2>2. CASE n # m
    BY <2>2, Zenon DEF Member_login, Mutual, TypeOK
  <2> QED
    BY <2>1, <2>2, Zenon
<1>3. NoGhosts'
  BY Zenon DEF NoGhosts, Member_login
<1> QED
  BY <1>1, <1>2, <1>3, Zenon

(***************************************************************************)
(* Route_register adds to both heaps, or to none when the route is         *)
(* internal; routes it creates on the way are empty.                       *)
(***************************************************************************)
LEMMA RegisterInv ==
  ASSUME IInv, NEW a \in Nodes, NEW m \in Members, Route_register(a, m)
  PROVE  IInv'
<1> DEFINE p == Path(a)
<1> DEFINE new == routes \cup Prefixes(p)
<1> HIDE DEF p
<1> USE DEF IInv
<1>0. /\ m \in alive
      /\ routes' = new
      /\ p \in new
      /\ callback' = callback
      /\ alive' = alive
  BY Zenon DEF Route_register, Prefixes, p
<1>1. /\ WithRoute(p) \in [new -> [Members -> Nat]]
      /\ RegsWithRoute(p) \in [Members -> [new -> Nat]]
      /\ \A r \in new, n \in Members : WithRoute(p)[r][n] = RegsWithRoute(p)[n][r]
      /\ \A r \in routes, n \in Members : WithRoute(p)[r][n] = members[r][n]
      /\ \A r \in new \ routes, n \in Members : WithRoute(p)[r][n] = 0
  BY DEF WithRoute, RegsWithRoute, TypeOK, Mutual
<1>2. CASE p \in callback
  <2>1. members' = WithRoute(p) /\ regs' = RegsWithRoute(p)
    BY <1>2, Zenon DEF Route_register, p
  <2> QED
    BY <1>0, <1>1, <2>1 DEF TypeOK, Mutual, NoGhosts
<1>3. CASE p \notin callback
  <2>1. /\ members' = [WithRoute(p) EXCEPT ![p][m] = @ + 1]
        /\ regs' = [RegsWithRoute(p) EXCEPT ![m][p] = @ + 1]
    BY <1>3, Zenon DEF Route_register, p
  <2> HIDE DEF new
  <2>2. /\ members' \in [new -> [Members -> Nat]]
        /\ regs' \in [Members -> [new -> Nat]]
    BY <1>0, <1>1, <2>1
  <2>3. \A r \in new, n \in Members :
          ~ (r = p /\ n = m) => /\ members'[r][n] = WithRoute(p)[r][n]
                                /\ regs'[n][r] = RegsWithRoute(p)[n][r]
    BY <1>0, <1>1, <2>1, Zenon
  <2>4. /\ members'[p][m] = WithRoute(p)[p][m] + 1
        /\ regs'[m][p] = RegsWithRoute(p)[m][p] + 1
    BY <1>0, <1>1, <2>1, Zenon
  <2>5. TypeOK'
    BY <1>0, <2>2, Zenon DEF TypeOK, new
  <2>6. Mutual'
    BY <1>0, <1>1, <2>3, <2>4 DEF Mutual
  <2>7. NoGhosts'
    <3> SUFFICES ASSUME NEW r \in new, NEW n \in Members, n \notin alive
                 PROVE members'[r][n] = 0
      BY <1>0, Zenon DEF NoGhosts
    <3>1. members'[r][n] = WithRoute(p)[r][n]
      BY <1>0, <2>3, Zenon
    <3>2. CASE r \in routes
      <4>1. WithRoute(p)[r][n] = members[r][n]
        BY <1>1, <3>2, Zenon
      <4>2. members[r][n] = 0
        BY <3>2, Zenon DEF NoGhosts
      <4> QED
        BY <3>1, <4>1, <4>2, Zenon
    <3>3. CASE r \notin routes
      BY <1>1, <3>1, <3>3, Zenon
    <3> QED
      BY <3>2, <3>3, Zenon
  <2> QED
    BY <2>5, <2>6, <2>7, Zenon
<1> QED
  BY <1>2, <1>3, Zenon

(***************************************************************************)
(* Route_unregister deletes one occurrence from each heap, or none.        *)
(***************************************************************************)
LEMMA UnregisterInv ==
  ASSUME IInv, NEW a \in Nodes, NEW m \in Members, Route_unregister(a, m)
  PROVE  IInv'
<1> DEFINE q == Route_find(a)
<1> USE DEF IInv
<1>1. q \in routes
  BY Zenon DEF Route_unregister, Route_find, Prefixes
<1> HIDE DEF q
<1>2. /\ m \in alive
      /\ members' = [members EXCEPT ![q][m] = Heap_delete(@)]
      /\ regs' = [regs EXCEPT ![m][q] = Heap_delete(@)]
      /\ UNCHANGED <<routes, callback, alive>>
  BY Zenon DEF Route_unregister, q
<1>3. \A n \in Nat : Heap_delete(n) \in Nat /\ Heap_delete(0) = 0
  BY DEF Heap_delete
<1>4. TypeOK'
  BY <1>1, <1>2, <1>3, Zenon DEF TypeOK
<1>5. \A r \in routes, n \in Members :
        ~ (r = q /\ n = m) => /\ members'[r][n] = members[r][n]
                              /\ regs'[n][r] = regs[n][r]
  BY <1>1, <1>2, Zenon DEF TypeOK
<1>6. /\ members'[q][m] = Heap_delete(members[q][m])
      /\ regs'[m][q] = Heap_delete(regs[m][q])
  BY <1>1, <1>2, Zenon DEF TypeOK
<1>7. Mutual'
  BY <1>1, <1>2, <1>5, <1>6 DEF Mutual
<1>8. NoGhosts'
  BY <1>2, <1>5 DEF NoGhosts
<1> QED
  BY <1>4, <1>7, <1>8, Zenon

(***************************************************************************)
(* Member_logout empties every heap of the member: Route_unregister_all    *)
(* deletes as many occurrences from a route as the member's heap lists,    *)
(* which by Mutual are all of them.                                        *)
(***************************************************************************)
LEMMA LogoutInv ==
  ASSUME IInv, NEW m \in Members, Member_logout(m) PROVE IInv'
<1> USE DEF IInv
<1>1. \A r \in routes : Remaining(r, m) = 0
  BY DEF Remaining, Mutual, TypeOK
<1>2. /\ members' = [r \in routes |-> [members[r] EXCEPT ![m] = 0]]
      /\ regs' = [regs EXCEPT ![m] = [r \in routes |-> 0]]
      /\ alive' = alive \ {m}
      /\ UNCHANGED <<routes, callback>>
  BY <1>1, Zenon DEF Member_logout, Route_unregister_all
<1>3. TypeOK'
  BY <1>2, Zenon DEF TypeOK
<1>4. \A r \in routes, n \in Members :
        /\ members'[r][n] = IF n = m THEN 0 ELSE members[r][n]
        /\ regs'[n][r] = IF n = m THEN 0 ELSE regs[n][r]
  BY <1>2, Zenon DEF TypeOK
<1>5. Mutual'
  BY <1>2, <1>4 DEF Mutual
<1>6. NoGhosts'
  BY <1>2, <1>4 DEF NoGhosts
<1> QED
  BY <1>3, <1>5, <1>6, Zenon

(***************************************************************************)
(* Every step of a member preserves the consistency of the table.          *)
(***************************************************************************)
LEMMA NextInv == IInv /\ [Next]_vars => IInv'
<1> SUFFICES ASSUME IInv, [Next]_vars PROVE IInv'
  BY Zenon
<1>1. ASSUME NEW m \in Members, Member_login(m) PROVE IInv'
  BY <1>1, LoginInv, Zenon
<1>2. ASSUME NEW m \in Members, NEW a \in Nodes, Route_register(a, m) PROVE IInv'
  BY <1>2, RegisterInv, Zenon
<1>3. ASSUME NEW m \in Members, NEW a \in Nodes, Route_unregister(a, m) PROVE IInv'
  BY <1>3, UnregisterInv, Zenon
<1>4. ASSUME NEW m \in Members, Member_logout(m) PROVE IInv'
  BY <1>4, LogoutInv, Zenon
<1>5. CASE UNCHANGED vars
  BY <1>5 DEF vars, IInv, TypeOK, Mutual, NoGhosts
<1> QED
  BY <1>1, <1>2, <1>3, <1>4, <1>5, Zenon DEF Next

(***************************************************************************)
(* The routing table stays consistent, whatever the members do.            *)
(***************************************************************************)
THEOREM Invariance == Spec => []IInv
<1>1. QED
  BY InitInv, NextInv, PTL DEF Spec

(***************************************************************************)
(* Routes and members always list each other equally often.                *)
(***************************************************************************)
THEOREM RegistrationIsMutual == Spec => []Mutual
<1>1. IInv => Mutual
  BY Zenon DEF IInv
<1>2. QED
  BY <1>1, Invariance, PTL

(***************************************************************************)
(* No route refers to a member that has logged out.                        *)
(***************************************************************************)
THEOREM LogoutLeavesNoGhosts == Spec => []NoGhosts
<1>1. IInv => NoGhosts
  BY Zenon DEF IInv
<1>2. QED
  BY <1>1, Invariance, PTL

(***************************************************************************)
(* Every route and every member has its heap, and the heaps count.         *)
(***************************************************************************)
THEOREM TypeCorrect == Spec => []TypeOK
<1>1. IInv => TypeOK
  BY Zenon DEF IInv
<1>2. QED
  BY <1>1, Invariance, PTL

(***************************************************************************)
(* What one step may do: routes are added and never removed, and only the  *)
(* registrations of the member that takes the step change.                 *)
(***************************************************************************)
OnlyOwn(m) ==
  /\ routes \subseteq routes'
  /\ \A n \in Members \ {m}, r \in routes :
       members'[r][n] = members[r][n] /\ regs'[n][r] = regs[n][r]

(***************************************************************************)
(* Route_register leaves the registrations of the others as they are.      *)
(***************************************************************************)
LEMMA RegisterOnlyOwn ==
  ASSUME IInv, NEW a \in Nodes, NEW m \in Members, Route_register(a, m)
  PROVE  OnlyOwn(m)
<1> DEFINE p == Path(a)
           new == routes \cup Prefixes(p)
<1> HIDE DEF p
<1>1. routes' = new /\ p \in new
  BY Zenon DEF Route_register, Prefixes, p
<1>2. /\ WithRoute(p) \in [new -> [Members -> Nat]]
      /\ RegsWithRoute(p) \in [Members -> [new -> Nat]]
      /\ \A r \in routes, n \in Members : /\ WithRoute(p)[r][n] = members[r][n]
                                          /\ RegsWithRoute(p)[n][r] = regs[n][r]
  BY DEF WithRoute, RegsWithRoute, IInv, TypeOK
<1>3. CASE p \in callback
  <2>1. members' = WithRoute(p) /\ regs' = RegsWithRoute(p)
    BY <1>3, Zenon DEF Route_register, p
  <2> QED
    BY <1>1, <1>2, <2>1, Zenon DEF OnlyOwn
<1>4. CASE p \notin callback
  <2>1. /\ members' = [WithRoute(p) EXCEPT ![p][m] = @ + 1]
        /\ regs' = [RegsWithRoute(p) EXCEPT ![m][p] = @ + 1]
    BY <1>4, Zenon DEF Route_register, p
  <2>2. ASSUME NEW n \in Members \ {m}, NEW r \in routes
        PROVE  members'[r][n] = members[r][n] /\ regs'[n][r] = regs[n][r]
    <3>1. r \in new
      BY Zenon
    <3> HIDE DEF new
    <3> QED
      BY <1>1, <1>2, <2>1, <3>1
  <2> QED
    BY <1>1, <2>2, Zenon DEF OnlyOwn
<1> QED
  BY <1>3, <1>4, Zenon

(***************************************************************************)
(* So do the other operations.                                             *)
(***************************************************************************)
LEMMA StepOnlyOwn ==
  ASSUME IInv, Next PROVE \E m \in Members : OnlyOwn(m)
<1>1. ASSUME NEW m \in Members, Member_login(m) PROVE OnlyOwn(m)
  BY <1>1, Zenon DEF Member_login, OnlyOwn, IInv, TypeOK
<1>2. ASSUME NEW m \in Members, NEW a \in Nodes, Route_unregister(a, m)
      PROVE  OnlyOwn(m)
  <2>1. Route_find(a) \in routes
    BY <1>2, Zenon DEF Route_unregister, Route_find, Prefixes
  <2> QED
    BY <1>2, <2>1, Zenon DEF Route_unregister, OnlyOwn, IInv, TypeOK
<1>3. ASSUME NEW m \in Members, Member_logout(m) PROVE OnlyOwn(m)
  BY <1>3, Zenon DEF Member_logout, Route_unregister_all, OnlyOwn, IInv, TypeOK
<1> QED
  BY <1>1, <1>2, <1>3, RegisterOnlyOwn, Zenon DEF Next

(***************************************************************************)
(* Routes stay, and a member's step touches no other member's entries.     *)
(***************************************************************************)
THEOREM RoutesAreKept == Spec => RoutesStay
<1>1. IInv /\ [Next]_vars =>
        [/\ routes \subseteq routes'
         /\ \E m \in Members : \A n \in Members \ {m}, r \in routes :
              members'[r][n] = members[r][n] /\ regs'[n][r] = regs[n][r]]_vars
  BY StepOnlyOwn, Zenon DEF OnlyOwn
<1>2. QED
  BY <1>1, Invariance, PTL DEF Spec, RoutesStay
=============================================================================
