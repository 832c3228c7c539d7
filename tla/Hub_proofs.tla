----------------------------- MODULE Hub_proofs -----------------------------
(***************************************************************************)
(* What is proved of Hub on a calm network, for any number of connections  *)
(* and any capacity of the queues: NoFault and ClosedListSound.  The start *)
(* of a connection keeps the invariant CInv, as do the other steps by the  *)
(* lemmas of Hub_steps and Hub_calm, and so it always holds.               *)
(***************************************************************************)
EXTENDS Hub_calm, FiniteSetTheorems, NaturalsInduction, WellFoundedInduction

(* Most leaves are for Zenon; the others name the prover they need.        *)
USE ZenonT(30)

-----------------------------------------------------------------------------
(***************************************************************************)
(* A client connects, and its connection starts.                           *)
(***************************************************************************)

(* The listener accepts a client.  Nothing else is ready then.             *)
LEMMA AcceptCalm ==
  ASSUME IInv, CInv, Accept
  PROVE  CInv'
<1> USE DEF lists, objects
<1>1. PICK a : a = accepted + 1
  OBVIOUS
<1>2. /\ running = Listener /\ pc' = [pc EXCEPT ![Reader(a)] = "r_new"]
      /\ open' = open \cup {a} /\ ready' = Append(ready, Reader(a)) /\ running' = NULL
      /\ UNCHANGED <<conn, closed, peer, acts, slot, local, polling, fault>>
  BY <1>1 DEF Accept, At, Goto
<1> USE <1>2
<1>3. /\ Listener # NULL
      /\ \A d \in Conns :
           /\ Reader(d) # NULL /\ Writer(d) # NULL /\ Reader(d) \in Tasks /\ Writer(d) \in Tasks
           /\ Reader(d) # Listener /\ Writer(d) # Listener /\ Writer(d) # Reader(a)
           /\ d # a => Reader(d) # Reader(a)
  BY TaskFacts, NullFacts, SMTT(30)
<1>4. ready = <<>> /\ ~polling
  BY <1>3 DEF CInv, Comes
<1>5. a \in Conns /\ a > accepted
  <2>1. accepted \in 0..NConns /\ accepted < NConns
    BY DEF IInv, Once, Types
  <2> QED BY <1>1, <2>1, NConnsAssumption, SMTT(30) DEF Conns
<1>6. slot[a] = NULL
  BY <1>5 DEF IInv, Births
<1>7. /\ pc'[Reader(a)] = "r_new" /\ \A u \in Tasks : u # Reader(a) => pc'[u] = pc[u]
  BY <1>3, <1>5 DEF IInv, Types
<1>8. /\ ready' = <<Reader(a)>> /\ Range(ready') = {Reader(a)} /\ Range(ready) = {}
      /\ DOMAIN ready' = {1} /\ ready'[1] = Reader(a)
  <2>1. ready' = <<Reader(a)>> /\ DOMAIN ready' = {1} /\ ready'[1] = Reader(a)
    BY <1>4, SMTT(30)
  <2>2. DOMAIN ready = {}
    BY <1>4, SMTT(30)
  <2> QED BY <2>1, <2>2 DEF Range
<1>9. ASSUME NEW d \in Conns, InUse(d)' PROVE InUse(d) /\ Good(d)'
  <2>1. d # a
    BY <1>6, <1>9 DEF InUse
  <2>2. pc'[Reader(d)] = pc[Reader(d)] /\ pc'[Writer(d)] = pc[Writer(d)]
    BY <1>3, <1>7, <2>1
  <2>3. InUse(d) /\ Good(d)
    BY <1>9, <2>2 DEF InUse, RS, WS, Spot, CInv
  <2>4. /\ Spot(Reader(d))' = RS(d) /\ Spot(Writer(d))' = WS(d)
        /\ RS(d) \in Rests \ {"logout", "w_dequeue"} /\ WS(d) \in Rests \ {"logout", "w_dequeue"}
    BY <1>3, <1>8, <2>2, <2>3 DEF Good, Turn, RS, WS, Spot
  <2>5. Turn(Reader(d))' /\ Turn(Writer(d))'
    BY <2>4 DEF Turn
  <2>6. RS(d) # "logout"
    BY <2>4
  <2>7. d \in open' => d \in open
    BY <2>1
  <2> QED BY <1>9, <2>2, <2>3, <2>5, <2>6, <2>7, SitsStill
<1>10. Comes'
  <2>1. ASSUME NEW c \in Conns, pc'[Reader(c)] = "r_new" PROVE c = a
    BY <1>3, <1>7, <2>1 DEF CInv, Comes
  <2>2. Listener \notin Range(ready')
    BY <1>3, <1>5, <1>8
  <2> QED BY <1>3, <1>4, <1>8, <2>1, <2>2 DEF Comes
<1>11. Queued'
  <2>1. ASSUME NEW c \in Conns, pc'[Reader(c)] = "none" PROVE Reader(c) \notin Range(ready')
    BY <1>7, <1>8, <2>1, SMTT(30)
  <2> QED BY <1>3, <1>8, <2>1 DEF Queued
<1> QED BY <1>9, <1>10, <1>11, SchedulerCalm

(* While a task runs and none is ready, no connection is closing.          *)
LEMMA NobodyCloses ==
  ASSUME IInv, CInv, NEW c \in Conns, running = Reader(c), ready = <<>>,
         NEW d \in Conns, d # c, InUse(d)
  PROVE  K(d).cs # "final" /\ RS(d) # "logout" /\ Turn(Reader(d)) /\ Turn(Writer(d))
<1>1. Good(d)
  BY DEF CInv
<1>2. Reader(d) # running /\ Writer(d) # running
  BY TaskFacts, SMTT(30)
<1>3. Range(ready) = {}
  BY SMTT(30) DEF Range
<1>4. /\ RS(d) \in Rests /\ RS(d) # "logout" /\ WS(d) \in Rests /\ WS(d) # "logout"
      /\ Turn(Reader(d)) /\ Turn(Writer(d))
  BY <1>1, <1>2, <1>3 DEF Good, Turn, RS, WS
<1>5. K(d).cs = "final" => RS(d) = "r_exit" /\ WS(d) = "w_done"
  BY <1>1, <1>4, SMTT(30) DEF Good, Together, Rests, RIdle
<1> QED BY <1>4, <1>5 DEF InUse

(* Hub_queue_conn takes a state that nobody uses.                          *)
LEMMA Hub_queue_connCalm ==
  ASSUME IInv, CInv, NEW c \in Conns, Hub_queue_conn(c)
  PROVE  CInv'
<1> DEFINE t == Reader(c)
           W == Writer(c)
<1> USE DEF At, objects, sched, inputs, lists
<1>0. /\ t \in Tasks /\ W \in Tasks /\ W # t /\ t # NULL /\ t # Listener /\ c # NULL /\ c \in Slots
      /\ \A d \in Conns : /\ Reader(d) \in Tasks /\ Writer(d) \in Tasks /\ Writer(d) # t
                          /\ d # c => Reader(d) # t
  BY TaskFacts, NullFacts, SMTT(30)
<1>1. /\ running = t /\ acts[t] = <<>> /\ pc[t] = "r_new" /\ slot[c] = NULL
      /\ pc[W] = "none" /\ acts[W] = <<>>
  BY DEF Hub_queue_conn, IInv, Births
<1>2. ready = <<>> /\ ~polling
  BY <1>0, <1>1 DEF CInv, Comes
<1>3. PICK s, k : /\ s = (IF closed # NULL THEN closed ELSE c)
                  /\ k = [Blank EXCEPT !.cs = "Accepting", !.client = c]
  OBVIOUS
<1>4. /\ slot' = [slot EXCEPT ![c] = s] /\ conn' = [conn EXCEPT ![s] = k]
      /\ pc' = [pc EXCEPT ![t] = "r_key"]
      /\ UNCHANGED <<open, peer, acts, local, running, ready, polling, fault>>
  BY <1>3, OpenStep DEF Hub_queue_conn, Goto
<1>5. /\ k.cs = "Accepting" /\ k.client = c /\ k.member = NULL /\ k.peer = NULL
      /\ k.send = NULL /\ k.recv = NULL /\ k.next = NULL /\ k.owner = NULL /\ k.waiting = <<>>
  BY <1>3 DEF Blank
<1>6. /\ closed # NULL => s = closed /\ Retired(s) /\ closed' = conn[s].next
      /\ closed = NULL => s = c /\ s \notin used /\ closed' = NULL
      /\ s \in Slots /\ s # NULL
  <2>1. CASE closed # NULL
    <3>1. s = closed /\ closed' = conn[closed].next /\ closed \in Slots
      BY <1>3, <2>1 DEF Hub_queue_conn, Hub_new_or_reuse_conn, IInv, Types
    <3>2. Retired(closed)
      BY <2>1 DEF CInv, Linked
    <3> QED BY <2>1, <3>1, <3>2
  <2>2. CASE closed = NULL
    BY <1>0, <1>1, <1>3, <2>2 DEF Hub_queue_conn, Hub_new_or_reuse_conn, IInv, Births
  <2> QED BY <2>1, <2>2
<1>7. /\ conn \in [Slots -> ConnType] /\ conn'[s] = k
      /\ \A z \in Slots : z # s => conn'[z] = conn[z]
      /\ pc'[t] = "r_key" /\ \A u \in Tasks : u # t => pc'[u] = pc[u]
      /\ slot'[c] = s /\ \A d \in Conns : d # c => slot'[d] = slot[d]
  BY <1>0, <1>4, <1>6 DEF IInv, Types
<1>8. ASSUME NEW d \in Conns, d # c, InUse(d)'
      PROVE  InUse(d) /\ slot[d] # s /\ slot[d] \in Slots
  <2>1. slot'[d] = slot[d] /\ RS(d)' = RS(d) /\ WS(d)' = WS(d)
    BY <1>0, <1>4, <1>7, <1>8 DEF RS, WS, Spot
  <2>2. InUse(d) /\ slot[d] # NULL
    BY <1>8, <2>1 DEF InUse
  <2>3. slot[d] \in used /\ slot[d] \in Slots
    BY <2>2 DEF IInv, Types
  <2>4. K(d).cs # "final"
    BY <1>1, <1>2, <1>8, <2>2, NobodyCloses
  <2> QED BY <1>6, <2>2, <2>3, <2>4 DEF Retired, K
<1>9. ASSUME NEW d \in Conns, d # c, InUse(d)' PROVE Good(d)'
  <2>1. InUse(d) /\ slot[d] # s /\ slot[d] \in Slots /\ slot'[d] = slot[d]
    BY <1>7, <1>8, <1>9
  <2>2. /\ pc'[Reader(d)] = pc[Reader(d)] /\ pc'[Writer(d)] = pc[Writer(d)]
    BY <1>0, <1>7, <1>9
  <2>3. K(d).cs # "final" /\ RS(d) # "logout" /\ Turn(Reader(d)) /\ Turn(Writer(d))
    BY <1>1, <1>2, <1>9, <2>1, NobodyCloses
  <2>4. Turn(Reader(d))' /\ Turn(Writer(d))'
    BY <1>4, <2>2, <2>3 DEF Turn, Spot
  <2>5. PICK x, r, w : x = K(d) /\ r = RS(d) /\ w = WS(d)
    OBVIOUS
  <2>6. K(d)' = x /\ RS(d)' = r /\ WS(d)' = w
    BY <1>4, <1>7, <2>1, <2>2, <2>5 DEF K, RS, WS, Spot
  <2>7. Good(d)
    BY <2>1 DEF CInv
  <2>8. RLands(d, r, w)' /\ WLands(d, x.cs, w)' /\ Uses(d, x, r, w)'
    BY <1>4, <2>2, <2>5, <2>7 DEF Good, RLands, WLands, Uses
  <2>9. Together(x.cs, r, w) /\ Owns(d, x, r, w) /\ Moving(d, x, r, w) /\ Locks(d, x, r, w)
    BY <2>5, <2>7 DEF Good
  <2> QED BY <2>3, <2>4, <2>5, <2>6, <2>8, <2>9 DEF Good
<1>10. Good(c)'
  <2>1. RS(c)' = "r_key" /\ WS(c)' = "none" /\ K(c)' = k
    BY <1>0, <1>1, <1>4, <1>7 DEF RS, WS, Spot, K
  <2>2. /\ Together(k.cs, "r_key", "none") /\ Owns(c, k, "r_key", "none")
        /\ Moving(c, k, "r_key", "none") /\ Locks(c, k, "r_key", "none")
    BY <1>5, <1>0, SMTT(30) DEF Together, Owns, Moving, Locks, Serving, Carries, RHolds, WHolds
  <2>3. RLands(c, "r_key", "none")' /\ WLands(c, k.cs, "none")' /\ Uses(c, k, "r_key", "none")'
    BY <1>0, <1>5, SMTT(30) DEF RLands, WLands, Uses
  <2>4. Turn(t)' /\ Turn(W)'
    BY <1>1, <1>4, <2>1 DEF Turn, RS, WS, Rests
  <2> QED BY <1>5, <2>1, <2>2, <2>3, <2>4 DEF Good
<1>11. Alone'
  BY <1>7, <1>8 DEF CInv, Alone
<1>12. Comes' /\ Queued'
  <2>1. Range(ready) = {} /\ DOMAIN ready = {}
    BY <1>2, SMTT(30) DEF Range
  <2>2. ASSUME NEW d \in Conns PROVE pc'[Reader(d)] # "r_new"
    <3>1. CASE d = c
      BY <1>7, <3>1, SMTT(30)
    <3>2. CASE d # c
      BY <1>0, <1>1, <1>7, <3>2 DEF CInv, Comes
    <3> QED BY <3>1, <3>2
  <2>3. ASSUME NEW d \in Conns, pc'[Reader(d)] = "none" PROVE running # Reader(d)
    BY <1>0, <1>1, <1>7, <2>3
  <2> QED BY <1>0, <1>1, <1>2, <1>4, <2>1, <2>2, <2>3 DEF Comes, Queued
<1>13. fault' = "none"
  BY <1>4 DEF CInv
<1>14. ASSUME NEW z \in Slots, Retired(z), z # s PROVE Retired(z)'
  <2>1. ASSUME NEW u \in Workers, Of(u)' = z PROVE ~Pending(u, "rest_close")'
    <3>1. u[2] # c /\ u[2] \in Conns
      BY <1>7, <1>14, <2>1, WorkerFacts DEF Of
    <3>2. Of(u) = z
      BY <1>7, <2>1, <3>1 DEF Of
    <3> QED BY <1>4, <1>14, <3>2 DEF Retired, Pending
  <2> QED BY <1>7, <1>14, <2>1 DEF Retired
<1>15. ASSUME NEW z \in Slots, NEW n, n = conn'[z].next, n # NULL
       PROVE  /\ Retired(n)' /\ n # closed'
              /\ \A y \in Slots : conn'[y].next = n => y = z
  <2>1. z # s /\ n = conn[z].next
    BY <1>5, <1>7, <1>15
  <2>2. Retired(n) /\ n # closed /\ \A y \in Slots : conn[y].next = n => y = z
    BY <1>15, <2>1 DEF CInv, Linked
  <2>3. n \in used /\ n \in Slots
    <3>1. conn[z] \in ConnType /\ used \subseteq Slots
      BY <1>15 DEF IInv, Types
    <3> QED BY <1>15, <2>1, <3>1, SMTT(30) DEF ConnType
  <2>4. n # s
    BY <1>6, <2>2, <2>3
  <2>5. \A y \in Slots : conn'[y].next = n => y = z
    BY <1>5, <1>7, <1>15, <2>2
  <2>6. n # closed'
    BY <1>6, <1>15, <2>1, <2>2
  <2> QED BY <1>14, <2>2, <2>3, <2>4, <2>5, <2>6
<1>16. ASSUME NEW n, n = closed', n # NULL PROVE Retired(n)'
  <2>1. closed # NULL /\ n = conn[s].next
    BY <1>6, <1>16
  <2>2. Retired(n) /\ n # s
    BY <1>6, <1>16, <2>1 DEF CInv, Linked
  <2>3. n \in Slots
    BY <1>6, <1>7, <1>16, <2>1 DEF IInv, Types, ConnType
  <2> QED BY <1>14, <2>2, <2>3
<1>17. Linked'
  BY <1>15, <1>16, SMTT(30) DEF Linked
<1> QED BY <1>9, <1>10, <1>11, <1>12, <1>13, <1>17 DEF CInv

-----------------------------------------------------------------------------
(***************************************************************************)
(* CInv holds, and what follows from it.                                   *)
(***************************************************************************)

(* Every step of a reader, a writer or the scheduler keeps the invariant.  *)
LEMMA CalmStep ==
  ASSUME IInv, IInv', CInv, Calm, [Next]_vars
  PROVE  CInv'
<1>1. ASSUME NEW c \in Conns, ReaderStep(c) PROVE CInv'
  BY <1>1, Hub_queue_connCalm, key_prepCalm, tuneCalm, tune_identityCalm, tune_confirmedCalm,
     tune_finalCalm, registerCalm, establishedCalm, read_msgCalm, Peer_recvCalm, reader_lockCalm,
     recvCalm, receivedCalm, msgid_checkCalm, serviceCalm, clear_recvCalm, reader_unlockCalm,
     Hub_closeCalm
     DEF ReaderStep
<1>2. ASSUME NEW c \in Conns, WriterStep(c) PROVE CInv'
  BY <1>2, dequeue_msgCalm, dequeue_wokenCalm, writer_lockCalm, send_msgCalm, Peer_sendCalm,
     sentCalm, clear_sendCalm, writer_unlockCalm, outgoing_exitCalm
     DEF WriterStep
<1>3. ASSUME NEW c \in Conns, EitherStep(Reader(c)) PROVE CInv'
  BY <1>3, reader_execCalm, ReaderHalfCloses, ReaderLogsOut, ReaderRestCloses DEF EitherStep
<1>4. ASSUME NEW c \in Conns, EitherStep(Writer(c)) PROVE CInv'
  BY <1>4, writer_execCalm, WriterHalfCloses, WriterLogsOut, WriterRestCloses DEF EitherStep
<1>5. CASE Next
  BY <1>1, <1>2, <1>3, <1>4, <1>5, AcceptCalm, ScheduleCalm, PollCalm DEF Next, Run
<1>6. CASE UNCHANGED vars
  <2>1. UNCHANGED <<conn, closed, open, peer, pc, acts, slot, local, running, ready, polling,
                    fault>>
    BY <1>6 DEF vars, lists, objects, tasks, sched
  <2>2. \A d \in Conns : InUse(d)' => InUse(d)
    BY <2>1 DEF InUse, RS, WS, Spot
  <2>3. ASSUME NEW d \in Conns, InUse(d)' PROVE Good(d)'
    <3>1. Good(d) /\ Turn(Reader(d)) /\ Turn(Writer(d))
      BY <2>2, <2>3 DEF CInv, Good
    <3>2. Turn(Reader(d))' /\ Turn(Writer(d))'
      BY <2>1, <3>1 DEF Turn, Spot
    <3>3. Before(Writer(d), Reader(d)) => Before(Writer(d), Reader(d))'
      BY <2>1 DEF Before
    <3> QED BY <2>1, <2>3, <3>1, <3>2, <3>3, SitsStill DEF Good
  <2>4. Comes' /\ Queued'
    BY <2>1 DEF CInv, Comes, Queued
  <2> QED BY <2>1, <2>2, <2>3, <2>4, SchedulerCalm
<1> QED BY <1>5, <1>6

(* A hub that has just started.                                            *)
LEMMA CalmInit ==
  ASSUME Init
  PROVE  CInv
<1> USE DEF Init
<1>1. /\ Range(<<>>) = {} /\ DOMAIN <<>> = {} /\ Listener # NULL
      /\ \A c \in Conns : Reader(c) \in Tasks /\ Reader(c) # Listener /\ Reader(c) # NULL
  BY TaskFacts, NullFacts, SMTT(30) DEF Range
<1>2. \A c \in Conns : ~InUse(c) /\ pc[Reader(c)] = "none"
  BY <1>1 DEF InUse
<1>3. Alone /\ Comes /\ Queued
  BY <1>1, <1>2 DEF Alone, Comes, Queued
<1>4. \A s \in Slots : conn[s].next = NULL
  BY DEF Blank
<1>5. Linked
  BY <1>4, SMTT(30) DEF Linked
<1> QED BY <1>2, <1>3, <1>5 DEF CInv

(* So the invariant holds on every calm network.                           *)
LEMMA CalmHolds ==
  ASSUME Calm
  PROVE  Spec => []CInv
<1>1. Init => CInv
  BY CalmInit, SMTT(30)
<1>2. IInv /\ IInv' /\ CInv /\ [Next]_vars => CInv'
  BY CalmStep, SMTT(30)
<1> QED BY <1>1, <1>2, InvariantHolds, PTL DEF Spec

(***************************************************************************)
(* NoFault holds on every calm network, for every number of connections    *)
(* and every capacity, whether sends fail or not: no task follows a null   *)
(* or freed pointer and no assertion of the hub fails, although clients    *)
(* may leave at any moment and both tasks of a connection may start to     *)
(* close it.                                                               *)
(***************************************************************************)
THEOREM CalmNoFault ==
  ASSUME Calm
  PROVE  Spec => []NoFault
<1>1. CInv => NoFault
  BY DEF CInv, NoFault
<1> QED BY <1>1, CalmHolds, PTL

(***************************************************************************)
(* A list whose links are sound has an end.                                *)
(***************************************************************************)

(***************************************************************************)
(* Induction up to a bound; a set of numbers stands for the predicate.     *)
(***************************************************************************)
LEMMA UpTo ==
  ASSUME NEW n \in Nat, NEW S, 0 \in S, \A k \in 1 .. n : k - 1 \in S => k \in S
  PROVE  \A k \in 0 .. n : k \in S
<1> DEFINE T == {k \in 0 .. n : k \notin S}
           R == OpToRel(<, Nat)
<1>1. IsWellFoundedOn(R, Nat)
  BY NatLessThanWellFounded
<1>2. R = {x \in Nat \X Nat : x[1] < x[2]}
  BY DEF OpToRel
<1>3. T \subseteq Nat
  BY SMTT(30)
<1> HIDE DEF R
<1> SUFFICES ASSUME T # {} PROVE FALSE
  OBVIOUS
<1>4. PICK x \in T : \A y \in T : <<y, x>> \notin R
  <2> HIDE DEF T
  <2> QED BY <1>1, <1>3, WFMin
<1>5. x # 0 /\ x \in 0 .. n /\ x \notin S
  OBVIOUS
<1>6. x \in 1 .. n /\ x - 1 \in 0 .. n /\ x - 1 \in Nat /\ x \in Nat /\ x - 1 < x
  BY <1>5, SMTT(30)
<1> USE <1>6
<1>7. <<x - 1, x>> \in R
  BY <1>2
<1>8. x - 1 \in S
  BY <1>4, <1>7
<1> QED BY <1>5, <1>8

(* f follows the links of the records in g from a.                         *)
Follows(f, n, a, g) ==
  f = [i \in 0 .. n |-> IF i = 0 THEN a
                        ELSE IF f[i-1] = NULL THEN NULL ELSE g[f[i-1]].next]

(* There is such a function.                                               *)
LEMMA FollowsExists ==
  ASSUME NEW n \in Nat, NEW a, NEW g
  PROVE  \E f : Follows(f, n, a, g)
<1> DEFINE Next1(x) == IF x = NULL THEN NULL ELSE g[x].next
           S == {m \in 0 .. n : \E f : Follows(f, m, a, g)}
<1>1. 0 \in S
  <2>1. 0 \in 0 .. n /\ \A i \in 0 .. 0 : i = 0
    BY SMTT(30)
  <2>2. Follows([i \in 0 .. 0 |-> a], 0, a, g)
    BY <2>1 DEF Follows
  <2> QED BY <2>1, <2>2
<1>2. ASSUME NEW k \in 1 .. n, k - 1 \in S PROVE k \in S
  <2>1. PICK f : Follows(f, k - 1, a, g)
    BY <1>2
  <2>2. /\ k \in 0 .. n /\ k # 0 /\ k \in 0 .. k
        /\ \A i \in 0 .. k : i # k => i \in 0 .. (k - 1)
        /\ \A i \in 0 .. k : i # 0 => i - 1 \in 0 .. k /\ i - 1 # k
        /\ k - 1 \in 0 .. k /\ k - 1 # k
    BY SMTT(30)
  <2>3. PICK h : h = [i \in 0 .. k |-> IF i = k THEN Next1(f[k-1]) ELSE f[i]]
    OBVIOUS
  <2>4. \A i \in 0 .. k : i # k => h[i] = f[i]
    BY <2>3
  <2>5. \A i \in 0 .. (k - 1) : f[i] = IF i = 0 THEN a ELSE Next1(f[i-1])
    BY <2>1 DEF Follows
  <2>6. ASSUME NEW i \in 0 .. k PROVE h[i] = IF i = 0 THEN a ELSE Next1(h[i-1])
    <3>1. CASE i = k
      BY <2>2, <2>3, <2>4, <3>1
    <3>2. CASE i # k
      BY <2>2, <2>4, <2>5, <3>2
    <3> QED BY <3>1, <3>2
  <2>7. h = [i \in 0 .. k |-> IF i = 0 THEN a ELSE Next1(h[i-1])]
    BY <2>3, <2>6
  <2>8. Follows(h, k, a, g)
    BY <2>7 DEF Follows
  <2> QED BY <2>2, <2>8
<1>3. \A k \in 0 .. n : k \in S
  <2> HIDE DEF S
  <2> QED BY <1>1, <1>2, UpTo
<1> QED BY <1>3, SMTT(30)

(***************************************************************************)
(* A list ends when nothing links to its head and no two records link to   *)
(* the same one: the records on it are different, and there are only n.    *)
(***************************************************************************)
LEMMA ListEnds ==
  ASSUME NEW n \in Nat, NEW a, NEW g, NEW f, Follows(f, n, a, g),
         NULL \notin 1 .. n, a \in 1 .. n \cup {NULL},
         \A s \in 1 .. n : g[s].next # NULL =>
           /\ g[s].next \in 1 .. n /\ g[s].next # a
           /\ \A z \in 1 .. n : g[z].next = g[s].next => z = s
  PROVE  /\ f[n] = NULL
         /\ \A k \in 0 .. n : f[k] # NULL =>
              f[k] = a \/ \E s \in 1 .. n : f[k] = g[s].next
<1>0. /\ \A k \in 0 .. n : k # 0 => k \in 1 .. n /\ k - 1 \in 0 .. n
      /\ 0 \in 0 .. n /\ n \in 0 .. n /\ \A k \in 1 .. n : k \in 0 .. n /\ k # 0 /\ k - 1 \in 0 .. n
  BY SMTT(30)
<1>1. /\ f[0] = a
      /\ \A k \in 1 .. n : f[k] = IF f[k-1] = NULL THEN NULL ELSE g[f[k-1]].next
  BY <1>0 DEF Follows
<1>2. \A k \in 0 .. n : f[k] \in 1 .. n \cup {NULL}
  <2> DEFINE S == {k \in 0 .. n : f[k] \in 1 .. n \cup {NULL}}
  <2>1. 0 \in S
    BY <1>0, <1>1
  <2>2. ASSUME NEW k \in 1 .. n, k - 1 \in S PROVE k \in S
    BY <1>0, <1>1, <2>2
  <2>3. \A k \in 0 .. n : k \in S
    <3> HIDE DEF S
    <3> QED BY <2>1, <2>2, UpTo
  <2> QED BY <2>3
<1>3. ASSUME NEW k \in 1 .. n, f[k] # NULL
      PROVE  f[k-1] # NULL /\ f[k-1] \in 1 .. n /\ f[k] = g[f[k-1]].next
  BY <1>0, <1>1, <1>2, <1>3
<1>4. \A i \in 0 .. n : \A j \in 0 .. n : i < j /\ f[j] # NULL => f[i] # f[j]
  <2> DEFINE S == {i \in 0 .. n : \A j \in 0 .. n : i < j /\ f[j] # NULL => f[i] # f[j]}
  <2>1. 0 \in S
    <3>1. ASSUME NEW j \in 0 .. n, 0 < j, f[j] # NULL PROVE f[0] # f[j]
      <4>1. j \in 1 .. n
        BY <3>1, SMTT(30)
      <4>2. PICK s \in 1 .. n : f[j] = g[s].next
        BY <1>3, <3>1, <4>1
      <4>3. g[s].next # a
        BY <3>1, <4>2
      <4> QED BY <1>1, <4>2, <4>3
    <3> QED BY <1>0, <3>1
  <2>2. ASSUME NEW i \in 1 .. n, i - 1 \in S PROVE i \in S
    <3>1. ASSUME NEW j \in 0 .. n, i < j, f[j] # NULL, f[i] = f[j] PROVE FALSE
      <4>1. j \in 1 .. n /\ j - 1 \in 0 .. n /\ i - 1 < j - 1
        BY <3>1, SMTT(30)
      <4>2. /\ f[j-1] # NULL /\ f[j-1] \in 1 .. n /\ f[j] = g[f[j-1]].next
            /\ f[i-1] # NULL /\ f[i-1] \in 1 .. n /\ f[i] = g[f[i-1]].next
        BY <1>3, <3>1, <4>1
      <4>3. PICK x, y : x = f[j-1] /\ y = f[i-1]
        OBVIOUS
      <4>4. x \in 1 .. n /\ y \in 1 .. n /\ g[x].next # NULL /\ g[y].next = g[x].next
        BY <3>1, <4>2, <4>3
      <4>5. y = x
        BY <4>4
      <4> QED BY <2>2, <4>1, <4>2, <4>3, <4>5
    <3> QED BY <1>0, <3>1
  <2>3. \A i \in 0 .. n : i \in S
    <3> HIDE DEF S
    <3> QED BY <2>1, <2>2, UpTo
  <2> QED BY <2>3
<1>5. ASSUME f[n] # NULL PROVE FALSE
  <2>1. \A k \in 0 .. n : f[k] # NULL
    <3> DEFINE S == {k \in 0 .. n : f[n - k] # NULL}
    <3>1. 0 \in S
      <4>1. n - 0 = n
        BY SMTT(30)
      <4> QED BY <1>0, <1>5, <4>1
    <3>2. ASSUME NEW k \in 1 .. n, k - 1 \in S PROVE k \in S
      <4>1. n - (k - 1) \in 1 .. n /\ (n - (k - 1)) - 1 = n - k
        BY SMTT(30)
      <4> QED BY <1>0, <1>3, <3>2, <4>1
    <3>3. \A k \in 0 .. n : k \in S
      <4> HIDE DEF S
      <4> QED BY <3>1, <3>2, UpTo
    <3>4. ASSUME NEW k \in 0 .. n PROVE f[k] # NULL
      <4>1. n - k \in 0 .. n /\ n - (n - k) = k
        BY SMTT(30)
      <4> QED BY <3>3, <4>1
    <3> QED BY <3>4
  <2>2. f \in [0 .. n -> 1 .. n]
    <3>1. \A k \in 0 .. n : f[k] \in 1 .. n
      BY <1>2, <2>1
    <3>2. f = [k \in 0 .. n |-> f[k]]
      BY DEF Follows
    <3> QED BY <3>1, <3>2
  <2>3. /\ IsFiniteSet(0 .. n) /\ IsFiniteSet(1 .. n)
        /\ Cardinality(1 .. n) < Cardinality(0 .. n)
    <3>1. 0 \in Int /\ 1 \in Int /\ n \in Int
      BY SMTT(30)
    <3>2. /\ IsFiniteSet(0 .. n) /\ Cardinality(0 .. n) = IF 0 > n THEN 0 ELSE n - 0 + 1
          /\ IsFiniteSet(1 .. n) /\ Cardinality(1 .. n) = IF 1 > n THEN 0 ELSE n - 1 + 1
      BY <3>1, FS_Interval
    <3> QED BY <3>2, SMTT(30)
  <2>4. PICK i, j \in 0 .. n : i # j /\ f[i] = f[j]
    <3>1. PICK S, T : S = 0 .. n /\ T = 1 .. n
      OBVIOUS
    <3>2. /\ IsFiniteSet(S) /\ IsFiniteSet(T) /\ Cardinality(T) < Cardinality(S)
          /\ f \in [S -> T]
      BY <2>2, <2>3, <3>1
    <3>3. \E i, j \in S : i # j /\ f[i] = f[j]
      BY <3>2, FS_PigeonHole, SMTT(30)
    <3> QED BY <3>1, <3>3
  <2>5. i < j \/ j < i
    BY <2>4, SMTT(30)
  <2> QED BY <1>4, <2>1, <2>4, <2>5
<1>6. ASSUME NEW k \in 0 .. n, f[k] # NULL
      PROVE  f[k] = a \/ \E s \in 1 .. n : f[k] = g[s].next
  BY <1>0, <1>1, <1>3, <1>6
<1> QED BY <1>5, <1>6

(* The closed list of a hub whose links are as Linked says.                *)
LEMMA LinkedIsSound ==
  ASSUME IInv, CInv
  PROVE  ClosedListSound
<1>1. NConns \in Nat
  BY NConnsAssumption, SMTT(30)
<1>2. Follows(Link, NConns, closed, conn)
  <2>1. \E f : Follows(f, NConns, closed, conn)
    BY <1>1, FollowsExists
  <2> QED BY <2>1 DEF Link, Follows
<1>3. PICK f, n, a, g : f = Link /\ n = NConns /\ a = closed /\ g = conn
  OBVIOUS
<1>4. /\ Follows(f, n, a, g) /\ n \in Nat /\ Slots = 1 .. n
  BY <1>1, <1>2, <1>3 DEF Slots
<1>5. /\ NULL \notin 1 .. n /\ a \in 1 .. n \cup {NULL}
  <2>1. NULL \notin Slots /\ closed \in Slots \cup {NULL}
    BY NullFacts DEF IInv, Types
  <2> QED BY <1>3, <1>4, <2>1
<1>6. ASSUME NEW s \in 1 .. n, g[s].next # NULL
      PROVE  /\ g[s].next \in 1 .. n /\ g[s].next # a
             /\ \A z \in 1 .. n : g[z].next = g[s].next => z = s
  <2>1. s \in Slots /\ conn[s].next \in Slots
    BY <1>3, <1>4, <1>6 DEF IInv, Types, ConnType
  <2> QED BY <1>3, <1>4, <1>6, <2>1 DEF CInv, Linked
<1>7. /\ f[n] = NULL
      /\ \A k \in 0 .. n : f[k] # NULL =>
           f[k] = a \/ \E s \in 1 .. n : f[k] = g[s].next
  <2>1. \A s \in 1 .. n : g[s].next # NULL =>
          /\ g[s].next \in 1 .. n /\ g[s].next # a
          /\ \A z \in 1 .. n : g[z].next = g[s].next => z = s
    BY <1>6, SMTT(30)
  <2>2. n \in Nat /\ Follows(f, n, a, g)
    BY <1>4, SMTT(30)
  <2> HIDE <1>3, <1>6
  <2> QED BY <1>5, <2>1, <2>2, ListEnds, SMTT(30)
<1>8. ASSUME NEW k \in 0 .. n, f[k] # NULL PROVE Retired(f[k])
  <2>1. PICK x : x = f[k]
    OBVIOUS
  <2>2. x = closed \/ \E s \in Slots : x = conn[s].next
    BY <1>3, <1>4, <1>7, <1>8, <2>1
  <2>3. Retired(x)
    BY <1>8, <2>1, <2>2 DEF CInv, Linked
  <2> QED BY <2>1, <2>3
<1>9. ASSUME NEW k \in 0 .. n, f[k] # NULL
      PROVE  conn[f[k]].client = NULL /\ conn[f[k]].cs \in Done
  BY <1>8, <1>9 DEF Retired, Done
<1> QED BY <1>3, <1>7, <1>9 DEF ClosedListSound

(***************************************************************************)
(* ClosedListSound holds on every calm network: ConnectionState_rest_close *)
(* never puts a state on the closed list that is on it already, so the     *)
(* list ends, and Hub_new_or_reuse_conn takes only states from it whose    *)
(* close has ended.                                                        *)
(***************************************************************************)
THEOREM CalmClosedList ==
  ASSUME Calm
  PROVE  Spec => []ClosedListSound
<1>1. IInv /\ CInv => ClosedListSound
  BY LinkedIsSound, SMTT(30)
<1> QED BY <1>1, CalmHolds, InvariantHolds, PTL
=============================================================================
