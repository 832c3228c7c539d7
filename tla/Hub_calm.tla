------------------------------ MODULE Hub_calm ------------------------------
(***************************************************************************)
(* The hub on a calm network: the steps of a writer, the close of a        *)
(* connection from half_close to Hub_close, the start of a writer and the  *)
(* scheduler keep the invariant CInv of Hub_steps.                         *)
(***************************************************************************)
EXTENDS Hub_steps

(* Most leaves are for Zenon; the others name the prover they need.        *)
USE ZenonT(30)

-----------------------------------------------------------------------------
(***************************************************************************)
(* The writer.                                                             *)
(***************************************************************************)

(* What a writer that runs can rely on.                                    *)
LEMMA WriterHere ==
  ASSUME IInv, CInv, NEW c \in Conns, running = Writer(c), WS(c) \notin {"none", "w_done"}
  PROVE  /\ Good(c) /\ InUse(c) /\ RS(c) \in Rests
         /\ Writer(c) \in Workers /\ Writer(c) \in Tasks /\ Writer(c)[2] = c
         /\ Ground(Writer(c)) /\ slot[c] \in Slots /\ K(c) \in ConnType
         /\ Of(Writer(c)) = slot[c] /\ State(Writer(c)) = K(c)
<1>1. /\ Writer(c) \in Workers /\ Writer(c) \in Tasks /\ Writer(c)[2] = c
      /\ Writer(c) # Reader(c)
  BY TaskFacts
<1>2. Ground(Writer(c))
  <2>1. pc[Writer(c)] \in WriterLabels
    BY DEF IInv, Births
  <2>2. pc[Writer(c)] # "r_new"
    BY <2>1, SMTT(30) DEF WriterLabels
  <2> QED BY <1>1, <2>2, Grounds DEF WS, Spot
<1>3. Of(Writer(c)) = slot[c] /\ State(Writer(c)) = K(c)
  BY <1>1 DEF Of, State, K
<1>4. slot[c] \in Slots /\ K(c) \in ConnType /\ slot[c] # NULL
  BY <1>2, <1>3, NullFacts DEF Ground, K
<1>5. InUse(c)
  BY <1>4 DEF InUse
<1>6. Good(c)
  BY <1>5 DEF CInv
<1>7. RS(c) \in Rests
  BY <1>1, <1>6 DEF Good, Turn, RS
<1> QED BY <1>1, <1>2, <1>3, <1>4, <1>5, <1>6, <1>7

(* The writer finds its queue alive, or dead while the reader logs out.    *)
LEMMA WriterQueue ==
  ASSUME IInv, CInv, NEW c \in Conns, running = Writer(c), WS(c) \in {"w_dequeue", "w_woken"}
  PROVE  /\ K(c).member = c /\ c # NULL
         /\ \/ K(c).cs = "Idle" /\ mem[c] = "live"
            \/ K(c).cs = "Closing" /\ RS(c) = "logout" /\ mem[c] = "dead"
<1>1. Good(c) /\ RS(c) \in Rests /\ slot[c] \in Slots /\ c # NULL /\ Reader(c) \in Tasks
  BY WriterHere, NullFacts, TaskFacts
<1> USE <1>1
<1>2. \/ K(c).cs = "Idle" /\ K(c).client = c /\ K(c).member = c
      \/ K(c).cs = "Closing" /\ RS(c) = "logout" /\ K(c).member = c /\ local[Reader(c)] = c
  BY DEF Good, Together, Owns, Uses, Rests
<1>3. K(c).client = c /\ K(c).member = c => mem[c] = "live"
  BY DEF IInv, MembersLive, K
<1>4. RS(c) = "logout" => Pending(Reader(c), "logout")
  <2>1. pc[Reader(c)] \in ReaderLabels
    BY DEF IInv, Births
  <2> QED BY <2>1, SMTT(30) DEF RS, Spot, Pending, ReaderLabels
<1>5. RS(c) = "logout" /\ local[Reader(c)] = c => mem[c] = "dead"
  BY <1>4 DEF IInv, LogoutsApart
<1> QED BY <1>2, <1>3, <1>5

(* The writer takes a message or waits for one.                            *)
LEMMA dequeue_msgCalm ==
  ASSUME IInv, IInv', CInv, Calm, NEW c \in Conns, ConnectionState_dequeue_msg(Writer(c))
  PROVE  CInv'
<1> DEFINE t == Writer(c)
<1> USE DEF At, lists, objects, sched, inputs
<1>1. running = t /\ acts[t] = <<>> /\ pc[t] = "w_dequeue" /\ WS(c) = "w_dequeue"
  BY DEF ConnectionState_dequeue_msg, WS, Spot
<1> USE <1>1
<1>2. /\ Good(c) /\ InUse(c) /\ RS(c) \in Rests /\ t \in Workers /\ t \in Tasks /\ t[2] = c
      /\ Ground(t) /\ slot[c] \in Slots /\ K(c) \in ConnType
      /\ Of(t) = slot[c] /\ State(t) = K(c)
  BY WriterHere
<1> USE <1>2
<1>3. /\ K(c).member = c /\ c # NULL
      /\ \/ K(c).cs = "Idle" /\ mem[c] = "live"
         \/ K(c).cs = "Closing" /\ RS(c) = "logout" /\ mem[c] = "dead"
  BY WriterQueue, SMTT(30)
<1> USE <1>3
<1>4. /\ UNCHANGED <<lists, open, objects, acts, slot, ready, polling, inputs, fault>>
      /\ \/ /\ K(c).cs = "Idle" /\ pc' = [pc EXCEPT ![t] = "w_woken"]
            /\ local' = [local EXCEPT ![t] = c] /\ conn' = conn /\ running' = NULL
         \/ /\ K(c).cs = "Idle" /\ pc' = [pc EXCEPT ![t] = "w_lock"]
            /\ conn' = [conn EXCEPT ![slot[c]].send = c] /\ UNCHANGED <<local, running>>
         \/ /\ K(c).cs = "Closing" /\ pc' = [pc EXCEPT ![t] = "w_close"]
            /\ conn' = [conn EXCEPT ![slot[c]].send = NULL] /\ UNCHANGED <<local, running>>
  BY SMTT(30) DEF ConnectionState_dequeue_msg, Goto, Block, Done
<1> USE <1>4
<1>a. local'[Reader(c)] = local[Reader(c)]
  BY TaskFacts DEF Ground
<1>6. PICK k, p, r :
        /\ r = RS(c) /\ pc'[t] = p /\ running' \in {t, NULL}
        /\ \/ /\ p = "w_woken" /\ K(c).cs = "Idle" /\ local'[t] = c
              /\ k = K(c) /\ conn' = conn /\ K(c).send = NULL
           \/ /\ p = "w_lock" /\ K(c).cs = "Idle" /\ k = [K(c) EXCEPT !.send = c]
              /\ conn' = [conn EXCEPT ![slot[c]].send = c] /\ running' = t
           \/ /\ p = "w_close" /\ K(c).cs = "Closing" /\ k = [K(c) EXCEPT !.send = NULL]
              /\ conn' = [conn EXCEPT ![slot[c]].send = NULL] /\ running' = t
  <2>1. K(c).send = NULL
    BY SMTT(30) DEF Good, Moving, Carries
  <2> QED BY <2>1 DEF Ground
<1> USE <1>6
<1>7. /\ conn'[slot[c]] = k /\ \A s \in Slots : s # slot[c] => conn'[s] = conn[s]
      /\ Differs(k, K(c), {"send"}) /\ (k.send = IF p = "w_lock" THEN c ELSE NULL)
  BY DEF Ground, K, Differs, ConnType
<1> USE <1>7
<1>8. Goes(t, k, p)
  BY DEF Goes, Yields, Ground, Spot, Rests
<1>9. /\ Together(k.cs, r, p) /\ Owns(c, k, r, p)
      /\ Moving(c, k, r, p) /\ Locks(c, k, r, p)
  BY SMTT(30)
     DEF Good, Together, Owns, Moving, Locks, Differs, Rests, RIdle, WIdle, Serving, Carries,
         RHolds, WHolds
<1>10. WLands(c, k.cs, p)' /\ Uses(c, k, r, p)'
  BY <1>a, SMTT(30) DEF Good, WLands, Uses, Differs, Ground, Rests, Owns
<1> QED BY <1>8, <1>9, <1>10, WriterCalm DEF Differs

(* A writer that was woken takes a message or learns that its member left. *)
LEMMA dequeue_wokenCalm ==
  ASSUME IInv, IInv', CInv, Calm, NEW c \in Conns, dequeue_woken(Writer(c))
  PROVE  CInv'
<1> DEFINE t == Writer(c)
<1> USE DEF At, lists, objects, sched, inputs
<1>1. running = t /\ acts[t] = <<>> /\ pc[t] = "w_woken" /\ WS(c) = "w_woken"
  BY DEF dequeue_woken, WS, Spot
<1> USE <1>1
<1>2. /\ Good(c) /\ InUse(c) /\ RS(c) \in Rests /\ t \in Workers /\ t \in Tasks /\ t[2] = c
      /\ Ground(t) /\ slot[c] \in Slots /\ K(c) \in ConnType
      /\ Of(t) = slot[c] /\ State(t) = K(c)
  BY WriterHere
<1> USE <1>2
<1>3. /\ K(c).member = c /\ c # NULL /\ local[t] = c
      /\ \/ K(c).cs = "Idle" /\ mem[c] = "live"
         \/ K(c).cs = "Closing" /\ RS(c) = "logout" /\ mem[c] = "dead"
  BY WriterQueue DEF Good, Uses
<1> USE <1>3
<1>4. /\ UNCHANGED <<lists, open, objects, acts, slot, sched, inputs, fault>>
      /\ local' = [local EXCEPT ![t] = NULL]
      /\ \/ /\ K(c).cs = "Idle" /\ pc' = [pc EXCEPT ![t] = "w_lock"]
            /\ conn' = [conn EXCEPT ![slot[c]].send = c]
         \/ /\ pc' = [pc EXCEPT ![t] = "w_close"]
            /\ conn' = [conn EXCEPT ![slot[c]].send = NULL]
  BY SMTT(30) DEF dequeue_woken, Goto
<1> USE <1>4
<1>a. local'[Reader(c)] = local[Reader(c)]
  BY TaskFacts DEF Ground
<1>6. PICK k, p, r :
        /\ r = RS(c) /\ pc'[t] = p
        /\ \/ /\ p = "w_lock" /\ K(c).cs = "Idle" /\ k = [K(c) EXCEPT !.send = c]
              /\ conn' = [conn EXCEPT ![slot[c]].send = c]
           \/ /\ p = "w_close" /\ k = [K(c) EXCEPT !.send = NULL]
              /\ conn' = [conn EXCEPT ![slot[c]].send = NULL]
  BY DEF Ground
<1> USE <1>6
<1>7. /\ conn'[slot[c]] = k /\ \A s \in Slots : s # slot[c] => conn'[s] = conn[s]
      /\ Differs(k, K(c), {"send"}) /\ (k.send = IF p = "w_lock" THEN c ELSE NULL)
  BY DEF Ground, K, Differs, ConnType
<1> USE <1>7
<1>8. Goes(t, k, p)
  BY DEF Goes, Yields, Ground, Spot, Rests
<1>9. /\ Together(k.cs, r, p) /\ Owns(c, k, r, p)
      /\ Moving(c, k, r, p) /\ Locks(c, k, r, p)
  BY SMTT(30)
     DEF Good, Together, Owns, Moving, Locks, Differs, Rests, RIdle, WIdle, Serving, Carries,
         RHolds, WHolds
<1>10. WLands(c, k.cs, p)' /\ Uses(c, k, r, p)'
  BY <1>a, SMTT(30) DEF Good, WLands, Uses, Differs, Ground, Rests, Owns
<1> QED BY <1>8, <1>9, <1>10, WriterCalm DEF Differs

(* The writer finds the lock free.                                         *)
LEMMA writer_lockCalm ==
  ASSUME IInv, IInv', CInv, Calm, NEW c \in Conns,
         ConnectionState_lock(Writer(c), "w_lock", "w_locked")
  PROVE  CInv'
<1> DEFINE t == Writer(c)
<1> USE DEF At, lists, objects, sched, inputs
<1>1. running = t /\ acts[t] = <<>> /\ pc[t] = "w_lock" /\ WS(c) = "w_lock"
  BY DEF ConnectionState_lock, WS, Spot
<1> USE <1>1
<1>2. /\ Good(c) /\ InUse(c) /\ RS(c) \in Rests /\ t \in Workers /\ t \in Tasks /\ t[2] = c
      /\ Ground(t) /\ slot[c] \in Slots /\ K(c) \in ConnType
      /\ Of(t) = slot[c] /\ State(t) = K(c)
  BY WriterHere
<1> USE <1>2
<1>3. K(c).cs = "Idle" /\ K(c).owner = NULL
  BY DEF Good, Together, Locks, RHolds, WHolds, Rests, WIdle
<1> USE <1>3
<1>4. /\ pc' = [pc EXCEPT ![t] = "w_locked"] /\ conn' = [conn EXCEPT ![slot[c]].owner = t]
      /\ UNCHANGED <<lists, open, objects, acts, slot, local, sched, inputs, fault>>
  BY DEF ConnectionState_lock, Goto
<1> USE <1>4
<1>6. PICK k, r : k = [K(c) EXCEPT !.owner = t] /\ r = RS(c)
  OBVIOUS
<1> USE <1>6
<1>7. /\ conn'[slot[c]] = k /\ \A s \in Slots : s # slot[c] => conn'[s] = conn[s]
      /\ Differs(k, K(c), {"owner"}) /\ k.owner = t
  BY DEF Ground, K, Differs, ConnType
<1> USE <1>7
<1>8. Goes(t, k, "w_locked")
  BY DEF Goes, Yields, Ground, Spot, Rests
<1>9. /\ Together(k.cs, r, "w_locked") /\ Owns(c, k, r, "w_locked")
      /\ Moving(c, k, r, "w_locked") /\ Locks(c, k, r, "w_locked")
  BY SMTT(30)
     DEF Good, Together, Owns, Moving, Locks, Differs, Rests, RIdle, WIdle, Serving, Carries,
         RHolds, WHolds
<1>10. WLands(c, k.cs, "w_locked")' /\ Uses(c, k, r, "w_locked")'
  BY SMTT(30) DEF Good, WLands, Uses, Differs, Ground, Rests, Owns
<1> QED BY <1>8, <1>9, <1>10, WriterCalm DEF Differs

(* It gives the lock back to nobody.                                       *)
LEMMA writer_unlockCalm ==
  ASSUME IInv, IInv', CInv, Calm, NEW c \in Conns,
         ConnectionState_unlock(Writer(c), "w_unlock", "w_dequeue")
  PROVE  CInv'
<1> DEFINE t == Writer(c)
<1> USE DEF At, lists, objects, sched, inputs
<1>1. running = t /\ acts[t] = <<>> /\ pc[t] = "w_unlock" /\ WS(c) = "w_unlock"
  BY DEF ConnectionState_unlock, WS, Spot
<1>2. /\ Good(c) /\ InUse(c) /\ RS(c) \in Rests /\ t \in Workers /\ t \in Tasks /\ t[2] = c
      /\ Ground(t) /\ slot[c] \in Slots /\ K(c) \in ConnType
      /\ Of(t) = slot[c] /\ State(t) = K(c)
  BY <1>1, WriterHere
<1> USE <1>2
<1>3. /\ K(c).cs = "Idle" /\ K(c).owner = t /\ t # NULL /\ K(c).waiting = <<>>
      /\ ready \o <<>> = ready
  <2>1. ready \o <<>> = ready
    BY SMTT(30) DEF IInv, Types
  <2>2. K(c).cs = "Idle"
    <3>1. Together(K(c).cs, RS(c), "w_unlock")
      BY <1>1 DEF Good
    <3> QED BY <3>1, SMTT(30) DEF Together, WIdle
  <2>3. K(c).owner = t /\ K(c).waiting = <<>>
    BY <1>1 DEF Good, Locks, WHolds
  <2> QED BY <2>1, <2>2, <2>3, NullFacts
<1> USE <1>3
<1>4. /\ pc' = [pc EXCEPT ![t] = "w_dequeue"] /\ conn' = [conn EXCEPT ![slot[c]].owner = NULL]
      /\ running' = NULL /\ ready' = Append(ready, t)
      /\ UNCHANGED <<lists, open, objects, acts, slot, local, polling, inputs, fault>>
  BY DEF ConnectionState_unlock, Goto, Yield
<1> USE <1>4
<1>6. PICK k, r : k = [K(c) EXCEPT !.owner = NULL] /\ r = RS(c)
  OBVIOUS
<1> USE <1>6
<1>7. /\ conn'[slot[c]] = k /\ \A s \in Slots : s # slot[c] => conn'[s] = conn[s]
      /\ Differs(k, K(c), {"owner"}) /\ k.owner = NULL
  BY DEF Ground, K, Differs, ConnType
<1> USE <1>7
<1>8. Goes(t, k, "w_dequeue")
  BY <1>1 DEF Goes, Yields, Ground, Spot, Rests
<1>9. /\ Together(k.cs, r, "w_dequeue") /\ Owns(c, k, r, "w_dequeue")
      /\ Moving(c, k, r, "w_dequeue") /\ Locks(c, k, r, "w_dequeue")
  BY <1>1, SMTT(30)
     DEF Good, Together, Owns, Moving, Locks, Differs, Rests, RIdle, WIdle, Serving, Carries,
         RHolds, WHolds
<1>10. WLands(c, k.cs, "w_dequeue")' /\ Uses(c, k, r, "w_dequeue")'
  BY <1>1, SMTT(30) DEF Good, WLands, Uses, Differs, Ground, Rests, Owns
<1> QED BY <1>1, <1>8, <1>9, <1>10, WriterCalm DEF Differs

(* The writer starts to send.                                              *)
LEMMA send_msgCalm ==
  ASSUME IInv, IInv', CInv, Calm, NEW c \in Conns, ConnectionState_send_msg(Writer(c))
  PROVE  CInv'
<1> DEFINE t == Writer(c)
<1> USE DEF At, lists, objects, sched, inputs
<1>1. running = t /\ acts[t] = <<>> /\ pc[t] = "w_queued" /\ WS(c) = "w_queued"
  BY DEF ConnectionState_send_msg, WS, Spot
<1> USE <1>1
<1>2. /\ Good(c) /\ InUse(c) /\ RS(c) \in Rests /\ t \in Workers /\ t \in Tasks /\ t[2] = c
      /\ Ground(t) /\ slot[c] \in Slots /\ K(c) \in ConnType
      /\ Of(t) = slot[c] /\ State(t) = K(c)
  BY WriterHere
<1> USE <1>2
<1>3. K(c).cs = "Sending" /\ K(c).member = c /\ K(c).send = c /\ c # NULL
  BY NullFacts DEF Good, Together, Owns, Moving, Carries, WIdle
<1> USE <1>3
<1>4. /\ pc' = [pc EXCEPT ![t] = "w_sending"] /\ local' = [local EXCEPT ![t] = c]
      /\ UNCHANGED <<conn, lists, open, objects, acts, slot, sched, inputs, fault>>
  BY DEF Calm, ConnectionState_send_msg, ExecReturnedZero, Goto, Done
<1> USE <1>4
<1>a. local'[Reader(c)] = local[Reader(c)] /\ local'[t] = c
  BY TaskFacts DEF Ground
<1>6. PICK k, r : k = K(c) /\ r = RS(c)
  OBVIOUS
<1> USE <1>6
<1>7. /\ conn'[slot[c]] = k /\ \A s \in Slots : s # slot[c] => conn'[s] = conn[s]
      /\ Differs(k, K(c), {})
  BY DEF Ground, K, Differs, ConnType
<1> USE <1>7
<1>8. Goes(t, k, "w_sending")
  BY DEF Goes, Yields, Ground, Spot, Rests
<1>9. /\ Together(k.cs, r, "w_sending") /\ Owns(c, k, r, "w_sending")
      /\ Moving(c, k, r, "w_sending") /\ Locks(c, k, r, "w_sending")
  BY DEF Good, Together, Owns, Moving, Locks, Differs, Rests, RIdle, WIdle, Serving, Carries,
         RHolds, WHolds
<1>10. WLands(c, k.cs, "w_sending")' /\ Uses(c, k, r, "w_sending")'
  BY <1>a DEF Good, WLands, Uses, Differs, Ground, Rests, Owns
<1> QED BY <1>8, <1>9, <1>10, WriterCalm DEF Differs

(* The message is sent, or the send fails; either way the writer keeps the *)
(* processor.                                                              *)
LEMMA Peer_sendCalm ==
  ASSUME IInv, IInv', CInv, Calm, NEW c \in Conns, Peer_send(Writer(c))
  PROVE  CInv'
<1> DEFINE t == Writer(c)
<1> USE DEF At, lists, objects, sched, inputs
<1>1. running = t /\ acts[t] = <<>> /\ pc[t] = "w_sending" /\ WS(c) = "w_sending"
  BY DEF Peer_send, WS, Spot
<1> USE <1>1
<1>2. /\ Good(c) /\ InUse(c) /\ RS(c) \in Rests /\ t \in Workers /\ t \in Tasks /\ t[2] = c
      /\ Ground(t) /\ slot[c] \in Slots /\ K(c) \in ConnType
      /\ Of(t) = slot[c] /\ State(t) = K(c)
  BY WriterHere
<1> USE <1>2
<1>3. K(c).cs = "Sending" /\ local[t] = c /\ peer[c] = "live"
  BY DEF Good, Together, Uses, WIdle, Rests
<1> USE <1>3
<1>4. /\ local' = [local EXCEPT ![t] = NULL]
      /\ pc' = [pc EXCEPT ![t] = "w_sent"] \/ pc' = [pc EXCEPT ![t] = "w_failed"]
      /\ UNCHANGED <<conn, lists, open, objects, acts, slot, sched, inputs, fault>>
  BY DEF Peer_send, Goto
<1> USE <1>4
<1>a. local'[Reader(c)] = local[Reader(c)]
  BY TaskFacts DEF Ground
<1>6. PICK k, p, r :
        k = K(c) /\ r = RS(c) /\ pc'[t] = p /\ p \in {"w_sent", "w_failed"}
  BY DEF Ground
<1> USE <1>6
<1>7. /\ conn'[slot[c]] = k /\ \A s \in Slots : s # slot[c] => conn'[s] = conn[s]
      /\ Differs(k, K(c), {})
  BY DEF Ground, K, Differs, ConnType
<1> USE <1>7
<1>8. Goes(t, k, p)
  BY DEF Goes, Yields, Ground, Spot, Rests
<1>9. /\ Together(k.cs, r, p) /\ Owns(c, k, r, p)
      /\ Moving(c, k, r, p) /\ Locks(c, k, r, p)
  BY DEF Good, Together, Owns, Moving, Locks, Differs, Rests, RIdle, WIdle, Serving, Carries,
         RHolds, WHolds
<1>10. WLands(c, k.cs, p)' /\ Uses(c, k, r, p)'
  BY <1>a DEF Good, WLands, Uses, Differs, Ground, Rests, Owns
<1> QED BY <1>8, <1>9, <1>10, WriterCalm DEF Differs

(* sent takes the message out of the queue.                                *)
LEMMA sentCalm ==
  ASSUME IInv, IInv', CInv, Calm, NEW c \in Conns, sent(Writer(c))
  PROVE  CInv'
<1> DEFINE t == Writer(c)
<1> USE DEF Doing, lists, objects, sched, inputs
<1>1. running = t /\ acts[t] # <<>> /\ WS(c) = "sent" /\ Head(acts[t]) = "sent"
  BY DEF sent, WS, Spot
<1> USE <1>1
<1>2. /\ Good(c) /\ InUse(c) /\ RS(c) \in Rests /\ t \in Workers /\ t \in Tasks /\ t[2] = c
      /\ Ground(t) /\ slot[c] \in Slots /\ K(c) \in ConnType
      /\ Of(t) = slot[c] /\ State(t) = K(c)
  BY WriterHere
<1> USE <1>2
<1>3. K(c).cs = "Idle" /\ K(c).member = c /\ c # NULL /\ pc[t] = "w_unlock"
  BY NullFacts DEF Good, Together, Owns, WLands, WIdle, Rests
<1> USE <1>3
<1>4. /\ ActionDone(t)
      /\ UNCHANGED <<conn, lists, open, members, routed, mem, peer, pc, slot, local, sched,
                     inputs, fault>>
  BY DEF sent
<1> USE <1>4
<1>5. /\ acts'[t] # <<>> /\ Head(acts'[t]) = "clear_send"
      /\ \A u \in Tasks : u # t => acts'[u] = acts[u]
  BY DoneFacts
<1>6. PICK k, r : k = K(c) /\ r = RS(c)
  OBVIOUS
<1> USE <1>6
<1>7. /\ conn'[slot[c]] = k /\ \A s \in Slots : s # slot[c] => conn'[s] = conn[s]
      /\ Differs(k, K(c), {})
  BY DEF Ground, K, Differs, ConnType
<1> USE <1>7
<1>8. Goes(t, k, "clear_send")
  BY <1>5 DEF Goes, Yields, Ground, Spot, Rests
<1>9. /\ Together(k.cs, r, "clear_send") /\ Owns(c, k, r, "clear_send")
      /\ Moving(c, k, r, "clear_send") /\ Locks(c, k, r, "clear_send")
  BY DEF Good, Together, Owns, Moving, Locks, Differs, Rests, RIdle, WIdle, Serving, Carries,
         RHolds, WHolds
<1>10. WLands(c, k.cs, "clear_send")' /\ Uses(c, k, r, "clear_send")'
  BY <1>5 DEF Good, WLands, Uses, Differs, Ground, Rests, Owns
<1> QED BY <1>8, <1>9, <1>10, WriterCalm DEF Differs

(* clear_send drops the message, also when the send failed.                *)
LEMMA clear_sendCalm ==
  ASSUME IInv, IInv', CInv, Calm, NEW c \in Conns, clear_send(Writer(c))
  PROVE  CInv'
<1> DEFINE t == Writer(c)
<1> USE DEF Doing, lists, objects, sched, inputs
<1>1. running = t /\ acts[t] # <<>> /\ WS(c) = "clear_send" /\ Head(acts[t]) = "clear_send"
  BY DEF clear_send, WS, Spot
<1> USE <1>1
<1>2. /\ Good(c) /\ InUse(c) /\ RS(c) \in Rests /\ t \in Workers /\ t \in Tasks /\ t[2] = c
      /\ Ground(t) /\ slot[c] \in Slots /\ K(c) \in ConnType
      /\ Of(t) = slot[c] /\ State(t) = K(c)
  BY WriterHere
<1> USE <1>2
<1>3. K(c).cs \in {"Idle", "Aborting"} /\ pc[t] = IF K(c).cs = "Idle" THEN "w_unlock" ELSE "w_close"
  BY DEF Good, Together, WLands, WIdle
<1> USE <1>3
<1>4. /\ ActionDone(t) /\ conn' = [conn EXCEPT ![slot[c]].send = NULL]
      /\ UNCHANGED <<lists, open, objects, pc, slot, local, sched, inputs, fault>>
  BY DEF clear_send
<1> USE <1>4
<1>5. acts'[t] = <<>> /\ \A u \in Tasks : u # t => acts'[u] = acts[u]
  BY DoneFacts
<1>6. PICK k, p, r :
        k = [K(c) EXCEPT !.send = NULL] /\ r = RS(c) /\ p = pc[t] /\ p \in {"w_unlock", "w_close"}
  OBVIOUS
<1> USE <1>6
<1>7. /\ conn'[slot[c]] = k /\ \A s \in Slots : s # slot[c] => conn'[s] = conn[s]
      /\ Differs(k, K(c), {"send"}) /\ k.send = NULL
  BY DEF Ground, K, Differs, ConnType
<1> USE <1>7
<1>8. Goes(t, k, p)
  BY <1>5 DEF Goes, Yields, Ground, Spot, Rests
<1>9. /\ Together(k.cs, r, p) /\ Owns(c, k, r, p)
      /\ Moving(c, k, r, p) /\ Locks(c, k, r, p)
  BY SMTT(30)
     DEF Good, Together, Owns, Moving, Locks, Differs, Rests, RIdle, WIdle, Serving, Carries,
         RHolds, WHolds
<1>10. WLands(c, k.cs, p)' /\ Uses(c, k, r, p)'
  BY <1>5, SMTT(30) DEF Good, WLands, Uses, Differs, Ground, Rests, Owns
<1> QED BY <1>8, <1>9, <1>10, WriterCalm DEF Differs

(* The writer ends.                                                        *)
LEMMA outgoing_exitCalm ==
  ASSUME IInv, IInv', CInv, Calm, NEW c \in Conns, outgoing_exit(Writer(c))
  PROVE  CInv'
<1> DEFINE t == Writer(c)
<1> USE DEF At, lists, objects, sched, inputs
<1>1. running = t /\ acts[t] = <<>> /\ pc[t] = "w_exit" /\ WS(c) = "w_exit"
  BY DEF outgoing_exit, WS, Spot
<1> USE <1>1
<1>2. /\ Good(c) /\ InUse(c) /\ RS(c) \in Rests /\ t \in Workers /\ t \in Tasks /\ t[2] = c
      /\ Ground(t) /\ slot[c] \in Slots /\ K(c) \in ConnType
      /\ Of(t) = slot[c] /\ State(t) = K(c)
  BY WriterHere
<1> USE <1>2
<1>3. K(c).cs = "final" \/ (K(c).cs = "Closing" /\ RS(c) # "logout")
  BY DEF Good, Together, WIdle
<1> USE <1>3
<1>4. /\ pc' = [pc EXCEPT ![t] = "w_done"] /\ running' = NULL
      /\ UNCHANGED <<conn, lists, open, objects, acts, slot, local, ready, polling, inputs, fault>>
  BY DEF outgoing_exit, Goto, Block
<1> USE <1>4
<1>6. PICK k, r : k = K(c) /\ r = RS(c)
  OBVIOUS
<1> USE <1>6
<1>7. /\ conn'[slot[c]] = k /\ \A s \in Slots : s # slot[c] => conn'[s] = conn[s]
      /\ Differs(k, K(c), {})
  BY DEF Ground, K, Differs, ConnType
<1> USE <1>7
<1>8. Goes(t, k, "w_done")
  BY DEF Goes, Yields, Ground, Spot, Rests
<1>9. /\ Together(k.cs, r, "w_done") /\ Owns(c, k, r, "w_done")
      /\ Moving(c, k, r, "w_done") /\ Locks(c, k, r, "w_done")
  BY DEF Good, Together, Owns, Moving, Locks, Differs, Rests, RIdle, WIdle, Serving, Carries,
         RHolds, WHolds
<1>10. WLands(c, k.cs, "w_done")' /\ Uses(c, k, r, "w_done")'
  BY DEF Good, WLands, Uses, Differs, Ground, Rests, Owns
<1> QED BY <1>8, <1>9, <1>10, WriterCalm DEF Differs

(* The calls of the writer; the first one leads to no action.              *)
WriterCall(l, x, to, a, n) ==
  \/ l = "w_locked" /\ x = "Idle" /\ to = "Sending" /\ a = "w_queued" /\ n = "w_queued"
  \/ l = "w_sent" /\ x = "Sending" /\ to = "Idle" /\ a = "sent" /\ n = "w_unlock"
  \/ l = "w_failed" /\ x = "Sending" /\ to = "Aborting" /\ a = "clear_send" /\ n = "w_close"
  \/ l = "w_close" /\ x \in {"Idle", "Aborting"} /\ to = "Closing" /\ a = "half_close"
       /\ n = "w_exit"
  \/ l = "w_close" /\ x = "Closing" /\ to = "final" /\ a = "rest_close" /\ n = "w_exit"

(* The events that the writer raises.                                      *)
LEMMA writer_execCalm ==
  ASSUME IInv, IInv', CInv, Calm, NEW c \in Conns, ConnectionState_exec(Writer(c))
  PROVE  CInv'
<1> DEFINE t == Writer(c)
           l == pc[t]
<1> USE DEF lists, objects, sched, inputs
<1>1. /\ running = t /\ acts[t] = <<>> /\ WS(c) = l
      /\ \E call \in ReaderCalls \cup WriterCalls : l = call[1]
  BY DEF ConnectionState_exec, At, WS, Spot
<1>2. l \in {"w_locked", "w_sent", "w_failed", "w_close"}
  <2>1. l \in WriterLabels
    BY DEF IInv, Births
  <2>2. \A call \in ReaderCalls \cup WriterCalls : call[1] \in WriterLabels =>
          call[1] \in {"w_locked", "w_sent", "w_failed", "w_close"}
    BY SMTT(30) DEF ReaderCalls, WriterCalls, WriterLabels
  <2> QED BY <1>1, <2>1, <2>2
<1>3. /\ Good(c) /\ InUse(c) /\ RS(c) \in Rests /\ t \in Workers /\ t \in Tasks /\ t[2] = c
      /\ Ground(t) /\ slot[c] \in Slots /\ K(c) \in ConnType
      /\ Of(t) = slot[c] /\ State(t) = K(c)
  BY <1>1, <1>2, WriterHere, SMTT(30)
<1>4. PICK x, to, p, n : x = K(c).cs /\ WriterCall(l, x, to, p, n)
  BY <1>1, <1>2, <1>3 DEF Good, Together, WriterCall, WIdle, Rests
<1>5. PICK e, do : /\ <<l, e, n>> \in WriterCalls /\ Leads(x, e, to, do)
                   /\ p = IF do = <<>> THEN n ELSE Head(do)
                   /\ p \in {"half_close", "rest_close"} => Tail(do) = <<>>
  <2>1. "WRITE_CLOSE" \in CloseEvents
    BY SMTT(30) DEF CloseEvents
  <2>2. /\ Leads("Idle", "WRITE_CLOSE", "Closing", <<"half_close">>)
        /\ Leads("Closing", "WRITE_CLOSE", "final", <<"rest_close">>)
        /\ Leads("Aborting", "WRITE_CLOSE", "Closing", <<"half_close">>)
    BY <2>1, CalmArrows
  <2> DEFINE Takes(e, do) ==
               /\ <<l, e, n>> \in WriterCalls /\ Leads(x, e, to, do)
               /\ p = IF do = <<>> THEN n ELSE Head(do)
               /\ p \in {"half_close", "rest_close"} => Tail(do) = <<>>
  <2> SUFFICES \E e, do : Takes(e, do)
    OBVIOUS
  <2> USE ListFacts DEF WriterCalls
  <2>3. CASE l = "w_locked"
    <3>1. x = "Idle" /\ to = "Sending" /\ p = "w_queued" /\ n = "w_queued"
      BY <1>4, <2>3, SMTT(30) DEF WriterCall
    <3>2. Takes("MSG_QUEUED", <<>>)
      BY <2>3, <3>1, CalmArrows
    <3> QED BY <3>2
  <2>4. CASE l = "w_sent"
    <3>1. x = "Sending" /\ to = "Idle" /\ p = "sent" /\ n = "w_unlock"
      BY <1>4, <2>4, SMTT(30) DEF WriterCall
    <3>2. Takes("MSG_SENT", <<"sent", "clear_send">>)
      BY <2>4, <3>1, CalmArrows
    <3> QED BY <3>2
  <2>5. CASE l = "w_failed"
    <3>1. x = "Sending" /\ to = "Aborting" /\ p = "clear_send" /\ n = "w_close"
      BY <1>4, <2>5, SMTT(30) DEF WriterCall
    <3>2. Takes("FAIL", <<"clear_send">>)
      BY <2>5, <3>1, CalmArrows
    <3> QED BY <3>2
  <2>6. CASE l = "w_close"
    <3>1. \/ x \in {"Idle", "Aborting"} /\ to = "Closing" /\ p = "half_close" /\ n = "w_exit"
          \/ x = "Closing" /\ to = "final" /\ p = "rest_close" /\ n = "w_exit"
      BY <1>4, <2>6, SMTT(30) DEF WriterCall
    <3>2. ASSUME x \in {"Idle", "Aborting"}, to = "Closing", p = "half_close", n = "w_exit"
          PROVE  Takes("WRITE_CLOSE", <<"half_close">>)
      BY <2>2, <2>6, <3>2
    <3>3. ASSUME x = "Closing", to = "final", p = "rest_close", n = "w_exit"
          PROVE  Takes("WRITE_CLOSE", <<"rest_close">>)
      BY <2>2, <2>6, <3>3
    <3> QED BY <3>1, <3>2, <3>3
  <2> QED BY <1>2, <2>3, <2>4, <2>5, <2>6
<1>6. x \notin Done
  BY <1>4, SMTT(30) DEF WriterCall, Done
<1>7. /\ pc'[t] = n /\ acts'[t] = do
      /\ conn' = [conn EXCEPT ![slot[c]].cs = to]
      /\ \A u \in Tasks : u # t => pc'[u] = pc[u] /\ acts'[u] = acts[u]
      /\ UNCHANGED <<lists, open, objects, slot, local, sched, inputs, fault>>
  <2>1. State(t).cs = x /\ <<l, e, n>> \in ReaderCalls \cup WriterCalls
    BY <1>3, <1>4, <1>5
  <2>2. Leads(State(t).cs, e, to, do) /\ State(t).cs \notin Done /\ Ground(t) /\ Of(t) = slot[c]
    BY <1>3, <1>5, <1>6, <2>1
  <2>3. /\ pc'[t] = n /\ acts'[t] = do
        /\ conn' = [conn EXCEPT ![Of(t)].cs = to]
        /\ \A u \in Tasks : u # t => pc'[u] = pc[u] /\ acts'[u] = acts[u]
        /\ UNCHANGED <<lists, open, objects, slot, local, sched, inputs, fault>>
    BY <2>1, <2>2, execFacts
  <2> QED BY <2>2, <2>3
<1>8. PICK k, r : k = [K(c) EXCEPT !.cs = to] /\ r = RS(c)
  OBVIOUS
<1> USE <1>8
<1>9. /\ conn'[slot[c]] = k /\ \A s \in Slots : s # slot[c] => conn'[s] = conn[s]
      /\ Differs(k, K(c), {"cs"}) /\ k.cs = to
  BY <1>3, <1>7 DEF Ground, K, Differs, ConnType
<1> USE <1>9
<1>10. Goes(t, k, p)
  <2>1. p # "logout" /\ p # "w_dequeue"
    BY <1>4, SMTT(30) DEF WriterCall
  <2> QED BY <1>1, <1>3, <1>5, <1>7, <2>1 DEF Goes, Yields, Spot
<1>11. Together(k.cs, r, p)
  BY <1>1, <1>3, <1>4, SMTT(30) DEF WriterCall, Good, Together, Rests, RIdle, WIdle
<1>12. Owns(c, k, r, p)
  BY <1>1, <1>3, <1>4, SMTT(30) DEF WriterCall, Good, Together, Rests, WIdle, Owns, Differs
<1>13. Moving(c, k, r, p) /\ Locks(c, k, r, p)
  BY <1>1, <1>3, <1>4, SMTT(30) DEF WriterCall, Good, Moving, Locks, Differs, Carries, WHolds
<1>14. WLands(c, k.cs, p)'
  BY <1>1, <1>4, <1>5, <1>7, SMTT(30) DEF WriterCall, WLands
<1>15. Uses(c, k, r, p)'
  BY <1>1, <1>3, <1>4, <1>5, <1>7, SMTT(30) DEF WriterCall, Good, Uses, Differs, Rests
<1>16. /\ p # "none" /\ WS(c) # "none" /\ x # "final" /\ (to = "final" => p = "rest_close")
       /\ WS(c) # "rest_close"
  BY <1>1, <1>2, <1>4, SMTT(30) DEF WriterCall
<1> QED BY <1>1, <1>4, <1>7, <1>10, <1>11, <1>12, <1>13, <1>14, <1>15, <1>16, WriterCalm
           DEF Differs

-----------------------------------------------------------------------------
(***************************************************************************)
(* A connection closes.                                                    *)
(***************************************************************************)

(* What ConnectionState_half_close does for a client c.                    *)
LEMMA half_closeFacts ==
  ASSUME NEW t, Ground(t), half_close(t), NEW c \in Conns, State(t).client = c,
         State(t).member \in {NULL, c}, Tail(acts[t]) = <<>>
  PROVE  /\ conn' = [conn EXCEPT ![Of(t)].client = NULL] /\ open' = open \ {c}
         /\ \A u \in Tasks : u # t => acts'[u] = acts[u] /\ local'[u] = local[u]
         /\ UNCHANGED <<closed, peer, pc, slot, polling, fault>>
         /\ \/ State(t).member = NULL /\ acts'[t] = <<>> /\ UNCHANGED <<local, running, ready>>
            \/ /\ State(t).member = c /\ acts'[t] = <<"logout">> /\ local'[t] = c
               /\ running' = NULL
               /\ \E q \in Woken({c}) : ready' = Append(ready \o q, t)
<1> USE DEF lists, sched
<1>1. c # NULL /\ <<"logout">> \o <<>> = <<"logout">>
  BY NullFacts, SMTT(30)
<1>2. /\ conn' = [conn EXCEPT ![Of(t)].client = NULL] /\ open' = open \ {c}
      /\ UNCHANGED <<closed, peer, pc, slot, fault>>
  BY <1>1 DEF half_close
<1>3. CASE State(t).member = NULL
  <2>1. ActionDone(t) /\ UNCHANGED <<local, sched>>
    BY <1>1, <1>3 DEF half_close
  <2> QED BY <1>2, <1>3, <2>1 DEF ActionDone, Ground
<1>4. CASE State(t).member = c
  <2>1. /\ MarkDeadAndYield(t, c) /\ local' = [local EXCEPT ![t] = c]
        /\ acts' = [acts EXCEPT ![t] = <<"logout">> \o Tail(acts[t])]
    BY <1>1, <1>4 DEF half_close
  <2>2. acts' = [acts EXCEPT ![t] = <<"logout">>]
    BY <1>1, <2>1
  <2>3. /\ acts'[t] = <<"logout">> /\ local'[t] = c
        /\ \A u \in Tasks : u # t => acts'[u] = acts[u] /\ local'[u] = local[u]
    BY <2>1, <2>2 DEF Ground
  <2>4. /\ running' = NULL /\ polling' = polling
        /\ \E q \in Woken({c}) : ready' = Append(ready \o q, t)
    BY <2>1 DEF MarkDeadAndYield, Yield
  <2> QED BY <1>2, <1>4, <2>3, <2>4
<1> QED BY <1>3, <1>4

(* The elements of a concatenation.                                        *)
LEMMA ConcatRange ==
  ASSUME NEW S, NEW a \in Seq(S), NEW b \in Seq(S)
  PROVE  \A x : x \in Range(a \o b) <=> x \in Range(a) \/ x \in Range(b)
<1>1. PICK z : z = a \o b
  OBVIOUS
<1>2. ASSUME NEW i \in DOMAIN a PROVE i \in DOMAIN z /\ z[i] = a[i]
  BY <1>1, <1>2, SMTT(30)
<1>3. ASSUME NEW i \in DOMAIN b PROVE \E j \in DOMAIN z : z[j] = b[i]
  <2>1. i + Len(a) \in DOMAIN z /\ z[i + Len(a)] = b[i]
    BY <1>1, <1>3, SMTT(30)
  <2> QED BY <2>1
<1>4. ASSUME NEW i \in DOMAIN z
      PROVE  \/ \E j \in DOMAIN a : a[j] = z[i]
             \/ \E j \in DOMAIN b : b[j] = z[i]
  <2>1. CASE i \in 1..Len(a)
    <3>1. i \in DOMAIN a /\ a[i] = z[i]
      BY <1>1, <2>1, SMTT(30)
    <3> QED BY <3>1
  <2>2. CASE i \notin 1..Len(a)
    <3>1. i - Len(a) \in DOMAIN b /\ z[i] = b[i - Len(a)]
      BY <1>1, <1>4, <2>2, SMTT(30)
    <3> QED BY <3>1
  <2> QED BY <2>1, <2>2
<1>5. ASSUME NEW x, x \in Range(z) PROVE x \in Range(a) \/ x \in Range(b)
  BY <1>4, <1>5 DEF Range
<1>6. ASSUME NEW x, x \in Range(a) PROVE x \in Range(z)
  BY <1>2, <1>6 DEF Range
<1>7. ASSUME NEW x, x \in Range(b) PROVE x \in Range(z)
  BY <1>3, <1>7 DEF Range
<1> QED BY <1>1, <1>5, <1>6, <1>7

(* A writer that waits for messages, or sleeps on the queue that the       *)
(* reader marks dead, runs before the reader does.                         *)
LEMMA WriterComesFirst ==
  ASSUME IInv, CInv, NEW c \in Conns, running = Reader(c), Good(c),
         WS(c) \in {"w_dequeue", "w_woken"}, running' = NULL,
         NEW q \in Woken({c}), ready' = Append(ready \o q, Reader(c))
  PROVE  Before(Writer(c), Reader(c))'
<1> DEFINE R == Reader(c)
           W == Writer(c)
<1>1. /\ R \in Tasks /\ R # NULL /\ W # R /\ R \notin {Writer(d) : d \in Conns}
      /\ ready \in Seq(Tasks) /\ R \notin Range(ready)
  <2>1. R \in Tasks /\ R # NULL /\ W # R /\ R \notin {Writer(d) : d \in Conns}
    BY TaskFacts, NullFacts, SMTT(30)
  <2> QED BY <2>1 DEF IInv, Types, CInv, Queued
<1>2. q \in Seq(Tasks) /\ Range(q) = {Writer(d) : d \in Sleepers({c})}
  <2>1. q \in Seq(Workers)
    BY WokenFacts
  <2>2. q \in Seq(Tasks)
    BY <2>1, TaskFacts, SMTT(30)
  <2> QED BY <2>2 DEF Woken
<1>3. R \notin Range(q)
  BY <1>1, <1>2 DEF Sleepers
<1>4. W \in Range(ready) \/ W \in Range(q)
  <2>1. CASE WS(c) = "w_dequeue"
    BY <1>1, <2>1 DEF Good, Turn, WS
  <2>2. CASE WS(c) = "w_woken"
    <3>1. acts[W] # <<>> => Head(acts[W]) \in Actions
      BY TaskFacts DEF IInv, Fits, Proper
    <3>2. pc[W] = "w_woken"
      BY <2>2, <3>1, SMTT(30) DEF WS, Spot, Actions
    <3>3. local[W] \in {c}
      BY <2>2 DEF Good, Uses
    <3> QED BY <1>1, <1>2, <3>2, <3>3 DEF Sleepers, Blocked
  <2> QED BY <2>1, <2>2
<1>5. /\ \A i \in DOMAIN ready' : i # Len(ready) + Len(q) + 1 =>
           i \in DOMAIN (ready \o q) /\ ready'[i] = (ready \o q)[i]
                                     /\ i < Len(ready) + Len(q) + 1
      /\ \A i \in DOMAIN (ready \o q) : i \in DOMAIN ready' /\ ready'[i] = (ready \o q)[i]
                                     /\ i < Len(ready) + Len(q) + 1
  BY <1>1, <1>2, SMTT(30)
<1>6. \A x : x \in Range(ready \o q) <=> x \in Range(ready) \/ x \in Range(q)
  BY <1>1, <1>2, ConcatRange
<1>7. R \notin Range(ready \o q) /\ W \in Range(ready \o q)
  BY <1>1, <1>3, <1>4, <1>6
<1>8. \A i \in DOMAIN ready' : ready'[i] = R => \E j \in DOMAIN ready' : j < i /\ ready'[j] = W
  BY <1>5, <1>7 DEF Range
<1> QED BY <1>1, <1>8 DEF Before

(* The reader begins to close: it forgets the client, and yields in        *)
(* Member_logout if it has a member.                                       *)
LEMMA ReaderHalfCloses ==
  ASSUME IInv, IInv', CInv, Calm, NEW c \in Conns, half_close(Reader(c))
  PROVE  CInv'
<1> DEFINE t == Reader(c)
           W == Writer(c)
<1>1. running = t /\ acts[t] # <<>> /\ RS(c) = "half_close" /\ Head(acts[t]) = "half_close"
  BY DEF half_close, Doing, RS, Spot
<1>2. /\ Good(c) /\ InUse(c) /\ WS(c) \in Rests /\ t \in Workers /\ t \in Tasks /\ t[2] = c
      /\ Ground(t) /\ slot[c] \in Slots /\ K(c) \in ConnType
      /\ Of(t) = slot[c] /\ State(t) = K(c)
  BY <1>1, ReaderHere
<1>3. /\ K(c).cs = "Closing" /\ K(c).client = c /\ K(c).member \in {NULL, c}
      /\ WS(c) \in {"none", "w_dequeue", "w_woken"} /\ Tail(acts[t]) = <<>>
      /\ K(c).member = NULL => WS(c) = "none"
      /\ pc[t] = IF WS(c) = "none" THEN "r_loop" ELSE "r_hub_close"
      /\ K(c).peer = c /\ peer[c] = "live"
  BY <1>1, <1>2, NullFacts DEF Good, Together, RIdle, Owns, Uses, RLands, Rests
<1>4. /\ conn' = [conn EXCEPT ![slot[c]].client = NULL] /\ open' = open \ {c}
      /\ \A u \in Tasks : u # t => acts'[u] = acts[u] /\ local'[u] = local[u]
      /\ UNCHANGED <<closed, peer, pc, slot, polling, fault>>
      /\ \/ K(c).member = NULL /\ acts'[t] = <<>> /\ UNCHANGED <<local, running, ready>>
         \/ /\ K(c).member = c /\ acts'[t] = <<"logout">> /\ local'[t] = c
            /\ running' = NULL
            /\ \E q \in Woken({c}) : ready' = Append(ready \o q, t)
  <2>1. State(t).client = c /\ State(t).member \in {NULL, c}
    BY <1>2, <1>3
  <2>2. /\ conn' = [conn EXCEPT ![Of(t)].client = NULL] /\ open' = open \ {c}
        /\ \A u \in Tasks : u # t => acts'[u] = acts[u] /\ local'[u] = local[u]
        /\ UNCHANGED <<closed, peer, pc, slot, polling, fault>>
        /\ \/ State(t).member = NULL /\ acts'[t] = <<>> /\ UNCHANGED <<local, running, ready>>
           \/ /\ State(t).member = c /\ acts'[t] = <<"logout">> /\ local'[t] = c
              /\ running' = NULL
              /\ \E q \in Woken({c}) : ready' = Append(ready \o q, t)
    BY <1>2, <1>3, <2>1, half_closeFacts
  <2> QED BY <1>2, <2>2
<1> USE <1>4
<1>5. PICK k, w : k = [K(c) EXCEPT !.client = NULL] /\ w = WS(c)
  OBVIOUS
<1>6. conn'[slot[c]] = k /\ \A s \in Slots : s # slot[c] => conn'[s] = conn[s]
  BY <1>2, <1>5 DEF Ground, K
<1>7. Differs(k, K(c), {"client"}) /\ k.client = NULL
  BY <1>2, <1>5 DEF Differs, ConnType
<1>8. /\ <<"logout">> # <<>> /\ Head(<<"logout">>) = "logout"
      /\ Tail(<<"logout">>) = <<>> /\ W \in Tasks /\ W # t
  BY TaskFacts, SMTT(30)
<1>9. local'[W] = local[W] /\ c \notin open' /\ open' \subseteq open
  BY <1>8
<1>10. CASE K(c).member = NULL
  <2>1. w = "none" /\ acts'[t] = <<>> /\ UNCHANGED <<running, ready>> /\ pc[t] = "r_loop"
    BY <1>3, <1>5, <1>10, NullFacts
  <2>2. Goes(t, k, "r_loop")
    BY <1>1, <1>2, <1>3, <1>6, <1>9, <2>1 DEF Goes, Spot, Rests
  <2>3. /\ Together(k.cs, "r_loop", w) /\ Owns(c, k, "r_loop", w)
        /\ Moving(c, k, "r_loop", w) /\ Locks(c, k, "r_loop", w)
    BY <1>1, <1>2, <1>3, <1>5, <1>7, <2>1, NullFacts, SMTT(30)
       DEF Good, Together, Owns, Moving, Serving, Carries, Locks, RHolds, WHolds, Differs
  <2>4. RLands(c, "r_loop", w)' /\ Uses(c, k, "r_loop", w)'
    BY <1>3, <1>7, <1>9, <2>1, SMTT(30) DEF RLands, Uses, Differs
  <2> QED BY <1>1, <1>3, <1>5, <1>7, <2>2, <2>3, <2>4, ReaderCalm DEF Differs
<1>11. CASE K(c).member = c
  <2>1. PICK q \in Woken({c}) : ready' = Append(ready \o q, t)
    BY <1>11, NullFacts
  <2>2. acts'[t] = <<"logout">> /\ local'[t] = c /\ running' = NULL
    BY <1>11, NullFacts
  <2>3. Spot(t)' = "logout" /\ Tail(acts'[t]) = <<>>
    BY <1>8, <2>2 DEF Spot
  <2>4. Goes(t, k, "logout")
    <3>1. Yields(t)
      BY <2>1, <2>2 DEF Yields
    <3> QED BY <1>1, <1>2, <1>6, <1>9, <2>2, <2>3, <3>1 DEF Goes, Rests
  <2>5. w # "none" => Before(W, t)'
    BY <1>1, <1>2, <1>3, <1>5, <2>1, <2>2, WriterComesFirst
  <2>6. /\ Together(k.cs, "logout", w) /\ Owns(c, k, "logout", w)
        /\ Moving(c, k, "logout", w) /\ Locks(c, k, "logout", w)
    BY <1>1, <1>2, <1>3, <1>5, <1>7, <1>11, SMTT(30)
       DEF Good, Together, Owns, Moving, Serving, Carries, Locks, RHolds, WHolds, Differs
  <2>7. RLands(c, "logout", w)' /\ Uses(c, k, "logout", w)'
    BY <1>2, <1>3, <1>5, <1>7, <1>9, <2>2, <2>3, SMTT(30) DEF Good, RLands, Uses, Differs
  <2> QED BY <1>1, <1>3, <1>5, <1>7, <2>4, <2>5, <2>6, <2>7, ReaderCalm DEF Differs
<1> QED BY <1>3, <1>10, <1>11

(* The writer does the same.                                               *)
LEMMA WriterHalfCloses ==
  ASSUME IInv, IInv', CInv, Calm, NEW c \in Conns, half_close(Writer(c))
  PROVE  CInv'
<1> DEFINE t == Writer(c)
           R == Reader(c)
<1>1. running = t /\ acts[t] # <<>> /\ WS(c) = "half_close" /\ Head(acts[t]) = "half_close"
  BY DEF half_close, Doing, WS, Spot
<1>2. /\ Good(c) /\ InUse(c) /\ RS(c) \in Rests /\ t \in Workers /\ t \in Tasks /\ t[2] = c
      /\ Ground(t) /\ slot[c] \in Slots /\ K(c) \in ConnType
      /\ Of(t) = slot[c] /\ State(t) = K(c)
  BY <1>1, WriterHere
<1>3. /\ K(c).cs = "Closing" /\ K(c).client = c /\ K(c).member \in {NULL, c}
      /\ RS(c) \in {"r_read", "r_loop"} /\ Tail(acts[t]) = <<>> /\ pc[t] = "w_exit"
      /\ K(c).peer = c /\ peer[c] = "live"
  BY <1>1, <1>2, NullFacts DEF Good, Together, WIdle, Owns, Uses, WLands, Rests
<1>4. /\ conn' = [conn EXCEPT ![slot[c]].client = NULL] /\ open' = open \ {c}
      /\ \A u \in Tasks : u # t => acts'[u] = acts[u] /\ local'[u] = local[u]
      /\ UNCHANGED <<closed, peer, pc, slot, polling, fault>>
      /\ \/ K(c).member = NULL /\ acts'[t] = <<>> /\ UNCHANGED <<local, running, ready>>
         \/ /\ K(c).member = c /\ acts'[t] = <<"logout">> /\ local'[t] = c
            /\ running' = NULL
            /\ \E q \in Woken({c}) : ready' = Append(ready \o q, t)
  <2>1. State(t).client = c /\ State(t).member \in {NULL, c}
    BY <1>2, <1>3
  <2>2. /\ conn' = [conn EXCEPT ![Of(t)].client = NULL] /\ open' = open \ {c}
        /\ \A u \in Tasks : u # t => acts'[u] = acts[u] /\ local'[u] = local[u]
        /\ UNCHANGED <<closed, peer, pc, slot, polling, fault>>
        /\ \/ State(t).member = NULL /\ acts'[t] = <<>> /\ UNCHANGED <<local, running, ready>>
           \/ /\ State(t).member = c /\ acts'[t] = <<"logout">> /\ local'[t] = c
              /\ running' = NULL
              /\ \E q \in Woken({c}) : ready' = Append(ready \o q, t)
    BY <1>2, <1>3, <2>1, half_closeFacts
  <2> QED BY <1>2, <2>2
<1> USE <1>4
<1>5. PICK k, r : k = [K(c) EXCEPT !.client = NULL] /\ r = RS(c)
  OBVIOUS
<1>6. conn'[slot[c]] = k /\ \A s \in Slots : s # slot[c] => conn'[s] = conn[s]
  BY <1>2, <1>5 DEF Ground, K
<1>7. Differs(k, K(c), {"client"}) /\ k.client = NULL
  BY <1>2, <1>5 DEF Differs, ConnType
<1>8. /\ <<"logout">> # <<>> /\ Head(<<"logout">>) = "logout"
      /\ Tail(<<"logout">>) = <<>> /\ R \in Tasks /\ R # t
  BY TaskFacts, SMTT(30)
<1>9. local'[R] = local[R] /\ c \notin open' /\ open' \subseteq open
  BY <1>8
<1>10. CASE K(c).member = NULL
  <2>1. acts'[t] = <<>> /\ UNCHANGED <<running, ready>>
    BY <1>10, NullFacts
  <2>2. Goes(t, k, "w_exit")
    BY <1>1, <1>2, <1>3, <1>6, <1>9, <2>1 DEF Goes, Spot, Rests
  <2>3. /\ Together(k.cs, r, "w_exit") /\ Owns(c, k, r, "w_exit")
        /\ Moving(c, k, r, "w_exit") /\ Locks(c, k, r, "w_exit")
    BY <1>1, <1>2, <1>3, <1>5, <1>7, NullFacts, SMTT(30)
       DEF Good, Together, Owns, Moving, Serving, Carries, Locks, RHolds, WHolds, Differs
  <2>4. WLands(c, k.cs, "w_exit")' /\ Uses(c, k, r, "w_exit")'
    BY <1>2, <1>3, <1>5, <1>7, <1>9, SMTT(30) DEF Good, WLands, Uses, Differs
  <2> QED BY <1>1, <1>3, <1>5, <1>7, <2>2, <2>3, <2>4, WriterCalm DEF Differs
<1>11. CASE K(c).member = c
  <2>1. Yields(t) /\ running' = NULL
    BY <1>11, NullFacts DEF Yields
  <2>2. acts'[t] = <<"logout">> /\ local'[t] = c
    BY <1>11, NullFacts
  <2>3. Spot(t)' = "logout" /\ Tail(acts'[t]) = <<>>
    BY <1>8, <2>2 DEF Spot
  <2>4. Goes(t, k, "logout")
    BY <1>1, <1>2, <1>6, <1>9, <2>1, <2>3 DEF Goes, Rests
  <2>5. /\ Together(k.cs, r, "logout") /\ Owns(c, k, r, "logout")
        /\ Moving(c, k, r, "logout") /\ Locks(c, k, r, "logout")
    BY <1>1, <1>2, <1>3, <1>5, <1>7, <1>11, SMTT(30)
       DEF Good, Together, Owns, Moving, Serving, Carries, Locks, RHolds, WHolds, Differs
  <2>6. WLands(c, k.cs, "logout")' /\ Uses(c, k, r, "logout")'
    BY <1>2, <1>3, <1>5, <1>7, <1>9, <2>2, <2>3, SMTT(30) DEF Good, WLands, Uses, Differs
  <2> QED BY <1>1, <1>3, <1>5, <1>7, <2>4, <2>5, <2>6, WriterCalm DEF Differs
<1> QED BY <1>3, <1>10, <1>11

(* The reader ends Member_logout; a writer that closes as well is done.    *)
LEMMA ReaderLogsOut ==
  ASSUME IInv, IInv', CInv, Calm, NEW c \in Conns, logout(Reader(c))
  PROVE  CInv'
<1> DEFINE t == Reader(c)
<1> USE DEF Doing, lists, objects, sched, inputs
<1>1. running = t /\ acts[t] # <<>> /\ RS(c) = "logout" /\ Head(acts[t]) = "logout"
  BY DEF logout, RS, Spot
<1> USE <1>1
<1>2. /\ Good(c) /\ InUse(c) /\ WS(c) \in Rests /\ t \in Workers /\ t \in Tasks /\ t[2] = c
      /\ Ground(t) /\ slot[c] \in Slots /\ K(c) \in ConnType
      /\ Of(t) = slot[c] /\ State(t) = K(c)
  BY ReaderHere
<1> USE <1>2
<1>3. /\ (K(c).cs = "Closing" /\ WS(c) = "none") \/ (K(c).cs = "final" /\ WS(c) = "w_done")
      /\ Tail(acts[t]) = <<>> /\ K(c).client = NULL
      /\ pc[t] = IF WS(c) = "none" THEN "r_loop" ELSE "r_hub_close"
  BY DEF Good, Together, RIdle, RLands, Rests, Owns, Before
<1> USE <1>3
<1>4. /\ ActionDone(t) /\ conn' = [conn EXCEPT ![slot[c]].member = NULL]
      /\ local' = [local EXCEPT ![t] = NULL]
      /\ UNCHANGED <<lists, open, routed, peer, pc, slot, sched, inputs, fault>>
  BY DEF logout
<1> USE <1>4
<1>a. local'[Writer(c)] = local[Writer(c)]
  BY TaskFacts DEF Ground
<1>5. acts'[t] = <<>> /\ \A u \in Tasks : u # t => acts'[u] = acts[u]
  BY DoneFacts
<1>6. PICK k, p, w :
        /\ k = [K(c) EXCEPT !.member = NULL] /\ w = WS(c)
        /\ p = pc[t] /\ p \in {"r_loop", "r_hub_close"}
  OBVIOUS
<1> USE <1>6
<1>7. /\ conn'[slot[c]] = k /\ \A s \in Slots : s # slot[c] => conn'[s] = conn[s]
      /\ Differs(k, K(c), {"member"}) /\ k.member = NULL
  BY DEF Ground, K, Differs, ConnType
<1> USE <1>7
<1>8. Goes(t, k, p)
  BY <1>5 DEF Goes, Yields, Ground, Spot, Rests
<1>9. /\ Together(k.cs, p, w) /\ Owns(c, k, p, w)
      /\ Moving(c, k, p, w) /\ Locks(c, k, p, w)
  BY SMTT(30)
     DEF Good, Together, Owns, Moving, Locks, Differs, Rests, RIdle, WIdle, Serving, Carries,
         RHolds, WHolds
<1>10. RLands(c, p, w)' /\ Uses(c, k, p, w)'
  BY <1>5, <1>a, SMTT(30) DEF Good, RLands, Uses, Differs, Ground, Rests, Owns
<1> QED BY <1>8, <1>9, <1>10, ReaderCalm DEF Differs

(* The writer ends Member_logout.                                          *)
LEMMA WriterLogsOut ==
  ASSUME IInv, IInv', CInv, Calm, NEW c \in Conns, logout(Writer(c))
  PROVE  CInv'
<1> DEFINE t == Writer(c)
<1> USE DEF Doing, lists, objects, sched, inputs
<1>1. running = t /\ acts[t] # <<>> /\ WS(c) = "logout" /\ Head(acts[t]) = "logout"
  BY DEF logout, WS, Spot
<1> USE <1>1
<1>2. /\ Good(c) /\ InUse(c) /\ RS(c) \in Rests /\ t \in Workers /\ t \in Tasks /\ t[2] = c
      /\ Ground(t) /\ slot[c] \in Slots /\ K(c) \in ConnType
      /\ Of(t) = slot[c] /\ State(t) = K(c)
  BY WriterHere
<1> USE <1>2
<1>3. /\ \/ K(c).cs = "Closing" /\ RS(c) \in {"r_read", "r_loop"}
         \/ K(c).cs = "final" /\ RS(c) = "r_exit"
      /\ Tail(acts[t]) = <<>> /\ K(c).client = NULL /\ pc[t] = "w_exit"
  BY DEF Good, Together, WIdle, WLands, Rests, Owns
<1> USE <1>3
<1>4. /\ ActionDone(t) /\ conn' = [conn EXCEPT ![slot[c]].member = NULL]
      /\ local' = [local EXCEPT ![t] = NULL]
      /\ UNCHANGED <<lists, open, routed, peer, pc, slot, sched, inputs, fault>>
  BY DEF logout
<1> USE <1>4
<1>a. local'[Reader(c)] = local[Reader(c)]
  BY TaskFacts DEF Ground
<1>5. acts'[t] = <<>> /\ \A u \in Tasks : u # t => acts'[u] = acts[u]
  BY DoneFacts
<1>6. PICK k, r : k = [K(c) EXCEPT !.member = NULL] /\ r = RS(c)
  OBVIOUS
<1> USE <1>6
<1>7. /\ conn'[slot[c]] = k /\ \A s \in Slots : s # slot[c] => conn'[s] = conn[s]
      /\ Differs(k, K(c), {"member"}) /\ k.member = NULL
  BY DEF Ground, K, Differs, ConnType
<1> USE <1>7
<1>8. Goes(t, k, "w_exit")
  BY <1>5 DEF Goes, Yields, Ground, Spot, Rests
<1>9. /\ Together(k.cs, r, "w_exit") /\ Owns(c, k, r, "w_exit")
      /\ Moving(c, k, r, "w_exit") /\ Locks(c, k, r, "w_exit")
  BY SMTT(30)
     DEF Good, Together, Owns, Moving, Locks, Differs, Rests, RIdle, WIdle, Serving, Carries,
         RHolds, WHolds
<1>10. WLands(c, k.cs, "w_exit")' /\ Uses(c, k, r, "w_exit")'
  BY <1>5, <1>a, SMTT(30) DEF Good, WLands, Uses, Differs, Ground, Rests, Owns
<1> QED BY <1>8, <1>9, <1>10, WriterCalm DEF Differs

(* ConnectionState_rest_close puts the state on the closed list, which it  *)
(* is not on yet.                                                          *)
LEMMA rest_closeFacts ==
  ASSUME IInv, CInv, NEW t \in Workers, Ground(t), rest_close(t),
         State(t).cs = "final", State(t).client = NULL, State(t).send = NULL,
         State(t).recv = NULL
  PROVE  /\ conn' = [conn EXCEPT ![Of(t)].next = closed] /\ closed' = Of(t)
         /\ acts'[t] = <<>> /\ \A u \in Tasks : u # t => acts'[u] = acts[u]
         /\ UNCHANGED <<open, peer, pc, slot, local, running, ready, polling, fault>>
         /\ Linked'
<1>0. PICK s : s = Of(t)
  OBVIOUS
<1> USE DEF objects, sched
<1>1. /\ running = t /\ Pending(t, "rest_close") /\ s \in Slots /\ t \in Tasks
      /\ conn \in [Slots -> ConnType] /\ State(t) = conn[s]
  BY <1>0, TaskFacts DEF rest_close, Doing, Pending, Ground, State
<1>2. \A z : Retired(z) => z # s
  BY <1>0, <1>1 DEF Retired
<1>3. closed # s /\ \A z \in Slots : conn[z].next # s
  <2>1. s # NULL
    BY <1>1, NullFacts
  <2> QED BY <1>2, <2>1 DEF CInv, Linked
<1>4. /\ conn' = [conn EXCEPT ![s].next = closed] /\ closed' = s /\ ActionDone(t)
      /\ UNCHANGED <<open, peer, pc, slot, local, running, ready, polling, fault>>
  BY <1>0, <1>3 DEF rest_close
<1>5. acts'[t] = <<>> /\ \A u \in Tasks : u # t => acts'[u] = acts[u]
  BY <1>1, <1>4, DoneFacts DEF Pending
<1>6. /\ \A z \in Slots : z # s => conn'[z] = conn[z]
      /\ conn'[s].next = closed /\ conn'[s].cs = "final" /\ conn'[s].client = NULL
      /\ conn'[s].send = NULL /\ conn'[s].recv = NULL
  BY <1>1, <1>4 DEF ConnType
<1>7. \A u \in Workers : Of(u)' = Of(u)
  BY <1>4 DEF Of
<1>8. ASSUME NEW z \in Slots, Retired(z) PROVE Retired(z)'
  <2>1. z # s
    BY <1>2, <1>8
  <2>2. \A u \in Workers : Of(u)' = z => ~Pending(u, "rest_close")'
    BY <1>0, <1>5, <1>7, <1>8, <2>1, TaskFacts DEF Retired, Pending
  <2> QED BY <1>6, <1>8, <2>1, <2>2 DEF Retired
<1>9. Retired(s)'
  <2>1. ASSUME NEW u \in Workers PROVE ~Pending(u, "rest_close")'
    <3>1. CASE u = t
      BY <1>5, <3>1 DEF Pending
    <3>2. CASE u # t
      <4>1. Pending(u, "rest_close") => ~Pending(u, "logout")
        BY SMTT(30) DEF Pending
      <4>2. ~Pending(u, "rest_close")
        BY <1>1, <3>2, <4>1 DEF IInv, Fits, Pending
      <4> QED BY <1>5, <3>2, <4>2, TaskFacts DEF Pending
    <3> QED BY <3>1, <3>2
  <2> QED BY <1>6, <2>1 DEF Retired
<1>10. /\ \A z \in Slots : conn[z].next # NULL => conn[z].next \in Slots
       /\ closed # NULL => closed \in Slots
  BY <1>1, SMTT(30) DEF IInv, Types, ConnType
<1>11. ASSUME NEW z \in Slots, NEW n, n = conn'[z].next, n # NULL
       PROVE  Retired(n)' /\ n # s /\ \A y \in Slots : conn'[y].next = n => y = z
  <2>1. CASE z = s
    <3>1. n = closed /\ n \in Slots
      BY <1>6, <1>10, <1>11, <2>1
    <3>2. Retired(n)
      BY <1>11, <3>1 DEF CInv, Linked
    <3>3. \A y \in Slots : y # s => conn'[y].next # n
      BY <1>6, <1>11, <3>1 DEF CInv, Linked
    <3> QED BY <1>3, <1>8, <2>1, <3>1, <3>2, <3>3
  <2>2. CASE z # s
    <3>1. n = conn[z].next /\ n \in Slots
      BY <1>6, <1>10, <1>11, <2>2
    <3>2. Retired(n) /\ n # closed /\ \A y \in Slots : conn[y].next = n => y = z
      BY <1>11, <3>1 DEF CInv, Linked
    <3>3. \A y \in Slots : conn'[y].next = n => y = z
      BY <1>6, <3>2
    <3> QED BY <1>3, <1>8, <3>1, <3>2, <3>3
  <2> QED BY <2>1, <2>2
<1>12. Linked'
  BY <1>4, <1>9, <1>11, SMTT(30) DEF Linked
<1> QED BY <1>0, <1>4, <1>5, <1>12

(* The reader closes for the second time.                                  *)
LEMMA ReaderRestCloses ==
  ASSUME IInv, IInv', CInv, Calm, NEW c \in Conns, rest_close(Reader(c))
  PROVE  CInv'
<1> DEFINE t == Reader(c)
<1>1. running = t /\ acts[t] # <<>> /\ RS(c) = "rest_close" /\ Head(acts[t]) = "rest_close"
  BY DEF rest_close, Doing, RS, Spot
<1>2. /\ Good(c) /\ InUse(c) /\ WS(c) \in Rests /\ t \in Workers /\ t \in Tasks /\ t[2] = c
      /\ Ground(t) /\ slot[c] \in Slots /\ K(c) \in ConnType
      /\ Of(t) = slot[c] /\ State(t) = K(c)
  BY <1>1, ReaderHere
<1> USE <1>2
<1>3. /\ K(c).cs = "final" /\ K(c).client = NULL /\ WS(c) \in {"none", "logout", "w_done"}
      /\ pc[t] = "r_hub_close" /\ K(c).send = NULL /\ K(c).recv = NULL
  BY <1>1 DEF Good, Together, RIdle, Owns, RLands, Rests, Moving, Serving, Carries
<1>4. /\ conn' = [conn EXCEPT ![slot[c]].next = closed] /\ closed' = slot[c]
      /\ acts'[t] = <<>> /\ \A u \in Tasks : u # t => acts'[u] = acts[u]
      /\ UNCHANGED <<open, peer, pc, slot, local, running, ready, polling, fault>>
      /\ Linked'
  <2>1. /\ State(t).cs = "final" /\ State(t).client = NULL /\ State(t).send = NULL
        /\ State(t).recv = NULL
    BY <1>3
  <2>2. /\ conn' = [conn EXCEPT ![Of(t)].next = closed] /\ closed' = Of(t)
        /\ acts'[t] = <<>> /\ \A u \in Tasks : u # t => acts'[u] = acts[u]
        /\ UNCHANGED <<open, peer, pc, slot, local, running, ready, polling, fault>>
        /\ Linked'
    BY <2>1, rest_closeFacts
  <2> QED BY <2>2
<1>5. PICK k, w : k = [K(c) EXCEPT !.next = closed] /\ w = WS(c)
  OBVIOUS
<1> USE <1>5
<1>6. /\ conn'[slot[c]] = k /\ \A s \in Slots : s # slot[c] => conn'[s] = conn[s]
      /\ closed' # NULL
  BY <1>4, NullFacts DEF Ground, K
<1>7. /\ k.cs = "final" /\ k.client = NULL /\ k.send = NULL /\ k.recv = NULL
      /\ k.member = K(c).member /\ k.waiting = K(c).waiting
  BY <1>3 DEF ConnType
<1>8. Goes(t, k, "r_hub_close")
  BY <1>1, <1>3, <1>4, <1>6 DEF Goes, Spot, Rests
<1>9. /\ Together(k.cs, "r_hub_close", w) /\ Owns(c, k, "r_hub_close", w)
      /\ Moving(c, k, "r_hub_close", w) /\ Locks(c, k, "r_hub_close", w)
  BY <1>3, <1>7, SMTT(30) DEF Good, Together, Owns, Moving, Locks, Serving, Carries, RHolds, WHolds
<1>10. RLands(c, "r_hub_close", w)' /\ Uses(c, k, "r_hub_close", w)'
  BY <1>3, <1>4, <1>7, SMTT(30) DEF Good, RLands, Uses
<1>11. Good(c)'
  BY <1>6, <1>7, <1>8, <1>9, <1>10, ReaderGood
<1>12. Tame(t)
  BY <1>6, <1>8, GoesTamely
<1>13. InUse(c)'
  BY <1>8 DEF InUse, RS, Goes
<1> QED BY <1>1, <1>4, <1>11, <1>12, <1>13, TameKeeps

(* The writer closes for the second time, after the reader began to.       *)
LEMMA WriterRestCloses ==
  ASSUME IInv, IInv', CInv, Calm, NEW c \in Conns, rest_close(Writer(c))
  PROVE  CInv'
<1> DEFINE t == Writer(c)
<1>1. running = t /\ acts[t] # <<>> /\ WS(c) = "rest_close" /\ Head(acts[t]) = "rest_close"
  BY DEF rest_close, Doing, WS, Spot
<1>2. /\ Good(c) /\ InUse(c) /\ RS(c) \in Rests /\ t \in Workers /\ t \in Tasks /\ t[2] = c
      /\ Ground(t) /\ slot[c] \in Slots /\ K(c) \in ConnType
      /\ Of(t) = slot[c] /\ State(t) = K(c)
  BY <1>1, WriterHere
<1> USE <1>2
<1>3. /\ K(c).cs = "final" /\ K(c).client = NULL /\ RS(c) = "logout"
      /\ pc[t] = "w_exit" /\ K(c).send = NULL /\ K(c).recv = NULL
  BY <1>1 DEF Good, Together, WIdle, Owns, WLands, Rests, Moving, Serving, Carries
<1>4. /\ conn' = [conn EXCEPT ![slot[c]].next = closed] /\ closed' = slot[c]
      /\ acts'[t] = <<>> /\ \A u \in Tasks : u # t => acts'[u] = acts[u]
      /\ UNCHANGED <<open, peer, pc, slot, local, running, ready, polling, fault>>
      /\ Linked'
  <2>1. /\ State(t).cs = "final" /\ State(t).client = NULL /\ State(t).send = NULL
        /\ State(t).recv = NULL
    BY <1>3
  <2>2. /\ conn' = [conn EXCEPT ![Of(t)].next = closed] /\ closed' = Of(t)
        /\ acts'[t] = <<>> /\ \A u \in Tasks : u # t => acts'[u] = acts[u]
        /\ UNCHANGED <<open, peer, pc, slot, local, running, ready, polling, fault>>
        /\ Linked'
    BY <2>1, rest_closeFacts
  <2> QED BY <2>2
<1>5. PICK k, r : k = [K(c) EXCEPT !.next = closed] /\ r = RS(c)
  OBVIOUS
<1> USE <1>5
<1>6. /\ conn'[slot[c]] = k /\ \A s \in Slots : s # slot[c] => conn'[s] = conn[s]
      /\ closed' # NULL
  BY <1>4, NullFacts DEF Ground, K
<1>7. /\ k.cs = "final" /\ k.client = NULL /\ k.send = NULL /\ k.recv = NULL
      /\ k.member = K(c).member /\ k.waiting = K(c).waiting
  BY <1>3 DEF ConnType
<1> USE <1>7
<1>8. Goes(t, k, "w_exit")
  BY <1>1, <1>3, <1>4, <1>6 DEF Goes, Spot, Rests
<1>9. /\ Together(k.cs, r, "w_exit") /\ Owns(c, k, r, "w_exit")
      /\ Moving(c, k, r, "w_exit") /\ Locks(c, k, r, "w_exit")
  BY <1>3, SMTT(30) DEF Good, Together, Owns, Moving, Locks, Serving, Carries, RHolds, WHolds
<1>10. WLands(c, k.cs, "w_exit")' /\ Uses(c, k, r, "w_exit")'
  BY <1>3, <1>4, SMTT(30) DEF Good, WLands, Uses
<1>11. Good(c)'
  BY <1>1, <1>6, <1>8, <1>9, <1>10, WriterGood
<1>12. Tame(t)
  BY <1>6, <1>8, GoesTamely
<1>13. conn'[Of(t)].cs = "final" /\ (InUse(c)' \/ ~InUse(c)')
  BY <1>6
<1> QED BY <1>1, <1>4, <1>11, <1>12, <1>13, TameKeeps

(* A connection in use that is not final has a peer of its own.            *)
LEMMA PeerIsOwn ==
  ASSUME IInv, CInv, NEW d \in Conns, InUse(d), K(d).cs # "final"
  PROVE  Fresh(d) \/ K(d).peer = d
<1> DEFINE R == Reader(d)
<1>1. Good(d)
  BY DEF CInv
<1>2. R \in Tasks /\ pc[R] \in ReaderLabels /\ (acts[R] # <<>> => Head(acts[R]) \in Actions)
  BY TaskFacts DEF IInv, Births, Fits, Proper
<1>3. RS(d) = "r_key" => pc[R] = "r_key"
  BY <1>2, SMTT(30) DEF RS, Spot, Actions
<1>4. RS(d) = "key_prep" => Pending(R, "key_prep")
  BY <1>2, SMTT(30) DEF RS, Spot, ReaderLabels, Pending
<1>5. K(d).cs = "Accepting" => RS(d) = "r_key"
  BY <1>1, SMTT(30) DEF Good, Together
<1>6. K(d).cs # "Accepting" /\ RS(d) # "key_prep" => K(d).peer = d
  BY <1>1 DEF Good, Owns
<1> QED BY <1>3, <1>4, <1>5, <1>6 DEF Fresh

(* ConnectionState_finish frees what belongs to the state in front of the  *)
(* closed list, and no connection that goes on uses it.                    *)
LEMMA Hub_closeCalm ==
  ASSUME IInv, IInv', CInv, Calm, NEW c \in Conns, Hub_close(Reader(c))
  PROVE  CInv'
<1> DEFINE t == Reader(c)
           W == Writer(c)
<1> USE DEF lists, sched
<1>1. running = t /\ acts[t] = <<>> /\ pc[t] = "r_hub_close" /\ RS(c) = "r_hub_close"
  BY DEF Hub_close, At, RS, Spot
<1>2. /\ Good(c) /\ InUse(c) /\ WS(c) \in Rests /\ t \in Workers /\ t \in Tasks /\ t[2] = c
      /\ Ground(t) /\ slot[c] \in Slots /\ K(c) \in ConnType
      /\ Of(t) = slot[c] /\ State(t) = K(c)
  BY <1>1, ReaderHere
<1>3. /\ K(c).cs = "final" /\ K(c).client = NULL /\ WS(c) \in {"none", "logout", "w_done"}
      /\ K(c).send = NULL /\ K(c).recv = NULL
  BY <1>1, <1>2 DEF Good, Together, RIdle, Owns, Rests, Moving, Serving, Carries
<1>4. PICK f : f = closed
  OBVIOUS
<1>5. f # NULL /\ f \in Slots
  <2>1. f # NULL
    BY <1>1, <1>2, <1>3, <1>4 DEF Good
  <2> QED BY <1>4, <2>1 DEF IInv, Types
<1>6. Retired(f) /\ conn[f].body # "freed"
  <2>1. Retired(f)
    BY <1>4, <1>5 DEF CInv, Linked
  <2>2. conn[f].body \in Bodies
    BY <1>5 DEF IInv, Types, ConnType
  <2>3. "bad" \notin Kinds /\ "freed" \notin Kinds
    BY DEF Calm
  <2>4. "freed" # NULL
    BY NullFacts
  <2>5. "freed" \notin Bodies
    BY <2>3, <2>4 DEF Bodies
  <2> QED BY <2>1, <2>2, <2>5
<1>7. /\ conn' = [conn EXCEPT ![f].recv = NULL, ![f].body = NULL, ![f].peer = NULL]
      /\ peer' = IF conn[f].peer = NULL THEN peer
                 ELSE [peer EXCEPT ![conn[f].peer] = "freed"]
      /\ pc' = [pc EXCEPT ![t] = "r_exit"] /\ running' = NULL
      /\ UNCHANGED <<closed, open, acts, slot, local, ready, polling, fault>>
  BY <1>4, <1>5, <1>6 DEF Hub_close, Retired, Goto, Block
<1>8. /\ \A s \in Slots : s # f => conn'[s] = conn[s]
      /\ conn'[f].recv = NULL /\ conn'[f].cs = conn[f].cs /\ conn'[f].client = conn[f].client
      /\ conn'[f].member = conn[f].member /\ conn'[f].send = conn[f].send
      /\ conn'[f].owner = conn[f].owner /\ conn'[f].waiting = conn[f].waiting
      /\ conn'[f].next = conn[f].next
  BY <1>2, <1>5, <1>7 DEF Ground, ConnType
<1>9. conn[f].cs = "final" /\ conn[f].recv = NULL
  BY <1>6 DEF Retired
<1>10. \A s \in Slots : Alike(s)
  BY <1>8, <1>9 DEF Alike
<1>11. ASSUME NEW d \in Conns, InUse(d), K(d).cs # "final" PROVE peer'[d] = peer[d]
  <2>1. conn[f].peer # d
    <3>1. SUFFICES ASSUME conn[f].peer = d PROVE FALSE
      OBVIOUS
    <3>2. d # NULL /\ slot[d] \in Slots
      BY <1>11, NullFacts DEF InUse, IInv, Types
    <3>3. ~Fresh(d)
      BY <1>5, <3>1 DEF IInv, PeersApart
    <3>4. conn[slot[d]].peer = d
      BY <1>11, <3>3, PeerIsOwn DEF K
    <3>5. slot[d] = f
      BY <1>5, <3>1, <3>2, <3>4 DEF IInv, PeersApart
    <3> QED BY <1>9, <1>11, <3>5 DEF K
  <2> QED BY <1>7, <2>1 DEF IInv, Types
<1>12. \A u \in Tasks : u # t => pc'[u] = pc[u]
  BY <1>2, <1>7 DEF Ground
<1>13. Tame(t)
  <2>1. Grows(t)
    <3>1. ready \in Seq(Tasks)
      BY DEF IInv, Types
    <3> QED BY <1>2, <1>7, <3>1, GrowForms
  <2>2. \A u \in Tasks : u[2] # t[2] => u # t
    OBVIOUS
  <2> QED BY <1>7, <1>10, <1>11, <1>12, <2>1, <2>2 DEF Tame
<1>14. Linked'
  <2>1. \A u \in Workers : Of(u)' = Of(u) /\ (Pending(u, "rest_close")' <=> Pending(u, "rest_close"))
    BY <1>7 DEF Of, Pending
  <2>2. PICK s \in Slots : s = Of(t)
    BY <1>2
  <2>3. Retired(s) => Retired(s)'
    BY <1>10, <2>1, <2>2 DEF Retired, Alike
  <2>4. Of(t)' = Of(t)
    BY <1>2, <2>1
  <2>5. Retired(Of(t)) => Retired(Of(t))'
    BY <2>2, <2>3, <2>4, SMTT(30)
  <2>6. Leaves(t)
    BY <1>7, <1>10, <2>2, <2>5 DEF Leaves, Alike
  <2> QED BY <1>2, <1>13, <2>6, LeavesKeeps
<1>15. PICK k, w : k = conn'[slot[c]] /\ w = WS(c)
  OBVIOUS
<1>16. k.cs = "final"
  BY <1>2, <1>3, <1>10, <1>15 DEF Alike, K
<1>17. ASSUME InUse(c)' PROVE Good(c)'
  <2>1. W \in Tasks /\ W # t /\ pc'[W] = pc[W] /\ pc'[t] = "r_exit"
    BY <1>2, <1>7, <1>12, TaskFacts DEF Ground
  <2>2. WS(c)' = w /\ RS(c)' = "r_exit" /\ K(c)' = k
    BY <1>1, <1>7, <1>15, <2>1 DEF WS, RS, Spot, K
  <2>3. w = "logout"
    BY <1>3, <1>15, <1>17, <2>2 DEF InUse
  <2>4. /\ k.client = NULL /\ k.member = K(c).member /\ k.send = NULL /\ k.recv = NULL
        /\ k.waiting = K(c).waiting
    BY <1>2, <1>3, <1>10, <1>15 DEF Alike, K
  <2>5. /\ Together(k.cs, "r_exit", w) /\ Owns(c, k, "r_exit", w)
        /\ Moving(c, k, "r_exit", w) /\ Locks(c, k, "r_exit", w)
    BY <1>2, <1>16, <2>3, <2>4
       DEF Good, Together, Owns, Moving, Locks, Serving, Carries, RHolds, WHolds
  <2>6. RLands(c, "r_exit", w)' /\ Uses(c, k, "r_exit", w)' /\ WLands(c, k.cs, w)'
    BY <1>2, <1>3, <1>7, <1>15, <1>16, <2>1, <2>3, SMTT(30) DEF Good, RLands, WLands, Uses
  <2>7. Turn(t)' /\ Turn(W)'
    <3>1. W \in Range(ready)
      BY <1>1, <1>2, <1>15, <2>1, <2>3 DEF Good, Turn, WS
    <3>2. W \in Range(ready)' /\ Spot(W)' = "logout" /\ Spot(t)' = "r_exit"
      BY <1>7, <2>2, <2>3, <3>1 DEF WS, RS
    <3> QED BY <3>2, SMTT(30) DEF Turn, Rests
  <2> QED BY <1>4, <1>5, <1>7, <1>16, <2>2, <2>5, <2>6, <2>7, SMTT(30) DEF Good
<1>18. conn'[Of(t)].cs = "final"
  BY <1>2, <1>15, <1>16
<1> QED BY <1>1, <1>2, <1>13, <1>14, <1>17, <1>18, TameKeeps

-----------------------------------------------------------------------------
(***************************************************************************)
(* The start of a writer, and the scheduler.                               *)
(***************************************************************************)

(* ConnectionState_established starts the writer.                          *)
LEMMA establishedCalm ==
  ASSUME IInv, IInv', CInv, Calm, NEW c \in Conns, established(Reader(c))
  PROVE  CInv'
<1> DEFINE t == Reader(c)
           W == Writer(c)
<1> USE DEF lists, objects, inputs
<1>1. running = t /\ acts[t] # <<>> /\ RS(c) = "established" /\ Head(acts[t]) = "established"
  BY DEF established, Doing, RS, Spot
<1>2. /\ Good(c) /\ InUse(c) /\ WS(c) \in Rests /\ t \in Workers /\ t \in Tasks /\ t[2] = c
      /\ Ground(t) /\ slot[c] \in Slots /\ K(c) \in ConnType
      /\ Of(t) = slot[c] /\ State(t) = K(c)
  BY <1>1, ReaderHere
<1>3. K(c).cs = "Idle" /\ WS(c) = "none" /\ pc[t] = "r_loop"
  BY <1>1, <1>2 DEF Good, Together, RIdle, RLands
<1>4. W \in Tasks /\ W # t /\ W[2] = c /\ acts[W] = <<>>
  <2>1. W \in Tasks /\ W # t /\ W[2] = c
    BY TaskFacts, SMTT(30)
  <2>2. acts[W] # <<>> => Head(acts[W]) \in Actions
    BY <2>1 DEF IInv, Fits, Proper
  <2> QED BY <1>3, <2>1, <2>2, SMTT(30) DEF WS, Spot, Actions
<1>5. /\ ActionDone(t) /\ pc' = [pc EXCEPT ![W] = "w_dequeue"] /\ ready' = Append(ready, W)
      /\ UNCHANGED <<conn, closed, open, peer, slot, local, running, polling, fault>>
  BY <1>2 DEF established, Goto
<1>6. acts'[t] = <<>> /\ \A u \in Tasks : u # t => acts'[u] = acts[u]
  BY <1>1, <1>2, <1>5, DoneFacts
<1>7. pc'[W] = "w_dequeue" /\ \A u \in Tasks : u # W => pc'[u] = pc[u]
  BY <1>2, <1>4, <1>5 DEF Ground
<1>8. Grows(t) /\ W \in Range(ready')
  <2>0. ready \in Seq(Tasks) /\ W \in Tasks /\ ready' = Append(ready, W)
    BY <1>2, <1>4, <1>5 DEF Ground
  <2>1. /\ <<W>> \in Seq(Tasks) /\ ready' = ready \o <<W>> /\ DOMAIN <<W>> = {1} /\ <<W>>[1] = W
        /\ Len(ready) + 1 \in DOMAIN ready' /\ ready'[Len(ready) + 1] = W
    BY <2>0, SMTT(30)
  <2>2. \A i \in DOMAIN <<W>> : <<W>>[i] \in {Writer(d) : d \in Conns}
    BY <2>1
  <2> QED BY <2>1, <2>2 DEF Grows, Range
<1>9. Tame(t)
  <2>1. \A u \in Tasks : u[2] # t[2] => u # t /\ u # W
    BY <1>2, <1>4
  <2> QED BY <1>1, <1>5, <1>6, <1>7, <1>8, <2>1 DEF Tame, Alike
<1>10. Linked'
  <2>1. PICK s \in Slots : s = Of(t)
    BY <1>2
  <2>2. \A u \in Workers : Of(u)' = Of(u) /\ (Pending(u, "rest_close")' => Pending(u, "rest_close"))
    BY <1>5, <1>6, TaskFacts DEF Of, Pending
  <2>3. Retired(s) => Retired(s)'
    BY <1>5, <2>2 DEF Retired
  <2>4. Of(t)' = Of(t)
    BY <1>2, <2>2
  <2>5. Retired(Of(t)) => Retired(Of(t))'
    BY <2>1, <2>3, <2>4, SMTT(30)
  <2>6. Leaves(t)
    BY <1>5, <2>4, <2>5 DEF Leaves
  <2> QED BY <1>2, <1>9, <2>6, LeavesKeeps
<1>11. PICK k : k = K(c)
  OBVIOUS
<1> USE <1>11
<1>12. RS(c)' = "r_loop" /\ WS(c)' = "w_dequeue" /\ K(c)' = k
  BY <1>3, <1>2, <1>4, <1>5, <1>6, <1>7 DEF RS, WS, Spot, K
<1>13. /\ Together(k.cs, "r_loop", "w_dequeue") /\ Owns(c, k, "r_loop", "w_dequeue")
       /\ Moving(c, k, "r_loop", "w_dequeue") /\ Locks(c, k, "r_loop", "w_dequeue")
  BY <1>1, <1>2, <1>3
     DEF Good, Together, Owns, Moving, Locks, Serving, Carries, RHolds, WHolds, RIdle, WIdle
<1>14. /\ RLands(c, "r_loop", "w_dequeue")' /\ Uses(c, k, "r_loop", "w_dequeue")'
       /\ WLands(c, k.cs, "w_dequeue")'
  BY <1>1, <1>2, <1>3, <1>5 DEF Good, RLands, WLands, Uses
<1>15. Turn(t)' /\ Turn(W)'
  BY <1>1, <1>5, <1>8, <1>12 DEF Turn, WS, RS, Rests
<1>16. Good(c)'
  BY <1>3, <1>12, <1>13, <1>14, <1>15, SMTT(30) DEF Good
<1>17. InUse(c)'
  BY <1>2, <1>5, <1>12, SMTT(30) DEF InUse
<1> QED BY <1>1, <1>2, <1>9, <1>10, <1>16, <1>17, TameKeeps

(* A step that leaves the state and the tasks of a connection alone.       *)
LEMMA SitsStill ==
  ASSUME CInv, UNCHANGED <<conn, closed, peer, acts, slot, local>>, NEW d \in Conns,
         pc'[Reader(d)] = pc[Reader(d)], pc'[Writer(d)] = pc[Writer(d)], InUse(d)',
         d \in open' => d \in open, Turn(Reader(d))', Turn(Writer(d))',
         Good(d) /\ RS(d) = "logout" /\ K(d).cs = "Closing" /\ WS(d) # "none" =>
           Before(Writer(d), Reader(d))'
  PROVE  Good(d)'
<1>1. RS(d)' = RS(d) /\ WS(d)' = WS(d) /\ K(d)' = K(d)
  BY DEF RS, WS, Spot, K
<1>2. Good(d)
  BY <1>1 DEF CInv, InUse
<1>3. PICK k, r, w : k = K(d) /\ r = RS(d) /\ w = WS(d)
  OBVIOUS
<1> USE <1>3
<1>4. RLands(d, r, w)' /\ WLands(d, k.cs, w)' /\ Uses(d, k, r, w)'
  BY <1>2 DEF Good, RLands, WLands, Uses
<1>5. /\ Together(k.cs, r, w) /\ Owns(d, k, r, w) /\ Moving(d, k, r, w) /\ Locks(d, k, r, w)
      /\ k.cs = "Closing" /\ r = "logout" /\ w # "none" => Before(Writer(d), Reader(d))'
      /\ k.cs = "final" /\ "rest_close" \notin {r, w} => closed' # NULL
  BY <1>2 DEF Good
<1>6. K(d)' = k /\ RS(d)' = r /\ WS(d)' = w
  BY <1>1
<1> QED BY <1>4, <1>5, <1>6 DEF Good

(* Such a step, for all connections.                                       *)
LEMMA SchedulerCalm ==
  ASSUME CInv, UNCHANGED <<conn, closed, peer, acts, slot, local, fault>>,
         \A d \in Conns : InUse(d)' => Good(d)', \A d \in Conns : InUse(d)' => InUse(d),
         Comes', Queued'
  PROVE  CInv'
<1>1. Alone'
  BY DEF CInv, Alone
<1>2. \A s : Retired(s)' <=> Retired(s)
  BY DEF Retired, Of, Pending
<1>3. Linked'
  BY <1>2, SMTT(30) DEF CInv, Linked
<1>4. fault' = "none"
  BY DEF CInv
<1> QED BY <1>1, <1>3, <1>4 DEF CInv

(* Poll hands a task whose socket is ready to the scheduler.               *)
LEMMA PollCalm ==
  ASSUME IInv, CInv, Calm, NEW t \in Tasks, Poll(t)
  PROVE  CInv'
<1> USE DEF lists, objects, tasks, inputs
<1>1. /\ running = NULL /\ Blocked(t) /\ ready' = Append(ready, t) /\ polling' = TRUE
      /\ ready = <<>> \/ polling
      /\ pc[t] \in {"accept", "r_tuning", "r_final", "r_read", "w_sending"}
      /\ t = Listener => ready = <<>>
      /\ Listener \notin Range(ready)
      /\ UNCHANGED <<conn, closed, open, peer, pc, acts, slot, local, running, fault>>
  BY SMTT(30) DEF Poll, Calm
<1> USE <1>1
<1>2. /\ ready \in Seq(Tasks) /\ t \notin Range(ready)
      /\ Listener # NULL
      /\ \A d \in Conns : Reader(d) # NULL /\ Writer(d) # NULL /\ Reader(d) # Listener
  <2>1. ready \in Seq(Tasks) /\ t \notin Range(ready)
    BY DEF IInv, Types, Blocked
  <2> QED BY <2>1, TaskFacts, NullFacts, SMTT(30)
<1>3. /\ \A i \in DOMAIN ready : i \in DOMAIN ready' /\ ready'[i] = ready[i]
      /\ \A i \in DOMAIN ready' : i \notin DOMAIN ready => ready'[i] = t /\ i = Len(ready) + 1
  BY <1>2, SMTT(30)
<1>4. \A u : u \in Range(ready) => u \in Range(ready')
  BY <1>3 DEF Range
<1>5. \A u : u # t /\ u \in Range(ready') => u \in Range(ready)
  BY <1>3 DEF Range
<1>6. ASSUME NEW d \in Conns, InUse(d)' PROVE InUse(d) /\ Good(d)'
  <2>1. InUse(d) /\ Good(d)
    BY <1>6 DEF InUse, RS, WS, Spot, CInv
  <2>2. Turn(Reader(d))' /\ Turn(Writer(d))'
    BY <1>2, <1>4, <2>1 DEF Good, Turn, Spot
  <2>3. ASSUME RS(d) = "logout", K(d).cs = "Closing", WS(d) # "none"
        PROVE  Before(Writer(d), Reader(d))'
    <3>1. pc[Reader(d)] = "r_hub_close"
      BY <2>1, <2>3 DEF Good, RLands
    <3>2. t # Reader(d)
      BY <3>1, SMTT(30)
    <3>3. Before(Writer(d), Reader(d))
      BY <2>1, <2>3 DEF Good
    <3> QED BY <1>2, <1>3, <3>2, <3>3 DEF Before
  <2> QED BY <1>6, <2>1, <2>2, <2>3, SitsStill
<1>7. Comes'
  <2>1. ASSUME Listener \in Range(ready') PROVE ready' = <<Listener>>
    <3>1. t = Listener /\ ready = <<>>
      BY <1>5, <2>1
    <3> QED BY <3>1, SMTT(30)
  <2>2. \A c \in Conns : pc[Reader(c)] # "r_new"
    BY <1>2, SMTT(30) DEF CInv, Comes
  <2> QED BY <1>2, <2>1, <2>2 DEF Comes
<1>8. Queued'
  <2>1. ASSUME NEW c \in Conns, pc[Reader(c)] = "none" PROVE Reader(c) \notin Range(ready')
    BY <1>5, <2>1, SMTT(30) DEF CInv, Queued
  <2>2. ASSUME NEW c \in Conns, NEW i \in DOMAIN ready', NEW j \in DOMAIN ready',
               ready'[i] = Reader(c), ready'[j] = Reader(c)
        PROVE  i = j
    <3>1. CASE Reader(c) = t
      BY <1>2, <1>3, <2>2, <3>1 DEF Range
    <3>2. CASE Reader(c) # t
      BY <1>3, <2>2, <3>2 DEF CInv, Queued
    <3> QED BY <3>1, <3>2
  <2> QED BY <1>2, <2>1, <2>2 DEF Queued
<1> QED BY <1>6, <1>7, <1>8, SchedulerCalm

(* The scheduler runs the task in front of the run queue.                  *)
LEMMA ScheduleCalm ==
  ASSUME IInv, CInv, Schedule
  PROVE  CInv'
<1> USE DEF lists, objects, tasks, inputs
<1>1. /\ running = NULL /\ ready # <<>> /\ running' = Head(ready) /\ ready' = Tail(ready)
      /\ polling' = FALSE
      /\ UNCHANGED <<conn, closed, open, peer, pc, acts, slot, local, fault>>
  BY DEF Schedule
<1>2. /\ ready \in Seq(Tasks)
      /\ \A d \in Conns : Reader(d) # NULL /\ Writer(d) # NULL /\ Reader(d) # Listener
  <2>1. ready \in Seq(Tasks)
    BY DEF IInv, Types
  <2> QED BY <2>1, TaskFacts, NullFacts, SMTT(30)
<1>3. /\ 1 \in DOMAIN ready /\ ready[1] = running'
      /\ \A i \in DOMAIN ready' : i + 1 \in DOMAIN ready /\ ready'[i] = ready[i + 1]
                                  /\ i \in Nat /\ i + 1 # 1
      /\ \A i \in DOMAIN ready : i # 1 => i - 1 \in DOMAIN ready' /\ ready'[i - 1] = ready[i]
  BY <1>1, <1>2, SMTT(30)
<1>4. \A u : u \in Range(ready) => u = running' \/ u \in Range(ready')
  <2>1. ASSUME NEW i \in DOMAIN ready
        PROVE  ready[i] = running' \/ \E j \in DOMAIN ready' : ready'[j] = ready[i]
    BY <1>3, SMTT(30)
  <2> QED BY <2>1 DEF Range
<1>5. \A u : u \in Range(ready') \/ u = running' => u \in Range(ready)
  <2>1. ASSUME NEW i \in DOMAIN ready' PROVE \E j \in DOMAIN ready : ready[j] = ready'[i]
    BY <1>3, SMTT(30)
  <2>2. \E j \in DOMAIN ready : ready[j] = running'
    BY <1>3, SMTT(30)
  <2> QED BY <2>1, <2>2 DEF Range
<1>6. ASSUME NEW d \in Conns, InUse(d)' PROVE InUse(d) /\ Good(d)'
  <2>1. InUse(d) /\ Good(d)
    BY <1>1, <1>6 DEF InUse, RS, WS, Spot, CInv
  <2>2. Turn(Reader(d))' /\ Turn(Writer(d))'
    BY <1>1, <1>2, <1>4, <2>1 DEF Good, Turn, Spot
  <2>3. ASSUME RS(d) = "logout", K(d).cs = "Closing", WS(d) # "none"
        PROVE  Before(Writer(d), Reader(d))'
    <3>1. \A i \in DOMAIN ready : ready[i] = Reader(d) =>
            \E j \in DOMAIN ready : j < i /\ ready[j] = Writer(d)
      BY <1>1, <1>2, <2>1, <2>3 DEF Good, Before
    <3>2. running' # Reader(d)
      BY <1>2, <1>3, <3>1, SMTT(30)
    <3>3. ASSUME running' # Writer(d), NEW i \in DOMAIN ready', ready'[i] = Reader(d)
          PROVE  \E j \in DOMAIN ready' : j < i /\ ready'[j] = Writer(d)
      <4>1. PICK j \in DOMAIN ready : j < i + 1 /\ ready[j] = Writer(d)
        BY <1>3, <3>1, <3>3
      <4>2. j - 1 \in DOMAIN ready' /\ ready'[j - 1] = Writer(d) /\ j - 1 < i
        BY <1>1, <1>2, <1>3, <3>3, <4>1, SMTT(30)
      <4> QED BY <4>2
    <3> QED BY <3>2, <3>3 DEF Before
  <2> QED BY <1>1, <1>6, <2>1, <2>2, <2>3, SitsStill
<1>7. Comes'
  <2>1. ASSUME NEW u, ready = <<u>> PROVE running' = u /\ ready' = <<>>
    BY <1>1, <2>1, SMTT(30)
  <2>2. Range(<<>>) = {}
    BY SMTT(30) DEF Range
  <2>3. ASSUME Listener \in Range(ready') \/ running' = Listener
        PROVE  ready' = <<>> /\ Listener \notin Range(ready')
    BY <1>5, <2>1, <2>2, <2>3 DEF CInv, Comes
  <2>4. ASSUME NEW c \in Conns, pc[Reader(c)] = "r_new"
        PROVE  running' = Reader(c) /\ ready' = <<>>
    BY <1>1, <1>2, <2>1, <2>4 DEF CInv, Comes
  <2> QED BY <1>1, <2>3, <2>4 DEF Comes
<1>8. Queued'
  <2>1. ASSUME NEW c \in Conns, pc[Reader(c)] = "none"
        PROVE  Reader(c) \notin Range(ready') /\ running' # Reader(c)
    BY <1>5, <2>1 DEF CInv, Queued
  <2>2. ASSUME NEW c \in Conns, NEW i \in DOMAIN ready', NEW j \in DOMAIN ready',
               ready'[i] = Reader(c), ready'[j] = Reader(c)
        PROVE  i = j
    <3>1. i + 1 = j + 1
      BY <1>3, <2>2 DEF CInv, Queued
    <3> QED BY <1>3, <3>1, SMTT(30)
  <2>3. ASSUME NEW c \in Conns, running' = Reader(c) PROVE Reader(c) \notin Range(ready')
    <3>1. \A i, j \in DOMAIN ready : ready[i] = Reader(c) /\ ready[j] = Reader(c) => i = j
      BY DEF CInv, Queued
    <3>2. \A i \in DOMAIN ready' : ready'[i] # Reader(c)
      BY <1>3, <2>3, <3>1, SMTT(30)
    <3> QED BY <3>2 DEF Range
  <2> QED BY <1>1, <2>1, <2>2, <2>3 DEF Queued
<1> QED BY <1>1, <1>6, <1>7, <1>8, SchedulerCalm
=============================================================================
