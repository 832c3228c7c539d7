--------------------------------- MODULE Hub ---------------------------------
(***************************************************************************)
(* The hub's connections: hub/hub_state.c, hub/connection_state.c and the  *)
(* actions of hub/connection_actions.rl, driven by the chart of            *)
(* ConnectionChart.  A connection has a reader task, which accepted it,    *)
(* and a writer task, which `established' creates.  Both work on one       *)
(* ConnectionState; the states of closed connections are used again.       *)
(*                                                                         *)
(* Tasks are the cooperative coroutines of libtask.  The one that is       *)
(* `running' goes on until it blocks, yields or returns; then the first of *)
(* the ready queue runs.  Sockets are polled when no task is ready.  A     *)
(* task's pc is the place where it is or where it will resume, and acts is *)
(* what is left of the action list of the event it is executing.           *)
(*                                                                         *)
(* A member and a peer belong to the connection that created them and bear *)
(* its name, so a stale pointer can be told from a good one.  Where the    *)
(* code would follow a null or a dangling pointer, or fail an assertion,   *)
(* the hub stops and `fault' says where.                                   *)
(***************************************************************************)
EXTENDS ConnectionChart, Integers, Functions

CONSTANTS
  NConns,       \* how many clients ever connect
  Capacity,     \* messages that a member's queue holds
  Kinds,        \* the kinds of messages that clients send, see AllKinds
  MaxReads,     \* bound: messages read by the hub, over all connections
  SendBlocks,   \* a send may wait for the client
  SendFails,    \* a send may fail
  Quiet,        \* nobody connects while a connection closes, see Accept
  NULL

(***************************************************************************)
(* What the hub tells apart in a message: Message_decons rejects it, its   *)
(* msgid is not the next one, its route does not exist or its callback     *)
(* refuses it, it registers or unregisters the sender, it has an answer    *)
(* for the sender, or it goes to the members registered for its route.     *)
(***************************************************************************)
AllKinds ==
  {"bad", "badid", "refused", "register", "unregister", "ping", "deliver"}

ASSUME NConnsAssumption == NConns \in Nat \ {0}
ASSUME CapacityAssumption == Capacity \in Nat \ {0}
ASSUME KindsAssumption == Kinds \subseteq AllKinds
ASSUME BoundsAssumption == MaxReads \in Nat
ASSUME FlagsAssumption == {SendBlocks, SendFails, Quiet} \subseteq BOOLEAN

Conns == 1 .. NConns
Slots == 1 .. NConns

Reader(c) == <<"reader", c>>
Writer(c) == <<"writer", c>>
Listener == <<"listener", 0>>
Tasks == {Reader(c) : c \in Conns} \cup {Writer(c) : c \in Conns} \cup {Listener}
ASSUME NullAssumption ==
  \A S \in {Conns, AllKinds \cup {"freed"}, Tasks} : NULL \notin S

VARIABLES
  conn,      \* conn[s]: the ConnectionState that was allocated for connection s
  closed,    \* the head of the hub's list of closed states
  used,      \* the states that were allocated
  open,      \* the connections whose socket is open
  members,   \* the map of members that are logged in
  routed,    \* routed[c]: how often its member is in the route of "deliver"
  mem,       \* mem[c]: the life of the member of connection c
  queue,     \* queue[c]: how many messages wait for it
  peer,      \* peer[c]: the life of the peer of connection c
  pc, acts,  \* per task: where it is, and its actions still to run
  slot,      \* slot[c]: the state that the tasks of c work on
  local,     \* per task: the object a blocked call still uses, or NULL
  running,   \* the task that has the processor, or NULL
  ready,     \* the run queue
  polling,   \* TRUE while the poll task hands out ready sockets
  accepted,  \* how many clients connected
  reads,     \* how many messages the hub read
  fault      \* "none", or where the hub went wrong

lists == <<closed, used>>
objects == <<members, routed, mem, queue, peer>>
tasks == <<pc, acts, slot, local>>
sched == <<running, ready, polling>>
inputs == <<accepted, reads>>
vars == <<conn, lists, open, objects, tasks, sched, inputs, fault>>

(* A ConnectionState fresh from calloc, or cleared by memset.              *)
Blank == [cs |-> "start", client |-> NULL, member |-> NULL, peer |-> NULL,
          send |-> NULL, recv |-> NULL, body |-> NULL, next |-> NULL,
          owner |-> NULL, waiting |-> <<>>]

Lives == {"none", "live", "dead", "freed"}

Init ==
  /\ conn = [s \in Slots |-> Blank]
  /\ closed = NULL /\ used = {} /\ open = {}
  /\ members = {} /\ routed = [c \in Conns |-> 0]
  /\ mem = [c \in Conns |-> "none"]
  /\ queue = [c \in Conns |-> 0]
  /\ peer = [c \in Conns |-> "none"]
  /\ pc = [t \in Tasks |-> IF t = Listener THEN "accept" ELSE "none"]
  /\ acts = [t \in Tasks |-> <<>>]
  /\ slot = [c \in Conns |-> NULL]
  /\ local = [t \in Tasks |-> NULL]
  /\ running = NULL /\ ready = <<>> /\ polling = FALSE
  /\ accepted = 0 /\ reads = 0
  /\ fault = "none"

-----------------------------------------------------------------------------
(* The task t is at label l of its code, or about to run the action a.     *)
At(t, l) == fault = "none" /\ running = t /\ acts[t] = <<>> /\ pc[t] = l
Doing(t, a) ==
  fault = "none" /\ running = t /\ acts[t] # <<>> /\ Head(acts[t]) = a

Of(t) == slot[t[2]]
State(t) == conn[Of(t)]
Goto(t, l) == pc' = [pc EXCEPT ![t] = l]
ActionDone(t) == acts' = [acts EXCEPT ![t] = Tail(@)]

(* The hub follows a bad pointer or fails an assertion.                    *)
Fail(where) ==
  /\ fault' = where
  /\ UNCHANGED <<conn, lists, open, objects, tasks, sched, inputs>>

(***************************************************************************)
(* libtask.  A blocked task is neither running nor ready.  Await is a      *)
(* socket operation: it goes on at once or blocks until a poll.            *)
(***************************************************************************)
Blocked(t) == t # running /\ t \notin Range(ready)
Block == running' = NULL /\ UNCHANGED <<ready, polling>>
Yield(t, woken) ==
  running' = NULL /\ ready' = Append(ready \o woken, t) /\ UNCHANGED polling
Await(t) == running' \in {t, NULL} /\ UNCHANGED <<ready, polling>>

(* MsgQueue_wake_all for the queues of the members in M: the orders in     *)
(* which their writers may become ready.                                   *)
Sleepers(M) ==
  {c \in Conns : /\ pc[Writer(c)] = "w_woken" /\ Blocked(Writer(c))
                 /\ local[Writer(c)] \in M}
Woken_Missed(M) == {<<>>}
Woken(M) ==
  LET S == {Writer(c) : c \in Sleepers(M)} IN
    {q \in UNION {[1..n -> S] : n \in 0..NConns} : IsInjective(q) /\ Range(q) = S}

Schedule ==
  /\ fault = "none" /\ running = NULL /\ ready # <<>>
  /\ running' = Head(ready) /\ ready' = Tail(ready) /\ polling' = FALSE
  /\ UNCHANGED <<conn, lists, open, objects, tasks, inputs, fault>>

(* The poll task runs when no other task is ready.  Under Quiet a poll     *)
(* never reports the listening socket together with another one.           *)
Poll(t) ==
  /\ fault = "none" /\ running = NULL
  /\ ready = <<>> \/ polling
  /\ Blocked(t)
  /\ pc[t] \in {"accept", "r_tuning", "r_final", "r_read", "w_sending"}
  /\ t = Listener => accepted < NConns /\ (Quiet => ready = <<>>)
  /\ Quiet => Listener \notin Range(ready)
  /\ ready' = Append(ready, t)
  /\ polling' = TRUE
  /\ UNCHANGED <<conn, lists, open, objects, tasks, running, inputs, fault>>

-----------------------------------------------------------------------------
(* The listener accepts a client and creates its reader task.              *)
Accept ==
  /\ At(Listener, "accept")
  /\ accepted' = accepted + 1
  /\ Goto(Reader(accepted'), "r_new")
  /\ open' = open \cup {accepted'}
  /\ ready' = Append(ready, Reader(accepted'))
  /\ running' = NULL
  /\ UNCHANGED <<conn, lists, objects, acts, slot, local, polling, reads, fault>>

(* A used state leaves the closed list; otherwise one is allocated for c.  *)
Hub_new_or_reuse_conn_KeepsLink(c) ==
  IF closed # NULL
    THEN UNCHANGED lists
    ELSE used' = used \cup {c} /\ UNCHANGED closed

Hub_new_or_reuse_conn(c) ==
  IF closed # NULL
    THEN closed' = conn[closed].next /\ UNCHANGED used
    ELSE used' = used \cup {c} /\ UNCHANGED closed

(***************************************************************************)
(* Hub_queue_conn: the front of the closed list, cleared, or a new state.  *)
(* The event OPEN follows with the actions begin, which resets the lock    *)
(* and the link, and open, which is the body of the reader task.           *)
(***************************************************************************)
Hub_queue_conn(c) ==
  /\ At(Reader(c), "r_new")
  /\ LET s == IF closed # NULL THEN closed ELSE c IN
       /\ slot' = [slot EXCEPT ![c] = s]
       /\ conn' = [conn EXCEPT ![s] =
                     [Blank EXCEPT !.cs = Step("start", "OPEN").to, !.client = c]]
  /\ Hub_new_or_reuse_conn(c)
  /\ Goto(Reader(c), "r_key")
  /\ UNCHANGED <<open, objects, acts, local, sched, inputs, fault>>

(***************************************************************************)
(* The statements that call ConnectionState_exec: the label of the call,   *)
(* the event, and the label after it.  A state that is done ignores the    *)
(* event.  The call returns 0 when the state is not done at the end.       *)
(***************************************************************************)
ReaderCalls ==
  {<<"r_key", "KEY_PRESENT", "r_pass">>, <<"r_pass", "PASS", "r_pass2">>,
   <<"r_confirm", "PASS", "r_confirmed">>, <<"r_pass2", "PASS", "r_loop">>,
   <<"r_locked", "MSG_RECV", "r_received">>,
   <<"r_service", "SVC_RECV", "r_unlock">>,
   <<"r_close", "READ_CLOSE", "r_hub_close">>}
WriterCalls ==
  {<<"w_locked", "MSG_QUEUED", "w_queued">>, <<"w_sent", "MSG_SENT", "w_unlock">>,
   <<"w_failed", "FAIL", "w_close">>, <<"w_close", "WRITE_CLOSE", "w_exit">>}

ConnectionState_exec(t) ==
  \E call \in ReaderCalls \cup WriterCalls :
    /\ At(t, call[1])
    /\ Goto(t, call[3])
    /\ IF State(t).cs \in Done
         THEN UNCHANGED <<conn, acts>>
         ELSE LET step == Step(State(t).cs, call[2]) IN
                /\ conn' = [conn EXCEPT ![Of(t)].cs = step.to]
                /\ acts' = [acts EXCEPT ![t] = step.do]
    /\ UNCHANGED <<lists, open, objects, slot, local, sched, inputs, fault>>

ExecReturnedZero(t) == State(t).cs \notin Done

(* fgoto Aborting: the actions that are left are skipped.                  *)
fgoto_Aborting(t) ==
  /\ conn' = [conn EXCEPT ![Of(t)].cs = "Aborting"]
  /\ acts' = [acts EXCEPT ![t] = <<>>]

-----------------------------------------------------------------------------
(* The handshake actions of hub/connection_actions.rl.                     *)
key_prep(t) ==
  /\ Doing(t, "key_prep")
  /\ peer' = [peer EXCEPT ![t[2]] = "live"]
  /\ conn' = [conn EXCEPT ![Of(t)].peer = t[2]]
  /\ ActionDone(t)
  /\ UNCHANGED <<lists, open, members, routed, mem, queue, pc, slot, local,
                 sched, inputs, fault>>

(* Peer_establish_receiver begins; it blocks for the client's identity.    *)
tune(t) ==
  /\ Doing(t, "tune")
  /\ ActionDone(t)
  /\ Goto(t, "r_tuning")
  /\ Await(t)
  /\ UNCHANGED <<conn, lists, open, objects, slot, local, inputs, fault>>

(* It has the client's key and asks ConnectionState_confirm_key, or fails. *)
(* Whoever finished the state meanwhile has freed the peer.                *)
tune_identity(t) ==
  /\ At(t, "r_tuning")
  /\ IF peer[t[2]] # "live" THEN Fail("tune") ELSE
       /\ \/ t[2] \in open /\ Goto(t, "r_confirm") /\ UNCHANGED <<conn, acts>>
          \/ Goto(t, "r_pass2") /\ fgoto_Aborting(t)
       /\ UNCHANGED <<lists, open, objects, slot, local, sched, inputs, fault>>

(* ConnectionState_confirm_key returned: go on to the final message.       *)
tune_confirmed(t) ==
  /\ At(t, "r_confirmed")
  /\ IF peer[t[2]] # "live" THEN Fail("tune") ELSE
       /\ IF ExecReturnedZero(t)
            THEN Goto(t, "r_final") /\ Await(t) /\ UNCHANGED <<conn, acts>>
            ELSE Goto(t, "r_pass2") /\ fgoto_Aborting(t) /\ UNCHANGED sched
       /\ UNCHANGED <<lists, open, objects, slot, local, inputs, fault>>

(* Peer_establish_receiver returns.  It returns 1 also when it could not   *)
(* read the final message; the hub sees a client that hangs up at once.    *)
tune_final(t) ==
  /\ At(t, "r_final")
  /\ IF peer[t[2]] # "live" THEN Fail("tune") ELSE
       /\ Goto(t, "r_pass2")
       /\ UNCHANGED <<conn, acts>> \/ fgoto_Aborting(t)
       /\ UNCHANGED <<lists, open, objects, slot, local, sched, inputs, fault>>

(* Member_login.  The new member has the peer of the state.  It cannot be  *)
(* NULL: Member_create asserts that it has the memory.                     *)
register(t) ==
  /\ Doing(t, "register")
  /\ LET p == State(t).peer IN
       IF p = NULL THEN Fail("register") ELSE
         /\ conn' = [conn EXCEPT ![Of(t)].member = p]
         /\ mem' = [mem EXCEPT ![p] = "live"]
         /\ members' = members \cup {p}
         /\ ActionDone(t)
         /\ UNCHANGED <<lists, open, routed, queue, peer, pc, slot, local,
                        sched, inputs, fault>>

established(t) ==
  /\ Doing(t, "established")
  /\ ActionDone(t)
  /\ Goto(Writer(t[2]), "w_dequeue")
  /\ ready' = Append(ready, Writer(t[2]))
  /\ UNCHANGED <<conn, lists, open, objects, slot, local, running, polling,
                 inputs, fault>>

-----------------------------------------------------------------------------
(* The actions on a message that the reader received.  Message_decons      *)
(* frees the header and the body of a message it rejects; the state still  *)
(* points to them.                                                         *)
recv(t) ==
  /\ Doing(t, "recv")
  /\ IF State(t).body = "freed" THEN Fail("recv") ELSE
       /\ \/ State(t).body = NULL /\ fgoto_Aborting(t)
          \/ /\ State(t).body = "bad"
             /\ conn' = [conn EXCEPT ![Of(t)].cs = "Aborting", ![Of(t)].body = "freed"]
             /\ acts' = [acts EXCEPT ![t] = <<>>]
          \/ /\ State(t).body \notin {NULL, "bad"}
             /\ conn' = [conn EXCEPT ![Of(t)].recv = State(t).body]
             /\ ActionDone(t)
       /\ UNCHANGED <<lists, open, objects, pc, slot, local, sched, inputs, fault>>

msgid_check(t) ==
  /\ Doing(t, "msgid_check")
  /\ IF State(t).recv = "badid"
       THEN fgoto_Aborting(t)
       ELSE ActionDone(t) /\ UNCHANGED conn
  /\ UNCHANGED <<lists, open, objects, pc, slot, local, sched, inputs, fault>>

(* Member_send_msg: n more messages for member c, whose queue takes them   *)
(* all or not.                                                             *)
HasRoom_Unchecked(c, n) == TRUE
HasRoom(c, n) == queue[c] + n <= Capacity

Send(n) ==
  /\ queue' = [c \in Conns |-> queue[c] + n[c]]
  /\ \E q \in Woken({c \in Conns : n[c] > 0}) : ready' = ready \o q

(***************************************************************************)
(* Route_deliver goes through the members of the route in the order of     *)
(* their addresses, one that registered several times as often as it did.  *)
(* It stops at the first one, f, whose queue is full; any of the others    *)
(* may have come before it.                                                *)
(***************************************************************************)
Route_deliver ==
  LET Fitting == {c \in Conns : HasRoom(c, routed[c])} IN
    \/ Fitting = Conns /\ Send(routed)
    \/ \E M \in SUBSET Fitting, f \in Conns \ Fitting :
         Send([c \in Conns |-> IF c \in M THEN routed[c]
                               ELSE IF c = f THEN Capacity - queue[c] ELSE 0])

(***************************************************************************)
(* Hub_service_message and the callbacks of hub/commands.c.  The sender is *)
(* the member that `recv' noted.                                           *)
(***************************************************************************)
service(t) ==
  /\ Doing(t, "service")
  /\ LET kind == State(t).recv
         from == State(t).member
     IN  IF from = NULL /\ kind \in {"register", "unregister", "ping"}
           THEN Fail("service")
         ELSE IF kind = "refused"
           THEN /\ fgoto_Aborting(t)
                /\ UNCHANGED <<lists, open, objects, pc, slot, local, sched,
                               inputs, fault>>
         ELSE /\ \/ /\ kind = "register"
                    /\ routed' = [routed EXCEPT ![from] = @ + 1]
                    /\ UNCHANGED <<queue, ready>>
                 \/ /\ kind = "unregister"
                    /\ routed' = [routed EXCEPT ![from] = IF @ = 0 THEN 0 ELSE @ - 1]
                    /\ UNCHANGED <<queue, ready>>
                 \/ /\ kind = "ping"
                    /\ Send([c \in Conns |->
                               IF c = from /\ HasRoom(c, 1) THEN 1 ELSE 0])
                    /\ UNCHANGED routed
                 \/ /\ kind = "deliver"
                    /\ Route_deliver
                    /\ UNCHANGED routed
              /\ ActionDone(t)
              /\ UNCHANGED <<conn, lists, open, members, mem, peer, pc, slot,
                             local, running, polling, inputs, fault>>

clear_recv(t) ==
  /\ Doing(t, "clear_recv")
  /\ conn' = [conn EXCEPT ![Of(t)].recv = NULL, ![Of(t)].body = NULL]
  /\ ActionDone(t)
  /\ UNCHANGED <<lists, open, objects, pc, slot, local, sched, inputs, fault>>

(* The actions of the writer: the message it sent leaves the queue.        *)
sent(t) ==
  /\ Doing(t, "sent")
  /\ LET m == State(t).member IN
       IF m = NULL THEN Fail("sent") ELSE
         /\ queue' = [queue EXCEPT ![m] = IF @ = 0 THEN 0 ELSE @ - 1]
         /\ ActionDone(t)
         /\ UNCHANGED <<conn, lists, open, members, routed, mem, peer, pc, slot,
                        local, sched, inputs, fault>>

clear_send(t) ==
  /\ Doing(t, "clear_send")
  /\ conn' = [conn EXCEPT ![Of(t)].send = NULL]
  /\ ActionDone(t)
  /\ UNCHANGED <<lists, open, objects, pc, slot, local, sched, inputs, fault>>

-----------------------------------------------------------------------------
(* Route_unregister_all takes a member out of every route.                 *)
Route_unregister_all_Skipped(m) == UNCHANGED routed
Route_unregister_all(m) == routed' = [routed EXCEPT ![m] = 0]

(* Member_logout marks the queue dead, wakes its consumer and yields.      *)
MarkDeadAndYield_NoYield(t, m) ==
  /\ mem' = [mem EXCEPT ![m] = "dead"]
  /\ \E q \in Woken({m}) : ready' = ready \o q
  /\ UNCHANGED <<running, polling>>
MarkDeadAndYield_NoWake(t, m) ==
  mem' = [mem EXCEPT ![m] = "dead"] /\ Yield(t, <<>>)
MarkDeadAndYield(t, m) ==
  mem' = [mem EXCEPT ![m] = "dead"] /\ \E q \in Woken({m}) : Yield(t, q)

(***************************************************************************)
(* ConnectionState_half_close up to the yield inside Member_logout.  The   *)
(* action comes back as logout when the task runs again.                   *)
(***************************************************************************)
half_close(t) ==
  /\ Doing(t, "half_close")
  /\ LET c == State(t).client
         m == State(t).member IN
       IF c = NULL
         THEN ActionDone(t) /\ UNCHANGED <<conn, open, routed, mem, local, sched>>
         ELSE /\ conn' = [conn EXCEPT ![Of(t)].client = NULL]
              /\ open' = open \ {c}
              /\ IF m = NULL
                   THEN ActionDone(t) /\ UNCHANGED <<routed, mem, local, sched>>
                   ELSE /\ Route_unregister_all(m)
                        /\ MarkDeadAndYield(t, m)
                        /\ local' = [local EXCEPT ![t] = m]
                        /\ acts' = [acts EXCEPT ![t] = <<"logout">> \o Tail(@)]
  /\ UNCHANGED <<lists, members, queue, peer, pc, slot, inputs, fault>>

(* The rest of Member_logout, and the end of ConnectionState_half_close.   *)
logout(t) ==
  /\ Doing(t, "logout")
  /\ members' = members \ {local[t]}
  /\ mem' = [mem EXCEPT ![local[t]] = "freed"]
  /\ queue' = [queue EXCEPT ![local[t]] = 0]
  /\ conn' = [conn EXCEPT ![Of(t)].member = NULL]
  /\ local' = [local EXCEPT ![t] = NULL]
  /\ ActionDone(t)
  /\ UNCHANGED <<lists, open, routed, peer, pc, slot, sched, inputs, fault>>

(* ConnectionState_rest_close gives the state back to the hub.             *)
rest_close(t) ==
  /\ Doing(t, "rest_close")
  /\ IF State(t).client # NULL THEN Fail("rest_close") ELSE
       /\ IF closed # Of(t)
            THEN /\ conn' = [conn EXCEPT ![Of(t)].next = closed]
                 /\ closed' = Of(t)
            ELSE UNCHANGED <<conn, closed>>
       /\ ActionDone(t)
       /\ UNCHANGED <<used, open, objects, pc, slot, local, sched, inputs, fault>>

-----------------------------------------------------------------------------
(* The reader task: ConnectionState_read_msg up to the wait for a message. *)
ConnectionState_read_msg(t) ==
  /\ At(t, "r_loop")
  /\ IF State(t).cs \in Done \/ State(t).client = NULL
       THEN Goto(t, "r_close") /\ UNCHANGED <<local, sched, fault>>
       ELSE IF State(t).member = NULL
              THEN fault' = "read_msg" /\ UNCHANGED <<pc, local, sched>>
              ELSE /\ local' = [local EXCEPT ![t] = State(t).member]
                   /\ Goto(t, "r_read")
                   /\ Await(t)
                   /\ UNCHANGED fault
  /\ UNCHANGED <<conn, lists, open, objects, acts, slot, inputs>>

(* Peer_recv returns a message, or NULL when the client hung up.           *)
Peer_recv(t) ==
  /\ At(t, "r_read")
  /\ IF peer[local[t]] # "live" THEN Fail("Peer_recv") ELSE
       /\ \/ \E kind \in Kinds :
               /\ local[t] \in open /\ reads < MaxReads
               /\ reads' = reads + 1
               /\ conn' = [conn EXCEPT ![Of(t)].body = kind]
               /\ Goto(t, "r_lock")
          \/ /\ conn' = [conn EXCEPT ![Of(t)].body = NULL]
             /\ Goto(t, "r_close")
             /\ UNCHANGED reads
       /\ local' = [local EXCEPT ![t] = NULL]
       /\ UNCHANGED <<lists, open, objects, acts, slot, sched, accepted, fault>>

(* ConnectionState_lock: take it, or queue up behind its owner.            *)
ConnectionState_lock_NoWait(t, from, to) ==
  /\ At(t, from)
  /\ Goto(t, to)
  /\ conn' = [conn EXCEPT ![Of(t)].owner = t]
  /\ UNCHANGED <<lists, open, objects, acts, slot, local, sched, inputs, fault>>

ConnectionState_lock(t, from, to) ==
  /\ At(t, from)
  /\ Goto(t, to)
  /\ IF State(t).owner = NULL
       THEN conn' = [conn EXCEPT ![Of(t)].owner = t] /\ UNCHANGED sched
       ELSE conn' = [conn EXCEPT ![Of(t)].waiting = Append(@, t)] /\ Block
  /\ UNCHANGED <<lists, open, objects, acts, slot, local, inputs, fault>>

(* ConnectionState_unlock: the first waiter owns the lock; then yield.     *)
ConnectionState_unlock(t, from, to) ==
  /\ At(t, from)
  /\ LET waiting == State(t).waiting IN
       IF State(t).owner = NULL THEN Fail("qunlock")
       ELSE /\ Goto(t, to)
            /\ IF waiting = <<>>
                 THEN /\ conn' = [conn EXCEPT ![Of(t)].owner = NULL]
                      /\ Yield(t, <<>>)
                 ELSE /\ conn' = [conn EXCEPT ![Of(t)].owner = Head(waiting),
                                              ![Of(t)].waiting = Tail(waiting)]
                      /\ Yield(t, <<Head(waiting)>>)
            /\ UNCHANGED <<lists, open, objects, acts, slot, local, inputs, fault>>

(* After MSG_RECV: service the message if there is one.                    *)
received(t) ==
  /\ At(t, "r_received")
  /\ Goto(t, IF ExecReturnedZero(t) /\ State(t).recv # NULL
               THEN "r_service" ELSE "r_unlock")
  /\ UNCHANGED <<conn, lists, open, objects, acts, slot, local, sched, inputs,
                 fault>>

(***************************************************************************)
(* The end of Hub_connection_handler: the hub's action `close' finishes    *)
(* the front of the closed list, and the reader task returns.  Finishing   *)
(* releases a received message that msgid_check or Hub_service_message     *)
(* kept, or else the body that was read, and whatever is in send.msg,      *)
(* which belongs to a member's queue.                                      *)
(***************************************************************************)
Hub_close(t) ==
  /\ At(t, "r_hub_close")
  /\ IF closed = NULL THEN Fail("close")
     ELSE LET f == conn[closed] IN
       IF \/ f.send # NULL \/ f.recv \notin {NULL, "badid", "refused"}
          \/ f.recv = NULL /\ f.body = "freed"
         THEN Fail("finish")
         ELSE /\ conn' = [conn EXCEPT ![closed].recv = NULL, ![closed].body = NULL,
                                      ![closed].peer = NULL]
              /\ peer' = IF f.peer = NULL THEN peer
                         ELSE [peer EXCEPT ![f.peer] = "freed"]
              /\ Goto(t, "r_exit")
              /\ Block
              /\ UNCHANGED <<lists, open, members, routed, mem, queue, acts, slot,
                             local, inputs, fault>>

-----------------------------------------------------------------------------
(* The writer task.  ConnectionState_dequeue_msg up to MsgQueue_wait.      *)
ConnectionState_dequeue_msg(t) ==
  /\ At(t, "w_dequeue")
  /\ LET m == State(t).member
         Sends(x) == conn' = [conn EXCEPT ![Of(t)].send = x] IN
       IF State(t).cs \in Done
         THEN Goto(t, "w_close") /\ UNCHANGED <<conn, local, sched, fault>>
       ELSE IF m = NULL
         THEN fault' = "first_msg" /\ UNCHANGED <<conn, pc, local, sched>>
       ELSE IF mem[m] = "dead"
         THEN Goto(t, "w_close") /\ Sends(NULL) /\ UNCHANGED <<local, sched, fault>>
       ELSE IF queue[m] = 0
         THEN /\ Goto(t, "w_woken") /\ local' = [local EXCEPT ![t] = m]
              /\ Block /\ UNCHANGED <<conn, fault>>
       ELSE Goto(t, "w_lock") /\ Sends(m) /\ UNCHANGED <<local, sched, fault>>
  /\ UNCHANGED <<lists, open, objects, acts, slot, inputs>>

(* MsgQueue_first after MsgQueue_wait, with the queue it slept on.         *)
dequeue_woken(t) ==
  /\ At(t, "w_woken")
  /\ LET m == local[t] IN
       IF mem[m] = "freed" THEN Fail("queue") ELSE
         /\ IF mem[m] = "dead" \/ queue[m] = 0
              THEN Goto(t, "w_close") /\ conn' = [conn EXCEPT ![Of(t)].send = NULL]
              ELSE Goto(t, "w_lock") /\ conn' = [conn EXCEPT ![Of(t)].send = m]
         /\ local' = [local EXCEPT ![t] = NULL]
         /\ UNCHANGED <<lists, open, objects, acts, slot, sched, inputs, fault>>

(* After MSG_QUEUED: ConnectionState_send_msg, which may block in the send *)
(* with the member's peer and the borrowed message.                        *)
ConnectionState_send_msg(t) ==
  /\ At(t, "w_queued")
  /\ LET m == State(t).member IN
       IF ~ExecReturnedZero(t)
         THEN Goto(t, "w_unlock") /\ UNCHANGED <<local, sched, fault>>
       ELSE IF m = NULL \/ State(t).send = NULL
         THEN fault' = "send_msg" /\ UNCHANGED <<pc, local, sched>>
       ELSE /\ Goto(t, "w_sending")
            /\ local' = [local EXCEPT ![t] = m]
            /\ IF SendBlocks THEN Await(t) ELSE UNCHANGED sched
            /\ UNCHANGED fault
  /\ UNCHANGED <<conn, lists, open, objects, acts, slot, inputs>>

(* Peer_send returns 1, or 0 if the client or the hub closed the socket.   *)
Peer_send(t) ==
  /\ At(t, "w_sending")
  /\ IF peer[local[t]] # "live" THEN Fail("Peer_send") ELSE
       /\ \/ local[t] \in open /\ Goto(t, "w_sent")
          \/ (SendFails \/ local[t] \notin open) /\ Goto(t, "w_failed")
       /\ local' = [local EXCEPT ![t] = NULL]
       /\ UNCHANGED <<conn, lists, open, objects, acts, slot, sched, inputs, fault>>

(* ConnectionState_outgoing returns.                                       *)
outgoing_exit(t) ==
  /\ At(t, "w_exit")
  /\ Goto(t, "w_done")
  /\ Block
  /\ UNCHANGED <<conn, lists, open, objects, acts, slot, local, inputs, fault>>

-----------------------------------------------------------------------------
ReaderStep(c) ==
  LET t == Reader(c) IN
    \/ Hub_queue_conn(c)
    \/ key_prep(t) \/ tune(t) \/ tune_identity(t) \/ tune_confirmed(t)
    \/ tune_final(t) \/ register(t) \/ established(t)
    \/ ConnectionState_read_msg(t) \/ Peer_recv(t)
    \/ ConnectionState_lock(t, "r_lock", "r_locked")
    \/ recv(t) \/ received(t) \/ msgid_check(t) \/ service(t) \/ clear_recv(t)
    \/ ConnectionState_unlock(t, "r_unlock", "r_loop")
    \/ Hub_close(t)

WriterStep(c) ==
  LET t == Writer(c) IN
    \/ ConnectionState_dequeue_msg(t) \/ dequeue_woken(t)
    \/ ConnectionState_lock(t, "w_lock", "w_locked")
    \/ ConnectionState_send_msg(t) \/ Peer_send(t)
    \/ sent(t) \/ clear_send(t)
    \/ ConnectionState_unlock(t, "w_unlock", "w_dequeue")
    \/ outgoing_exit(t)

EitherStep(t) ==
  ConnectionState_exec(t) \/ half_close(t) \/ logout(t) \/ rest_close(t)

Run ==
  \/ Accept
  \/ \E c \in Conns : \/ ReaderStep(c) \/ WriterStep(c)
                      \/ EitherStep(Reader(c)) \/ EitherStep(Writer(c))

Next == Run \/ Schedule \/ \E t \in Tasks : Poll(t)

(***************************************************************************)
(* A task that has the processor goes on, and a ready task gets it.  What  *)
(* clients do is not fair, but a poll always reports a socket that the hub *)
(* itself has closed, and the read or the send that waits for it fails.    *)
(***************************************************************************)
Socket(t) == IF pc[t] \in {"r_read", "w_sending"} THEN local[t] ELSE t[2]

PollClosed(t) == Socket(t) \notin open /\ Poll(t)

Fairness ==
  /\ WF_vars(Run) /\ WF_vars(Schedule)
  /\ \A t \in Tasks \ {Listener} : WF_vars(PollClosed(t))

Spec == Init /\ [][Next]_vars /\ Fairness

-----------------------------------------------------------------------------
Labels ==
  {"none", "accept", "r_new", "r_exit", "r_tuning", "r_confirmed", "r_final",
   "r_loop", "r_read", "r_lock", "r_received", "r_unlock", "r_hub_close",
   "w_dequeue", "w_woken", "w_lock", "w_queued", "w_sending", "w_unlock",
   "w_exit", "w_done"} \cup {call[1] : call \in ReaderCalls \cup WriterCalls}

(***************************************************************************)
(* The type invariant.                                                     *)
(***************************************************************************)
TypeOK ==
  /\ \A s \in Slots :
       /\ conn[s].cs \in States
       /\ {conn[s].client, conn[s].member, conn[s].peer, conn[s].send}
            \subseteq Conns \cup {NULL}
       /\ conn[s].recv \in AllKinds \cup {NULL}
       /\ conn[s].body \in AllKinds \cup {NULL, "freed"}
       /\ conn[s].next \in Slots \cup {NULL}
       /\ conn[s].owner \in Tasks \cup {NULL}
  /\ closed \in used \cup {NULL} /\ used \subseteq Slots
  /\ open \subseteq Conns /\ members \subseteq Conns /\ routed \in [Conns -> Nat]
  /\ mem \in [Conns -> Lives] /\ queue \in [Conns -> 0..Capacity]
  /\ peer \in [Conns -> Lives]
  /\ pc \in [Tasks -> Labels]
  /\ slot \in [Conns -> used \cup {NULL}]
  /\ running \in Tasks \cup {NULL} /\ Range(ready) \subseteq Tasks

(* Delivery never reaches a member that is logged out: a member leaves the *)
(* routes before the yield in Member_logout and cannot register again      *)
(* during it, in every interleaving of readers and writers and whatever    *)
(* clients do, also when a state is used again too early.                  *)
RoutedAreLive == \A c \in Conns : routed[c] > 0 => mem[c] = "live"

(* The labels between the return of ConnectionState_lock and the call of   *)
(* ConnectionState_unlock.  A task blocked at the first is still waiting.  *)
InExchange(t) ==
  \/ pc[t] \in {"r_locked", "w_locked"} /\ ~Blocked(t)
  \/ pc[t] \in {"r_received", "r_service", "r_unlock",
               "w_queued", "w_sending", "w_sent", "w_failed", "w_unlock"}

(* hub/hub.h on ConnectionState_lock: "Locks the machine so you can do     *)
(* mulitple operations without interference."  The reader and the writer   *)
(* of a connection are never both between lock and unlock: also when the   *)
(* writer waits in a send with the lock and the reader has a message to    *)
(* hand over, and when the writer leaves its loop with the lock.           *)
ExchangesExclude ==
  \A c \in Conns : ~(InExchange(Reader(c)) /\ InExchange(Writer(c)))

(* Following the links from the head of the hub's closed list.             *)
Link[n \in 0..NConns] ==
  IF n = 0 THEN closed
  ELSE IF Link[n-1] = NULL THEN NULL ELSE conn[Link[n-1]].next

(* The closed list ends, although ConnectionState_rest_close only compares *)
(* a state with the head, and every state on it has left the chart and has *)
(* no client, so Hub_new_or_reuse_conn never clears a state in use.  Holds *)
(* while sends do not block and nobody connects in the middle of a close:  *)
(* otherwise three connections are enough to put a state on the list that  *)
(* is on it already, behind the head, and close the list into a ring.      *)
ClosedListSound ==
  /\ Link[NConns] = NULL
  /\ \A n \in 0..NConns :
       Link[n] # NULL => conn[Link[n]].client = NULL /\ conn[Link[n]].cs \in Done

(* No null or dangling pointer is followed and no assertion fails.  The    *)
(* hub keeps this promise when sends do not block, messages are well       *)
(* formed and nobody connects in the middle of a close.                    *)
NoFault == fault = "none"

TasksDone(c) ==
  pc[Reader(c)] = "r_exit" /\ pc[Writer(c)] \in {"none", "w_done"}

(* hub/hub.h on ConnectionState_half_close: "used to close one half of the *)
(* connection so that the reader/writer pair of tasks can coordinate the   *)
(* graceful shutdown".  Once the socket is closed both tasks return.       *)
GracefulShutdown ==
  \A c \in Conns :
    (slot[c] # NULL /\ c \notin open) ~> (TasksDone(c) \/ fault # "none")

(* Whatever is put in a member's queue is sent, or dropped by its logout:  *)
(* no wake-up is lost between the tasks of different connections.          *)
QueuesDrain == \A c \in Conns : queue[c] > 0 ~> queue[c] = 0

(* hub/hub_actions.rl, action close: "the conn at the front of closed is   *)
(* the one that just closed".                                              *)
FrontJustClosed ==
  \A c \in Conns : At(Reader(c), "r_hub_close") => closed = slot[c]

(* hub/hub.h on ConnectionState: "The task is responsible for finalizing   *)
(* the ConnectionState before giving it back to the Hub."  The state that  *)
(* Hub_new_or_reuse_conn takes from the closed list has been finished.     *)
FinishedBeforeReuse ==
  \A c \in Conns :
    At(Reader(c), "r_new") /\ closed # NULL => conn[closed].peer = NULL

(* hub/connection.rl on Aborting: "anything we get should just force a     *)
(* shutdown immediately".  The writer goes on to send after MSG_QUEUED     *)
(* only if that event led to Sending.                                      *)
SendsOnlyInSending ==
  \A c \in Conns :
    At(Writer(c), "w_queued") /\ ExecReturnedZero(Writer(c))
      => State(Writer(c)).cs = "Sending"

(* The same line of hub/hub.h, as to the machine itself: while a task owns *)
(* the lock no other task moves it.                                        *)
LockExcludesOthers ==
  [][\A s \in Slots :
       conn[s].cs # conn'[s].cs /\ conn[s].owner # NULL
         => running = conn[s].owner]_vars
=============================================================================
