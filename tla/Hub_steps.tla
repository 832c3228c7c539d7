------------------------------ MODULE Hub_steps ------------------------------
(***************************************************************************)
(* What is proved of Hub for any number of connections, any capacity of    *)
(* the queues and whatever clients and sockets do, TypeOK and              *)
(* RoutedAreLive, and the beginning of what is proved of a calm network.   *)
(*                                                                         *)
(* First the inductive invariant IInv and the facts about tasks, lists of  *)
(* actions and the chart that its proof rests on.  Then every step         *)
(* preserves it: the steps of a reader or a writer of its own which leave  *)
(* clients, members and peers alone; the lock, the services, the scheduler *)
(* and the events; the steps that create clients, members and peers; those *)
(* that free them, and the start of a connection.                          *)
(*                                                                         *)
(* Last, the inductive invariant CInv of a calm network, what a step of    *)
(* one task leaves alone in the other connections, and the proof that the  *)
(* steps of a reader keep CInv.  Hub_calm has the other steps.             *)
(***************************************************************************)
EXTENDS Hub, TLAPS

(* The provers get more time than usual: the context is large.             *)
USE SMTT(30)

ConnsN == Conns \cup {NULL}
Workers == {Reader(c) : c \in Conns} \cup {Writer(c) : c \in Conns}

(* The actions, what may be left to do after each in the list of an event, *)
(* and where the machine is while a task is about to run it.               *)
Actions ==
  {"key_prep", "tune", "register", "established", "recv", "msgid_check", "service",
   "clear_recv", "sent", "clear_send", "half_close", "logout", "rest_close"}

Rest(a) ==
  IF a = "msgid_check" THEN {<<"service", "clear_recv">>}
  ELSE IF a = "service" THEN {<<"clear_recv">>}
  ELSE IF a = "sent" THEN {<<"clear_send">>}
  ELSE IF a \in {"half_close", "logout"} THEN {<<>>, <<"rest_close">>}
  ELSE {<<>>}

Proper(list) ==
  list # <<>> => Head(list) \in Actions /\ Tail(list) \in Rest(Head(list))

During(a) ==
  IF a = "key_prep" THEN {"KeyCheck"}
  ELSE IF a = "tune" THEN {"Tuning"}
  ELSE IF a = "register" THEN {"Registering"}
  ELSE IF a \in {"established", "msgid_check", "service", "clear_recv", "sent"} THEN {"Idle"}
  ELSE IF a = "recv" THEN {"Delivering"}
  ELSE IF a = "clear_send" THEN {"Idle", "Aborting"}
  ELSE IF a = "half_close" THEN {"Closing", "error"}
  ELSE States

(* What the body of the last message can be: a malformed one is freed      *)
(* while the state still refers to it.                                     *)
Bodies == Kinds \cup {NULL} \cup {b \in {"freed"} : "bad" \in Kinds}

ConnType ==
  [cs : States, client : ConnsN, member : ConnsN, peer : ConnsN, send : ConnsN,
   recv : AllKinds \cup {NULL}, body : Bodies,
   next : used \cup {NULL}, owner : Workers \cup {NULL},
   waiting : Seq(Workers)]

ReaderLabels ==
  {"none", "r_new", "r_exit", "r_tuning", "r_confirmed", "r_final", "r_loop", "r_read",
   "r_lock", "r_received", "r_unlock", "r_hub_close", "r_key", "r_pass",
   "r_pass2", "r_confirm", "r_locked", "r_service", "r_close"}
WriterLabels ==
  {"none", "w_dequeue", "w_woken", "w_lock", "w_queued", "w_sending", "w_unlock",
   "w_exit", "w_done", "w_locked", "w_sent", "w_failed", "w_close"}

Types ==
  /\ conn \in [Slots -> ConnType]
  /\ used \subseteq Slots
  /\ closed \in used \cup {NULL}
  /\ open \subseteq Conns /\ members \subseteq Conns /\ routed \in [Conns -> Nat]
  /\ mem \in [Conns -> Lives]
  /\ queue \in [Conns -> 0..Capacity]
  /\ peer \in [Conns -> Lives]
  /\ pc \in [Tasks -> Labels]
  /\ acts \in [Tasks -> Seq(Actions)]
  /\ slot \in [Conns -> used \cup {NULL}]
  /\ local \in [Tasks -> ConnsN]
  /\ running \in Tasks \cup {NULL}
  /\ ready \in Seq(Tasks)
  /\ accepted \in 0..NConns

(* Readers are created in order and take one state each; a state is        *)
(* allocated for the reader that takes it first.                           *)
Births ==
  /\ \A c \in Conns :
       /\ pc[Reader(c)] \in ReaderLabels /\ pc[Writer(c)] \in WriterLabels
       /\ pc[Reader(c)] = "none" <=> c > accepted
       /\ pc[Reader(c)] \in {"none", "r_new"} <=> slot[c] = NULL
       /\ pc[Writer(c)] # "none" => slot[c] # NULL
       /\ acts[Reader(c)] # <<>> \/ acts[Writer(c)] # <<>> => slot[c] # NULL
  /\ \A c \in used : slot[c] # NULL

(* The listener is scheduled once for a client that waits.                 *)
Once ==
  /\ running = Listener => accepted < NConns /\ Listener \notin Range(ready)
  /\ Listener \in Range(ready) => accepted < NConns
  /\ \A i, j \in DOMAIN ready : ready[i] = Listener /\ ready[j] = Listener => i = j

Pending(t, a) == acts[t] # <<>> /\ Head(acts[t]) = a

(* Only Member_logout loses the processor in the middle of an event.       *)
Fits ==
  /\ \A t \in Tasks : Proper(acts[t])
  /\ \A t \in Workers :
       acts[t] # <<>> /\ ~Pending(t, "logout")
         => running = t /\ State(t).cs \in During(Head(acts[t]))
  /\ \A c \in Conns :
       /\ Pending(Reader(c), "key_prep") => pc[Reader(c)] = "r_pass"
       /\ ~Pending(Writer(c), "key_prep")

(* The state s has not registered its peer as a member.                    *)
Unregistered(s) ==
  \/ conn[s].cs \in {"Accepting", "KeyCheck", "Tuning"}
  \/ \E t \in Workers : Of(t) = s /\ Pending(t, "register")

(* The connection c has not created its peer.                              *)
Fresh(c) ==
  \/ pc[Reader(c)] \in {"none", "r_new", "r_key"}
  \/ Pending(Reader(c), "key_prep")

(* Where a machine can be that lost its client.                            *)
Parted == {"start", "Closing", "Aborting", "final", "error"}

ClientsPart ==
  \A s \in Slots : conn[s].client = NULL => conn[s].cs \in Parted

MembersLive ==
  \A s \in Slots : conn[s].member # NULL =>
    /\ mem[conn[s].member] # "none"
    /\ conn[s].client # NULL => mem[conn[s].member] = "live"
    /\ \A z \in Slots : conn[z].member = conn[s].member => z = s

PeersApart ==
  /\ \A s \in Slots : conn[s].peer # NULL =>
       /\ Unregistered(s) => mem[conn[s].peer] = "none"
       /\ \A z \in Slots : conn[z].peer = conn[s].peer => z = s
  /\ \A c \in Conns : Fresh(c) => mem[c] = "none" /\ \A s \in Slots : conn[s].peer # c

LogoutsApart ==
  \A t \in Tasks : Pending(t, "logout") =>
    /\ local[t] \in Conns
    /\ mem[local[t]] = "dead"
    /\ \A u \in Tasks : Pending(u, "logout") /\ local[u] = local[t] => u = t

IInv ==
  /\ Types /\ Births /\ Once /\ Fits
  /\ ClientsPart /\ MembersLive /\ PeersApart /\ LogoutsApart /\ RoutedAreLive

-----------------------------------------------------------------------------
(* Readers, writers and the listener are different tasks.                  *)
LEMMA TaskFacts ==
  /\ \A c, d : /\ Reader(c) = Reader(d) => c = d
               /\ Writer(c) = Writer(d) => c = d
               /\ Reader(c) # Writer(d) /\ Reader(c) # Listener /\ Writer(c) # Listener
               /\ Reader(c)[2] = c /\ Writer(c)[2] = c
  /\ \A c \in Conns : Reader(c) \in Workers /\ Writer(c) \in Workers
  /\ Workers \subseteq Tasks /\ Listener \in Tasks /\ Listener \notin Workers
  /\ Tasks = Workers \cup {Listener}
  BY Zenon DEF Reader, Writer, Listener, Workers, Tasks

(* NULL is none of the numbers and names it stands in for.                 *)
LEMMA NullFacts ==
  /\ NULL \notin Conns /\ NULL \notin Slots /\ NULL \notin AllKinds /\ NULL \notin Tasks
  /\ NULL # "freed"
  /\ Slots = Conns /\ \A n : n \in 1..NConns <=> n \in Conns
  BY NullAssumption, Zenon DEF Slots, Conns

(* Where readers and writers can be is where tasks can be.                 *)
LEMMA LabelFacts ==
  ReaderLabels \cup WriterLabels \subseteq Labels
  BY DEF ReaderLabels, WriterLabels, Labels, ReaderCalls, WriterCalls

CallEvents ==
  {"KEY_PRESENT", "PASS", "MSG_RECV", "SVC_RECV", "READ_CLOSE", "MSG_QUEUED",
   "MSG_SENT", "FAIL", "WRITE_CLOSE"}

(* The first action of a list and the others.                              *)
LEMMA ListFacts ==
  \A x, y, z :
    /\ <<x>> # <<>> /\ Head(<<x>>) = x /\ Tail(<<x>>) = <<>>
    /\ <<x, y>> # <<>> /\ Head(<<x, y>>) = x /\ Tail(<<x, y>>) = <<y>>
    /\ <<x, y, z>> # <<>> /\ Head(<<x, y, z>>) = x /\ Tail(<<x, y, z>>) = <<y, z>>
<1> TAKE x, y, z
<1>1. <<x>> # <<>> /\ Head(<<x>>) = x /\ Tail(<<x>>) = <<>>
  OBVIOUS
<1>2. <<x, y>> # <<>> /\ Head(<<x, y>>) = x
  OBVIOUS
<1>3. Tail(<<x, y>>) = <<y>>
  OBVIOUS
<1>4. <<x, y, z>> # <<>> /\ Head(<<x, y, z>>) = x
  OBVIOUS
<1>5. Tail(<<x, y, z>>) = <<y, z>>
  OBVIOUS
<1> QED BY <1>1, <1>2, <1>3, <1>4, <1>5, Zenon

ChartStates ==
  {"start", "error", "Accepting", "KeyCheck", "Tuning", "Registering", "Idle",
   "Delivering", "Sending", "Aborting", "Closing", "final", "Hated", "Awaiting",
   "Validating"}

(* The states that the chart of connection.rl names.                       *)
LEMMA StateNames == ChartStates \subseteq States
<1>1. {a.to : a \in Opening} = {"Accepting", "KeyCheck", "Tuning", "Registering", "Idle"}
  BY DEF Opening, Arrow
<1>2. {"Delivering", "Sending", "Aborting"} \subseteq {a.to : a \in Traffic}
  BY Zenon DEF Traffic, Arrow
<1>3. {"Hated", "Awaiting", "Validating"} \subseteq {a.to : a \in Hate}
  BY Zenon DEF Hate, Arrow
<1>4. "Closing" \in {a.to : a \in HalfClosing}
  <2>1. Arrow("Idle", "READ_CLOSE", "Closing", <<"half_close">>) \in HalfClosing
    BY DEF HalfClosing, CloseEvents
  <2> QED BY <2>1 DEF Arrow
<1>5. "final" \in {a.to : a \in RestClosing}
  <2>1. Arrow("Closing", "READ_CLOSE", "final", <<"rest_close">>) \in RestClosing
    BY Zenon DEF RestClosing, CloseEvents
  <2> QED BY <2>1 DEF Arrow
<1> QED BY <1>1, <1>2, <1>3, <1>4, <1>5 DEF States, Chart, ChartStates

(* What an arrow of the machine may do, whether the chart names it or not. *)
Sensible(s, e, to, do) ==
  /\ to \in States
  /\ do \in Seq(Actions) /\ Proper(do)
  /\ do # <<>> => Head(do) # "logout" /\ to \in During(Head(do))
  /\ do # <<>> /\ Head(do) = "key_prep" => e = "KEY_PRESENT"
  /\ do # <<>> /\ Head(do) = "register" => s = "Tuning"
  /\ to # "Accepting"
  /\ to = "KeyCheck" => s = "Accepting"
  /\ to = "Tuning" => s = "KeyCheck"
  /\ s \in Parted => to \in Parted

(* The lists of the chart, each with its first action.                     *)
Listed(list, a) ==
  list \in Seq(Actions) /\ Proper(list) /\ list # <<>> /\ Head(list) = a

(* The lists of actions in connection.rl are proper ones.                  *)
LEMMA ChartLists ==
  /\ <<>> \in Seq(Actions) /\ Proper(<<>>)
  /\ Listed(<<"key_prep">>, "key_prep")
  /\ Listed(<<"tune">>, "tune")
  /\ Listed(<<"register">>, "register")
  /\ Listed(<<"established">>, "established")
  /\ Listed(<<"recv">>, "recv")
  /\ Listed(<<"msgid_check", "service", "clear_recv">>, "msgid_check")
  /\ Listed(<<"sent", "clear_send">>, "sent")
  /\ Listed(<<"clear_send">>, "clear_send")
  /\ Listed(<<"half_close">>, "half_close")
  /\ Listed(<<"half_close", "rest_close">>, "half_close")
  /\ Listed(<<"rest_close">>, "rest_close")
<1>1. <<>> \in Seq(Actions)
  OBVIOUS
<1>2. Proper(<<>>)
  BY Zenon DEF Proper
<1>3. Listed(<<"key_prep">>, "key_prep")
  BY ListFacts DEF Listed, Proper, Actions, Rest
<1>4. Listed(<<"tune">>, "tune")
  BY ListFacts DEF Listed, Proper, Actions, Rest
<1>5. Listed(<<"register">>, "register")
  BY ListFacts DEF Listed, Proper, Actions, Rest
<1>6. Listed(<<"established">>, "established")
  BY ListFacts DEF Listed, Proper, Actions, Rest
<1>7. Listed(<<"recv">>, "recv")
  BY ListFacts DEF Listed, Proper, Actions, Rest
<1>8. Listed(<<"msgid_check", "service", "clear_recv">>, "msgid_check")
  BY ListFacts DEF Listed, Proper, Actions, Rest
<1>9. Listed(<<"sent", "clear_send">>, "sent")
  BY ListFacts DEF Listed, Proper, Actions, Rest
<1>10. Listed(<<"clear_send">>, "clear_send")
  BY ListFacts DEF Listed, Proper, Actions, Rest
<1>11. Listed(<<"half_close">>, "half_close")
  BY ListFacts DEF Listed, Proper, Actions, Rest
<1>12. Listed(<<"half_close", "rest_close">>, "half_close")
  BY ListFacts DEF Listed, Proper, Actions, Rest
<1>13. Listed(<<"rest_close">>, "rest_close")
  BY ListFacts DEF Listed, Proper, Actions, Rest
<1> QED BY <1>1, <1>2, <1>3, <1>4, <1>5, <1>6, <1>7, <1>8, <1>9, <1>10, <1>11, <1>12,
        <1>13, Zenon

(* Whatever the state, an event takes a sensible arrow.                    *)
LEMMA StepFacts ==
  ASSUME NEW s, NEW e \in CallEvents
  PROVE  Sensible(s, e, Step(s, e).to, Step(s, e).do)
<1> USE ChartLists, StateNames DEF ChartStates, Listed, Sensible, During, Parted, Arrow
<1>1. ASSUME NEW a \in Chart, a.on \in CallEvents
      PROVE  Sensible(a.from, a.on, a.to, a.do)
  <2>1. CASE a \in Opening
    <3>1. \/ a.on = "OPEN"
          \/ a.from = "Accepting" /\ a.on = "KEY_PRESENT" /\ a.to = "KeyCheck"
               /\ a.do = <<"key_prep">>
          \/ a.from = "KeyCheck" /\ a.on = "PASS" /\ a.to = "Tuning" /\ a.do = <<"tune">>
          \/ a.from = "Tuning" /\ a.on = "PASS" /\ a.to = "Registering"
               /\ a.do = <<"register">>
          \/ a.from = "Registering" /\ a.on = "PASS" /\ a.to = "Idle"
               /\ a.do = <<"established">>
      BY <2>1 DEF Opening
    <3> QED BY <1>1, <3>1, Zenon DEF CallEvents
  <2>2. CASE a \in Traffic
    <3>1. \/ a.from = "Idle" /\ a.on = "MSG_RECV" /\ a.to = "Delivering" /\ a.do = <<"recv">>
          \/ a.from = "Delivering" /\ a.on = "SVC_RECV" /\ a.to = "Idle"
               /\ a.do = <<"msgid_check", "service", "clear_recv">>
          \/ a.from = "Idle" /\ a.on = "MSG_QUEUED" /\ a.to = "Sending" /\ a.do = <<>>
          \/ a.from = "Sending" /\ a.on = "MSG_SENT" /\ a.to = "Idle"
               /\ a.do = <<"sent", "clear_send">>
          \/ a.from = "Sending" /\ a.on = "FAIL" /\ a.to = "Aborting"
               /\ a.do = <<"clear_send">>
      BY <2>2 DEF Traffic
    <3> QED BY <3>1, Zenon
  <2>3. CASE a \in Hate
    BY <1>1, <2>3 DEF Hate, CallEvents
  <2>4. CASE a \in HalfClosing
    <3>1. /\ a.from \in {"Accepting", "KeyCheck", "Tuning", "Registering", "Idle"}
          /\ a.on \in CloseEvents /\ a.to = "Closing" /\ a.do = <<"half_close">>
      BY <2>4 DEF HalfClosing
    <3> QED BY <3>1, Zenon DEF CloseEvents
  <2>5. CASE a \in RestClosing
    <3>1. /\ a.from = "Closing" /\ a.on \in CloseEvents
          /\ a.to = "final" /\ a.do = <<"rest_close">>
      BY <2>5 DEF RestClosing
    <3> QED BY <3>1, Zenon DEF CloseEvents
  <2> QED BY <2>1, <2>2, <2>3, <2>4, <2>5, Zenon DEF Chart
<1>2. CASE s = "Aborting"
  BY <1>2, Zenon DEF Step
<1>3. CASE s # "Aborting" /\ \E a \in Chart : a.from = s /\ a.on = e
  <2>1. PICK a \in Chart : a.from = s /\ a.on = e /\ Step(s, e) = a
    BY <1>3, Zenon DEF Step
  <2> QED BY <1>1, <2>1
<1>4. CASE s # "Aborting" /\ ~\E a \in Chart : a.from = s /\ a.on = e
  BY <1>4, Zenon DEF Step
<1> QED BY <1>2, <1>3, <1>4, Zenon

(* MsgQueue_wake_all only ever wakes writers.                              *)
LEMMA WokenFacts ==
  ASSUME NEW M, NEW q \in Woken(M)
  PROVE  q \in Seq(Workers)
<1> DEFINE S == {Writer(c) : c \in Sleepers(M)}
<1>1. S \subseteq Workers
  BY TaskFacts, Zenon DEF Sleepers
<1>2. PICK n \in 0..NConns : q \in [1..n -> S]
  BY Zenon DEF Woken
<1> HIDE DEF S
<1> QED BY <1>1, <1>2, NConnsAssumption

(* A task with something to do has a state.                                *)
LEMMA WorkerFacts ==
  ASSUME IInv, NEW t \in Workers
  PROVE  /\ t \in Tasks /\ t[2] \in Conns /\ t # Listener /\ t # NULL
         /\ t = Reader(t[2]) \/ t = Writer(t[2])
         /\ pc[t] \notin {"none", "r_new"} \/ acts[t] # <<>> =>
              /\ Of(t) \in used /\ Of(t) \in Slots /\ Of(t) # NULL
              /\ Of(t) = slot[t[2]]
              /\ conn[Of(t)] \in ConnType
<1>1. /\ t \in Tasks /\ t[2] \in Conns /\ t # Listener /\ t # NULL
      /\ t = Reader(t[2]) \/ t = Writer(t[2])
  BY TaskFacts, NullFacts DEF Workers
<1>2. ASSUME pc[t] \notin {"none", "r_new"} \/ acts[t] # <<>>
      PROVE  slot[t[2]] # NULL
  BY <1>1, <1>2, Zenon DEF IInv, Births
<1>3. slot[t[2]] \in used \cup {NULL} /\ used \subseteq Slots /\ conn \in [Slots -> ConnType]
  BY <1>1, Zenon DEF IInv, Types
<1>4. ASSUME pc[t] \notin {"none", "r_new"} \/ acts[t] # <<>>
      PROVE  /\ Of(t) \in used /\ Of(t) \in Slots /\ Of(t) # NULL
             /\ Of(t) = slot[t[2]]
             /\ conn[Of(t)] \in ConnType
  <2>1. Of(t) = slot[t[2]] /\ Of(t) # NULL
    BY <1>2, <1>4, Zenon DEF Of
  <2>2. Of(t) \in used
    BY <1>3, <2>1, Zenon
  <2>3. Of(t) \in Slots
    BY <1>3, <2>2, Zenon
  <2> QED BY <1>3, <2>1, <2>2, <2>3, Zenon
<1> QED BY <1>1, <1>4, Zenon

(* What is left of a list of actions after its first.                      *)
LEMMA TailFacts ==
  ASSUME NEW list \in Seq(Actions), Proper(list), list # <<>>
  PROVE  /\ Tail(list) \in Seq(Actions) /\ Proper(Tail(list))
         /\ Head(list) \notin {"msgid_check", "service", "sent", "half_close", "logout"}
              => Tail(list) = <<>>
         /\ Tail(list) # <<>> =>
              /\ Head(Tail(list)) \in {"service", "clear_recv", "clear_send", "rest_close"}
              /\ During(Head(list)) \subseteq During(Head(Tail(list)))
<1>1. Tail(list) \in Seq(Actions)
  OBVIOUS
<1>2. Head(list) \in Actions /\ Tail(list) \in Rest(Head(list))
  BY Zenon DEF Proper
<1>3. \A x, y : /\ <<x>> # <<>> /\ Head(<<x>>) = x /\ Tail(<<x>>) = <<>>
                /\ <<x, y>> # <<>> /\ Head(<<x, y>>) = x /\ Tail(<<x, y>>) = <<y>>
  BY ListFacts, Zenon
<1>4. CASE Head(list) = "msgid_check"
  <2>1. Tail(list) = <<"service", "clear_recv">>
    BY <1>2, <1>4, Zenon DEF Rest
  <2>2. Head(Tail(list)) = "service" /\ Tail(Tail(list)) = <<"clear_recv">>
          /\ Tail(list) # <<>>
    BY <2>1, <1>3, Zenon
  <2> QED BY <1>1, <1>4, <2>2, Zenon DEF Proper, Rest, During, Actions
<1>5. CASE Head(list) = "service"
  <2>1. Tail(list) = <<"clear_recv">>
    BY <1>2, <1>5, Zenon DEF Rest
  <2>2. Head(Tail(list)) = "clear_recv" /\ Tail(Tail(list)) = <<>>
    BY <2>1, <1>3, Zenon
  <2> QED BY <1>1, <1>5, <2>2, Zenon DEF Proper, Rest, During, Actions
<1>6. CASE Head(list) = "sent"
  <2>1. Tail(list) = <<"clear_send">>
    BY <1>2, <1>6, Zenon DEF Rest
  <2>2. Head(Tail(list)) = "clear_send" /\ Tail(Tail(list)) = <<>>
    BY <2>1, <1>3, Zenon
  <2> QED BY <1>1, <1>6, <2>2, Zenon DEF Proper, Rest, During, Actions
<1>7. CASE Head(list) \in {"half_close", "logout"} /\ Tail(list) # <<>>
  <2>1. Tail(list) = <<"rest_close">>
    BY <1>2, <1>7, Zenon DEF Rest
  <2>2. Head(Tail(list)) = "rest_close" /\ Tail(Tail(list)) = <<>>
    BY <2>1, <1>3, Zenon
  <2> QED BY <1>1, <1>7, <2>2, StateNames, Zenon
             DEF Proper, Rest, During, Actions, ChartStates
<1>8. CASE Tail(list) = <<>>
  BY <1>1, <1>8, Zenon DEF Proper
<1> QED BY <1>2, <1>4, <1>5, <1>6, <1>7, <1>8, Zenon DEF Rest

(* What a step of the task t does to lists of actions: t goes on with what *)
(* fits its state, or has yielded in Member_logout.                        *)
Resumes(t) ==
  /\ running = t /\ UNCHANGED slot
  /\ \A u \in Tasks : u # t => acts'[u] = acts[u]
  /\ Proper(acts'[t])
  /\ acts'[t] # <<>> => \/ Pending(t, "logout")'
                        \/ running' = t /\ conn'[Of(t)].cs \in During(Head(acts'[t]))
  /\ Pending(t, "key_prep")' => t = Reader(t[2]) /\ pc'[t] = "r_pass"
  /\ \A c \in Conns : Reader(c) # t => pc'[Reader(c)] = pc[Reader(c)]

(* A step of the task t that leaves clients, members and peers alone.      *)
Simple(t) ==
  /\ Resumes(t) /\ UNCHANGED mem
  /\ \A s \in Slots : s # Of(t) => conn'[s] = conn[s]
  /\ \A s \in Slots : /\ conn'[s].client = conn[s].client
                      /\ conn'[s].member = conn[s].member
                      /\ conn'[s].peer = conn[s].peer
  /\ conn[Of(t)].cs \in Parted => conn'[Of(t)].cs \in Parted
  /\ conn'[Of(t)].cs \in {"Accepting", "KeyCheck", "Tuning"}
       => conn[Of(t)].cs \in {"Accepting", "KeyCheck", "Tuning"}
  /\ \A u \in Tasks : u # t => local'[u] = local[u]
  /\ ~Pending(t, "logout")'
  /\ Pending(t, "register")' => conn[Of(t)].cs = "Tuning"
  /\ Pending(t, "key_prep")' => pc[t] = "r_key"
  /\ \A c \in Conns :
       pc'[Reader(c)] \in {"none", "r_new", "r_key"} => pc'[Reader(c)] = pc[Reader(c)]

(* Such a step leaves lists of actions that fit the states.                *)
LEMMA ResumesFits ==
  ASSUME IInv, NEW t \in Workers, Resumes(t)
  PROVE  Fits'
<1>1. \A u \in Tasks : Proper(acts'[u])
  BY Zenon DEF Resumes, IInv, Fits
<1>2. ASSUME NEW u \in Workers, acts'[u] # <<>>, ~Pending(u, "logout")'
      PROVE  running' = u /\ State(u)'.cs \in During(Head(acts'[u]))
  <2>1. u # t => acts'[u] = acts[u]
    BY TaskFacts, Zenon DEF Resumes
  <2>2. u = t
    BY <1>2, <2>1, Zenon DEF Resumes, IInv, Fits, Pending
  <2> QED BY <1>2, <2>2, Zenon DEF Resumes, State, Of
<1>3. ASSUME NEW c \in Conns
      PROVE  /\ Pending(Reader(c), "key_prep")' => pc'[Reader(c)] = "r_pass"
             /\ ~Pending(Writer(c), "key_prep")'
  <2>1. Reader(c) \in Tasks /\ Writer(c) \in Tasks
    BY TaskFacts, Zenon
  <2> QED BY <2>1, TaskFacts DEF Resumes, IInv, Fits, Pending
<1> QED BY <1>1, <1>2, <1>3, Zenon DEF Fits

(* A step that sets fields of the state s other than its pointers to the   *)
(* client, the member and the peer.                                        *)
Touches(s) ==
  \/ conn' = conn
  \/ \E x \in ConnsN : conn' = [conn EXCEPT ![s].send = x]
  \/ \E x \in AllKinds \cup {NULL} : conn' = [conn EXCEPT ![s].recv = x]
  \/ \E x \in Bodies : conn' = [conn EXCEPT ![s].body = x]
  \/ conn' = [conn EXCEPT ![s].recv = NULL, ![s].body = NULL]
  \/ \E x \in used \cup {NULL} : conn' = [conn EXCEPT ![s].next = x]
  \/ \E x \in Workers \cup {NULL}, q \in Seq(Workers) :
       \/ conn' = [conn EXCEPT ![s].owner = x]
       \/ conn' = [conn EXCEPT ![s].waiting = q]
       \/ conn' = [conn EXCEPT ![s].owner = x, ![s].waiting = q]

(* All that happens to conn is that the state s is set to r.               *)
Sets(s, r) ==
  /\ r \in ConnType /\ conn' \in [Slots -> ConnType] /\ conn'[s] = r
  /\ \A z \in Slots : z # s => conn'[z] = conn[z]

(* Such a step leaves a state of the right type.                           *)
LEMMA TouchFacts ==
  ASSUME conn \in [Slots -> ConnType], NEW s \in Slots, Touches(s)
  PROVE  \E r : /\ Sets(s, r)
                /\ r.client = conn[s].client /\ r.member = conn[s].member
                /\ r.peer = conn[s].peer /\ r.cs = conn[s].cs
<1>1. conn[s] \in ConnType
  BY Zenon
<1> DEFINE Good(r) == /\ r \in ConnType
                      /\ r.client = conn[s].client /\ r.member = conn[s].member
                      /\ r.peer = conn[s].peer /\ r.cs = conn[s].cs
<1>2. \A x \in ConnsN : Good([conn[s] EXCEPT !.send = x])
  BY <1>1, Zenon DEF ConnType
<1>3. \A x \in AllKinds \cup {NULL} : Good([conn[s] EXCEPT !.recv = x])
  BY <1>1, Zenon DEF ConnType
<1>4. \A x \in Bodies : Good([conn[s] EXCEPT !.body = x])
  BY <1>1, Zenon DEF ConnType
<1>5. Good([conn[s] EXCEPT !.recv = NULL, !.body = NULL])
  BY <1>1, Zenon DEF ConnType, Bodies
<1>6. \A x \in used \cup {NULL} : Good([conn[s] EXCEPT !.next = x])
  BY <1>1, Zenon DEF ConnType
<1>7. \A x \in Workers \cup {NULL} : Good([conn[s] EXCEPT !.owner = x])
  BY <1>1, Zenon DEF ConnType
<1>8. \A q \in Seq(Workers) : Good([conn[s] EXCEPT !.waiting = q])
  BY <1>1, Zenon DEF ConnType
<1>9. \A x \in Workers \cup {NULL}, q \in Seq(Workers) :
        Good([conn[s] EXCEPT !.owner = x, !.waiting = q])
  BY <1>1, Zenon DEF ConnType
<1>10. Good(conn[s])
  BY <1>1, Zenon
<1> HIDE DEF Good
<1>11. PICK r : Good(r) /\ conn' = [conn EXCEPT ![s] = r]
  BY <1>2, <1>3, <1>4, <1>5, <1>6, <1>7, <1>8, <1>9, <1>10, Zenon DEF Touches
<1>12. Sets(s, r)
  BY <1>11, Zenon DEF Sets, Good
<1> QED BY <1>11, <1>12, Zenon DEF Good

(* fgoto Aborting, and the freeing of a malformed message that comes       *)
(* before it in `recv'.                                                    *)
Aborts(s) ==
  \/ conn' = [conn EXCEPT ![s].cs = "Aborting"]
  \/ /\ "freed" \in Bodies
     /\ conn' = [conn EXCEPT ![s].cs = "Aborting", ![s].body = "freed"]

(* The machine moves: that leaves a state of the right type, too.          *)
LEMMA MachineFacts ==
  ASSUME conn \in [Slots -> ConnType], NEW s \in Slots, NEW x \in States,
         conn' = [conn EXCEPT ![s].cs = x]
  PROVE  \E r : /\ Sets(s, r) /\ r.cs = x
                /\ r.client = conn[s].client /\ r.member = conn[s].member
                /\ r.peer = conn[s].peer
<1> DEFINE r == [conn[s] EXCEPT !.cs = x]
<1>1. conn[s] \in ConnType /\ conn' = [conn EXCEPT ![s] = r]
  BY Zenon
<1>2. /\ r \in ConnType /\ r.cs = x
      /\ r.client = conn[s].client /\ r.member = conn[s].member /\ r.peer = conn[s].peer
  BY <1>1, Zenon DEF ConnType
<1> HIDE DEF r
<1>3. Sets(s, r)
  BY <1>1, <1>2, Zenon DEF Sets
<1> QED BY <1>2, <1>3, Zenon

(* So does a step to Aborting.                                             *)
LEMMA AbortFacts ==
  ASSUME conn \in [Slots -> ConnType], NEW s \in Slots, Aborts(s)
  PROVE  \E r : /\ Sets(s, r) /\ r.cs = "Aborting"
                /\ r.client = conn[s].client /\ r.member = conn[s].member
                /\ r.peer = conn[s].peer
<1>1. conn[s] \in ConnType /\ "Aborting" \in States
  BY StateNames, Zenon DEF ChartStates
<1> DEFINE Good(r) == /\ r \in ConnType /\ r.cs = "Aborting"
                      /\ r.client = conn[s].client /\ r.member = conn[s].member
                      /\ r.peer = conn[s].peer
<1>2. Good([conn[s] EXCEPT !.cs = "Aborting"])
  BY <1>1, Zenon DEF ConnType
<1>3. "freed" \in Bodies => Good([conn[s] EXCEPT !.cs = "Aborting", !.body = "freed"])
  BY <1>1, Zenon DEF ConnType
<1> HIDE DEF Good
<1>4. PICK r : Good(r) /\ conn' = [conn EXCEPT ![s] = r]
  BY <1>2, <1>3, Zenon DEF Aborts
<1>5. Sets(s, r)
  BY <1>4, Zenon DEF Sets, Good
<1> QED BY <1>4, <1>5, Zenon DEF Good

(* Where a task that was born may go.                                      *)
Places(u) ==
  IF u = Reader(u[2]) THEN ReaderLabels \ {"none", "r_new", "r_key"}
  ELSE WriterLabels \ {"none"}

(* The places are those where the tasks go.                                *)
LEMMA PlaceFacts ==
  \A c :
    /\ {"r_exit", "r_tuning", "r_confirmed", "r_final", "r_loop", "r_read", "r_lock",
        "r_received", "r_unlock", "r_hub_close", "r_pass", "r_pass2", "r_confirm",
        "r_locked", "r_service", "r_close"} \subseteq Places(Reader(c))
    /\ {"w_dequeue", "w_woken", "w_lock", "w_queued", "w_sending", "w_unlock", "w_exit",
        "w_done", "w_locked", "w_sent", "w_failed", "w_close"} \subseteq Places(Writer(c))
  BY TaskFacts, Zenon DEF Places, ReaderLabels, WriterLabels

(* The run queue may grow, but not by the listener.                        *)
Enlarges ==
  /\ ready' \in Seq(Tasks)
  /\ \A i \in DOMAIN ready' : ready'[i] = Listener => i \in DOMAIN ready /\ ready[i] = Listener

(* Where the task t goes, or the writer it creates.                        *)
Walks(t) ==
  \/ UNCHANGED pc
  \/ pc' = [pc EXCEPT ![t] = pc'[t]] /\ pc'[t] \in Places(t)
  \/ pc' = [pc EXCEPT ![Writer(t[2])] = "w_dequeue"]

(* What a step of the task t does to the variables, whatever they mean.    *)
Steps(t) ==
  /\ running = t
  /\ acts[t] # <<>> \/ pc[t] \notin {"none", "r_new"}
  /\ conn' \in [Slots -> ConnType]
  /\ acts' \in [Tasks -> Seq(Actions)]
  /\ Walks(t)
  /\ local' = [local EXCEPT ![t] = local'[t]] /\ local'[t] \in ConnsN
  /\ running' \in {t, NULL} /\ Enlarges
  /\ closed' \in used \cup {NULL}
  /\ queue' \in [Conns -> 0..Capacity]
  /\ open' \subseteq Conns /\ members' \subseteq Conns
  /\ mem' \in [Conns -> Lives] /\ peer' \in [Conns -> Lives]
  /\ routed' \in [Conns -> Nat] /\ \A c \in Conns : routed'[c] > 0 => mem'[c] = "live"
  /\ UNCHANGED <<used, slot, accepted>>

(* Such a step keeps the part of IInv that does not depend on what the     *)
(* members and peers are.                                                  *)
LEMMA StepsTypes ==
  ASSUME IInv, NEW t \in Workers, Steps(t), \A u \in Tasks : u # t => acts'[u] = acts[u]
  PROVE  Types' /\ Births' /\ Once' /\ RoutedAreLive'
<1>1. /\ t \in Tasks /\ t[2] \in Conns /\ t # Listener /\ t # NULL
      /\ t = Reader(t[2]) \/ t = Writer(t[2])
      /\ slot[t[2]] # NULL
  BY WorkerFacts, Zenon DEF Steps
<1>2. /\ pc' \in [Tasks -> Labels]
      /\ \A c \in Conns :
           /\ pc'[Reader(c)] \in ReaderLabels /\ pc'[Writer(c)] \in WriterLabels
           /\ pc'[Reader(c)] = pc[Reader(c)] \/ (t = Reader(c) /\ pc'[t] \notin {"none", "r_new"})
           /\ pc'[Writer(c)] = pc[Writer(c)] \/ c = t[2]
  <2>1. /\ pc \in [Tasks -> Labels]
        /\ \A c \in Conns : pc[Reader(c)] \in ReaderLabels /\ pc[Writer(c)] \in WriterLabels
    BY Zenon DEF IInv, Types, Births
  <2>2. "w_dequeue" \in WriterLabels
    BY Zenon DEF WriterLabels
  <2>3. Places(t) \subseteq Labels
    BY LabelFacts, Zenon DEF Places
  <2>4. /\ t = Reader(t[2]) => Places(t) \subseteq ReaderLabels \ {"none", "r_new"}
        /\ t = Writer(t[2]) => Places(t) \subseteq WriterLabels
    BY TaskFacts DEF Places
  <2>5. CASE pc' = [pc EXCEPT ![t] = pc'[t]] /\ pc'[t] \in Places(t)
    <3>1. CASE t = Reader(t[2])
      BY <1>1, <2>1, <2>3, <2>4, <2>5, <3>1, TaskFacts
    <3>2. CASE t = Writer(t[2])
      BY <1>1, <2>1, <2>3, <2>4, <2>5, <3>2, TaskFacts
    <3> QED BY <1>1, <3>1, <3>2, Zenon
  <2>6. CASE pc' = [pc EXCEPT ![Writer(t[2])] = "w_dequeue"]
    BY <1>1, <2>1, <2>2, <2>6, LabelFacts, TaskFacts, Zenon
  <2> QED BY <2>1, <2>5, <2>6, Zenon DEF Steps, Walks
<1>3. Once'
  <2>1. running' # Listener /\ accepted' = accepted
    BY <1>1, NullFacts, TaskFacts, Zenon DEF Steps
  <2> QED BY <2>1 DEF Steps, Enlarges, IInv, Once, Range
<1>4. Types'
  <2>1. ConnType' = ConnType
    BY Zenon DEF Steps, ConnType
  <2>2. local' \in [Tasks -> ConnsN]
    <3>1. local \in [Tasks -> ConnsN] /\ local' = [local EXCEPT ![t] = local'[t]]
          /\ local'[t] \in ConnsN
      BY Zenon DEF Steps, IInv, Types
    <3> QED BY <3>1, Zenon
  <2> QED BY <1>1, <1>2, <2>1, <2>2, Zenon DEF Steps, Enlarges, IInv, Types
<1>5. Births'
  <2>1. UNCHANGED <<used, slot, accepted>>
    BY Zenon DEF Steps
  <2> SUFFICES ASSUME NEW c \in Conns
               PROVE  /\ pc'[Reader(c)] = "none" <=> c > accepted
                      /\ pc'[Reader(c)] \in {"none", "r_new"} <=> slot[c] = NULL
                      /\ pc'[Writer(c)] # "none" => slot[c] # NULL
                      /\ acts'[Reader(c)] # <<>> \/ acts'[Writer(c)] # <<>> => slot[c] # NULL
    BY <1>2, <2>1, Zenon DEF IInv, Births
  <2>2. CASE c = t[2]
    BY <1>1, <1>2, <2>2, Zenon DEF IInv, Births
  <2>3. CASE c # t[2]
    <3>1. Reader(c) # t /\ Writer(c) # t /\ Reader(c) \in Tasks /\ Writer(c) \in Tasks
      BY <2>3, TaskFacts, Zenon
    <3> QED BY <1>2, <2>3, <3>1, Zenon DEF IInv, Births
  <2> QED BY <2>2, <2>3, Zenon
<1>6. RoutedAreLive'
  BY Zenon DEF Steps, RoutedAreLive
<1> QED BY <1>3, <1>4, <1>5, <1>6, Zenon

(* A step that leaves clients, members and peers alone.                    *)
LEMMA SimpleKeeps ==
  ASSUME IInv, NEW t \in Workers, Steps(t), Simple(t)
  PROVE  IInv'
<1>1. ClientsPart'
  BY Zenon DEF Simple, Resumes, IInv, ClientsPart
<1>2. MembersLive'
  BY DEF Simple, Resumes, IInv, MembersLive
<1>3. LogoutsApart'
  <2>1. \A u \in Tasks : Pending(u, "logout")' => Pending(u, "logout") /\ local'[u] = local[u]
    BY Zenon DEF Simple, Resumes, Pending
  <2> QED BY <2>1 DEF Simple, Resumes, IInv, LogoutsApart
<1>4. \A s \in Slots : Unregistered(s)' => Unregistered(s)
  <2> SUFFICES ASSUME NEW s \in Slots, Unregistered(s)' PROVE Unregistered(s)
    BY Zenon
  <2>1. CASE conn'[s].cs \in {"Accepting", "KeyCheck", "Tuning"}
    BY <2>1, Zenon DEF Simple, Resumes, Unregistered
  <2>2. CASE \E u \in Workers : Of(u)' = s /\ Pending(u, "register")'
    <3>1. PICK u \in Workers : Of(u) = s /\ Pending(u, "register")'
      BY <2>2, Zenon DEF Simple, Resumes, Of
    <3>2. u # t => Pending(u, "register")
      BY <3>1, TaskFacts, Zenon DEF Simple, Resumes, Pending
    <3> QED BY <3>1, <3>2, Zenon DEF Simple, Unregistered
  <2> QED BY <2>1, <2>2, Zenon DEF Unregistered
<1>5. \A c \in Conns : Fresh(c)' => Fresh(c)
  BY TaskFacts, Zenon DEF Simple, Resumes, Fresh, Pending
<1>6. PeersApart'
  BY <1>4, <1>5 DEF Simple, Resumes, IInv, PeersApart
<1>7. Types' /\ Births' /\ Once' /\ RoutedAreLive' /\ Fits'
  BY StepsTypes, ResumesFits, Zenon DEF Simple, Resumes
<1> QED BY <1>1, <1>2, <1>3, <1>6, <1>7, Zenon DEF IInv

(* What most steps of a task do: they set fields of its state or abort the *)
(* event, finish an action, move on, and perhaps wake writers or block.    *)
Moves(t) ==
  /\ running = t
  /\ acts[t] # <<>> \/ pc[t] \notin {"none", "r_new"}
  /\ \/ /\ Touches(Of(t))
        /\ \/ acts[t] = <<>> /\ UNCHANGED acts
           \/ /\ acts[t] # <<>> /\ acts' = [acts EXCEPT ![t] = Tail(acts[t])]
              /\ running' = t \/ Head(acts[t]) = "tune"
     \/ /\ Aborts(Of(t))
        /\ acts' = [acts EXCEPT ![t] = <<>>]
  /\ Walks(t)
  /\ local' = [local EXCEPT ![t] = local'[t]] /\ local'[t] \in ConnsN
  /\ running' \in {t, NULL} /\ Enlarges
  /\ closed' \in used \cup {NULL}
  /\ queue' \in [Conns -> 0..Capacity]
  /\ routed' \in [Conns -> Nat] /\ \A c \in Conns : routed'[c] > 0 => mem[c] = "live"
  /\ UNCHANGED <<used, open, members, mem, peer, slot, accepted>>

(* So those steps keep IInv.                                               *)
LEMMA MovesKeep ==
  ASSUME IInv, NEW t \in Workers, Moves(t)
  PROVE  IInv'
<1>1. /\ t \in Tasks /\ t[2] \in Conns /\ t # Listener /\ t # NULL
      /\ t = Reader(t[2]) \/ t = Writer(t[2])
      /\ Of(t) \in Slots /\ conn \in [Slots -> ConnType] /\ conn[Of(t)].cs \in States
  BY WorkerFacts, Zenon DEF Moves, IInv, Types, ConnType
<1>2. PICK r : /\ Sets(Of(t), r)
               /\ r.client = conn[Of(t)].client /\ r.member = conn[Of(t)].member
               /\ r.peer = conn[Of(t)].peer /\ r.cs \in {conn[Of(t)].cs, "Aborting"}
               /\ acts' # [acts EXCEPT ![t] = <<>>] => r.cs = conn[Of(t)].cs
  <2>1. CASE Touches(Of(t))
    BY <1>1, <2>1, TouchFacts, Zenon
  <2>2. CASE Aborts(Of(t)) /\ acts' = [acts EXCEPT ![t] = <<>>]
    BY <1>1, <2>2, AbortFacts, Zenon
  <2> QED BY <2>1, <2>2, Zenon DEF Moves
<1>3. /\ acts \in [Tasks -> Seq(Actions)] /\ Proper(acts[t])
      /\ <<>> \in Seq(Actions) /\ Proper(<<>>)
      /\ acts[t] # <<>> => Pending(t, "logout") \/ conn[Of(t)].cs \in During(Head(acts[t]))
  BY <1>1, ChartLists, Zenon DEF IInv, Types, Fits, State
<1>4. acts[t] # <<>> =>
        /\ Tail(acts[t]) \in Seq(Actions) /\ Proper(Tail(acts[t]))
        /\ Head(acts[t]) = "tune" => Tail(acts[t]) = <<>>
        /\ Tail(acts[t]) # <<>> =>
             /\ Head(Tail(acts[t])) \in {"service", "clear_recv", "clear_send", "rest_close"}
             /\ conn[Of(t)].cs \in During(Head(Tail(acts[t])))
  <2>1. Head(acts[t]) = "logout" => During(Head(acts[t])) = States
    BY Zenon DEF During
  <2>2. acts[t] \in Seq(Actions)
    BY <1>1, <1>3, Zenon
  <2> QED BY <1>1, <1>3, <2>1, <2>2, TailFacts, Zenon DEF Pending
<1>5. /\ acts' \in [Tasks -> Seq(Actions)] /\ Proper(acts'[t])
      /\ \A u \in Tasks : u # t => acts'[u] = acts[u]
      /\ acts'[t] # <<>> => /\ running' = t /\ r.cs \in During(Head(acts'[t]))
                            /\ Head(acts'[t]) \notin {"logout", "register", "key_prep"}
  <2>1. CASE acts' = [acts EXCEPT ![t] = <<>>]
    BY <1>1, <1>3, <2>1, Zenon
  <2>2. CASE acts' # [acts EXCEPT ![t] = <<>>]
    BY <1>1, <1>2, <1>3, <1>4, <2>2, Zenon DEF Moves
  <2> QED BY <2>1, <2>2, Zenon
<1>6. \A c \in Conns :
       /\ Reader(c) # t => pc'[Reader(c)] = pc[Reader(c)]
       /\ pc'[Reader(c)] \in {"none", "r_new", "r_key"} => pc'[Reader(c)] = pc[Reader(c)]
  <2>1. pc \in [Tasks -> Labels]
    BY Zenon DEF IInv, Types
  <2> QED BY <1>1, <2>1, TaskFacts DEF Moves, Walks, Places
<1>7. \A u \in Tasks : u # t => local'[u] = local[u]
  BY Zenon DEF Moves, IInv, Types
<1>8. Steps(t)
  BY <1>2, <1>5, Zenon DEF Moves, Steps, Sets, IInv, Types
<1>9. Resumes(t)
  BY <1>1, <1>2, <1>5, <1>6, Zenon DEF Moves, Resumes, Sets, Pending
<1>10. Simple(t)
  BY <1>1, <1>2, <1>5, <1>6, <1>7, <1>9, Zenon DEF Moves, Simple, Sets, Pending, Parted
<1> QED BY <1>8, <1>10, SimpleKeeps, Zenon

(* What a task that is past its birth can rely on.                         *)
Ground(t) ==
  /\ t # Listener /\ t # NULL /\ t[2] \in Conns /\ t \in Tasks
  /\ Of(t) \in used /\ Of(t) \in Slots /\ conn[Of(t)] \in ConnType
  /\ conn[Of(t)].member \in ConnsN /\ conn[Of(t)].body \in Bodies
  /\ closed \in used \cup {NULL} /\ Kinds \subseteq AllKinds /\ NULL \in ConnsN
  /\ conn \in [Slots -> ConnType] /\ acts \in [Tasks -> Seq(Actions)]
  /\ pc \in [Tasks -> Labels] /\ local \in [Tasks -> ConnsN] /\ local[t] \in ConnsN
  /\ queue \in [Conns -> 0..Capacity] /\ ready \in Seq(Tasks)
  /\ routed \in [Conns -> Nat] /\ \A c \in Conns : routed[c] > 0 => mem[c] = "live"

(* IInv provides all of that.                                              *)
LEMMA Grounds ==
  ASSUME IInv, NEW t \in Workers, acts[t] # <<>> \/ pc[t] \notin {"none", "r_new"}
  PROVE  Ground(t)
<1>1. /\ t # Listener /\ t # NULL /\ t[2] \in Conns /\ t \in Tasks
      /\ Of(t) \in used /\ Of(t) \in Slots /\ conn[Of(t)] \in ConnType
  BY WorkerFacts, Zenon
<1>2. conn[Of(t)].member \in ConnsN /\ conn[Of(t)].body \in Bodies
  BY <1>1, Zenon DEF ConnType
<1>3. /\ closed \in used \cup {NULL} /\ conn \in [Slots -> ConnType]
      /\ acts \in [Tasks -> Seq(Actions)] /\ pc \in [Tasks -> Labels]
      /\ local \in [Tasks -> ConnsN] /\ queue \in [Conns -> 0..Capacity]
      /\ ready \in Seq(Tasks) /\ routed \in [Conns -> Nat]
      /\ \A c \in Conns : routed[c] > 0 => mem[c] = "live"
  BY Zenon DEF IInv, Types, RoutedAreLive
<1> QED BY <1>1, <1>2, <1>3, KindsAssumption, Zenon DEF Ground, ConnsN

(* The steps of the reader that set fields of its own state.               *)
LEMMA ReaderMoves ==
  ASSUME IInv, NEW c \in Conns, NEW t, t = Reader(c), fault' = fault,
         \/ tune(t) \/ tune_identity(t) \/ tune_confirmed(t) \/ tune_final(t)
         \/ established(t) \/ ConnectionState_read_msg(t) \/ Peer_recv(t)
         \/ recv(t) \/ received(t) \/ msgid_check(t) \/ clear_recv(t)
  PROVE  IInv'
<1> USE DEF At, Doing, lists, objects, tasks, sched, inputs
<1>1. t \in Workers
  BY TaskFacts, Zenon
<1>2. Ground(t)
  <2>1. acts[t] # <<>> \/ pc[t] \notin {"none", "r_new"}
    BY Zenon DEF tune, tune_identity, tune_confirmed, tune_final, established,
         ConnectionState_read_msg, Peer_recv, recv, received, msgid_check, clear_recv
  <2> QED BY <1>1, <2>1, Grounds, Zenon
<1> USE <1>1, <1>2, PlaceFacts DEF Moves, Walks, Touches, Aborts, Enlarges, Ground
<1>3. ASSUME tune(t) PROVE Moves(t)
  BY <1>3, ZenonT(30) DEF tune, Await, Goto, ActionDone
<1>4. ASSUME tune_identity(t) PROVE Moves(t)
  BY <1>4, SMTT(30) DEF tune_identity, Goto, fgoto_Aborting, Fail
<1>5. ASSUME tune_confirmed(t) PROVE Moves(t)
  BY <1>5 DEF tune_confirmed, Await, Goto, fgoto_Aborting, Fail
<1>6. ASSUME tune_final(t) PROVE Moves(t)
  BY <1>6 DEF tune_final, Goto, fgoto_Aborting, Fail
<1>7. ASSUME established(t) PROVE Moves(t)
  <2>1. ready' = Append(ready, Writer(t[2])) /\ Writer(t[2]) \in Tasks
          /\ Writer(t[2]) # Listener
    BY <1>7, TaskFacts, Zenon DEF established
  <2>2. Enlarges
    BY <2>1
  <2> HIDE DEF Enlarges
  <2> QED BY <1>7, <2>2, Zenon DEF established, Goto, ActionDone
<1>8. ASSUME ConnectionState_read_msg(t) PROVE Moves(t)
  BY <1>8, SMTT(30) DEF ConnectionState_read_msg, State, Goto, Await
<1>9. ASSUME Peer_recv(t) PROVE Moves(t)
  <2>1. Touches(Of(t))
    BY <1>9, Zenon DEF Peer_recv, Fail, Bodies
  <2> HIDE DEF Touches
  <2> QED BY <1>9, <2>1 DEF Peer_recv, Fail, Goto
<1>10. ASSUME recv(t) PROVE Moves(t)
  <2>1. fault = "none" /\ fault' # "recv"
    BY <1>10 DEF recv, Doing
  <2>2. conn[Of(t)].body \in Bodies /\ Kinds \subseteq AllKinds
    BY KindsAssumption, Zenon DEF ConnType
  <2>3. State(t).body = "bad" => "freed" \in Bodies
    <3>1. "bad" # NULL /\ "bad" # "freed"
      BY NullFacts DEF AllKinds
    <3> QED BY <2>2, <3>1, Zenon DEF Bodies, State
  <2>4. State(t).body \notin {NULL, "freed"} => State(t).body \in AllKinds
    BY <2>2, Zenon DEF Bodies, State
  <2>5. \/ Touches(Of(t)) /\ ActionDone(t)
        \/ Aborts(Of(t)) /\ acts' = [acts EXCEPT ![t] = <<>>]
    <3>1. CASE State(t).body \in {NULL, "bad"}
      BY <1>10, <2>1, <2>3, <3>1, Zenon DEF recv, fgoto_Aborting, Fail, Aborts
    <3>2. CASE State(t).body \notin {NULL, "bad"}
      BY <1>10, <2>1, <2>4, <3>2, Zenon DEF recv, Fail, Touches
    <3> QED BY <3>1, <3>2, Zenon
  <2> HIDE DEF Touches, Aborts
  <2> QED BY <1>10, <2>1, <2>5, Zenon DEF recv, ActionDone, Fail
<1>11. ASSUME received(t) PROVE Moves(t)
  BY <1>11, Zenon DEF received, State, Goto
<1>12. ASSUME msgid_check(t) PROVE Moves(t)
  BY <1>12, Zenon DEF msgid_check, fgoto_Aborting, ActionDone, State
<1>13. ASSUME clear_recv(t) PROVE Moves(t)
  BY <1>13, Zenon DEF clear_recv, ActionDone, State
<1> QED BY <1>3, <1>4, <1>5, <1>6, <1>7, <1>8, <1>9, <1>10, <1>11, <1>12, <1>13,
        MovesKeep, Zenon

(* The steps of the writer that set fields of its own state.               *)
LEMMA WriterMoves ==
  ASSUME IInv, NEW c \in Conns, NEW t, t = Writer(c), fault' = fault,
         \/ ConnectionState_dequeue_msg(t) \/ dequeue_woken(t)
         \/ ConnectionState_send_msg(t) \/ Peer_send(t) \/ sent(t)
         \/ clear_send(t) \/ outgoing_exit(t)
  PROVE  IInv'
<1> USE DEF At, Doing, lists, objects, tasks, sched, inputs
<1>1. t \in Workers
  BY TaskFacts, Zenon
<1>2. Ground(t)
  <2>1. acts[t] # <<>> \/ pc[t] \notin {"none", "r_new"}
    BY ZenonT(30)
       DEF ConnectionState_dequeue_msg, dequeue_woken, ConnectionState_send_msg,
         Peer_send, sent, clear_send, outgoing_exit
  <2> QED BY <1>1, <2>1, Grounds, Zenon
<1> USE <1>1, <1>2, PlaceFacts DEF Moves, Walks, Touches, Enlarges, Ground
<1>3. ASSUME ConnectionState_dequeue_msg(t) PROVE Moves(t)
  <2>1. Touches(Of(t))
    BY <1>3, Zenon DEF ConnectionState_dequeue_msg, State
  <2> HIDE DEF Touches
  <2> QED BY <1>3, <2>1 DEF ConnectionState_dequeue_msg, State, Goto, Block
<1>4. ASSUME dequeue_woken(t) PROVE Moves(t)
  <2>1. Touches(Of(t))
    BY <1>4, Zenon DEF dequeue_woken, Fail
  <2> HIDE DEF Touches
  <2> QED BY <1>4, <2>1 DEF dequeue_woken, Fail, Goto
<1>5. ASSUME ConnectionState_send_msg(t) PROVE Moves(t)
  BY <1>5 DEF ConnectionState_send_msg, State, Goto, Await
<1>6. ASSUME Peer_send(t) PROVE Moves(t)
  BY <1>6, SMTT(30) DEF Peer_send, Goto, Fail
<1>7. ASSUME sent(t) PROVE Moves(t)
  <2>1. PICK m \in Conns : queue' = [queue EXCEPT ![m] = IF @ = 0 THEN 0 ELSE @ - 1]
    BY <1>7, Zenon DEF sent, State, Fail, ConnsN
  <2>2. queue' \in [Conns -> 0..Capacity]
    BY <2>1, CapacityAssumption
  <2> QED BY <1>7, <2>2 DEF sent, ActionDone, State, Fail
<1>8. ASSUME clear_send(t) PROVE Moves(t)
  BY <1>8, Zenon DEF clear_send, ActionDone, State
<1>9. ASSUME outgoing_exit(t) PROVE Moves(t)
  BY <1>9, Zenon DEF outgoing_exit, Goto, Block
<1> QED BY <1>3, <1>4, <1>5, <1>6, <1>7, <1>8, <1>9, MovesKeep, Zenon

-----------------------------------------------------------------------------
(***************************************************************************)
(* The lock, the services, the scheduler, and the steps that create.       *)
(***************************************************************************)

(* The lock, the services and the end of a close.                          *)
LEMMA SharedMoves ==
  ASSUME IInv, NEW t \in Workers, fault' = fault,
         \/ \E from \in Labels \ {"none", "r_new"}, to \in Places(t) :
              ConnectionState_lock(t, from, to) \/ ConnectionState_unlock(t, from, to)
         \/ service(t) \/ rest_close(t)
  PROVE  IInv'
<1> USE DEF At, Doing, lists, objects, tasks, sched, inputs
<1>1. acts[t] # <<>> \/ pc[t] \notin {"none", "r_new"}
  BY Zenon DEF ConnectionState_lock, ConnectionState_unlock, service, rest_close
<1>2. Ground(t)
  BY <1>1, Grounds, Zenon
<1>3. conn[Of(t)].waiting \in Seq(Workers)
  BY <1>2, Zenon DEF Ground, ConnType
<1> USE <1>1, <1>2 DEF Moves, Walks, Ground
<1>4. ASSUME NEW from \in Labels \ {"none", "r_new"}, NEW to \in Places(t),
             ConnectionState_lock(t, from, to)
      PROVE  Moves(t)
  <2>1. Append(conn[Of(t)].waiting, t) \in Seq(Workers)
    BY <1>3
  <2>2. Touches(Of(t))
    BY <1>4, <2>1, Zenon DEF ConnectionState_lock, State, Touches
  <2>3. Enlarges
    BY <1>4, Zenon DEF ConnectionState_lock, Block, Enlarges
  <2> QED BY <1>4, <2>2, <2>3, Zenon DEF ConnectionState_lock, State, Goto, Block
<1>5. ASSUME NEW from \in Labels \ {"none", "r_new"}, NEW to \in Places(t),
             ConnectionState_unlock(t, from, to)
      PROVE  Moves(t)
  <2>1. conn[Of(t)].waiting # <<>> =>
          Head(conn[Of(t)].waiting) \in Workers /\ Tail(conn[Of(t)].waiting) \in Seq(Workers)
    BY <1>3
  <2>2. Touches(Of(t))
    <3>1. \/ conn' = [conn EXCEPT ![Of(t)].owner = NULL]
          \/ /\ conn[Of(t)].waiting # <<>>
             /\ conn' = [conn EXCEPT ![Of(t)].owner = Head(conn[Of(t)].waiting),
                                     ![Of(t)].waiting = Tail(conn[Of(t)].waiting)]
      BY <1>5, Zenon DEF ConnectionState_unlock, State, Fail
    <3> QED BY <1>3, <2>1, <3>1, Zenon DEF Touches
  <2>3. ASSUME NEW q \in Seq(Workers), ready' = Append(ready \o q, t)
        PROVE  Enlarges
    <3> DEFINE w == ready \o q
    <3>1. /\ w \in Seq(Tasks) /\ Len(w) = Len(ready) + Len(q)
          /\ \A i \in 1..Len(w) : w[i] = IF i <= Len(ready) THEN ready[i] ELSE q[i - Len(ready)]
      BY TaskFacts
    <3>2. \A i \in 1..Len(w) : w[i] = Listener => i \in DOMAIN ready /\ ready[i] = Listener
      BY <3>1, TaskFacts, SMTT(30)
    <3> HIDE DEF w
    <3> QED BY <2>3, <3>1, <3>2 DEF Enlarges, w
  <2>4. Enlarges
    <3>1. CASE conn[Of(t)].waiting = <<>>
      <4>1. <<>> \in Seq(Workers)
        OBVIOUS
      <4>2. ready' = Append(ready \o <<>>, t)
        BY <1>5, <3>1, Zenon DEF ConnectionState_unlock, State, Fail, Yield
      <4> QED BY <2>3, <4>1, <4>2, Zenon
    <3>2. CASE conn[Of(t)].waiting # <<>>
      <4>1. <<Head(conn[Of(t)].waiting)>> \in Seq(Workers)
        BY <2>1, <3>2
      <4>2. ready' = Append(ready \o <<Head(conn[Of(t)].waiting)>>, t)
        BY <1>5, <3>2, Zenon DEF ConnectionState_unlock, State, Fail, Yield
      <4> QED BY <2>3, <4>1, <4>2, Zenon
    <3> QED BY <3>1, <3>2, Zenon
  <2>5. Goto(t, to) /\ running' = NULL
    BY <1>5, Zenon DEF ConnectionState_unlock, Yield, Fail, State
  <2> QED BY <1>5, <2>2, <2>4, <2>5, Zenon DEF ConnectionState_unlock, Goto, Fail, State
<1>6. ASSUME service(t) PROVE Moves(t)
  <2>1. conn[Of(t)].cs = "Idle"
    BY <1>6, Zenon DEF service, IInv, Fits, Pending, During, State
  <2>2. conn[Of(t)].member # NULL =>
          conn[Of(t)].member \in Conns /\ mem[conn[Of(t)].member] = "live"
    BY <2>1, Zenon DEF ConnsN, IInv, ClientsPart, Parted, MembersLive
  <2>3. ASSUME NEW n, \A d \in Conns : n[d] \in Nat /\ queue[d] + n[d] <= Capacity, Send(n)
        PROVE  Enlarges /\ queue' \in [Conns -> 0..Capacity]
    <3>1. PICK q \in Woken({d \in Conns : n[d] > 0}) : ready' = ready \o q
      BY <2>3, Zenon DEF Send
    <3>2. q \in Seq(Tasks) /\ \A i \in DOMAIN q : q[i] # Listener
      BY WokenFacts, TaskFacts
    <3>3. \A d \in Conns : queue[d] + n[d] \in 0..Capacity
      BY <2>3, CapacityAssumption
    <3>4. Enlarges
      BY <3>1, <3>2, SMTT(30) DEF Enlarges
    <3> QED BY <2>3, <3>3, <3>4, Zenon DEF Send
  <2>4. Enlarges /\ queue' \in [Conns -> 0..Capacity]
    <3>1. CASE UNCHANGED <<queue, ready>>
      BY <3>1, Zenon DEF Enlarges
    <3> DEFINE m == conn[Of(t)].member
               one == [d \in Conns |-> IF d = m /\ HasRoom(d, 1) THEN 1 ELSE 0]
    <3>2. CASE Send(one)
      <4>1. \A d \in Conns : one[d] \in Nat /\ queue[d] + one[d] <= Capacity
        BY CapacityAssumption DEF HasRoom
      <4> HIDE DEF one
      <4> QED BY <2>3, <3>2, <4>1, Zenon
    <3>3. CASE Route_deliver
      <4> DEFINE Fitting == {d \in Conns : HasRoom(d, routed[d])}
                 part(M, f) == [d \in Conns |-> IF d \in M THEN routed[d]
                                    ELSE IF d = f THEN Capacity - queue[d] ELSE 0]
      <4>1. CASE Fitting = Conns /\ Send(routed)
        <5>1. \A d \in Conns : routed[d] \in Nat /\ queue[d] + routed[d] <= Capacity
          BY <4>1 DEF HasRoom
        <5> QED BY <2>3, <4>1, <5>1, Zenon
      <4>2. ASSUME NEW M \in SUBSET Fitting, NEW f \in Conns, Send(part(M, f))
            PROVE  Enlarges /\ queue' \in [Conns -> 0..Capacity]
        <5>1. \A d \in Conns : part(M, f)[d] \in Nat /\ queue[d] + part(M, f)[d] <= Capacity
          BY <4>2, CapacityAssumption DEF HasRoom
        <5> HIDE DEF part
        <5> QED BY <2>3, <4>2, <5>1, Zenon
      <4> QED BY <3>3, <4>1, <4>2, Zenon DEF Route_deliver
    <3> QED BY <1>6, <3>1, <3>2, <3>3, Zenon DEF service, State, Fail
  <2>5. routed' \in [Conns -> Nat] /\ \A d \in Conns : routed'[d] > 0 => mem[d] = "live"
    <3> DEFINE m == conn[Of(t)].member
    <3>1. \/ UNCHANGED routed
          \/ m # NULL /\ routed' = [routed EXCEPT ![m] = @ + 1]
          \/ m # NULL /\ routed' = [routed EXCEPT ![m] = IF @ = 0 THEN 0 ELSE @ - 1]
      BY <1>6, Zenon DEF service, State, Fail
    <3>2. m # NULL => m \in Conns /\ mem[m] = "live"
      BY <2>2, Zenon
    <3> HIDE DEF m
    <3>3. CASE UNCHANGED routed
      BY <3>3, Zenon
    <3>4. ASSUME NEW x \in Nat, m # NULL, routed' = [routed EXCEPT ![m] = x]
          PROVE  /\ routed' \in [Conns -> Nat]
                 /\ \A d \in Conns : routed'[d] > 0 => mem[d] = "live"
      BY <3>2, <3>4, Zenon
    <3>5. m # NULL => routed[m] + 1 \in Nat
                      /\ (IF routed[m] = 0 THEN 0 ELSE routed[m] - 1) \in Nat
      BY <3>2
    <3> QED BY <3>1, <3>3, <3>4, <3>5, Zenon
  <2>6. CASE conn' = conn /\ ActionDone(t)
    BY <1>6, <2>4, <2>5, <2>6, Zenon
       DEF service, fgoto_Aborting, ActionDone, Fail, Touches
  <2>7. CASE fgoto_Aborting(t)
    BY <1>6, <2>4, <2>5, <2>7, Zenon
       DEF service, fgoto_Aborting, ActionDone, Fail, Aborts
  <2>8. (conn' = conn /\ ActionDone(t)) \/ fgoto_Aborting(t)
    <3>1. fault' = fault /\ fault = "none"
      BY <1>6, Zenon DEF service, Doing
    <3>2. fault' # "service"
      BY <3>1
    <3> QED BY <1>6, <3>2, Zenon DEF service, Fail
  <2> QED BY <2>6, <2>7, <2>8, Zenon
<1>7. ASSUME rest_close(t) PROVE Moves(t)
  BY <1>7, Zenon DEF rest_close, ActionDone, Fail, Touches, Enlarges
<1> QED BY <1>4, <1>5, <1>6, <1>7, MovesKeep, Zenon

(* A step that changes nothing but a fault, or nothing at all.             *)
LEMMA FaultKeeps ==
  ASSUME IInv, UNCHANGED <<conn, lists, open, objects, tasks, sched, accepted>>
  PROVE  IInv'
<1> USE DEF lists, objects, tasks, sched
<1>1. Types' /\ Births' /\ Once'
  BY Zenon DEF IInv, Types, ConnType, Births, Once
<1>2. Fits' /\ LogoutsApart'
  BY Zenon DEF IInv, Fits, Pending, State, Of, LogoutsApart
<1>3. ClientsPart' /\ MembersLive' /\ RoutedAreLive'
  BY Zenon DEF IInv, ClientsPart, MembersLive, RoutedAreLive
<1>4. PeersApart'
  BY Zenon DEF IInv, PeersApart, Unregistered, Fresh, Pending, Of
<1> QED BY <1>1, <1>2, <1>3, <1>4, Zenon DEF IInv

(* A step of the scheduler, which only happens while no task runs.         *)
LEMMA SchedulerKeeps ==
  ASSUME IInv, Schedule \/ \E t \in Tasks : Poll(t)
  PROVE  IInv'
<1> USE DEF lists, objects, tasks, inputs
<1>1. running = NULL /\ UNCHANGED <<conn, lists, open, objects, tasks, accepted>>
  BY Zenon DEF Schedule, Poll
<1>2. ready' \in Seq(Tasks) /\ running' \in Tasks \cup {NULL} /\ Once'
  <2>1. ready \in Seq(Tasks) /\ Once
    BY Zenon DEF IInv, Types
  <2>2. CASE Schedule
    <3>1. ready # <<>> /\ running' = Head(ready) /\ ready' = Tail(ready) /\ UNCHANGED accepted
      BY <2>2, Zenon DEF Schedule
    <3>2. /\ Head(ready) \in Tasks /\ Tail(ready) \in Seq(Tasks)
          /\ 1 \in DOMAIN ready /\ running' = ready[1]
          /\ \A i \in DOMAIN ready' :
               i \in Int /\ i + 1 \in DOMAIN ready /\ i + 1 # 1 /\ ready'[i] = ready[i + 1]
      BY <2>1, <3>1
    <3>3. \A i, j \in DOMAIN ready' : ready'[i] = Listener /\ ready'[j] = Listener => i = j
      <4> SUFFICES ASSUME NEW i \in DOMAIN ready', NEW j \in DOMAIN ready',
                          ready'[i] = Listener, ready'[j] = Listener
                   PROVE  i = j
        BY Zenon
      <4>1. i + 1 = j + 1
        BY <2>1, <3>2, Zenon DEF Once
      <4> QED BY <3>2, <4>1
    <3> QED BY <2>1, <3>1, <3>2, <3>3 DEF Once, Range
  <2>3. ASSUME NEW t \in Tasks, Poll(t)
        PROVE  ready' \in Seq(Tasks) /\ running' \in Tasks \cup {NULL} /\ Once'
    <3>1. /\ ready' = Append(ready, t) /\ running' = NULL /\ UNCHANGED accepted
          /\ t = Listener => accepted < NConns /\ \A i \in DOMAIN ready : ready[i] # Listener
      BY <1>1, <2>3, Zenon DEF Poll, Blocked, Range
    <3>2. /\ ready' \in Seq(Tasks)
          /\ \A i \in DOMAIN ready' : \/ i \in DOMAIN ready /\ ready'[i] = ready[i]
                                      \/ i = Len(ready) + 1 /\ ready'[i] = t
      BY <2>1, <3>1
    <3> QED BY <2>1, <3>1, <3>2, NullFacts, TaskFacts DEF Once, Range
  <2> QED BY <2>2, <2>3, Zenon
<1>3. Types' /\ Births'
  BY <1>1, <1>2, Zenon DEF IInv, Types, ConnType, Births
<1>4. Fits'
  <2>1. \A t \in Workers : acts[t] # <<>> => Pending(t, "logout")
    BY <1>1, NullFacts, TaskFacts, Zenon DEF IInv, Fits
  <2> QED BY <1>1, <2>1, Zenon DEF IInv, Fits, Pending
<1>5. ClientsPart' /\ MembersLive' /\ RoutedAreLive' /\ LogoutsApart'
  BY <1>1, Zenon DEF IInv, ClientsPart, MembersLive, RoutedAreLive, LogoutsApart, Pending
<1>6. PeersApart'
  BY <1>1, Zenon DEF IInv, PeersApart, Unregistered, Fresh, Pending, Of
<1> QED BY <1>2, <1>3, <1>4, <1>5, <1>6, Zenon DEF IInv

(* An event: the machine of connection.rl takes an arrow, and the task has *)
(* the actions of the arrow to run.                                        *)
LEMMA ConnectionState_execKeeps ==
  ASSUME IInv, NEW t \in Workers, ConnectionState_exec(t)
  PROVE  IInv'
<1>1. PICK call \in ReaderCalls \cup WriterCalls :
        /\ At(t, call[1])
        /\ Goto(t, call[3])
        /\ IF State(t).cs \in Done
             THEN UNCHANGED <<conn, acts>>
             ELSE LET step == Step(State(t).cs, call[2]) IN
                    /\ conn' = [conn EXCEPT ![Of(t)].cs = step.to]
                    /\ acts' = [acts EXCEPT ![t] = step.do]
        /\ UNCHANGED <<lists, open, objects, slot, local, sched, inputs, fault>>
  BY Zenon DEF ConnectionState_exec
<1>2. /\ call[2] \in CallEvents /\ call[1] \notin {"none", "r_new"}
      /\ call[2] = "KEY_PRESENT" => call[1] = "r_key" /\ call[3] = "r_pass"
      /\ call[1] \in ReaderLabels => call[3] \in Places(Reader(t[2]))
      /\ call[1] \in WriterLabels => call[3] \in Places(Writer(t[2]))
      /\ call[1] \in ReaderLabels => call[1] \notin WriterLabels
  BY PlaceFacts
       DEF ReaderCalls, WriterCalls, CallEvents, ReaderLabels, WriterLabels
<1>3. running = t /\ acts[t] = <<>> /\ pc[t] = call[1]
  BY <1>1, Zenon DEF At
<1>4. Ground(t)
  BY <1>2, <1>3, Grounds, Zenon
<1>5. call[3] \in Places(t) /\ (call[2] = "KEY_PRESENT" => t = Reader(t[2]))
  <2>1. t = Reader(t[2]) \/ t = Writer(t[2])
    BY WorkerFacts, Zenon
  <2> QED BY <1>2, <1>3, <1>4, <2>1 DEF Ground, IInv, Births, WriterLabels
<1>6. pc' = [pc EXCEPT ![t] = pc'[t]] /\ pc'[t] = call[3]
  BY <1>1, <1>4, Zenon DEF Goto, Ground
<1>7. /\ local' = [local EXCEPT ![t] = local'[t]] /\ local'[t] \in ConnsN
      /\ running' = t /\ Enlarges
      /\ UNCHANGED <<lists, open, objects, slot, local, sched, accepted>>
  BY <1>1, <1>3, <1>4, Zenon DEF Ground, Enlarges, sched, inputs
<1>8. CASE State(t).cs \in Done
  <2>1. UNCHANGED <<conn, acts>>
    BY <1>1, <1>8, Zenon
  <2>2. Moves(t)
    BY <1>2, <1>3, <1>4, <1>5, <1>6, <1>7, <2>1, Zenon
       DEF Moves, Touches, Walks, Ground, lists, objects
  <2> QED BY <2>2, MovesKeep, Zenon
<1>9. CASE State(t).cs \notin Done
  <2> DEFINE to == Step(conn[Of(t)].cs, call[2]).to
             do == Step(conn[Of(t)].cs, call[2]).do
  <2>1. Sensible(conn[Of(t)].cs, call[2], to, do)
    BY <1>2, StepFacts, Zenon
  <2>2. conn' = [conn EXCEPT ![Of(t)].cs = to] /\ acts' = [acts EXCEPT ![t] = do]
    BY <1>1, <1>9, Zenon DEF State
  <2> HIDE DEF to, do
  <2>3. PICK r : /\ Sets(Of(t), r) /\ r.cs = to
                 /\ r.client = conn[Of(t)].client /\ r.member = conn[Of(t)].member
                 /\ r.peer = conn[Of(t)].peer
    BY <1>4, <2>1, <2>2, MachineFacts, Zenon DEF Ground, Sensible
  <2>4. /\ acts' \in [Tasks -> Seq(Actions)] /\ acts'[t] = do
        /\ \A u \in Tasks : u # t => acts'[u] = acts[u]
    BY <1>4, <2>1, <2>2, Zenon DEF Ground, Sensible
  <2>5. Steps(t)
    BY <1>2, <1>3, <1>4, <1>5, <1>6, <1>7, <2>3, <2>4, ZenonT(30)
       DEF Steps, Walks, Sets, Ground, IInv, Types, lists, objects
  <2>6. \A c \in Conns :
          /\ Reader(c) # t => pc'[Reader(c)] = pc[Reader(c)]
          /\ pc'[Reader(c)] \in {"none", "r_new", "r_key"} => pc'[Reader(c)] = pc[Reader(c)]
    BY <1>4, <1>5, <1>6, TaskFacts, SMTT(30) DEF Ground, Places
  <2>7. Resumes(t)
    BY <1>2, <1>3, <1>5, <1>6, <1>7, <2>1, <2>3, <2>4, <2>6, Zenon
       DEF Resumes, Pending, Sensible, Sets
  <2>8. Simple(t)
    BY <1>2, <1>3, <1>7, <2>1, <2>3, <2>4, <2>6, <2>7, Zenon
       DEF Simple, Pending, Sensible, Sets, objects
  <2> QED BY <2>5, <2>8, SimpleKeeps, Zenon
<1> QED BY <1>8, <1>9, Zenon

(* The listener accepts a client and creates its reader.                   *)
LEMMA AcceptKeeps ==
  ASSUME IInv, Accept
  PROVE  IInv'
<1> DEFINE c == accepted + 1
<1>1. /\ c \in Conns /\ accepted \in 0..NConns /\ accepted' = c /\ accepted' \in 0..NConns
      /\ running = Listener /\ Reader(c) \in Tasks
  <2>1. /\ running = Listener /\ accepted' = c /\ accepted \in 0..NConns /\ accepted < NConns
    BY Zenon DEF Accept, At, IInv, Once, Types
  <2>2. c \in Conns /\ c \in 0..NConns
    BY <2>1, NConnsAssumption DEF Conns
  <2> QED BY <2>1, <2>2, TaskFacts, Zenon
<1>2. /\ pc' = [pc EXCEPT ![Reader(c)] = "r_new"] /\ open' = open \cup {c}
      /\ ready' = Append(ready, Reader(c)) /\ running' = NULL
      /\ UNCHANGED <<conn, closed, used, members, routed, mem, queue, peer, acts, slot,
                     local>>
  BY <1>1, Zenon DEF Accept, Goto, lists, objects
<1>3. pc[Reader(c)] = "none" /\ slot[c] = NULL /\ acts[Reader(c)] = <<>>
  BY <1>1 DEF IInv, Births
<1> HIDE DEF c
<1>4. /\ pc \in [Tasks -> Labels] /\ pc'[Reader(c)] = "r_new"
      /\ \A u \in Tasks : u # Reader(c) => pc'[u] = pc[u]
      /\ "r_new" \in Labels /\ "r_new" \in ReaderLabels
  BY <1>1, <1>2, LabelFacts, Zenon DEF IInv, Types, ReaderLabels
<1>5. Types'
  <2>1. ready' \in Seq(Tasks)
    BY <1>1, <1>2 DEF IInv, Types
  <2>2. pc' \in [Tasks -> Labels]
    BY <1>2, <1>4, Zenon
  <2>3. ConnType' = ConnType
    BY <1>2, Zenon DEF ConnType
  <2> QED BY <1>1, <1>2, <2>1, <2>2, <2>3, Zenon DEF IInv, Types
<1>6. Births'
  <2> SUFFICES ASSUME NEW d \in Conns
               PROVE  /\ pc'[Reader(d)] \in ReaderLabels /\ pc'[Writer(d)] \in WriterLabels
                      /\ pc'[Reader(d)] = "none" <=> d > accepted'
                      /\ pc'[Reader(d)] \in {"none", "r_new"} <=> slot[d] = NULL
                      /\ pc'[Writer(d)] # "none" => slot[d] # NULL
                      /\ acts[Reader(d)] # <<>> \/ acts[Writer(d)] # <<>> => slot[d] # NULL
    BY <1>2, Zenon DEF IInv, Births
  <2>1. Reader(d) \in Tasks /\ Writer(d) \in Tasks /\ Writer(d) # Reader(c)
        /\ (d # c => Reader(d) # Reader(c)) /\ d \in Int
    BY TaskFacts DEF Conns
  <2>2. d # c => (d > accepted' <=> d > accepted)
    BY <1>1, <2>1 DEF c
  <2>3. pc'[Writer(d)] = pc[Writer(d)]
    BY <1>4, <2>1, Zenon
  <2>4. CASE d = c
    <3>1. ~(d > accepted')
      BY <1>1, <2>1, <2>4
    <3> QED BY <1>3, <1>4, <2>3, <2>4, <3>1, Zenon DEF IInv, Births
  <2>5. CASE d # c
    <3>1. pc'[Reader(d)] = pc[Reader(d)]
      BY <1>4, <2>1, <2>5, Zenon
    <3> QED BY <2>2, <2>3, <2>5, <3>1, Zenon DEF IInv, Births
  <2> QED BY <2>4, <2>5, Zenon
<1>7. Once'
  <2>1. ready \in Seq(Tasks) /\ \A i \in DOMAIN ready : ready[i] # Listener
    BY <1>1, Zenon DEF IInv, Types, Once, Range
  <2>2. \A i \in DOMAIN ready' : ready'[i] # Listener
    BY <1>1, <1>2, <2>1, TaskFacts
  <2> QED BY <1>2, <2>2, NullFacts, TaskFacts, Zenon DEF Once, Range
<1>8. Fits'
  <2>1. \A t \in Workers : acts[t] # <<>> => Pending(t, "logout")
    BY <1>1, TaskFacts, Zenon DEF IInv, Fits
  <2> QED BY <1>2, <2>1, TaskFacts, Zenon DEF IInv, Fits, Pending
<1>9. ClientsPart' /\ MembersLive' /\ RoutedAreLive' /\ LogoutsApart'
  BY <1>2, Zenon DEF IInv, ClientsPart, MembersLive, RoutedAreLive, LogoutsApart, Pending
<1>10. PeersApart'
  <2>1. \A d \in Conns : Fresh(d)' => Fresh(d)
    <3> SUFFICES ASSUME NEW d \in Conns, Fresh(d)' PROVE Fresh(d)
      BY Zenon
    <3>1. CASE d = c
      BY <1>3, <3>1, Zenon DEF Fresh
    <3>2. CASE d # c
      BY <1>2, <1>4, <3>2, TaskFacts, Zenon DEF Fresh, Pending
    <3> QED BY <3>1, <3>2, Zenon
  <2>2. \A s \in Slots : Unregistered(s)' => Unregistered(s)
    BY <1>2, Zenon DEF Unregistered, Pending, Of
  <2> QED BY <1>2, <2>1, <2>2, Zenon DEF IInv, PeersApart
<1> QED BY <1>5, <1>6, <1>7, <1>8, <1>9, <1>10, Zenon DEF IInv

(* While the task t runs no other worker is in the middle of `register'.   *)
LEMMA ShrinkUnregistered ==
  ASSUME IInv, NEW t \in Workers, running = t, ~Pending(t, "register")',
         \A u \in Tasks : u # t => acts'[u] = acts[u], NEW s, Unregistered(s)'
  PROVE  conn'[s].cs \in {"Accepting", "KeyCheck", "Tuning"}
<1>1. ASSUME NEW u \in Workers, Pending(u, "register")' PROVE FALSE
  <2>1. u # t /\ u \in Tasks
    BY <1>1, TaskFacts, Zenon
  <2> QED BY <1>1, <2>1, Zenon DEF IInv, Fits, Pending
<1> QED BY <1>1, Zenon DEF Unregistered

(* A step that begins no logout and leaves the members of the others       *)
(* alone.                                                                  *)
LEMMA ShrinkLogouts ==
  ASSUME IInv, NEW t \in Workers, ~Pending(t, "logout")',
         \A u \in Tasks : u # t => acts'[u] = acts[u] /\ local'[u] = local[u],
         \A u \in Tasks : u # t /\ Pending(u, "logout") => mem'[local[u]] = mem[local[u]]
  PROVE  LogoutsApart'
<1>1. \A u \in Tasks : Pending(u, "logout")' =>
        Pending(u, "logout") /\ u # t /\ local'[u] = local[u]
  BY Zenon DEF Pending
<1> QED BY <1>1, Zenon DEF IInv, LogoutsApart

(* The action `key_prep' gives the state a peer nobody has seen.           *)
LEMMA key_prepKeeps ==
  ASSUME IInv, NEW c \in Conns, NEW t, t = Reader(c), key_prep(t)
  PROVE  IInv'
<1> USE DEF Doing, lists, objects, sched, inputs
<1>1. t \in Workers /\ running = t /\ acts[t] # <<>> /\ Head(acts[t]) = "key_prep" /\ t[2] = c
  BY TaskFacts, Zenon DEF key_prep
<1>2. Ground(t)
  BY <1>1, Grounds, Zenon
<1>3. Pending(t, "key_prep") /\ Fresh(c) /\ pc[t] = "r_pass"
  BY <1>1, Zenon DEF Pending, Fresh, IInv, Fits
<1>4. mem[c] = "none" /\ \A s \in Slots : conn[s].peer # c
  BY <1>3, Zenon DEF IInv, PeersApart
<1> DEFINE r == [conn[Of(t)] EXCEPT !.peer = c]
<1>5. conn' = [conn EXCEPT ![Of(t)] = r]
  BY <1>1, Zenon DEF key_prep
<1>6. /\ r \in ConnType /\ r.client = conn[Of(t)].client /\ r.member = conn[Of(t)].member
      /\ r.cs = conn[Of(t)].cs /\ r.peer = c
  BY <1>2, ZenonT(30) DEF Ground, ConnType, ConnsN
<1> HIDE DEF r
<1>7. Sets(Of(t), r)
  BY <1>2, <1>5, <1>6, Zenon DEF Sets, Ground
<1>8. Tail(acts[t]) = <<>> /\ <<>> \in Seq(Actions) /\ Proper(<<>>)
  BY <1>1, <1>2, TailFacts, ChartLists, Zenon DEF Ground, IInv, Fits
<1>9. /\ acts' \in [Tasks -> Seq(Actions)] /\ acts'[t] = <<>>
      /\ \A u \in Tasks : u # t => acts'[u] = acts[u]
  BY <1>2, <1>8, Zenon DEF key_prep, ActionDone, Ground
<1>10. Steps(t)
  <2>1. peer' \in [Conns -> Lives]
    BY <1>1, Zenon DEF key_prep, IInv, Types, Lives
  <2> QED BY <1>1, <1>2, <1>7, <1>9, <2>1, Zenon
          DEF Steps, Walks, Enlarges, Sets, key_prep, Ground, IInv, Types
<1>11. Resumes(t)
  BY <1>1, <1>8, <1>9, Zenon DEF Resumes, Pending, key_prep
<1>12. /\ \A s \in Slots : /\ conn'[s].client = conn[s].client /\ conn'[s].cs = conn[s].cs
                            /\ conn'[s].member = conn[s].member
                            /\ conn'[s].peer = IF s = Of(t) THEN c ELSE conn[s].peer
       /\ UNCHANGED <<mem, local, pc, slot>>
  <2>1. UNCHANGED <<mem, local, pc, slot>>
    BY Zenon DEF key_prep
  <2> QED BY <1>2, <1>6, <1>7, <2>1, Zenon DEF Sets, Ground
<1>14. ClientsPart' /\ MembersLive'
  BY <1>12 DEF IInv, ClientsPart, MembersLive
<1>15. LogoutsApart'
  BY <1>1, <1>9, <1>12, ShrinkLogouts, ZenonT(30) DEF Pending
<1>13. PeersApart'
  <2>1. \A s \in Slots : Unregistered(s)' => Unregistered(s)
    BY <1>1, <1>9, <1>12, ShrinkUnregistered, Zenon DEF Unregistered, Pending
  <2>2. \A d \in Conns : Fresh(d)' => Fresh(d) /\ d # c
    BY <1>1, <1>3, <1>9, <1>12, TaskFacts, Zenon DEF Fresh, Pending
  <2> QED BY <1>4, <1>12, <2>1, <2>2 DEF IInv, PeersApart
<1> QED BY <1>1, <1>10, <1>11, <1>13, <1>14, <1>15, StepsTypes, ResumesFits, Zenon
        DEF IInv, Resumes

(* The action `register' makes a member of a peer that never was one.      *)
LEMMA registerKeeps ==
  ASSUME IInv, NEW t \in Workers, register(t), fault' = fault
  PROVE  IInv'
<1> USE DEF Doing, lists, objects, sched, inputs
<1>1. running = t /\ acts[t] # <<>> /\ Head(acts[t]) = "register"
  BY Zenon DEF register
<1>2. Ground(t)
  BY <1>1, Grounds, Zenon
<1> DEFINE p == conn[Of(t)].peer
           r == [conn[Of(t)] EXCEPT !.member = p]
<1>3. Pending(t, "register") /\ conn[Of(t)].cs = "Registering" /\ Unregistered(Of(t))
  BY <1>1, Zenon DEF Pending, IInv, Fits, State, During, Unregistered
<1>4. p \in ConnsN
  BY <1>2, Zenon DEF Ground, ConnType
<1>5. /\ p \in Conns /\ p # NULL
      /\ conn' = [conn EXCEPT ![Of(t)] = r]
      /\ mem' = [mem EXCEPT ![p] = "live"] /\ members' = members \cup {p}
      /\ ActionDone(t)
      /\ UNCHANGED <<closed, used, open, routed, queue, peer, pc, slot, local, running,
                     ready, accepted>>
  BY <1>1, <1>4, Zenon DEF register, Fail, State, ConnsN
<1>6. mem[p] = "none" /\ \A z \in Slots : conn[z].peer = p => z = Of(t)
  BY <1>2, <1>3, <1>5, Zenon DEF IInv, PeersApart, Ground
<1>7. /\ r \in ConnType /\ r.client = conn[Of(t)].client /\ r.member = p
      /\ r.cs = conn[Of(t)].cs /\ r.peer = conn[Of(t)].peer
  BY <1>2, <1>4, Zenon DEF Ground, ConnType
<1> HIDE DEF p, r
<1>8. Sets(Of(t), r)
  BY <1>2, <1>5, <1>7, Zenon DEF Sets, Ground
<1>9. Tail(acts[t]) = <<>> /\ <<>> \in Seq(Actions) /\ Proper(<<>>)
  BY <1>1, <1>2, TailFacts, ChartLists, Zenon DEF Ground, IInv, Fits
<1>10. /\ acts' \in [Tasks -> Seq(Actions)] /\ acts'[t] = <<>>
       /\ \A u \in Tasks : u # t => acts'[u] = acts[u]
  BY <1>2, <1>5, <1>9, Zenon DEF ActionDone, Ground
<1>11. /\ mem' \in [Conns -> Lives] /\ mem'[p] = "live"
       /\ \A d \in Conns : d # p => mem'[d] = mem[d]
  BY <1>5, Zenon DEF IInv, Types, Lives
<1>12. Steps(t)
  <2>1. members' \subseteq Conns /\ routed' \in [Conns -> Nat]
          /\ \A d \in Conns : routed'[d] > 0 => mem'[d] = "live"
    BY <1>5, <1>11, Zenon DEF IInv, Types, RoutedAreLive
  <2> QED BY <1>1, <1>2, <1>5, <1>8, <1>10, <1>11, <2>1, ZenonT(30)
          DEF Steps, Walks, Enlarges, Sets, Ground, IInv, Types
<1>13. Resumes(t)
  BY <1>1, <1>5, <1>9, <1>10, Zenon DEF Resumes, Pending
<1>14. ClientsPart'
  BY <1>7, <1>8, ZenonT(30) DEF Sets, IInv, ClientsPart
<1>15. MembersLive'
  <2>1. \A z \in Slots : conn[z].member # NULL => conn[z].member \in Conns /\ conn[z].member # p
    BY <1>6, ZenonT(30) DEF IInv, MembersLive, Types, ConnType, ConnsN
  <2> QED BY <1>2, <1>5, <1>7, <1>8, <1>11, <2>1, SMTT(30)
             DEF Sets, IInv, MembersLive, Ground
<1>16. LogoutsApart'
  <2>1. \A u \in Tasks : Pending(u, "logout") => mem'[local[u]] = mem[local[u]]
    BY <1>6, <1>11, ZenonT(30) DEF IInv, LogoutsApart
  <2> QED BY <1>5, <1>10, <2>1, ShrinkLogouts, Zenon DEF Pending
<1>17. PeersApart'
  <2>1. \A s \in Slots : Unregistered(s)' => Unregistered(s) /\ s # Of(t)
    BY <1>1, <1>3, <1>7, <1>8, <1>10, ShrinkUnregistered, ZenonT(30)
       DEF Unregistered, Pending, Sets
  <2>2. \A d \in Conns : Fresh(d)' => Fresh(d) /\ d # p
    <3>1. \A d \in Conns : Fresh(d)' => Fresh(d)
      BY <1>5, <1>10, TaskFacts, Zenon DEF Fresh, Pending
    <3> QED BY <1>2, <3>1 DEF IInv, PeersApart, Ground, p
  <2>3. \A s \in Slots : conn[s].peer # NULL => conn[s].peer \in Conns
    BY Zenon DEF IInv, Types, ConnType, ConnsN
  <2>4. \A s \in Slots : conn'[s].peer = conn[s].peer /\ (s # Of(t) => conn[s].peer # p)
    BY <1>6, <1>7, <1>8, Zenon DEF Sets
  <2> QED BY <1>11, <2>1, <2>2, <2>3, <2>4 DEF IInv, PeersApart
<1> QED BY <1>12, <1>13, <1>14, <1>15, <1>16, <1>17, StepsTypes, ResumesFits, ZenonT(30)
        DEF IInv, Resumes

(* What is left to do when half_close has begun a logout.                  *)
LEMMA LogoutList ==
  ASSUME NEW q \in Rest("half_close")
  PROVE  /\ <<"logout">> \o q \in Seq(Actions) /\ Proper(<<"logout">> \o q)
         /\ <<"logout">> \o q # <<>> /\ Head(<<"logout">> \o q) = "logout"
<1> DEFINE a == <<"logout">> \o q
<1>1. q \in Seq(Actions) /\ <<"logout">> \in Seq(Actions)
  <2>1. q \in {<<>>, <<"rest_close">>}
    BY Zenon DEF Rest
  <2>2. q \in Seq(Actions)
    BY <2>1, ChartLists, Zenon DEF Listed
  <2>3. "logout" \in Actions
    BY Zenon DEF Actions
  <2>4. <<"logout">> \in Seq(Actions)
    BY <2>3
  <2> QED BY <2>2, <2>4, Zenon
<1>2. a \in Seq(Actions) /\ Len(a) = Len(q) + 1 /\ a[1] = "logout"
        /\ \A i \in 1..Len(q) : a[i + 1] = q[i]
  BY <1>1
<1>3. Len(q) \in Nat /\ q \in [1..Len(q) -> Actions]
  BY <1>1
<1> HIDE DEF a
<1>4. a # <<>> /\ Head(a) = "logout" /\ Tail(a) \in Seq(Actions) /\ Len(Tail(a)) = Len(q)
  BY <1>2, <1>3
<1>5. Tail(a) = q
  <2>1. \A i \in 1..Len(q) : Tail(a)[i] = q[i]
    BY <1>2, <1>3, <1>4
  <2> QED BY <1>1, <1>4, <2>1, SMTT(30)
<1> QED BY <1>2, <1>4, <1>5, Zenon DEF Proper, Actions, Rest, a

(* A step after which a member is dead or freed, and none was before.      *)
LEMMA Buries ==
  ASSUME IInv, NEW t \in Workers, running = t, NEW m \in Conns, mem[m] # "none",
  NEW life, life # "none",
         mem' = [mem EXCEPT ![m] = life], UNCHANGED <<slot, pc>>,
         \A u \in Tasks : u # t => acts'[u] = acts[u],
         ~Pending(t, "register")', ~Pending(t, "key_prep")',
         \A s \in Slots : conn'[s].peer = conn[s].peer /\ conn'[s].cs = conn[s].cs
  PROVE  PeersApart'
<1>1. \A d \in Conns : d # m => mem'[d] = mem[d]
  BY Zenon DEF IInv, Types
<1>2. \A s \in Slots : Unregistered(s)' => Unregistered(s)
  BY ShrinkUnregistered, Zenon DEF Unregistered
<1>3. \A d \in Conns : Fresh(d)' => Fresh(d)
  BY TaskFacts, Zenon DEF Fresh, Pending
<1>4. \A s \in Slots : conn[s].peer # NULL => conn[s].peer \in Conns
  BY DEF IInv, Types, ConnType, ConnsN
<1> QED BY <1>1, <1>2, <1>3, <1>4 DEF IInv, PeersApart

(* half_close takes the member from the state and from the routes, and     *)
(* Member_logout yields.                                                   *)
LEMMA half_closeKeeps ==
  ASSUME IInv, NEW t \in Workers, half_close(t)
  PROVE  IInv'
<1> USE DEF Doing, lists, objects, sched, inputs
<1>1. running = t /\ acts[t] # <<>> /\ Head(acts[t]) = "half_close"
  BY Zenon DEF half_close
<1>2. Ground(t)
  BY <1>1, Grounds, Zenon
<1>3. conn[Of(t)].cs \in {"Closing", "error"}
  BY <1>1, Zenon DEF Pending, IInv, Fits, State, During
<1>4. Tail(acts[t]) \in Rest("half_close")
  BY <1>1, <1>2, Zenon DEF IInv, Fits, Proper, Ground
<1>5. /\ Tail(acts[t]) \in Seq(Actions) /\ Proper(Tail(acts[t]))
      /\ Tail(acts[t]) # <<>> =>
           /\ Head(Tail(acts[t])) \in {"service", "clear_recv", "clear_send", "rest_close"}
           /\ During(Head(acts[t])) \subseteq During(Head(Tail(acts[t])))
  BY <1>1, <1>2, TailFacts, Zenon DEF Ground, IInv, Fits
<1>6. UNCHANGED <<closed, used, members, queue, peer, pc, slot, accepted>>
  BY Zenon DEF half_close
<1>7. CASE conn[Of(t)].client = NULL
  <2>1. acts' = [acts EXCEPT ![t] = Tail(acts[t])]
          /\ UNCHANGED <<conn, open, routed, mem, local, running, ready>>
    BY <1>7, Zenon DEF half_close, State, ActionDone
  <2>2. Moves(t)
    BY <1>1, <1>2, <1>6, <2>1, Zenon DEF Moves, Walks, Enlarges, Touches, Ground
  <2> QED BY <2>2, MovesKeep, Zenon
<1>8. CASE conn[Of(t)].client # NULL
  <2>1. conn' = [conn EXCEPT ![Of(t)].client = NULL] /\ open' \subseteq open
    BY <1>8, Zenon DEF half_close, State
  <2>2. /\ conn' \in [Slots -> ConnType]
        /\ conn'[Of(t)].client = NULL
        /\ \A z \in Slots : z # Of(t) => conn'[z] = conn[z]
        /\ \A z \in Slots : /\ conn'[z].member = conn[z].member
                            /\ conn'[z].peer = conn[z].peer
                            /\ conn'[z].cs = conn[z].cs
    <3> DEFINE r == [conn[Of(t)] EXCEPT !.client = NULL]
    <3>1. /\ r \in ConnType /\ r.client = NULL /\ r.member = conn[Of(t)].member
          /\ r.cs = conn[Of(t)].cs /\ r.peer = conn[Of(t)].peer
      BY <1>2, Zenon DEF Ground, ConnType
    <3>2. conn' = [conn EXCEPT ![Of(t)] = r]
      BY <2>1, Zenon
    <3> HIDE DEF r
    <3> QED BY <1>2, <3>1, <3>2, Zenon DEF Ground
  <2>3. ClientsPart'
    BY <1>2, <1>3, <2>2, Zenon DEF IInv, ClientsPart, Parted
  <2>4. CASE conn[Of(t)].member = NULL
    <3>1. acts' = [acts EXCEPT ![t] = Tail(acts[t])]
            /\ UNCHANGED <<routed, mem, local, running, ready>>
      BY <1>8, <2>4, Zenon DEF half_close, State, ActionDone
    <3>2. /\ acts' \in [Tasks -> Seq(Actions)] /\ acts'[t] = Tail(acts[t])
          /\ \A u \in Tasks : u # t => acts'[u] = acts[u]
      BY <1>2, <1>5, <3>1, Zenon DEF Ground
    <3>3. Steps(t)
      BY <1>1, <1>2, <1>6, <2>1, <2>2, <3>1, <3>2, ZenonT(30)
         DEF Steps, Walks, Enlarges, Ground, IInv, Types
    <3>4. Resumes(t)
      BY <1>1, <1>2, <1>3, <1>5, <1>6, <2>2, <3>1, <3>2, ZenonT(30)
           DEF Resumes, Pending, During, Ground
    <3>5. MembersLive'
      BY <2>2, <2>4, <3>1 DEF IInv, MembersLive
    <3>6. LogoutsApart'
      BY <1>5, <3>1, <3>2, ShrinkLogouts, ZenonT(30) DEF Pending
    <3>7. PeersApart'
      <4>1. \A s \in Slots : Unregistered(s)' => Unregistered(s)
        BY <1>1, <1>5, <2>2, <3>2, ShrinkUnregistered, Zenon DEF Unregistered, Pending
      <4>2. \A d \in Conns : Fresh(d)' => Fresh(d)
        BY <1>5, <1>6, <3>2, TaskFacts, ZenonT(30) DEF Fresh, Pending
      <4> QED BY <2>2, <3>1, <4>1, <4>2 DEF IInv, PeersApart
    <3> QED BY <2>3, <3>3, <3>4, <3>5, <3>6, <3>7, StepsTypes, ResumesFits, Zenon
            DEF IInv, Resumes
  <2>5. CASE conn[Of(t)].member # NULL
    <3> DEFINE m == conn[Of(t)].member
    <3>1. m \in Conns /\ mem[m] = "live" /\ \A z \in Slots : conn[z].member = m => z = Of(t)
      BY <1>2, <1>8, <2>5, Zenon DEF IInv, MembersLive, Ground, ConnsN
    <3>2. /\ routed' = [routed EXCEPT ![m] = 0] /\ mem' = [mem EXCEPT ![m] = "dead"]
          /\ running' = NULL /\ \E q \in Woken({m}) : ready' = Append(ready \o q, t)
          /\ local' = [local EXCEPT ![t] = m]
          /\ acts' = [acts EXCEPT ![t] = <<"logout">> \o Tail(acts[t])]
      BY <1>8, <2>5, Zenon
           DEF half_close, State, Route_unregister_all, MarkDeadAndYield, Yield
    <3> HIDE DEF m
    <3>3. /\ acts' \in [Tasks -> Seq(Actions)] /\ Proper(acts'[t])
          /\ acts'[t] # <<>> /\ Head(acts'[t]) = "logout"
          /\ \A u \in Tasks : u # t => acts'[u] = acts[u]
      BY <1>2, <1>4, <3>2, LogoutList, Zenon DEF Ground
    <3>4. /\ mem' \in [Conns -> Lives] /\ mem'[m] = "dead"
          /\ \A d \in Conns : d # m => mem'[d] = mem[d]
      BY <3>1, <3>2, Zenon DEF IInv, Types, Lives
    <3>5. Enlarges
      <4>0. PICK q \in Woken({m}) : ready' = Append(ready \o q, t)
        BY <3>2, Zenon
      <4> DEFINE w == ready \o q
      <4>1. q \in Seq(Workers) /\ ready \in Seq(Tasks)
        BY <1>2, WokenFacts, ZenonT(30) DEF Ground
      <4>2. /\ w \in Seq(Tasks) /\ Len(w) = Len(ready) + Len(q)
            /\ \A i \in 1..Len(w) :
                 w[i] = IF i <= Len(ready) THEN ready[i] ELSE q[i - Len(ready)]
        BY <4>1, TaskFacts
      <4>3. \A i \in 1..Len(w) : w[i] = Listener => i \in DOMAIN ready /\ ready[i] = Listener
        BY <4>1, <4>2, TaskFacts
      <4>4. ready' = Append(w, t) /\ t \in Tasks /\ t # Listener
        BY <1>2, <4>0, Zenon DEF Ground
      <4> HIDE DEF w
      <4>5. /\ ready' \in Seq(Tasks)
            /\ \A i \in DOMAIN ready' : (i \in 1..Len(w) /\ ready'[i] = w[i]) \/ ready'[i] = t
        BY <4>2, <4>4
      <4> QED BY <4>3, <4>4, <4>5, Zenon DEF Enlarges
    <3>6. /\ local' = [local EXCEPT ![t] = local'[t]] /\ local'[t] \in ConnsN /\ local'[t] = m
          /\ \A u \in Tasks : u # t => local'[u] = local[u]
      BY <1>2, <3>1, <3>2, Zenon DEF Ground, ConnsN
    <3>7. Steps(t)
      <4>1. routed' \in [Conns -> Nat] /\ \A d \in Conns : routed'[d] > 0 => mem'[d] = "live"
        <5>1. routed \in [Conns -> Nat] /\ \A d \in Conns : routed[d] > 0 => mem[d] = "live"
          BY Zenon DEF IInv, Types, RoutedAreLive
        <5> QED BY <3>1, <3>2, <3>4, <5>1
      <4> QED BY <1>1, <1>2, <1>6, <2>1, <2>2, <3>2, <3>3, <3>4, <3>5, <3>6, <4>1,
                 ZenonT(30)
              DEF Steps, Walks, Ground, IInv, Types
    <3>8. Resumes(t)
      BY <1>1, <1>6, <3>3, ZenonT(30) DEF Resumes, Pending
    <3>9. MembersLive'
      <4>1. \A z \in Slots : conn[z].member # NULL => conn[z].member \in Conns
        BY Zenon DEF IInv, Types, ConnType, ConnsN
      <4>2. \A z \in Slots : z # Of(t) => conn[z].member # m
        BY <3>1, Zenon
      <4>3. \A z \in Slots : conn'[z].client # NULL => z # Of(t) /\ conn[z].client # NULL
        BY <2>2, Zenon
      <4>4. \A z \in Slots : conn[z].member # NULL => mem'[conn[z].member] # "none"
        BY <3>4, <4>1, Zenon DEF IInv, MembersLive
      <4>5. \A z \in Slots : conn'[z].client # NULL /\ conn[z].member # NULL
              => mem'[conn[z].member] = "live"
        BY <3>4, <4>1, <4>2, <4>3, ZenonT(30) DEF IInv, MembersLive
      <4> QED BY <2>2, <4>4, <4>5 DEF IInv, MembersLive
    <3>10. LogoutsApart'
      <4>1. \A u \in Tasks : Pending(u, "logout") => local[u] \in Conns /\ local[u] # m
        BY <3>1, Zenon DEF IInv, LogoutsApart
      <4>2. \A u \in Tasks : Pending(u, "logout")' =>
              (u = t /\ local'[u] = m) \/ (u # t /\ Pending(u, "logout")
                /\ local'[u] = local[u])
        BY <3>3, <3>6, Zenon DEF Pending
      <4> QED BY <3>1, <3>4, <4>1, <4>2 DEF IInv, LogoutsApart
    <3>11. PeersApart'
      BY <1>1, <1>6, <2>2, <3>1, <3>2, <3>3, Buries, Zenon DEF Pending
    <3> QED BY <2>3, <3>7, <3>8, <3>9, <3>10, <3>11, StepsTypes, ResumesFits, Zenon
            DEF IInv, Resumes
  <2> QED BY <2>4, <2>5, Zenon
<1> QED BY <1>7, <1>8, Zenon

-----------------------------------------------------------------------------
(***************************************************************************)
(* The steps that free, the start of a connection, and all of them.        *)
(***************************************************************************)

(* The rest of Member_logout frees the member, which is in no state any    *)
(* more.                                                                   *)
LEMMA logoutKeeps ==
  ASSUME IInv, NEW t \in Workers, logout(t)
  PROVE  IInv'
<1> USE DEF Doing, lists, objects, sched, inputs
<1>1. running = t /\ acts[t] # <<>> /\ Head(acts[t]) = "logout" /\ Pending(t, "logout")
  BY Zenon DEF logout, Pending
<1>2. Ground(t)
  BY <1>1, Grounds, Zenon
<1> DEFINE m == local[t]
<1>3. /\ m \in Conns /\ mem[m] = "dead"
      /\ \A u \in Tasks : Pending(u, "logout") /\ local[u] = m => u = t
  BY <1>1, <1>2, Zenon DEF IInv, LogoutsApart, Ground
<1>4. /\ members' = members \ {m} /\ mem' = [mem EXCEPT ![m] = "freed"]
      /\ queue' = [queue EXCEPT ![m] = 0]
      /\ conn' = [conn EXCEPT ![Of(t)].member = NULL]
      /\ local' = [local EXCEPT ![t] = NULL]
      /\ acts' = [acts EXCEPT ![t] = Tail(acts[t])]
      /\ UNCHANGED <<closed, used, open, routed, peer, pc, slot, running, ready, accepted>>
  BY Zenon DEF logout, ActionDone
<1> HIDE DEF m
<1>5. /\ Tail(acts[t]) \in Seq(Actions) /\ Proper(Tail(acts[t]))
      /\ Tail(acts[t]) # <<>> =>
           /\ Head(Tail(acts[t])) \in {"service", "clear_recv", "clear_send", "rest_close"}
           /\ During(Head(acts[t])) \subseteq During(Head(Tail(acts[t])))
      /\ During(Head(acts[t])) = States
  BY <1>1, <1>2, TailFacts, Zenon DEF Ground, IInv, Fits, During
<1>6. /\ conn' \in [Slots -> ConnType]
      /\ conn'[Of(t)].member = NULL
      /\ \A z \in Slots : z # Of(t) => conn'[z] = conn[z]
      /\ \A z \in Slots : /\ conn'[z].client = conn[z].client
                          /\ conn'[z].peer = conn[z].peer
                          /\ conn'[z].cs = conn[z].cs
      /\ conn[Of(t)].cs \in States
  <2> DEFINE r == [conn[Of(t)] EXCEPT !.member = NULL]
  <2>1. /\ r \in ConnType /\ r.client = conn[Of(t)].client /\ r.member = NULL
        /\ r.cs = conn[Of(t)].cs /\ r.peer = conn[Of(t)].peer /\ conn[Of(t)].cs \in States
    BY <1>2, Zenon DEF Ground, ConnType
  <2>2. conn' = [conn EXCEPT ![Of(t)] = r]
    BY <1>4, Zenon
  <2> HIDE DEF r
  <2> QED BY <1>2, <2>1, <2>2, Zenon DEF Ground
<1>7. /\ acts' \in [Tasks -> Seq(Actions)] /\ acts'[t] = Tail(acts[t])
      /\ \A u \in Tasks : u # t => acts'[u] = acts[u]
  BY <1>2, <1>4, <1>5, Zenon DEF Ground
<1>8. /\ mem' \in [Conns -> Lives] /\ mem'[m] = "freed"
      /\ \A d \in Conns : d # m => mem'[d] = mem[d]
  BY <1>3, <1>4, Zenon DEF IInv, Types, Lives
<1>9. queue' \in [Conns -> 0..Capacity]
  <2>1. 0 \in 0..Capacity
    BY CapacityAssumption
  <2> QED BY <1>2, <1>3, <1>4, <2>1, Zenon DEF Ground
<1>10. /\ local' = [local EXCEPT ![t] = local'[t]] /\ local'[t] \in ConnsN
       /\ \A u \in Tasks : u # t => local'[u] = local[u]
  BY <1>2, <1>4, Zenon DEF Ground
<1>11. Steps(t)
  <2>1. \A d \in Conns : routed[d] > 0 => mem'[d] = "live"
    BY <1>3, <1>8, Zenon DEF IInv, Types, RoutedAreLive
  <2>2. members' \subseteq Conns
    BY <1>4, Zenon DEF IInv, Types
  <2> QED BY <1>1, <1>2, <1>4, <1>6, <1>7, <1>8, <1>9, <1>10, <2>1, <2>2, ZenonT(30)
          DEF Steps, Walks, Enlarges, Ground, IInv, Types
<1>12. Resumes(t)
  BY <1>1, <1>2, <1>4, <1>5, <1>6, <1>7, Zenon DEF Resumes, Pending, Ground
<1>13. ClientsPart'
  BY <1>6, Zenon DEF IInv, ClientsPart
<1>14. MembersLive'
  <2>1. \A z \in Slots : conn[z].member # NULL =>
          conn[z].member \in Conns /\ (conn[z].client # NULL => conn[z].member # m)
    BY <1>3, Zenon DEF IInv, MembersLive, Types, ConnType, ConnsN
  <2>2. \A z \in Slots : conn'[z].member # NULL => z # Of(t) /\ conn'[z] = conn[z]
    BY <1>6, Zenon
  <2>3. \A z \in Slots : conn[z].member # NULL =>
          /\ mem'[conn[z].member] # "none"
          /\ conn[z].client # NULL => mem'[conn[z].member] = "live"
    BY <1>8, <2>1, Zenon DEF IInv, MembersLive
  <2> QED BY <2>2, <2>3 DEF IInv, MembersLive
<1>15. LogoutsApart'
  <2>1. \A u \in Tasks : u # t /\ Pending(u, "logout") => local[u] \in Conns /\ local[u] # m
    BY <1>3, Zenon DEF IInv, LogoutsApart
  <2>2. ~Pending(t, "logout")'
    BY <1>5, <1>7, Zenon DEF Pending
  <2>3. \A u \in Tasks : u # t => acts'[u] = acts[u] /\ local'[u] = local[u]
    BY <1>7, <1>10, Zenon
  <2>4. \A u \in Tasks : u # t /\ Pending(u, "logout") => mem'[local[u]] = mem[local[u]]
    BY <1>8, <2>1, Zenon
  <2> QED BY <2>2, <2>3, <2>4, ShrinkLogouts, Zenon
<1>16. PeersApart'
  BY <1>1, <1>3, <1>4, <1>5, <1>6, <1>7, Buries, Zenon DEF Pending
<1> QED BY <1>11, <1>12, <1>13, <1>14, <1>15, <1>16, StepsTypes, ResumesFits, Zenon
        DEF IInv, Resumes

(* Hub_close lets go of the client and of the peer.                        *)
LEMMA Hub_closeKeeps ==
  ASSUME IInv, NEW c \in Conns, NEW t, t = Reader(c), Hub_close(t), fault' = fault
  PROVE  IInv'
<1> USE DEF At, lists, objects, inputs
<1>1. t \in Workers /\ running = t /\ acts[t] = <<>> /\ pc[t] = "r_hub_close"
  BY TaskFacts, Zenon DEF Hub_close
<1>2. Ground(t)
  BY <1>1, Grounds, Zenon
<1>3. /\ closed # NULL /\ closed \in Slots
      /\ conn' = [conn EXCEPT ![closed].recv = NULL, ![closed].body = NULL,
                              ![closed].peer = NULL]
      /\ peer' = peer \/ \E p \in Conns : peer' = [peer EXCEPT ![p] = "freed"]
      /\ pc' = [pc EXCEPT ![t] = "r_exit"] /\ running' = NULL
      /\ UNCHANGED <<ready, closed, used, open, members, routed, mem, queue, acts, slot,
                     local, accepted>>
  <2>1. closed # NULL
    BY <1>1, Zenon DEF Hub_close, Fail
  <2>2. closed \in Slots /\ conn[closed] \in ConnType
    BY <1>2, <2>1, NConnsAssumption, Zenon DEF IInv, Types, Slots
  <2>3. conn[closed].peer \in ConnsN
    BY <2>2, Zenon DEF ConnType
  <2> QED BY <1>1, <2>1, <2>2, <2>3, Zenon DEF Hub_close, Fail, Block, Goto, ConnsN
<1>4. /\ conn' \in [Slots -> ConnType]
      /\ conn'[closed].peer = NULL
      /\ \A z \in Slots : z # closed => conn'[z] = conn[z]
      /\ \A z \in Slots : /\ conn'[z].client = conn[z].client
                          /\ conn'[z].member = conn[z].member
                          /\ conn'[z].cs = conn[z].cs
  <2> DEFINE r == [conn[closed] EXCEPT !.recv = NULL, !.body = NULL, !.peer = NULL]
  <2>1. conn' = [conn EXCEPT ![closed] = r]
    BY <1>3, Zenon
  <2>2. /\ conn[closed] \in ConnType /\ conn \in [Slots -> ConnType] /\ NULL \in ConnsN
        /\ closed \in Slots
    BY <1>2, <1>3, Zenon DEF Ground
  <2>3. /\ r \in ConnType /\ r.peer = NULL
        /\ r.client = conn[closed].client /\ r.member = conn[closed].member
        /\ r.cs = conn[closed].cs
    BY <2>2, Zenon DEF ConnType, Bodies
  <2> HIDE DEF r
  <2>4. conn' \in [Slots -> ConnType] /\ conn'[closed] = r
          /\ \A z \in Slots : z # closed => conn'[z] = conn[z]
    BY <2>1, <2>2, <2>3, Zenon
  <2> QED BY <2>3, <2>4, Zenon
<1>5. /\ pc'[t] = "r_exit" /\ \A u \in Tasks : u # t => pc'[u] = pc[u]
  BY <1>2, <1>3, Zenon DEF Ground
<1>6. Steps(t)
  <2>1. peer' \in [Conns -> Lives]
    BY <1>3, Zenon DEF IInv, Types, Lives
  <2>2. pc' = [pc EXCEPT ![t] = pc'[t]] /\ pc'[t] \in Places(t)
    BY <1>3, <1>5, PlaceFacts, Zenon
  <2> QED BY <1>1, <1>2, <1>3, <1>4, <2>1, <2>2, Zenon
          DEF Steps, Walks, Enlarges, Ground, IInv, Types
<1>7. Resumes(t)
  BY <1>1, <1>2, <1>3, <1>5, ChartLists, TaskFacts, ZenonT(30)
     DEF Resumes, Pending, Ground
<1>8. ClientsPart' /\ MembersLive'
  BY <1>3, <1>4 DEF IInv, ClientsPart, MembersLive
<1>9. LogoutsApart'
  BY <1>3, Zenon DEF IInv, LogoutsApart, Pending
<1>10. PeersApart'
  <2>1. \A s \in Slots : Unregistered(s)' => Unregistered(s)
    BY <1>3, <1>4, Zenon DEF Unregistered, Pending, Of
  <2>2. \A d \in Conns : Fresh(d)' => Fresh(d)
    BY <1>3, <1>5, TaskFacts, Zenon DEF Fresh, Pending
  <2>3. \A s \in Slots : conn'[s].peer # NULL => conn'[s].peer = conn[s].peer
    BY <1>4, Zenon
  <2>6. mem' = mem
    BY <1>3, Zenon
  <2>4. \A z \in Slots : conn'[z].peer # NULL =>
          /\ Unregistered(z)' => mem'[conn'[z].peer] = "none"
          /\ \A y \in Slots : conn'[y].peer = conn'[z].peer => y = z
    BY <2>6, <2>1, <2>3 DEF IInv, PeersApart
  <2>5. \A d \in Conns : Fresh(d)' => mem'[d] = "none" /\ \A z \in Slots : conn'[z].peer # d
    BY <2>6, <2>2, <2>3, NullFacts DEF IInv, PeersApart
  <2> QED BY <2>4, <2>5, Zenon DEF PeersApart
<1> QED BY <1>1, <1>6, <1>7, <1>8, <1>9, <1>10, StepsTypes, ResumesFits, Zenon
        DEF IInv, Resumes

(* The one arrow from the start leads to Accepting.                        *)
LEMMA OpenStep == Step("start", "OPEN").to = "Accepting"
<1>1. Arrow("start", "OPEN", "Accepting", <<"open">>) \in Chart
  BY Zenon DEF Chart, Opening
<1>2. \A a \in Chart : a.from = "start" => a.to = "Accepting"
  <2> SUFFICES ASSUME NEW a \in Chart, a.from = "start" PROVE a.to = "Accepting"
    BY Zenon
  <2>1. CASE a \in Opening
    BY <2>1 DEF Opening, Arrow
  <2>2. CASE a \in Traffic
    BY <2>2 DEF Traffic, Arrow
  <2>3. CASE a \in Hate
    BY <2>3 DEF Hate, Arrow
  <2>4. CASE a \in HalfClosing
    BY <2>4 DEF HalfClosing, Arrow
  <2>5. CASE a \in RestClosing
    BY <2>5 DEF RestClosing, Arrow
  <2> QED BY <2>1, <2>2, <2>3, <2>4, <2>5, Zenon DEF Chart
<1>3. Arrow("start", "OPEN", "Accepting", <<"open">>).from = "start"
      /\ Arrow("start", "OPEN", "Accepting", <<"open">>).on = "OPEN"
  BY Zenon DEF Arrow
<1> QED BY <1>1, <1>2, <1>3, Zenon DEF Step

(* A reader starts: its state comes from the closed list or is allocated,  *)
(* and is blank in both cases.                                             *)
LEMMA Hub_queue_connKeeps ==
  ASSUME IInv, NEW c \in Conns, Hub_queue_conn(c)
  PROVE  IInv'
<1> USE DEF At, objects, sched, inputs
<1> DEFINE t == Reader(c)
           s == IF closed # NULL THEN closed ELSE c
           r == [Blank EXCEPT !.cs = "Accepting", !.client = c]
<1>1. t \in Workers /\ t \in Tasks /\ running = t /\ acts[t] = <<>> /\ pc[t] = "r_new"
        /\ slot[c] = NULL
  BY TaskFacts, Zenon DEF Hub_queue_conn, IInv, Births
<1>2. /\ used \subseteq used' /\ used' \subseteq used \cup {c} /\ used' \subseteq Slots
      /\ s \in used' /\ s \in Slots /\ closed' \in used' \cup {NULL}
  <2>1. used \subseteq Slots /\ closed \in used \cup {NULL} /\ c \in Slots
    BY NullFacts, Zenon DEF IInv, Types
  <2>2. CASE closed # NULL
    <3>1. closed \in used /\ closed \in Slots
      BY <2>1, <2>2, Zenon
    <3>2. conn[closed] \in ConnType
      BY <3>1, Zenon DEF IInv, Types
    <3>3. conn[closed].next \in used \cup {NULL}
      BY <3>2, Zenon DEF ConnType
    <3> QED BY <2>1, <2>2, <3>1, <3>3, Zenon
               DEF Hub_queue_conn, Hub_new_or_reuse_conn, lists
  <2>3. CASE closed = NULL
    BY <2>1, <2>3, Zenon DEF Hub_queue_conn, Hub_new_or_reuse_conn, lists
  <2> QED BY <2>2, <2>3, Zenon
<1>3. /\ slot' = [slot EXCEPT ![c] = s] /\ conn' = [conn EXCEPT ![s] = r]
      /\ pc' = [pc EXCEPT ![t] = "r_key"]
      /\ UNCHANGED <<open, members, routed, mem, queue, peer, acts, local, running,
                     ready, accepted>>
  BY OpenStep, Zenon DEF Hub_queue_conn, Goto
<1>4. /\ r \in ConnType' /\ r.cs = "Accepting" /\ r.client = c
      /\ r.member = NULL /\ r.peer = NULL
  <2>1. "Accepting" \in States /\ "start" \in States
    BY StateNames, Zenon DEF ChartStates
  <2>2. <<>> \in Seq(Workers)
    OBVIOUS
  <2>3. NULL \in Bodies
    BY Zenon DEF Bodies
  <2> QED BY <2>1, <2>2, <2>3, Zenon DEF Blank, ConnType, ConnsN
<1> HIDE DEF s, r, t
<1>5. /\ conn' \in [Slots -> ConnType'] /\ conn'[s] = r
      /\ \A z \in Slots : z # s => conn'[z] = conn[z]
  <2>1. \A z \in Slots : conn[z] \in ConnType'
    <3>1. \A x : x \in ConnType => x \in ConnType'
      BY <1>2, Zenon DEF ConnType
    <3> QED BY <3>1, Zenon DEF IInv, Types
  <2> QED BY <1>2, <1>3, <1>4, <2>1, Zenon DEF IInv, Types
<1>6. /\ pc' \in [Tasks -> Labels] /\ pc'[t] = "r_key"
      /\ \A u \in Tasks : u # t => pc'[u] = pc[u]
      /\ "r_key" \in ReaderLabels
  BY <1>1, <1>3, LabelFacts, Zenon DEF IInv, Types, ReaderLabels
<1>7. /\ slot' \in [Conns -> used' \cup {NULL}] /\ slot'[c] = s /\ s # NULL
      /\ \A d \in Conns : d # c => slot'[d] = slot[d]
  BY <1>2, <1>3, NullFacts, Zenon DEF IInv, Types
<1>8. Types'
  BY <1>2, <1>3, <1>5, <1>6, <1>7, ZenonT(30) DEF IInv, Types
<1>9. Births'
  <2> SUFFICES ASSUME NEW d \in Conns
               PROVE  /\ pc'[Reader(d)] \in ReaderLabels /\ pc'[Writer(d)] \in WriterLabels
                      /\ pc'[Reader(d)] = "none" <=> d > accepted
                      /\ pc'[Reader(d)] \in {"none", "r_new"} <=> slot'[d] = NULL
                      /\ pc'[Writer(d)] # "none" => slot'[d] # NULL
                      /\ acts[Reader(d)] # <<>> \/ acts[Writer(d)] # <<>> => slot'[d] # NULL
    BY <1>2, <1>3, <1>7 DEF IInv, Births
  <2>1. Reader(d) \in Tasks /\ Writer(d) \in Tasks /\ Writer(d) # t
          /\ (d # c => Reader(d) # t)
    BY TaskFacts, Zenon DEF t
  <2>2. pc'[Writer(d)] = pc[Writer(d)]
    BY <1>6, <2>1, Zenon
  <2>3. CASE d = c
    <3>1. ~(d > accepted)
      BY <1>1, <2>3, Zenon DEF IInv, Births, t
    <3> QED BY <1>6, <1>7, <2>2, <2>3, <3>1, ZenonT(30) DEF IInv, Births, t
  <2>4. CASE d # c
    <3>1. pc'[Reader(d)] = pc[Reader(d)] /\ slot'[d] = slot[d]
      BY <1>6, <1>7, <2>1, <2>4, ZenonT(30)
    <3> QED BY <2>2, <3>1, Zenon DEF IInv, Births
  <2> QED BY <2>3, <2>4, ZenonT(30)
<1>10. Once' /\ RoutedAreLive' /\ LogoutsApart'
  BY <1>3, Zenon DEF IInv, Once, RoutedAreLive, LogoutsApart, Pending
<1>11. \A u \in Workers : acts[u] # <<>> => Pending(u, "logout") /\ u # t
  BY <1>1, Zenon DEF IInv, Fits
<1>12. Fits'
  BY <1>3, <1>11, TaskFacts, ZenonT(30) DEF IInv, Fits, Pending
<1>13. ClientsPart' /\ MembersLive'
  BY <1>3, <1>4, <1>5, NullFacts, SMTT(30) DEF IInv, ClientsPart, MembersLive
<1>14. PeersApart'
  <2>1. \A z \in Slots : z # s /\ Unregistered(z)' => Unregistered(z)
    BY <1>3, <1>5, <1>11, ZenonT(30) DEF Unregistered, Pending
  <2>2. \A d \in Conns : Fresh(d)' => Fresh(d)
    <3> SUFFICES ASSUME NEW d \in Conns, Fresh(d)' PROVE Fresh(d)
      BY Zenon
    <3>1. CASE d = c
      BY <1>1, <3>1, Zenon DEF Fresh, t
    <3>2. CASE d # c
      BY <1>3, <1>6, <3>2, TaskFacts, Zenon DEF Fresh, Pending, t
    <3> QED BY <3>1, <3>2, Zenon
  <2> QED BY <1>3, <1>4, <1>5, <2>1, <2>2, NullFacts, SMTT(30) DEF IInv, PeersApart
<1> QED BY <1>8, <1>9, <1>10, <1>12, <1>13, <1>14, Zenon DEF IInv
-----------------------------------------------------------------------------
Still == UNCHANGED <<conn, lists, open, objects, tasks, sched, accepted>>

(* A step of a reader that faults changes nothing else.                    *)
LEMMA ReaderFaults ==
  ASSUME NEW c \in Conns, ReaderStep(c), fault' # fault
  PROVE  Still
<1> DEFINE t == Reader(c)
<1> USE DEF Still, Fail, lists, objects, tasks, sched, inputs
<1>1. ASSUME tune_identity(t) \/ tune_confirmed(t) \/ tune_final(t) PROVE Still
  BY <1>1, Zenon DEF tune_identity, tune_confirmed, tune_final
<1>2. ASSUME register(t) \/ recv(t) \/ service(t) PROVE Still
  BY <1>2, Zenon DEF register, recv, service
<1>3. ASSUME ConnectionState_read_msg(t) \/ Peer_recv(t) PROVE Still
  BY <1>3, Zenon DEF ConnectionState_read_msg, Peer_recv
<1>4. ASSUME ConnectionState_unlock(t, "r_unlock", "r_loop") \/ Hub_close(t) PROVE Still
  BY <1>4, Zenon DEF ConnectionState_unlock, Hub_close
<1>5. ~(Hub_queue_conn(c) \/ key_prep(t) \/ tune(t) \/ established(t))
  BY Zenon DEF Hub_queue_conn, key_prep, tune, established
<1>6. ~(received(t) \/ msgid_check(t) \/ clear_recv(t)
          \/ ConnectionState_lock(t, "r_lock", "r_locked"))
  BY Zenon DEF received, msgid_check, clear_recv, ConnectionState_lock
<1> HIDE DEF t
<1> QED BY <1>1, <1>2, <1>3, <1>4, <1>5, <1>6, ZenonT(30) DEF ReaderStep, t

(* Nor does one of a writer.                                               *)
LEMMA WriterFaults ==
  ASSUME NEW c \in Conns, WriterStep(c), fault' # fault
  PROVE  Still
<1> DEFINE t == Writer(c)
<1> USE DEF Still, Fail, lists, objects, tasks, sched, inputs
<1>1. ASSUME ConnectionState_dequeue_msg(t) \/ dequeue_woken(t) PROVE Still
  BY <1>1, Zenon DEF ConnectionState_dequeue_msg, dequeue_woken
<1>2. ASSUME ConnectionState_send_msg(t) \/ Peer_send(t) \/ sent(t) PROVE Still
  BY <1>2, Zenon DEF ConnectionState_send_msg, Peer_send, sent
<1>3. ASSUME ConnectionState_unlock(t, "w_unlock", "w_dequeue") PROVE Still
  BY <1>3, Zenon DEF ConnectionState_unlock
<1>4. ~(clear_send(t) \/ outgoing_exit(t) \/ ConnectionState_lock(t, "w_lock", "w_locked"))
  BY Zenon DEF clear_send, outgoing_exit, ConnectionState_lock
<1> HIDE DEF t
<1> QED BY <1>1, <1>2, <1>3, <1>4, Zenon DEF WriterStep, t

(* Nor does one that both kinds of tasks take.                             *)
LEMMA EitherFaults ==
  ASSUME NEW t, EitherStep(t), fault' # fault
  PROVE  Still
<1> USE DEF Still, Fail, lists, objects, tasks, sched, inputs
<1>1. ASSUME rest_close(t) PROVE Still
  BY <1>1, Zenon DEF rest_close
<1>2. ~(ConnectionState_exec(t) \/ half_close(t) \/ logout(t))
  BY Zenon DEF ConnectionState_exec, half_close, logout
<1> QED BY <1>1, <1>2, Zenon DEF EitherStep

(* All the steps of a reader of its own.                                   *)
LEMMA ReaderKeeps ==
  ASSUME IInv, NEW c \in Conns, ReaderStep(c)
  PROVE  IInv'
<1> DEFINE t == Reader(c)
<1>1. CASE fault' # fault
  BY <1>1, ReaderFaults, FaultKeeps, Zenon DEF Still
<1>2. CASE fault' = fault
  <2>1. t \in Workers /\ {"r_locked", "r_loop"} \subseteq Places(t)
        /\ {"r_lock", "r_unlock"} \subseteq Labels \ {"none", "r_new"}
    BY TaskFacts, PlaceFacts DEF Labels
  <2>2. ASSUME \/ tune(t) \/ tune_identity(t) \/ tune_confirmed(t) \/ tune_final(t)
               \/ established(t) \/ ConnectionState_read_msg(t) \/ Peer_recv(t)
               \/ recv(t) \/ received(t) \/ msgid_check(t) \/ clear_recv(t)
        PROVE  IInv'
    BY <1>2, <2>2, ReaderMoves, Zenon
  <2>3. ASSUME \/ ConnectionState_lock(t, "r_lock", "r_locked")
               \/ ConnectionState_unlock(t, "r_unlock", "r_loop") \/ service(t)
        PROVE  IInv'
    BY <1>2, <2>1, <2>3, SharedMoves, Zenon
  <2>4. ASSUME Hub_queue_conn(c) \/ key_prep(t) \/ register(t) \/ Hub_close(t)
        PROVE  IInv'
    BY <1>2, <2>1, <2>4, Hub_queue_connKeeps, key_prepKeeps, registerKeeps,
         Hub_closeKeeps, ZenonT(30)
  <2> HIDE DEF t
  <2> QED BY <2>2, <2>3, <2>4, Zenon DEF ReaderStep, t
<1> QED BY <1>1, <1>2, Zenon

(* All the steps of a writer of its own.                                   *)
LEMMA WriterKeeps ==
  ASSUME IInv, NEW c \in Conns, WriterStep(c)
  PROVE  IInv'
<1> DEFINE t == Writer(c)
<1>1. CASE fault' # fault
  BY <1>1, WriterFaults, FaultKeeps, Zenon DEF Still
<1>2. CASE fault' = fault
  <2>1. t \in Workers /\ {"w_locked", "w_dequeue"} \subseteq Places(t)
        /\ {"w_lock", "w_unlock"} \subseteq Labels \ {"none", "r_new"}
    BY TaskFacts, PlaceFacts DEF Labels
  <2>2. ASSUME \/ ConnectionState_dequeue_msg(t) \/ dequeue_woken(t)
               \/ ConnectionState_send_msg(t) \/ Peer_send(t)
               \/ sent(t) \/ clear_send(t) \/ outgoing_exit(t)
        PROVE  IInv'
    BY <1>2, <2>2, WriterMoves, Zenon
  <2>3. ASSUME \/ ConnectionState_lock(t, "w_lock", "w_locked")
               \/ ConnectionState_unlock(t, "w_unlock", "w_dequeue")
        PROVE  IInv'
    BY <1>2, <2>1, <2>3, SharedMoves, Zenon
  <2> HIDE DEF t
  <2> QED BY <2>2, <2>3, Zenon DEF WriterStep, t
<1> QED BY <1>1, <1>2, Zenon

(* All the steps that both kinds of tasks take.                            *)
LEMMA EitherKeeps ==
  ASSUME IInv, NEW t \in Workers, EitherStep(t)
  PROVE  IInv'
<1>1. CASE fault' # fault
  BY <1>1, EitherFaults, FaultKeeps, Zenon DEF Still
<1>2. CASE fault' = fault
  BY <1>2, ConnectionState_execKeeps, half_closeKeeps, logoutKeeps, SharedMoves, Zenon
     DEF EitherStep
<1> QED BY <1>1, <1>2, Zenon

(* IInv is inductive.                                                       *)
LEMMA NextKeeps ==
  ASSUME IInv, Next
  PROVE  IInv'
<1>1. ASSUME Run PROVE IInv'
  BY <1>1, AcceptKeeps, ReaderKeeps, WriterKeeps, EitherKeeps, TaskFacts, Zenon DEF Run
<1> QED BY <1>1, SchedulerKeeps, Zenon DEF Next

(* A hub that has just started.                                            *)
LEMMA InitIsGood ==
  ASSUME Init
  PROVE  IInv
<1> USE DEF Init
<1>1. /\ conn \in [Slots -> ConnType] /\ \A s \in Slots : conn[s] = Blank
  <2>1. "start" \in States
    BY StateNames, Zenon DEF ChartStates
  <2>2. <<>> \in Seq(Workers)
    OBVIOUS
  <2>3. Blank \in ConnType
    BY <2>1, <2>2, Zenon DEF Blank, ConnType, ConnsN, Bodies
  <2> QED BY <2>3, Zenon
<1>2. acts \in [Tasks -> Seq(Actions)] /\ \A t \in Tasks : acts[t] = <<>>
  BY ChartLists, Zenon
<1>3. /\ pc \in [Tasks -> Labels]
      /\ \A c \in Conns : pc[Reader(c)] = "none" /\ pc[Writer(c)] = "none" /\ slot[c] = NULL
  BY TaskFacts, Zenon DEF Labels
<1>4. Types
  <2>1. <<>> \in Seq(Tasks)
    OBVIOUS
  <2> QED BY <1>1, <1>2, <1>3, <2>1, NConnsAssumption, CapacityAssumption
          DEF Types, Lives, ConnsN
<1>5. Births
  BY <1>2, <1>3, TaskFacts DEF Births, ReaderLabels, WriterLabels, Conns
<1>6. Once
  BY NullFacts, TaskFacts DEF Once, Range
<1>7. Fits /\ LogoutsApart
  BY <1>2, ChartLists, TaskFacts, Zenon DEF Fits, LogoutsApart, Pending
<1>8. ClientsPart /\ MembersLive /\ RoutedAreLive
  <2>1. RoutedAreLive
    BY DEF RoutedAreLive
  <2> QED BY <1>1, <2>1, Zenon DEF ClientsPart, MembersLive, Blank, Parted
<1>9. PeersApart
  BY <1>1, NullFacts, Zenon DEF PeersApart, Blank
<1> QED BY <1>4, <1>5, <1>6, <1>7, <1>8, <1>9, Zenon DEF IInv

(* Also with the steps that change nothing.                                *)
LEMMA StepIsGood ==
  ASSUME IInv, [Next]_vars
  PROVE  IInv'
<1>1. CASE Next
  BY <1>1, NextKeeps, Zenon
<1>2. CASE UNCHANGED vars
  <2>1. UNCHANGED <<conn, lists, open, objects, tasks, sched, accepted>>
    BY <1>2, Zenon DEF vars, inputs
  <2> QED BY <2>1, FaultKeeps, Zenon
<1> QED BY <1>1, <1>2, Zenon

(* The inductive invariant holds all the time.                             *)
LEMMA InvariantHolds == Spec => []IInv
  BY InitIsGood, StepIsGood, PTL DEF Spec

(***************************************************************************)
(* TypeOK holds for every number of connections, every capacity and        *)
(* whatever clients and sockets do: the links of the closed list and the   *)
(* slots of the tasks stay within the states that Hub_new_or_reuse_conn    *)
(* allocated, and no queue grows beyond its capacity.                      *)
(***************************************************************************)
THEOREM TypeCorrect == Spec => []TypeOK
<1>1. ASSUME IInv PROVE TypeOK
  <2>1. conn \in [Slots -> ConnType] /\ used \subseteq Slots
    BY <1>1, Zenon DEF IInv, Types
  <2>2. \A s \in Slots :
          /\ conn[s].cs \in States
          /\ {conn[s].client, conn[s].member, conn[s].peer, conn[s].send}
               \subseteq Conns \cup {NULL}
          /\ conn[s].recv \in AllKinds \cup {NULL}
          /\ conn[s].body \in AllKinds \cup {NULL, "freed"}
          /\ conn[s].next \in Slots \cup {NULL}
          /\ conn[s].owner \in Tasks \cup {NULL}
    BY <2>1, TaskFacts, KindsAssumption, SMTT(30) DEF ConnType, Bodies, ConnsN
  <2>3. Range(ready) \subseteq Tasks
    BY <1>1 DEF IInv, Types, Range
  <2> QED BY <1>1, <2>2, <2>3, Zenon DEF TypeOK, IInv, Types
<1> QED BY <1>1, InvariantHolds, PTL

(***************************************************************************)
(* RoutedAreLive holds for every number of connections, every capacity and *)
(* whatever clients and sockets do: Member_logout takes the member out of  *)
(* the routes before it yields, and Hub_service_message cannot put it back *)
(* although the state may have been used again in between.                 *)
(***************************************************************************)
THEOREM RoutedMembersLive == Spec => []RoutedAreLive
<1>1. IInv => RoutedAreLive
  BY Zenon DEF IInv
<1> QED BY <1>1, InvariantHolds, PTL

-----------------------------------------------------------------------------
(***************************************************************************)
(* The hub on a calm network.  Calm is what MCHub_quiet.cfg assumes,       *)
(* without the bounds and with sends that may fail.                        *)
(*                                                                         *)
(* IInv knows what a task may refer to, but not where the tasks of a       *)
(* connection can be at the same time.  That is what NoFault and           *)
(* ClosedListSound depend on, and what CInv says.                          *)
(***************************************************************************)

(* Here most leaves are for Zenon; the others name the prover they need.   *)
USE ZenonT(30)

(* A network on which sends do not block, nobody connects while another    *)
(* connection closes, and clients send well-formed messages.  Sends may    *)
(* fail, and clients may disconnect at any time.                           *)
Calm ==
  /\ ~SendBlocks /\ Quiet
  /\ Kinds \subseteq {"register", "unregister", "ping", "deliver"}

(* Where a task is: at a label, or about to run an action.                 *)
Spot(t) == IF acts[t] = <<>> THEN pc[t] ELSE Head(acts[t])

(* The places where a task may be without the processor.                   *)
Rests ==
  {"none", "r_new", "r_tuning", "r_final", "r_read", "r_loop", "r_exit",
   "w_dequeue", "w_woken", "w_done", "logout"}

(* Where the reader may be while its connection is idle, and where the     *)
(* writer may be.                                                          *)
RIdle ==
  {"r_loop", "r_read", "r_lock", "r_locked", "r_unlock", "r_close",
   "msgid_check", "service", "clear_recv"}
WIdle ==
  {"w_dequeue", "w_woken", "w_lock", "w_locked", "w_unlock", "w_close",
   "sent", "clear_send"}

(* Where the reader and the writer of a connection may be at the same      *)
(* time, in each state of its machine.                                     *)
Together(x, r, w) ==
  \/ x = "Accepting" /\ r = "r_key" /\ w = "none"
  \/ x = "KeyCheck" /\ r \in {"key_prep", "r_pass"} /\ w = "none"
  \/ x = "Tuning" /\ r \in {"tune", "r_tuning", "r_confirm"} /\ w = "none"
  \/ x = "Registering" /\ r \in {"register", "r_confirmed", "r_final", "r_pass2"}
       /\ w = "none"
  \/ x = "Aborting" /\ r = "r_pass2" /\ w = "none"
  \/ x = "Idle" /\ r = "established" /\ w = "none"
  \/ x = "Idle" /\ r \in RIdle /\ w \in WIdle
  \/ x = "Delivering" /\ r \in {"recv", "r_received", "r_service"}
       /\ w \in {"w_dequeue", "w_woken"}
  \/ x = "Sending" /\ r \in {"r_read", "r_loop"}
       /\ w \in {"w_queued", "w_sending", "w_sent", "w_failed"}
  \/ x = "Aborting" /\ r \in {"r_read", "r_loop"} /\ w \in {"clear_send", "w_close"}
  \/ x = "Closing" /\ r \in {"half_close", "logout", "r_loop", "r_close"} /\ w = "none"
  \/ x = "Closing" /\ r \in {"half_close", "logout"} /\ w \in {"w_dequeue", "w_woken", "w_close"}
  \/ x = "Closing" /\ r \in {"r_read", "r_loop", "r_close"}
       /\ w \in {"half_close", "logout", "w_exit", "w_done"}
  \/ x = "final" /\ r \in {"rest_close", "r_hub_close"} /\ w = "none"
  \/ x = "final" /\ r \in {"logout", "r_hub_close"} /\ w \in {"rest_close", "w_exit", "w_done"}
  \/ x = "final" /\ r \in {"rest_close", "r_hub_close", "r_exit"}
       /\ w \in {"logout", "w_exit", "w_done"}

(* Where a task goes on after the actions of an event.                     *)
RLands(c, r, w) ==
  /\ r = "key_prep" => pc[Reader(c)] = "r_pass"
  /\ r = "register" => pc[Reader(c)] = "r_confirmed"
  /\ r = "established" => pc[Reader(c)] = "r_loop"
  /\ r = "recv" => pc[Reader(c)] = "r_received"
  /\ r \in {"msgid_check", "service", "clear_recv"} => pc[Reader(c)] = "r_unlock"
  /\ r \in {"half_close", "logout"} =>
       /\ Tail(acts[Reader(c)]) = <<>>
       /\ pc[Reader(c)] = IF w = "none" THEN "r_loop" ELSE "r_hub_close"
  /\ r = "rest_close" => pc[Reader(c)] = "r_hub_close"

(* The same for the writer.                                                *)
WLands(c, x, w) ==
  /\ w = "sent" => pc[Writer(c)] = "w_unlock"
  /\ w = "clear_send" => pc[Writer(c)] = IF x = "Idle" THEN "w_unlock" ELSE "w_close"
  /\ w \in {"half_close", "logout"} => Tail(acts[Writer(c)]) = <<>>
  /\ w \in {"half_close", "logout", "rest_close"} => pc[Writer(c)] = "w_exit"

(* Where a task holds the lock of its state, and where the writer has a    *)
(* message to send.                                                        *)
RHolds == {"r_locked", "recv", "r_received", "r_service", "msgid_check", "service",
           "clear_recv", "r_unlock"}
WHolds == {"w_locked", "w_queued", "w_sending", "w_sent", "w_failed", "sent",
           "clear_send", "w_unlock"}
Carries == {"w_lock", "w_locked", "w_queued", "w_sending", "w_sent", "w_failed", "sent",
            "clear_send"}

(* What a state refers to: its client until half_close, its member once    *)
(* register has run, its peer once key_prep has run, all of its own        *)
(* connection.                                                             *)
Owns(c, k, r, w) ==
  /\ k.client = IF k.cs = "final" \/ (k.cs = "Closing" /\ "half_close" \notin {r, w})
                  THEN NULL ELSE c
  /\ k.member \in {NULL, c}
  /\ k.cs \in {"Registering", "Idle", "Delivering", "Sending"} /\ r # "register"
       => k.member = c
  /\ k.cs = "Closing" /\ r \in {"half_close", "logout"} /\ w # "none" => k.member = c
  /\ k.cs \notin {"Accepting", "final"} /\ r # "key_prep" => k.peer = c

(* What it refers to is live while the tasks still use it.                 *)
Uses(c, k, r, w) ==
  /\ k.client = NULL => c \notin open
  /\ k.cs \notin {"Accepting", "final"} /\ r # "key_prep" => peer[c] = "live"
  /\ r \in {"r_read", "logout"} => local[Reader(c)] = c
  /\ w \in {"w_woken", "w_sending", "logout"} => local[Writer(c)] = c

(* Between recv and clear_recv the reader has a message in hand.           *)
Serving == {"r_received", "r_service", "msgid_check", "service", "clear_recv"}

(* The messages that the state holds.                                      *)
Moving(c, k, r, w) ==
  /\ k.send = IF w \in Carries THEN c ELSE NULL
  /\ r \in Serving => k.recv \in Kinds
  /\ r \notin Serving => k.recv = NULL
  /\ r \in {"r_lock", "r_locked", "recv"} => k.body \in Kinds

(* The lock: nobody waits for it, and nobody but the tasks in the middle   *)
(* of traffic has it.                                                      *)
Locks(c, k, r, w) ==
  /\ k.waiting = <<>>
  /\ r \in RHolds => k.owner = Reader(c)
  /\ w \in WHolds => k.owner = Writer(c)
  /\ k.cs \in {"Accepting", "KeyCheck", "Tuning", "Registering", "Idle"}
       /\ r \notin RHolds /\ w \notin WHolds => k.owner = NULL

(* The task t gets the processor before the task u.                        *)
Before(t, u) ==
  /\ running # u
  /\ \/ running = t
     \/ \A i \in DOMAIN ready : ready[i] = u => \E j \in DOMAIN ready : j < i /\ ready[j] = t

(* A task in the middle of its work runs, and one that yielded, or was     *)
(* started, will run.                                                      *)
Turn(t) ==
  /\ Spot(t) \notin Rests => running = t
  /\ Spot(t) \in {"logout", "w_dequeue"} => running = t \/ t \in Range(ready)

(* The state of the connection c and the places of its two tasks.          *)
K(c) == conn[slot[c]]
RS(c) == Spot(Reader(c))
WS(c) == Spot(Writer(c))

(* All of this about the connection c.  A reader that yielded in           *)
(* Member_logout lets its writer close the rest first, and a state whose   *)
(* close has ended is, or was, on the closed list.                         *)
Good(c) ==
  /\ Together(K(c).cs, RS(c), WS(c))
  /\ RLands(c, RS(c), WS(c)) /\ WLands(c, K(c).cs, WS(c))
  /\ Owns(c, K(c), RS(c), WS(c))
  /\ Uses(c, K(c), RS(c), WS(c))
  /\ Moving(c, K(c), RS(c), WS(c))
  /\ Locks(c, K(c), RS(c), WS(c))
  /\ Turn(Reader(c)) /\ Turn(Writer(c))
  /\ K(c).cs = "Closing" /\ RS(c) = "logout" /\ WS(c) # "none"
       => Before(Writer(c), Reader(c))
  /\ K(c).cs = "final" /\ "rest_close" \notin {RS(c), WS(c)} => closed # NULL

(* The connection has a state and has not left it for good.                *)
InUse(c) ==
  slot[c] # NULL /\ ~(RS(c) = "r_exit" /\ WS(c) \in {"none", "w_done"})

(* No two connections are in the middle of the same state.                 *)
Alone == \A c, d \in Conns : InUse(c) /\ InUse(d) /\ slot[c] = slot[d] => c = d

(* Who may run or be ready when the listener or a new connection is:       *)
(* nobody. This is what Quiet gives.                                       *)
Comes ==
  /\ running # NULL => ~polling
  /\ running = Listener => ready = <<>>
  /\ Listener \in Range(ready) => ready = <<Listener>> /\ running = NULL
  /\ \A c \in Conns : pc[Reader(c)] = "r_new" =>
       \/ running = Reader(c) /\ ready = <<>>
       \/ running = NULL /\ ready = <<Reader(c)>> /\ ~polling

(* A reader is in the run queue once, and not while it runs.               *)
Queued == \A c \in Conns :
  /\ running = Reader(c) \/ pc[Reader(c)] = "none" => Reader(c) \notin Range(ready)
  /\ pc[Reader(c)] = "none" => running # Reader(c)
  /\ \A i, j \in DOMAIN ready : ready[i] = Reader(c) /\ ready[j] = Reader(c) => i = j

(* A state that may be on the closed list.                                 *)
Retired(s) ==
  /\ conn[s].cs = "final" /\ conn[s].client = NULL /\ conn[s].send = NULL
  /\ conn[s].recv = NULL
  /\ \A t \in Workers : Of(t) = s => ~Pending(t, "rest_close")

(* The states on the list are retired, nothing points to the head, and no  *)
(* two states point to the same one.                                       *)
Linked ==
  /\ closed # NULL => Retired(closed)
  /\ \A s \in Slots : conn[s].next # NULL =>
       /\ Retired(conn[s].next) /\ conn[s].next # closed
       /\ \A z \in Slots : conn[z].next = conn[s].next => z = s

(* The inductive invariant of a calm network.                              *)
CInv ==
  /\ fault = "none"
  /\ \A c \in Conns : InUse(c) => Good(c)
  /\ Alone /\ Comes /\ Queued /\ Linked
-----------------------------------------------------------------------------
(* The arrows that a calm network makes a connection take.                 *)
Leads(s, e, to, do) == Step(s, e).to = to /\ Step(s, e).do = do

(* What they are, by a look at the chart.                                  *)
LEMMA CalmArrows ==
  /\ Leads("Accepting", "KEY_PRESENT", "KeyCheck", <<"key_prep">>)
  /\ Leads("KeyCheck", "PASS", "Tuning", <<"tune">>)
  /\ Leads("Tuning", "PASS", "Registering", <<"register">>)
  /\ Leads("Registering", "PASS", "Idle", <<"established">>)
  /\ Leads("Idle", "MSG_RECV", "Delivering", <<"recv">>)
  /\ Leads("Delivering", "SVC_RECV", "Idle", <<"msgid_check", "service", "clear_recv">>)
  /\ Leads("Idle", "MSG_QUEUED", "Sending", <<>>)
  /\ Leads("Sending", "MSG_SENT", "Idle", <<"sent", "clear_send">>)
  /\ Leads("Sending", "FAIL", "Aborting", <<"clear_send">>)
  /\ \A e \in CloseEvents : /\ Leads("Idle", e, "Closing", <<"half_close">>)
                            /\ Leads("Closing", e, "final", <<"rest_close">>)
  /\ \A e : Leads("Aborting", e, "Closing", <<"half_close">>)
<1>1. ASSUME NEW a \in Chart
      PROVE  \/ a \in Opening
             \/ a \in Traffic
             \/ a.on \in {"HATE_APPLY", "HATE_CHALLENGE", "HATE_PAID", "HATE_VALID",
                          "HATE_INVALID"}
             \/ /\ a.from \in {"Accepting", "KeyCheck", "Tuning", "Registering", "Idle"}
                /\ a.on \in CloseEvents /\ a.to = "Closing" /\ a.do = <<"half_close">>
             \/ /\ a.from = "Closing" /\ a.on \in CloseEvents
                /\ a.to = "final" /\ a.do = <<"rest_close">>
  <2>1. a \in Hate => a.on \in {"HATE_APPLY", "HATE_CHALLENGE", "HATE_PAID", "HATE_VALID",
                          "HATE_INVALID"}
    BY SMTT(40) DEF Hate, Arrow
  <2>2. a \in HalfClosing =>
          /\ a.from \in {"Accepting", "KeyCheck", "Tuning", "Registering", "Idle"}
          /\ a.on \in CloseEvents /\ a.to = "Closing" /\ a.do = <<"half_close">>
    BY SMTT(40) DEF HalfClosing, Arrow
  <2>3. a \in RestClosing => /\ a.from = "Closing" /\ a.on \in CloseEvents
                             /\ a.to = "final" /\ a.do = <<"rest_close">>
    BY SMTT(40) DEF RestClosing, Arrow
  <2> QED BY <2>1, <2>2, <2>3 DEF Chart
<1>2. ASSUME NEW s, NEW e, NEW to, NEW do, s # "Aborting",
             Arrow(s, e, to, do) \in Chart,
             \A a \in Chart : a.from = s /\ a.on = e => a.to = to /\ a.do = do
      PROVE  Leads(s, e, to, do)
  <2>1. \E a \in Chart : a.from = s /\ a.on = e
    BY <1>2, SMTT(40) DEF Arrow
  <2>2. Step(s, e) \in Chart /\ Step(s, e).from = s /\ Step(s, e).on = e
    BY <1>2, <2>1 DEF Step
  <2> QED BY <1>2, <2>2 DEF Leads
<1> USE DEF CloseEvents
<1>3. Opening \subseteq Chart /\ Traffic \subseteq Chart /\ HalfClosing \subseteq Chart
        /\ RestClosing \subseteq Chart
  BY DEF Chart
<1>4. ASSUME NEW a \in Opening
      PROVE  \/ a.from = "start"
             \/ a.from = "Accepting" /\ a.on = "KEY_PRESENT" /\ a.to = "KeyCheck"
                  /\ a.do = <<"key_prep">>
             \/ a.from = "KeyCheck" /\ a.on = "PASS" /\ a.to = "Tuning" /\ a.do = <<"tune">>
             \/ a.from = "Tuning" /\ a.on = "PASS" /\ a.to = "Registering"
                  /\ a.do = <<"register">>
             \/ a.from = "Registering" /\ a.on = "PASS" /\ a.to = "Idle"
                  /\ a.do = <<"established">>
  BY SMTT(40) DEF Opening, Arrow
<1>5. ASSUME NEW a \in Traffic
      PROVE  \/ a.from = "Idle" /\ a.on = "MSG_RECV" /\ a.to = "Delivering"
                  /\ a.do = <<"recv">>
             \/ a.from = "Delivering" /\ a.on = "SVC_RECV" /\ a.to = "Idle"
                  /\ a.do = <<"msgid_check", "service", "clear_recv">>
             \/ a.from = "Idle" /\ a.on = "MSG_QUEUED" /\ a.to = "Sending" /\ a.do = <<>>
             \/ a.from = "Sending" /\ a.on = "MSG_SENT" /\ a.to = "Idle"
                  /\ a.do = <<"sent", "clear_send">>
             \/ a.from = "Sending" /\ a.on = "FAIL" /\ a.to = "Aborting"
                  /\ a.do = <<"clear_send">>
  BY SMTT(40) DEF Traffic, Arrow
<1>6. Leads("Accepting", "KEY_PRESENT", "KeyCheck", <<"key_prep">>)
  <2>1. Arrow("Accepting", "KEY_PRESENT", "KeyCheck", <<"key_prep">>) \in Chart
    BY <1>3 DEF Opening
  <2> QED BY <1>1, <1>2, <1>4, <1>5, <2>1
<1>7. Leads("KeyCheck", "PASS", "Tuning", <<"tune">>)
  <2>1. Arrow("KeyCheck", "PASS", "Tuning", <<"tune">>) \in Chart
    BY <1>3 DEF Opening
  <2> QED BY <1>1, <1>2, <1>4, <1>5, <2>1
<1>8. Leads("Tuning", "PASS", "Registering", <<"register">>)
  <2>1. Arrow("Tuning", "PASS", "Registering", <<"register">>) \in Chart
    BY <1>3 DEF Opening
  <2> QED BY <1>1, <1>2, <1>4, <1>5, <2>1
<1>9. Leads("Registering", "PASS", "Idle", <<"established">>)
  <2>1. Arrow("Registering", "PASS", "Idle", <<"established">>) \in Chart
    BY <1>3 DEF Opening
  <2> QED BY <1>1, <1>2, <1>4, <1>5, <2>1
<1>10. Leads("Idle", "MSG_RECV", "Delivering", <<"recv">>)
  <2>1. Arrow("Idle", "MSG_RECV", "Delivering", <<"recv">>) \in Chart
    BY <1>3 DEF Traffic
  <2> QED BY <1>1, <1>2, <1>4, <1>5, <2>1
<1>11. Leads("Delivering", "SVC_RECV", "Idle", <<"msgid_check", "service", "clear_recv">>)
  <2>1. Arrow("Delivering", "SVC_RECV", "Idle", <<"msgid_check", "service", "clear_recv">>)
          \in Chart
    BY <1>3 DEF Traffic
  <2> QED BY <1>1, <1>2, <1>4, <1>5, <2>1
<1>12. Leads("Idle", "MSG_QUEUED", "Sending", <<>>)
  <2>1. Arrow("Idle", "MSG_QUEUED", "Sending", <<>>) \in Chart
    BY <1>3 DEF Traffic
  <2> QED BY <1>1, <1>2, <1>4, <1>5, <2>1
<1>13. Leads("Sending", "MSG_SENT", "Idle", <<"sent", "clear_send">>)
  <2>1. Arrow("Sending", "MSG_SENT", "Idle", <<"sent", "clear_send">>) \in Chart
    BY <1>3 DEF Traffic
  <2> QED BY <1>1, <1>2, <1>4, <1>5, <2>1
<1>14. Leads("Sending", "FAIL", "Aborting", <<"clear_send">>)
  <2>1. Arrow("Sending", "FAIL", "Aborting", <<"clear_send">>) \in Chart
    BY <1>3 DEF Traffic
  <2> QED BY <1>1, <1>2, <1>4, <1>5, <2>1
<1>15. ASSUME NEW e \in CloseEvents PROVE Leads("Idle", e, "Closing", <<"half_close">>)
  <2>1. Arrow("Idle", e, "Closing", <<"half_close">>) \in Chart
    BY <1>3, SMTT(40) DEF HalfClosing
  <2> QED BY <1>1, <1>2, <1>4, <1>5, <2>1
<1>16. ASSUME NEW e \in CloseEvents PROVE Leads("Closing", e, "final", <<"rest_close">>)
  <2>1. Arrow("Closing", e, "final", <<"rest_close">>) \in Chart
    BY <1>3 DEF RestClosing
  <2> QED BY <1>1, <1>2, <1>4, <1>5, <2>1
<1>17. \A e : Leads("Aborting", e, "Closing", <<"half_close">>)
  BY SMTT(40) DEF Leads, Step, Arrow
<1> QED BY <1>6, <1>7, <1>8, <1>9, <1>10, <1>11, <1>12, <1>13, <1>14, <1>15, <1>16, <1>17

-----------------------------------------------------------------------------
(***************************************************************************)
(* What a step of one task leaves alone in the other connections.          *)
(***************************************************************************)

(* The run queue grows by writers, and by the task t if it yields.         *)
Grows(t) ==
  \E q \in Seq(Tasks) :
    /\ ready' = ready \o q
    /\ \A i \in DOMAIN q :
         \/ q[i] \in {Writer(d) : d \in Conns}
         \/ q[i] = t /\ i = Len(q) /\ running' = NULL

(* The state s is the same, but for what ConnectionState_finish takes.     *)
Alike(s) ==
  /\ conn'[s].cs = conn[s].cs /\ conn'[s].client = conn[s].client
  /\ conn'[s].member = conn[s].member /\ conn'[s].send = conn[s].send
  /\ conn'[s].recv = conn[s].recv /\ conn'[s].owner = conn[s].owner
  /\ conn'[s].waiting = conn[s].waiting /\ conn'[s].next = conn[s].next
  /\ conn[s].cs # "final" =>
       conn'[s].body = conn[s].body /\ conn'[s].peer = conn[s].peer

(* A step of the task t does nothing to the other connections.             *)
Tame(t) ==
  /\ UNCHANGED <<slot, polling, fault>>
  /\ \A u \in Tasks : u[2] # t[2] =>
       pc'[u] = pc[u] /\ acts'[u] = acts[u] /\ local'[u] = local[u]
  /\ \A s \in Slots : s # Of(t) => Alike(s)
  /\ open' \subseteq open
  /\ \A d \in Conns : d # t[2] /\ InUse(d) /\ K(d).cs # "final" => peer'[d] = peer[d]
  /\ closed # NULL => closed' # NULL
  /\ running' \in {t, NULL} /\ Grows(t)

(* What a longer run queue still has.                                      *)
LEMMA GrowFacts ==
  ASSUME ready \in Seq(Tasks), NEW t, Grows(t)
  PROVE  /\ Range(ready) \subseteq Range(ready')
         /\ \A u : u # t /\ u \notin {Writer(d) : d \in Conns} =>
              /\ u \in Range(ready') => u \in Range(ready)
              /\ \A v : running' # u /\ Before(v, u) /\ running # v => Before(v, u)'
<1>1. PICK q \in Seq(Tasks) :
        /\ ready' = ready \o q
        /\ \A i \in DOMAIN q :
             \/ q[i] \in {Writer(d) : d \in Conns}
             \/ q[i] = t /\ i = Len(q) /\ running' = NULL
  BY DEF Grows
<1>2. /\ \A i \in DOMAIN ready : i \in DOMAIN ready' /\ ready'[i] = ready[i] /\ i \in Nat
      /\ \A i \in DOMAIN ready' : i \in DOMAIN ready \/
           \E j \in DOMAIN q : ready'[i] = q[j]
  <2>1. \A i \in DOMAIN ready : i \in DOMAIN ready' /\ ready'[i] = ready[i] /\ i \in Nat
    BY <1>1, SMTT(40)
  <2>2. ASSUME NEW i \in DOMAIN ready', i \notin DOMAIN ready
        PROVE  i - Len(ready) \in DOMAIN q /\ ready'[i] = q[i - Len(ready)]
    BY <1>1, <2>2, SMTT(40)
  <2> QED BY <2>1, <2>2
<1>3. Range(ready) \subseteq Range(ready')
  BY <1>2 DEF Range
<1>4. ASSUME NEW u, u # t, u \notin {Writer(d) : d \in Conns}, NEW i \in DOMAIN ready',
             ready'[i] = u
      PROVE  i \in DOMAIN ready /\ ready[i] = u
  BY <1>1, <1>2, <1>4
<1>5. ASSUME NEW u, u # t, u \notin {Writer(d) : d \in Conns}
      PROVE  u \in Range(ready') => u \in Range(ready)
  BY <1>4, <1>5 DEF Range
<1>6. ASSUME NEW u, u # t, u \notin {Writer(d) : d \in Conns},
             NEW v, running' # u, Before(v, u), running # v
      PROVE  Before(v, u)'
  <2>1. \A i \in DOMAIN ready : ready[i] = u => \E j \in DOMAIN ready : j < i /\ ready[j] = v
    BY <1>6 DEF Before
  <2>2. \A i \in DOMAIN ready' : ready'[i] = u => \E j \in DOMAIN ready' : j < i /\ ready'[j] = v
    BY <1>2, <1>4, <1>6, <2>1
  <2> QED BY <1>6, <2>2 DEF Before
<1> QED BY <1>3, <1>5, <1>6

(* A connection whose tasks do not run stays as it is.                     *)
LEMMA Elsewhere ==
  ASSUME IInv, CInv, NEW t \in Workers, running = t, InUse(t[2]), Tame(t),
         NEW d \in Conns, d # t[2], InUse(d)'
  PROVE  InUse(d) /\ Good(d)'
<1> DEFINE R == Reader(d)
           W == Writer(d)
           s == slot[d]
<1>1. /\ R \in Tasks /\ W \in Tasks /\ R[2] = d /\ W[2] = d /\ t \in Tasks
      /\ R # t /\ W # t /\ R # W /\ R \notin {Writer(e) : e \in Conns}
      /\ R # NULL /\ W # NULL
  BY TaskFacts, NullFacts, SMTT(40)
<1>2. /\ pc'[R] = pc[R] /\ acts'[R] = acts[R] /\ local'[R] = local[R]
      /\ pc'[W] = pc[W] /\ acts'[W] = acts[W] /\ local'[W] = local[W]
      /\ slot'[d] = s
  BY <1>1 DEF Tame
<1>3. InUse(d)
  BY <1>2 DEF InUse, RS, WS, Spot
<1>4. Good(d)
  BY <1>3 DEF CInv
<1>5. s \in Slots /\ s # Of(t) /\ ready \in Seq(Tasks)
  <2>1. t[2] \in Conns
    BY WorkerFacts
  <2>2. s # slot[t[2]]
    BY <1>3, <2>1 DEF CInv, Alone
  <2>3. s \in Slots /\ ready \in Seq(Tasks)
    BY <1>3 DEF IInv, Types, InUse
  <2> QED BY <2>2, <2>3 DEF Of
<1>6. Alike(s)
  BY <1>5 DEF Tame
<1>7. RS(d)' = RS(d) /\ WS(d)' = WS(d) /\ K(d)' = conn'[s] /\ K(d) = conn[s]
  BY <1>2 DEF RS, WS, Spot, K
<1> USE <1>7
<1>8. /\ RS(d) \in Rests /\ WS(d) \in Rests
      /\ RS(d) \in {"logout", "w_dequeue"} => R \in Range(ready)
      /\ WS(d) \in {"logout", "w_dequeue"} => W \in Range(ready)
  BY <1>1, <1>4 DEF Good, Turn, RS, WS
<1>9. /\ Range(ready) \subseteq Range(ready')
      /\ Before(W, R) => Before(W, R)'
  <2>1. running' # R
    BY <1>1 DEF Tame
  <2> QED BY <1>1, <1>5, <2>1, GrowFacts DEF Tame
<1>10. /\ K(d)'.cs = K(d).cs /\ K(d)'.client = K(d).client /\ K(d)'.member = K(d).member
       /\ K(d)'.send = K(d).send /\ K(d)'.recv = K(d).recv /\ K(d)'.owner = K(d).owner
       /\ K(d)'.waiting = K(d).waiting
       /\ K(d).cs # "final" => /\ K(d)'.body = K(d).body /\ K(d)'.peer = K(d).peer
                               /\ peer'[d] = peer[d]
  BY <1>3, <1>6 DEF Alike, Tame
<1> USE <1>10
<1>11. Together(K(d).cs, RS(d), WS(d))'
  <2>1. Together(K(d).cs, RS(d), WS(d))
    BY <1>4 DEF Good
  <2> QED BY <2>1
<1>12. Turn(R)' /\ Turn(W)'
  BY <1>8, <1>9 DEF Turn, RS, WS
<1>13. RLands(d, RS(d), WS(d))' /\ WLands(d, K(d).cs, WS(d))'
  BY <1>2, <1>4 DEF Good, RLands, WLands
<1>14. K(d).cs = "final" => RS(d) \notin {"r_lock", "r_locked", "recv"}
  BY <1>4 DEF Good, Together
<1>15. Owns(d, K(d), RS(d), WS(d))'
  BY <1>4 DEF Good, Owns
<1>19. Uses(d, K(d), RS(d), WS(d))'
  BY <1>2, <1>4 DEF Good, Uses, Tame
<1>16. Moving(d, K(d), RS(d), WS(d))'
  BY <1>4, <1>14 DEF Good, Moving
<1>17. Locks(d, K(d), RS(d), WS(d))'
  BY <1>4 DEF Good, Locks
<1>18. closed # NULL => closed' # NULL
  BY DEF Tame
<1> QED BY <1>3, <1>4, <1>9, <1>11, <1>12, <1>13, <1>15, <1>16, <1>17, <1>18, <1>19 DEF Good

(* The step leaves the closed list alone.                                  *)
Leaves(t) ==
  /\ closed' = closed /\ conn'[Of(t)].next = conn[Of(t)].next
  /\ Retired(Of(t)) => Retired(Of(t))'

(* Such a step keeps the links of the list.                                *)
LEMMA LeavesKeeps ==
  ASSUME IInv, CInv, NEW t \in Workers, InUse(t[2]), Tame(t), Leaves(t)
  PROVE  Linked'
<1>1. Of(t) \in Slots /\ t[2] \in Conns /\ conn \in [Slots -> ConnType]
  BY WorkerFacts DEF IInv, Types, InUse, Of
<1>2. ASSUME NEW z \in Slots, Retired(z)
      PROVE  Retired(z)'
  <2>1. CASE z = Of(t)
    BY <1>2, <2>1 DEF Leaves, Retired, Tame, Of
  <2>2. CASE z # Of(t)
    <3>1. ASSUME NEW u \in Workers, Of(u)' = z
          PROVE  ~Pending(u, "rest_close")'
      <4>1. Of(u) = z
        BY <3>1 DEF Tame, Of
      <4>2. u[2] # t[2] /\ u \in Tasks
        BY <2>2, <4>1, TaskFacts DEF Of
      <4> QED BY <1>2, <4>1, <4>2 DEF Tame, Pending, Retired
    <3> QED BY <1>2, <2>2, <3>1 DEF Retired, Tame, Alike
  <2> QED BY <2>1, <2>2
<1>3. \A z \in Slots : conn'[z].next = conn[z].next
  BY DEF Leaves, Tame, Alike
<1>4. /\ \A z \in Slots : conn[z].next # NULL => conn[z].next \in Slots
      /\ closed # NULL => closed \in Slots
  BY <1>1 DEF IInv, Types, ConnType
<1> QED BY <1>2, <1>3, <1>4 DEF Linked, CInv, Leaves

(* What is left to show of a step of the task t.                           *)
LEMMA TameKeeps ==
  ASSUME IInv, IInv', CInv, NEW t \in Workers, running = t, InUse(t[2]), Tame(t),
         Linked', InUse(t[2])' => Good(t[2])',
         ~InUse(t[2])' => conn'[Of(t)].cs = "final"
  PROVE  CInv'
<1>1. t[2] \in Conns /\ t # NULL /\ t # Listener /\ Of(t) \in Slots /\ slot' = slot
  BY WorkerFacts DEF IInv, Types, InUse, Of, Tame
<1>2. ASSUME NEW c \in Conns, InUse(c)'
      PROVE  InUse(c) /\ Good(c)'
  BY <1>1, <1>2, Elsewhere
<1>3. Alone'
  BY <1>1, <1>2 DEF CInv, Alone
<1>4. Comes'
  <2>1. Listener \notin Range(ready) /\ ready \in Seq(Tasks) /\ ~polling
    BY <1>1 DEF CInv, Comes, IInv, Types
  <2>2. Listener # t /\ Listener \notin {Writer(d) : d \in Conns}
    BY TaskFacts
  <2>3. Listener \notin Range(ready')
    BY <2>1, <2>2, GrowFacts DEF Tame
  <2>4. ASSUME NEW c \in Conns, pc'[Reader(c)] = "r_new"
        PROVE  FALSE
    <3>1. slot'[c] = NULL
      BY <2>4 DEF IInv, Births
    <3>2. c # t[2] /\ t # Reader(c) /\ Reader(c) \in Tasks
      BY <1>1, <3>1, TaskFacts DEF InUse
    <3>3. pc[Reader(c)] = "r_new"
      BY <2>4, <3>2, TaskFacts DEF Tame
    <3> QED BY <1>1, <3>2, <3>3 DEF CInv, Comes
  <2>5. running' # Listener /\ ~polling'
    BY <1>1, <2>1, NullFacts, TaskFacts DEF Tame
  <2> QED BY <2>3, <2>4, <2>5 DEF Comes
<1>7. Queued'
  <2>1. ready \in Seq(Tasks) /\ running' \in {t, NULL}
    BY DEF IInv, Types, Tame
  <2>2. PICK q \in Seq(Tasks) :
          /\ ready' = ready \o q
          /\ \A i \in DOMAIN q :
              \/ q[i] \in {Writer(d) : d \in Conns}
              \/ q[i] = t /\ i = Len(q) /\ running' = NULL
    BY DEF Tame, Grows
  <2>3. /\ \A i \in DOMAIN ready' :
             \/ i \in DOMAIN ready /\ ready'[i] = ready[i]
             \/ ready'[i] \in {Writer(d) : d \in Conns}
             \/ ready'[i] = t /\ i = Len(ready') /\ running' = NULL
        /\ \A i \in DOMAIN ready : i \in DOMAIN ready'
    <3>3. /\ Len(ready) \in Nat /\ Len(q) \in Nat /\ Len(ready') = Len(ready) + Len(q)
          /\ DOMAIN ready = 1 .. Len(ready) /\ DOMAIN q = 1 .. Len(q)
          /\ DOMAIN ready' = 1 .. Len(ready')
      BY <2>1, <2>2, SMTT(40)
    <3>1. ASSUME NEW i \in DOMAIN ready', i \notin DOMAIN ready
          PROVE  /\ i - Len(ready) \in DOMAIN q /\ ready'[i] = q[i - Len(ready)]
                 /\ i - Len(ready) = Len(q) => i = Len(ready')
      BY <2>1, <2>2, <3>1, <3>3, SMTT(40)
    <3>2. \A i \in DOMAIN ready : i \in DOMAIN ready' /\ ready'[i] = ready[i]
      BY <2>1, <2>2, SMTT(40)
    <3> QED BY <2>2, <3>1, <3>2
  <2> SUFFICES ASSUME NEW c \in Conns
               PROVE  /\ running' = Reader(c) \/ pc'[Reader(c)] = "none"
                           => Reader(c) \notin Range(ready')
                      /\ pc'[Reader(c)] = "none" => running' # Reader(c)
                      /\ \A i, j \in DOMAIN ready' :
                           ready'[i] = Reader(c) /\ ready'[j] = Reader(c) => i = j
    BY DEF Queued
  <2>4. Reader(c) \notin {Writer(d) : d \in Conns} /\ Reader(c) # NULL /\ Reader(c) \in Tasks
    BY TaskFacts, NullFacts, SMTT(40)
  <2>5. pc'[Reader(c)] = "none" => pc[Reader(c)] = "none" /\ Reader(c) # t
    <3>1. pc'[Reader(c)] = "none" => slot'[c] = NULL
      BY DEF IInv, Births
    <3>2. pc'[Reader(c)] = "none" => c # t[2]
      BY <1>1, <3>1 DEF InUse
    <3> QED BY <2>4, <3>2, TaskFacts DEF Tame
  <2>6. /\ t = Reader(c) => Reader(c) \notin Range(ready)
        /\ pc[Reader(c)] = "none" => Reader(c) \notin Range(ready) /\ running # Reader(c)
        /\ \A i, j \in DOMAIN ready : ready[i] = Reader(c) /\ ready[j] = Reader(c) => i = j
    BY DEF CInv, Queued
  <2>7. \A i \in DOMAIN ready' : ready'[i] = Reader(c) =>
          \/ i \in DOMAIN ready /\ ready[i] = Reader(c)
          \/ t = Reader(c) /\ i = Len(ready') /\ running' = NULL
    BY <2>3, <2>4
  <2>8. \A i \in DOMAIN ready : ready[i] = Reader(c) => Reader(c) \in Range(ready)
    BY DEF Range
  <2>9. Reader(c) \in Range(ready') => \E i \in DOMAIN ready' : ready'[i] = Reader(c)
    BY DEF Range
  <2> QED BY <2>1, <2>4, <2>5, <2>6, <2>7, <2>8, <2>9
<1>6. fault' = "none"
  BY DEF Tame, CInv
<1> QED BY <1>2, <1>3, <1>4, <1>6, <1>7 DEF CInv

(* The ways in which the run queue grows.                                  *)
LEMMA GrowForms ==
  ASSUME ready \in Seq(Tasks), NEW t \in Workers
  PROVE  /\ ready' = ready => Grows(t)
         /\ running' = NULL /\ ready' = Append(ready, t) => Grows(t) /\ t \in Range(ready')
         /\ \A M, q : q \in Woken(M) /\ ready' = ready \o q => Grows(t)
         /\ \A M, q : q \in Woken(M) /\ running' = NULL /\ ready' = Append(ready \o q, t) =>
              Grows(t) /\ t \in Range(ready')
<1>1. t \in Tasks
  BY TaskFacts
<1>0. ASSUME NEW z \in Seq(Tasks), ready' = ready \o z,
             \A i \in DOMAIN z :
               \/ z[i] \in {Writer(d) : d \in Conns}
               \/ z[i] = t /\ i = Len(z) /\ running' = NULL
      PROVE  Grows(t)
  BY <1>0, SMTT(40) DEF Grows
<1>2. ASSUME ready' = ready PROVE Grows(t)
  <2>1. <<>> \in Seq(Tasks) /\ ready = ready \o <<>> /\ DOMAIN <<>> = {}
    BY SMTT(40)
  <2> QED BY <1>2, <2>1 DEF Grows
<1>3. ASSUME NEW q \in Seq(Tasks), running' = NULL, ready' = Append(ready \o q, t),
             \A i \in DOMAIN q : q[i] \in {Writer(d) : d \in Conns}
      PROVE  Grows(t) /\ t \in Range(ready')
  <2>1. /\ Append(q, t) \in Seq(Tasks) /\ ready' = ready \o Append(q, t)
        /\ \A i \in DOMAIN Append(q, t) :
             \/ Append(q, t)[i] = t /\ i = Len(Append(q, t))
             \/ i \in DOMAIN q /\ Append(q, t)[i] = q[i]
    BY <1>1, <1>3, SMTT(40)
  <2>2. Len(ready) + Len(q) + 1 \in DOMAIN ready' /\ ready'[Len(ready) + Len(q) + 1] = t
    BY <1>1, <1>3, SMTT(40)
  <2>3. t \in Range(ready')
    BY <2>2 DEF Range
  <2>4. PICK z : z = Append(q, t)
    OBVIOUS
  <2>5. \A i \in DOMAIN z :
               z[i] \in {Writer(d) : d \in Conns} \/ (z[i] = t /\ i = Len(z) /\ running' = NULL)
    BY <1>3, <2>1, <2>4, SMTT(40)
  <2>6. z \in Seq(Tasks) /\ ready' = ready \o z
    BY <2>1, <2>4
  <2>7. Grows(t)
    BY <1>0, <2>5, <2>6
  <2> QED BY <2>3, <2>7
<1>4. ASSUME running' = NULL, ready' = Append(ready, t) PROVE Grows(t) /\ t \in Range(ready')
  <2>1. <<>> \in Seq(Tasks) /\ ready = ready \o <<>> /\ DOMAIN <<>> = {}
    BY SMTT(40)
  <2> QED BY <1>3, <1>4, <2>1
<1>5. ASSUME NEW M, NEW q \in Woken(M)
      PROVE  q \in Seq(Tasks) /\ \A i \in DOMAIN q : q[i] \in {Writer(d) : d \in Conns}
  <2>1. Range(q) = {Writer(d) : d \in Sleepers(M)}
    BY <1>5 DEF Woken
  <2>2. q \in Seq(Workers)
    BY <1>5, WokenFacts
  <2>3. q \in Seq(Tasks)
    BY <2>2, TaskFacts, SMTT(40)
  <2> QED BY <2>1, <2>3 DEF Range, Sleepers
<1>6. ASSUME NEW M, NEW q \in Woken(M), ready' = ready \o q PROVE Grows(t)
  <2>1. q \in Seq(Tasks) /\ \A i \in DOMAIN q : q[i] \in {Writer(d) : d \in Conns}
    BY <1>5
  <2>2. \A i \in DOMAIN q :
          \/ q[i] \in {Writer(d) : d \in Conns}
          \/ q[i] = t /\ i = Len(q) /\ running' = NULL
    BY <2>1
  <2> QED BY <1>0, <1>6, <2>1, <2>2
<1> QED BY <1>2, <1>3, <1>4, <1>5, <1>6

(* The task t yields, after it woke writers or not.                         *)
Yields(t) ==
  /\ running' = NULL
  /\ \/ ready' = Append(ready, t)
     \/ \E M : \E q \in Woken(M) : ready' = Append(ready \o q, t)

(* The task t of a connection in use sets its state to k and goes to p.    *)
Goes(t, k, p) ==
  /\ running = t /\ InUse(t[2])
  /\ UNCHANGED <<slot, polling, fault>>
  /\ \A u \in Tasks : u # t =>
       pc'[u] = pc[u] /\ acts'[u] = acts[u] /\ local'[u] = local[u]
  /\ conn'[Of(t)] = k /\ \A s \in Slots : s # Of(t) => conn'[s] = conn[s]
  /\ open' \subseteq open /\ \A d \in Conns : d # t[2] => peer'[d] = peer[d]
  /\ running' \in {t, NULL}
  /\ ready' = ready \/ Yields(t) \/ \E M : \E q \in Woken(M) : ready' = ready \o q
  /\ Spot(t)' = p
  /\ p \in Rests \/ running' = t
  /\ p \in {"logout", "w_dequeue"} => running' = t \/ Yields(t)

(* Such a step only lets the run queue grow.                               *)
LEMMA GoesGrows ==
  ASSUME IInv, NEW t \in Workers, NEW k, NEW p, Goes(t, k, p)
  PROVE  Grows(t) /\ (p \in {"logout", "w_dequeue"} => running' = t \/ t \in Range(ready'))
<1>1. ready \in Seq(Tasks)
  BY DEF IInv, Types
<1>2. Yields(t) => Grows(t) /\ t \in Range(ready')
  BY <1>1, GrowForms DEF Yields
<1> QED BY <1>1, <1>2, GrowForms DEF Goes

(* It does nothing to the other connections.                               *)
LEMMA GoesTamely ==
  ASSUME IInv, NEW t \in Workers, NEW k, NEW p, Goes(t, k, p),
         closed # NULL => closed' # NULL
  PROVE  Tame(t)
<1>1. \A s \in Slots : s # Of(t) => Alike(s)
  BY DEF Goes, Alike
<1>2. \A u \in Tasks : u[2] # t[2] => u # t
  OBVIOUS
<1> QED BY <1>1, <1>2, GoesGrows DEF Goes, Tame

(* A reader that moves keeps its connection good if the new place fits the *)
(* place of the writer, which stays where it is.                           *)
LEMMA ReaderGood ==
  ASSUME IInv, CInv, NEW c \in Conns, NEW k, NEW p, Goes(Reader(c), k, p),
         NEW w, w = WS(c), Together(k.cs, p, w), RLands(c, p, w)', Uses(c, k, p, w)',
         Owns(c, k, p, w), Moving(c, k, p, w), Locks(c, k, p, w),
         k.cs = "Closing" /\ p = "logout" /\ w # "none" => Before(Writer(c), Reader(c))',
         k.cs = "final" /\ "rest_close" \notin {p, w} => closed' # NULL
  PROVE  Good(c)'
<1> DEFINE R == Reader(c)
           W == Writer(c)
<1>1. /\ R[2] = c /\ W[2] = c /\ R # W /\ R \in Tasks /\ W \in Tasks
      /\ R \in Workers /\ W \in Workers /\ R # NULL /\ W # NULL
  BY TaskFacts, NullFacts, SMTT(40)
<1>2. /\ pc'[W] = pc[W] /\ acts'[W] = acts[W] /\ local'[W] = local[W]
      /\ running = R /\ Good(c) /\ Of(R) = slot[c] /\ slot' = slot
      /\ RS(c)' = p
  BY <1>1 DEF Goes, CInv, Of, RS
<1> USE <1>2
<1>3. WS(c)' = w /\ K(c)' = k
  BY DEF WS, Spot, K, Goes
<1> USE <1>3
<1>4. w \in Rests /\ (w \in {"logout", "w_dequeue"} => W \in Range(ready))
  BY <1>1 DEF Good, Turn, WS
<1>5. Range(ready) \subseteq Range(ready')
  <2>1. ready \in Seq(Tasks)
    BY DEF IInv, Types
  <2> QED BY <1>1, <2>1, GoesGrows, GrowFacts
<1>6. Turn(W)' /\ Turn(R)'
  BY <1>1, <1>4, <1>5, GoesGrows DEF Turn, Goes, WS, RS
<1>7. WLands(c, K(c).cs, WS(c))'
  BY <1>4 DEF WLands, Good, Rests
<1>8. /\ Together(K(c).cs, RS(c), WS(c))' /\ RLands(c, RS(c), WS(c))'
      /\ Uses(c, K(c), RS(c), WS(c))' /\ Owns(c, K(c), RS(c), WS(c))'
      /\ Moving(c, K(c), RS(c), WS(c))' /\ Locks(c, K(c), RS(c), WS(c))'
  OBVIOUS
<1> QED BY <1>6, <1>7, <1>8 DEF Good

(* The same for a writer.                                                  *)
LEMMA WriterGood ==
  ASSUME IInv, CInv, NEW c \in Conns, NEW k, NEW p, Goes(Writer(c), k, p),
         NEW r, r = RS(c), Together(k.cs, r, p), WLands(c, k.cs, p)', Uses(c, k, r, p)',
         Owns(c, k, r, p), Moving(c, k, r, p), Locks(c, k, r, p),
         p # "none", WS(c) # "none",
         k.cs = "Closing" /\ r = "logout" => running' = Writer(c),
         k.cs = "final" /\ "rest_close" \notin {r, p} => closed' # NULL
  PROVE  Good(c)'
<1> DEFINE R == Reader(c)
           W == Writer(c)
<1>1. /\ R[2] = c /\ W[2] = c /\ R # W /\ R \in Tasks /\ W \in Tasks
      /\ R \in Workers /\ W \in Workers /\ R # NULL /\ W # NULL
  BY TaskFacts, NullFacts, SMTT(40)
<1>2. /\ pc'[R] = pc[R] /\ acts'[R] = acts[R] /\ local'[R] = local[R]
      /\ running = W /\ Good(c) /\ Of(W) = slot[c] /\ slot' = slot
      /\ WS(c)' = p
  BY <1>1 DEF Goes, CInv, Of, WS
<1> USE <1>2
<1>3. RS(c)' = r /\ K(c)' = k
  BY DEF RS, Spot, K, Goes
<1> USE <1>3
<1>4. r \in Rests /\ (r \in {"logout", "w_dequeue"} => R \in Range(ready))
  BY <1>1 DEF Good, Turn, RS
<1>5. Range(ready) \subseteq Range(ready')
  <2>1. ready \in Seq(Tasks)
    BY DEF IInv, Types
  <2> QED BY <1>1, <2>1, GoesGrows, GrowFacts
<1>6. Turn(W)' /\ Turn(R)'
  BY <1>1, <1>4, <1>5, GoesGrows DEF Turn, Goes, WS, RS
<1>7. RLands(c, RS(c), WS(c))'
  BY <1>4 DEF RLands, Good
<1>8. /\ Together(K(c).cs, RS(c), WS(c))' /\ WLands(c, K(c).cs, WS(c))'
      /\ Uses(c, K(c), RS(c), WS(c))' /\ Owns(c, K(c), RS(c), WS(c))'
      /\ Moving(c, K(c), RS(c), WS(c))' /\ Locks(c, K(c), RS(c), WS(c))'
  OBVIOUS
<1>9. K(c)'.cs = "Closing" /\ RS(c)' = "logout" => Before(W, R)'
  BY <1>1 DEF Before
<1> QED BY <1>6, <1>7, <1>8, <1>9 DEF Good

(* A connection in use whose state is final has nothing left in it.        *)
LEMMA FinalFacts ==
  ASSUME NEW c, NEW k, NEW r, NEW w, k.cs = "final", Together(k.cs, r, w),
         Moving(c, k, r, w)
  PROVE  k.send = NULL /\ k.recv = NULL
<1>1. w \notin Carries /\ r \notin Serving
  BY SMTT(40) DEF Together, Carries, Serving
<1> QED BY <1>1 DEF Moving

(* Such a step leaves the closed list alone, unless it ends a close.       *)
LEMMA GoesLeaves ==
  ASSUME IInv, CInv, NEW t \in Workers, NEW k, NEW p, Goes(t, k, p), closed' = closed,
         k.next = conn[Of(t)].next,
         conn[Of(t)].cs = "final" => /\ k.cs = "final" /\ k.client = NULL
                                     /\ k.send = NULL /\ k.recv = NULL
                                     /\ p # "rest_close"
  PROVE  Linked'
<1>1. Tame(t)
  BY GoesTamely
<1>2. Of(t)' = Of(t)
  BY DEF Goes, Of
<1>3. ASSUME Retired(Of(t)) PROVE Retired(Of(t))'
  <2>1. ASSUME NEW u \in Workers, Of(u)' = Of(t)
        PROVE  ~Pending(u, "rest_close")'
    <3>1. Of(u) = Of(t) /\ u \in Tasks
      BY <2>1, TaskFacts DEF Goes, Of
    <3>2. CASE u = t
      BY <1>3, <3>2 DEF Goes, Spot, Pending, Retired
    <3>3. CASE u # t
      BY <1>3, <3>1, <3>3 DEF Goes, Pending, Retired
    <3> QED BY <3>2, <3>3
  <2> QED BY <1>2, <1>3, <2>1 DEF Retired, Goes
<1>4. Leaves(t)
  BY <1>2, <1>3 DEF Leaves, Goes
<1> QED BY <1>1, <1>4, LeavesKeeps DEF Goes

(* What remains to be shown of a step of a reader.                         *)
LEMMA ReaderCalm ==
  ASSUME IInv, IInv', CInv, NEW c \in Conns, NEW k, NEW p, Goes(Reader(c), k, p),
         NEW w, w = WS(c), Together(k.cs, p, w), RLands(c, p, w)', Uses(c, k, p, w)',
         Owns(c, k, p, w), Moving(c, k, p, w), Locks(c, k, p, w),
         k.cs = "Closing" /\ p = "logout" /\ w # "none" => Before(Writer(c), Reader(c))',
         K(c).cs = "final" => k.cs = "final" /\ p # "rest_close",
         k.cs = "final" => K(c).cs = "final" \/ p = "rest_close",
         RS(c) # "rest_close", p # "r_exit",
         closed' = closed, k.next = K(c).next
  PROVE  CInv'
<1>1. /\ Reader(c) \in Workers /\ Reader(c)[2] = c
      /\ Of(Reader(c)) = slot[c] /\ conn[Of(Reader(c))] = K(c)
  BY TaskFacts DEF Of, K
<1>2. Good(c) /\ running = Reader(c) /\ InUse(c)
  BY <1>1 DEF Goes, CInv
<1>3. k.cs = "final" /\ "rest_close" \notin {p, w} => closed' # NULL
  BY <1>2 DEF Good
<1>4. Good(c)'
  BY <1>3, ReaderGood
<1>5. Tame(Reader(c))
  BY <1>1, GoesTamely
<1>6. k.cs = "final" => k.client = NULL
  BY DEF Owns
<1>7. k.cs = "final" => k.send = NULL /\ k.recv = NULL
  BY FinalFacts
<1>8. Linked'
  BY <1>1, <1>6, <1>7, GoesLeaves
<1>9. InUse(c)'
  BY <1>2 DEF InUse, RS, Goes
<1> QED BY <1>1, <1>2, <1>4, <1>5, <1>8, <1>9, TameKeeps

(* What remains to be shown of a step of a writer.                         *)
LEMMA WriterCalm ==
  ASSUME IInv, IInv', CInv, NEW c \in Conns, NEW k, NEW p, Goes(Writer(c), k, p),
         NEW r, r = RS(c), Together(k.cs, r, p), WLands(c, k.cs, p)', Uses(c, k, r, p)',
         Owns(c, k, r, p), Moving(c, k, r, p), Locks(c, k, r, p),
         p # "none", WS(c) # "none",
         k.cs = "Closing" /\ r = "logout" => running' = Writer(c),
         K(c).cs = "final" => k.cs = "final" /\ p # "rest_close",
         k.cs = "final" => K(c).cs = "final" \/ p = "rest_close",
         WS(c) # "rest_close", closed' = closed, k.next = K(c).next
  PROVE  CInv'
<1>1. /\ Writer(c) \in Workers /\ Writer(c)[2] = c /\ Reader(c) # Writer(c)
      /\ Of(Writer(c)) = slot[c] /\ conn[Of(Writer(c))] = K(c) /\ Reader(c) \in Tasks
  BY TaskFacts DEF Of, K
<1>2. Good(c) /\ running = Writer(c) /\ InUse(c)
  BY <1>1 DEF Goes, CInv
<1>3. k.cs = "final" /\ "rest_close" \notin {r, p} => closed' # NULL
  BY <1>2 DEF Good
<1>4. Good(c)'
  BY <1>3, WriterGood
<1>5. Tame(Writer(c))
  BY <1>1, GoesTamely
<1>6. k.cs = "final" => k.client = NULL
  BY DEF Owns
<1>7. k.cs = "final" => k.send = NULL /\ k.recv = NULL
  BY FinalFacts
<1>8. Linked'
  BY <1>1, <1>6, <1>7, GoesLeaves
<1>9. ASSUME ~InUse(c)' PROVE k.cs = "final"
  <2>1. RS(c)' = RS(c) /\ slot' = slot
    BY <1>1 DEF Goes, RS, Spot
  <2>2. RS(c) = "r_exit"
    BY <1>2, <1>9, <2>1 DEF InUse
  <2> QED BY <2>2 DEF Together, RIdle
<1>10. conn'[Of(Writer(c))] = k
  BY DEF Goes
<1> QED BY <1>1, <1>2, <1>4, <1>5, <1>8, <1>9, <1>10, TameKeeps

-----------------------------------------------------------------------------
(***************************************************************************)
(* The reader.                                                             *)
(***************************************************************************)

(* What a reader that runs can rely on.                                    *)
LEMMA ReaderHere ==
  ASSUME IInv, CInv, NEW c \in Conns, running = Reader(c),
         RS(c) \notin {"none", "r_new", "r_exit"}
  PROVE  /\ Good(c) /\ InUse(c) /\ WS(c) \in Rests
         /\ Reader(c) \in Workers /\ Reader(c) \in Tasks /\ Reader(c)[2] = c
         /\ Ground(Reader(c)) /\ slot[c] \in Slots /\ K(c) \in ConnType
         /\ Of(Reader(c)) = slot[c] /\ State(Reader(c)) = K(c)
<1>1. /\ Reader(c) \in Workers /\ Reader(c) \in Tasks /\ Reader(c)[2] = c
      /\ Writer(c) # Reader(c)
  BY TaskFacts
<1> USE <1>1
<1>2. Ground(Reader(c))
  BY Grounds DEF RS, Spot
<1>3. Of(Reader(c)) = slot[c] /\ State(Reader(c)) = K(c)
  BY DEF Of, State, K
<1>4. slot[c] \in Slots /\ K(c) \in ConnType /\ slot[c] # NULL
  BY <1>2, <1>3, NullFacts DEF Ground, K
<1>5. InUse(c)
  BY <1>4 DEF InUse
<1>6. Good(c)
  BY <1>5 DEF CInv
<1>7. WS(c) \in Rests
  BY <1>6 DEF Good, Turn, WS
<1> QED BY <1>2, <1>3, <1>4, <1>5, <1>6, <1>7

(* What is left to do after an action.                                     *)
LEMMA DoneFacts ==
  ASSUME IInv, NEW t \in Workers, acts[t] # <<>>, ActionDone(t)
  PROVE  /\ \A u \in Tasks : u # t => acts'[u] = acts[u]
         /\ acts'[t] = Tail(acts[t])
         /\ Head(acts[t]) \notin {"msgid_check", "service", "sent", "half_close", "logout"}
              => acts'[t] = <<>>
         /\ Head(acts[t]) = "msgid_check" => acts'[t] # <<>> /\ Head(acts'[t]) = "service"
         /\ Head(acts[t]) = "service" => acts'[t] # <<>> /\ Head(acts'[t]) = "clear_recv"
         /\ Head(acts[t]) = "sent" => acts'[t] # <<>> /\ Head(acts'[t]) = "clear_send"
<1>1. acts \in [Tasks -> Seq(Actions)] /\ Proper(acts[t]) /\ t \in Tasks
  BY TaskFacts DEF IInv, Types, Fits
<1> USE <1>1
<1>2. acts'[t] = Tail(acts[t]) /\ \A u \in Tasks : u # t => acts'[u] = acts[u]
  BY DEF ActionDone
<1> USE <1>2
<1>3. Head(acts[t]) \notin {"msgid_check", "service", "sent", "half_close", "logout"}
        => acts'[t] = <<>>
  <2>1. acts[t] \in Seq(Actions)
    OBVIOUS
  <2> QED BY <2>1, TailFacts
<1>4. Tail(acts[t]) \in Rest(Head(acts[t]))
  BY DEF Proper
<1>5. /\ Head(acts[t]) = "msgid_check" => acts'[t] = <<"service", "clear_recv">>
      /\ Head(acts[t]) = "service" => acts'[t] = <<"clear_recv">>
      /\ Head(acts[t]) = "sent" => acts'[t] = <<"clear_send">>
  BY <1>4 DEF Rest
<1> QED BY <1>3, <1>5, ListFacts

(* The records differ in the fields F at most.                             *)
Differs(k, old, F) ==
  /\ "cs" \in F \/ k.cs = old.cs
  /\ "client" \in F \/ k.client = old.client
  /\ "member" \in F \/ k.member = old.member
  /\ "peer" \in F \/ k.peer = old.peer
  /\ "send" \in F \/ k.send = old.send
  /\ "recv" \in F \/ k.recv = old.recv
  /\ "body" \in F \/ k.body = old.body
  /\ "owner" \in F \/ k.owner = old.owner
  /\ k.waiting = old.waiting /\ k.next = old.next

(* recv: the message that was read becomes the message in hand.            *)
LEMMA recvCalm ==
  ASSUME IInv, IInv', CInv, Calm, NEW c \in Conns, recv(Reader(c))
  PROVE  CInv'
<1> DEFINE t == Reader(c)
<1> USE DEF Doing, lists, objects, sched, inputs
<1>1. running = t /\ acts[t] # <<>> /\ RS(c) = "recv" /\ Head(acts[t]) = "recv"
  BY DEF recv, RS, Spot
<1> USE <1>1
<1>2. /\ Good(c) /\ InUse(c) /\ WS(c) \in Rests /\ t \in Workers /\ t \in Tasks /\ t[2] = c
      /\ Ground(t) /\ slot[c] \in Slots /\ K(c) \in ConnType
      /\ Of(t) = slot[c] /\ State(t) = K(c)
  BY ReaderHere
<1> USE <1>2
<1>3. K(c).cs = "Delivering" /\ K(c).body \in Kinds /\ pc[t] = "r_received"
  BY DEF Good, Together, RIdle, Moving, RLands
<1>4. K(c).body \notin {NULL, "bad", "freed"}
  BY <1>3, NullFacts, KindsAssumption DEF Calm
<1>5. /\ conn' = [conn EXCEPT ![slot[c]].recv = K(c).body] /\ ActionDone(t)
      /\ UNCHANGED <<lists, open, objects, pc, slot, local, sched, inputs, fault>>
  BY <1>4 DEF recv
<1> USE <1>5
<1>6. acts'[t] = <<>> /\ \A u \in Tasks : u # t => acts'[u] = acts[u]
  BY DoneFacts
<1>7. PICK k, w : k = [K(c) EXCEPT !.recv = K(c).body] /\ w = WS(c)
  OBVIOUS
<1> USE <1>7
<1>8. conn'[slot[c]] = k /\ \A s \in Slots : s # slot[c] => conn'[s] = conn[s]
  BY DEF Ground, K
<1>9. Differs(k, K(c), {"recv"}) /\ k.recv = K(c).body
  BY DEF Differs, ConnType
<1> USE <1>9
<1>10. Goes(t, k, "r_received")
  BY <1>3, <1>6, <1>8 DEF Goes, Ground, Spot
<1>11. Together(k.cs, "r_received", w) /\ Owns(c, k, "r_received", w)
  BY <1>3, SMTT(40) DEF Good, Together, Owns, Differs
<1>12. RLands(c, "r_received", w)' /\ Uses(c, k, "r_received", w)'
  BY <1>3, SMTT(40) DEF Good, RLands, Uses, Differs
<1>13. Moving(c, k, "r_received", w) /\ Locks(c, k, "r_received", w)
  BY <1>3, SMTT(40) DEF Good, Moving, Serving, Locks, RHolds, Differs
<1> QED BY <1>3, <1>10, <1>11, <1>12, <1>13, ReaderCalm DEF Differs

(* The reader goes on to have the message serviced.                        *)
LEMMA receivedCalm ==
  ASSUME IInv, IInv', CInv, Calm, NEW c \in Conns, received(Reader(c))
  PROVE  CInv'
<1> DEFINE t == Reader(c)
<1> USE DEF At, lists, objects, sched, inputs
<1>1. running = t /\ acts[t] = <<>> /\ pc[t] = "r_received" /\ RS(c) = "r_received"
  BY DEF received, RS, Spot
<1> USE <1>1
<1>2. /\ Good(c) /\ InUse(c) /\ WS(c) \in Rests /\ t \in Workers /\ t \in Tasks /\ t[2] = c
      /\ Ground(t) /\ slot[c] \in Slots /\ K(c) \in ConnType
      /\ Of(t) = slot[c] /\ State(t) = K(c)
  BY ReaderHere
<1> USE <1>2
<1>3. K(c).cs = "Delivering" /\ K(c).recv \in Kinds /\ K(c).recv # NULL
  BY NullFacts, KindsAssumption DEF Good, Together, RIdle, Moving, Serving
<1> USE <1>3
<1>4. pc' = [pc EXCEPT ![t] = "r_service"]
      /\ UNCHANGED <<conn, lists, open, objects, acts, slot, local, sched, inputs, fault>>
  BY DEF received, ExecReturnedZero, Goto, Done
<1> USE <1>4
<1>6. PICK k, w : k = K(c) /\ w = WS(c)
  OBVIOUS
<1> USE <1>6
<1>7. /\ conn'[slot[c]] = k /\ \A s \in Slots : s # slot[c] => conn'[s] = conn[s]
      /\ Differs(k, K(c), {})
  BY DEF Ground, K, Differs, ConnType
<1> USE <1>7
<1>8. Goes(t, k, "r_service")
  BY DEF Goes, Yields, Ground, Spot, Rests
<1>9. /\ Together(k.cs, "r_service", w) /\ Owns(c, k, "r_service", w)
      /\ Moving(c, k, "r_service", w) /\ Locks(c, k, "r_service", w)
  BY DEF Good, Together, Owns, Moving, Locks, Differs, Rests, RIdle, WIdle, Serving, Carries,
         RHolds, WHolds
<1>10. RLands(c, "r_service", w)' /\ Uses(c, k, "r_service", w)'
  BY DEF Good, RLands, Uses, Differs, Ground, Rests, Owns
<1> QED BY <1>8, <1>9, <1>10, ReaderCalm DEF Differs

(* msgid_check only looks at the message.                                  *)
LEMMA msgid_checkCalm ==
  ASSUME IInv, IInv', CInv, Calm, NEW c \in Conns, msgid_check(Reader(c))
  PROVE  CInv'
<1> DEFINE t == Reader(c)
<1> USE DEF Doing, lists, objects, sched, inputs
<1>1. running = t /\ acts[t] # <<>> /\ RS(c) = "msgid_check" /\ Head(acts[t]) = "msgid_check"
  BY DEF msgid_check, RS, Spot
<1> USE <1>1
<1>2. /\ Good(c) /\ InUse(c) /\ WS(c) \in Rests /\ t \in Workers /\ t \in Tasks /\ t[2] = c
      /\ Ground(t) /\ slot[c] \in Slots /\ K(c) \in ConnType
      /\ Of(t) = slot[c] /\ State(t) = K(c)
  BY ReaderHere
<1> USE <1>2
<1>3. K(c).cs = "Idle" /\ K(c).recv \in Kinds /\ pc[t] = "r_unlock" /\ K(c).recv # "badid"
  BY DEF Calm, Good, Together, Moving, Serving, RLands
<1> USE <1>3
<1>4. ActionDone(t)
      /\ UNCHANGED <<conn, lists, open, objects, pc, slot, local, sched, inputs, fault>>
  BY DEF msgid_check
<1> USE <1>4
<1>5. acts'[t] # <<>> /\ Head(acts'[t]) = "service" /\ \A u \in Tasks : u # t => acts'[u] = acts[u]
  BY DoneFacts
<1>6. PICK k, w : k = K(c) /\ w = WS(c)
  OBVIOUS
<1> USE <1>6
<1>7. /\ conn'[slot[c]] = k /\ \A s \in Slots : s # slot[c] => conn'[s] = conn[s]
      /\ Differs(k, K(c), {})
  BY DEF Ground, K, Differs, ConnType
<1> USE <1>7
<1>8. Goes(t, k, "service")
  BY <1>5 DEF Goes, Yields, Ground, Spot, Rests
<1>9. /\ Together(k.cs, "service", w) /\ Owns(c, k, "service", w)
      /\ Moving(c, k, "service", w) /\ Locks(c, k, "service", w)
  BY DEF Good, Together, Owns, Moving, Locks, Differs, Rests, RIdle, WIdle, Serving, Carries,
         RHolds, WHolds
<1>10. RLands(c, "service", w)' /\ Uses(c, k, "service", w)'
  BY <1>5 DEF Good, RLands, Uses, Differs, Ground, Rests, Owns
<1> QED BY <1>8, <1>9, <1>10, ReaderCalm DEF Differs

(* clear_recv drops the message.                                           *)
LEMMA clear_recvCalm ==
  ASSUME IInv, IInv', CInv, Calm, NEW c \in Conns, clear_recv(Reader(c))
  PROVE  CInv'
<1> DEFINE t == Reader(c)
<1> USE DEF Doing, lists, objects, sched, inputs
<1>1. running = t /\ acts[t] # <<>> /\ RS(c) = "clear_recv" /\ Head(acts[t]) = "clear_recv"
  BY DEF clear_recv, RS, Spot
<1> USE <1>1
<1>2. /\ Good(c) /\ InUse(c) /\ WS(c) \in Rests /\ t \in Workers /\ t \in Tasks /\ t[2] = c
      /\ Ground(t) /\ slot[c] \in Slots /\ K(c) \in ConnType
      /\ Of(t) = slot[c] /\ State(t) = K(c)
  BY ReaderHere
<1> USE <1>2
<1>3. K(c).cs = "Idle" /\ pc[t] = "r_unlock"
  BY DEF Good, Together, RIdle, RLands
<1>4. /\ ActionDone(t)
      /\ conn' = [conn EXCEPT ![slot[c]].recv = NULL, ![slot[c]].body = NULL]
      /\ UNCHANGED <<lists, open, objects, pc, slot, local, sched, inputs, fault>>
  BY DEF clear_recv
<1> USE <1>4
<1>5. acts'[t] = <<>> /\ \A u \in Tasks : u # t => acts'[u] = acts[u]
  BY DoneFacts
<1>6. PICK k, w : k = [K(c) EXCEPT !.recv = NULL, !.body = NULL] /\ w = WS(c)
  OBVIOUS
<1> USE <1>6
<1>7. /\ conn'[slot[c]] = k /\ \A s \in Slots : s # slot[c] => conn'[s] = conn[s]
      /\ Differs(k, K(c), {"recv", "body"}) /\ k.recv = NULL
  BY DEF Ground, K, Differs, ConnType
<1> USE <1>7
<1>8. Goes(t, k, "r_unlock")
  BY <1>3, <1>5 DEF Goes, Yields, Ground, Spot, Rests
<1>9. /\ Together(k.cs, "r_unlock", w) /\ Owns(c, k, "r_unlock", w)
      /\ Moving(c, k, "r_unlock", w) /\ Locks(c, k, "r_unlock", w)
  BY <1>3, SMTT(40)
     DEF Good, Together, Owns, Moving, Locks, Differs, Rests, RIdle, WIdle, Serving, Carries,
         RHolds, WHolds
<1>10. RLands(c, "r_unlock", w)' /\ Uses(c, k, "r_unlock", w)'
  BY <1>3, <1>5, SMTT(40) DEF Good, RLands, Uses, Differs, Ground, Rests, Owns
<1> QED BY <1>3, <1>8, <1>9, <1>10, ReaderCalm DEF Differs

(* key_prep gives the state its peer.                                      *)
LEMMA key_prepCalm ==
  ASSUME IInv, IInv', CInv, Calm, NEW c \in Conns, key_prep(Reader(c))
  PROVE  CInv'
<1> DEFINE t == Reader(c)
<1> USE DEF Doing, lists, objects, sched, inputs
<1>1. running = t /\ acts[t] # <<>> /\ RS(c) = "key_prep" /\ Head(acts[t]) = "key_prep"
  BY DEF key_prep, RS, Spot
<1> USE <1>1
<1>2. /\ Good(c) /\ InUse(c) /\ WS(c) \in Rests /\ t \in Workers /\ t \in Tasks /\ t[2] = c
      /\ Ground(t) /\ slot[c] \in Slots /\ K(c) \in ConnType
      /\ Of(t) = slot[c] /\ State(t) = K(c)
  BY ReaderHere
<1> USE <1>2
<1>3. K(c).cs = "KeyCheck" /\ pc[t] = "r_pass"
  BY DEF Good, Together, RIdle, RLands
<1>4. /\ ActionDone(t) /\ peer' = [peer EXCEPT ![c] = "live"]
      /\ conn' = [conn EXCEPT ![slot[c]].peer = c]
      /\ UNCHANGED <<lists, open, pc, slot, local, sched, inputs, fault>>
  BY DEF key_prep
<1> USE <1>4
<1>a. peer'[c] = "live" /\ \A d \in Conns : d # c => peer'[d] = peer[d]
  BY DEF IInv, Types
<1>5. acts'[t] = <<>> /\ \A u \in Tasks : u # t => acts'[u] = acts[u]
  BY DoneFacts
<1>6. PICK k, w : k = [K(c) EXCEPT !.peer = c] /\ w = WS(c)
  OBVIOUS
<1> USE <1>6
<1>7. /\ conn'[slot[c]] = k /\ \A s \in Slots : s # slot[c] => conn'[s] = conn[s]
      /\ Differs(k, K(c), {"peer"}) /\ k.peer = c
  BY DEF Ground, K, Differs, ConnType
<1> USE <1>7
<1>8. Goes(t, k, "r_pass")
  BY <1>3, <1>5, <1>a DEF Goes, Yields, Ground, Spot, Rests
<1>9. /\ Together(k.cs, "r_pass", w) /\ Owns(c, k, "r_pass", w)
      /\ Moving(c, k, "r_pass", w) /\ Locks(c, k, "r_pass", w)
  BY <1>3, SMTT(40)
     DEF Good, Together, Owns, Moving, Locks, Differs, Rests, RIdle, WIdle, Serving, Carries,
         RHolds, WHolds
<1>10. RLands(c, "r_pass", w)' /\ Uses(c, k, "r_pass", w)'
  BY <1>3, <1>5, <1>a, SMTT(40) DEF Good, RLands, Uses, Differs, Ground, Rests, Owns
<1> QED BY <1>3, <1>8, <1>9, <1>10, ReaderCalm DEF Differs

(* register gives the state its member.                                    *)
LEMMA registerCalm ==
  ASSUME IInv, IInv', CInv, Calm, NEW c \in Conns, register(Reader(c))
  PROVE  CInv'
<1> DEFINE t == Reader(c)
<1> USE DEF Doing, lists, objects, sched, inputs
<1>1. running = t /\ acts[t] # <<>> /\ RS(c) = "register" /\ Head(acts[t]) = "register"
  BY DEF register, RS, Spot
<1> USE <1>1
<1>2. /\ Good(c) /\ InUse(c) /\ WS(c) \in Rests /\ t \in Workers /\ t \in Tasks /\ t[2] = c
      /\ Ground(t) /\ slot[c] \in Slots /\ K(c) \in ConnType
      /\ Of(t) = slot[c] /\ State(t) = K(c)
  BY ReaderHere
<1> USE <1>2
<1>3. K(c).cs = "Registering" /\ pc[t] = "r_confirmed" /\ K(c).peer = c /\ c # NULL
  BY NullFacts DEF Good, Together, RLands, Owns, RIdle
<1> USE <1>3
<1>4. /\ ActionDone(t)
      /\ conn' = [conn EXCEPT ![slot[c]].member = c]
      /\ UNCHANGED <<lists, open, peer, pc, slot, local, sched, inputs, fault>>
  BY DEF register
<1> USE <1>4
<1>5. acts'[t] = <<>> /\ \A u \in Tasks : u # t => acts'[u] = acts[u]
  BY DoneFacts
<1>6. PICK k, w : k = [K(c) EXCEPT !.member = c] /\ w = WS(c)
  OBVIOUS
<1> USE <1>6
<1>7. /\ conn'[slot[c]] = k /\ \A s \in Slots : s # slot[c] => conn'[s] = conn[s]
      /\ Differs(k, K(c), {"member"}) /\ k.member = c
  BY DEF Ground, K, Differs, ConnType
<1> USE <1>7
<1>8. Goes(t, k, "r_confirmed")
  BY <1>5 DEF Goes, Yields, Ground, Spot, Rests
<1>9. /\ Together(k.cs, "r_confirmed", w) /\ Owns(c, k, "r_confirmed", w)
      /\ Moving(c, k, "r_confirmed", w) /\ Locks(c, k, "r_confirmed", w)
  BY SMTT(40)
     DEF Good, Together, Owns, Moving, Locks, Differs, Rests, RIdle, WIdle, Serving, Carries,
         RHolds, WHolds
<1>10. RLands(c, "r_confirmed", w)' /\ Uses(c, k, "r_confirmed", w)'
  BY <1>5, SMTT(40) DEF Good, RLands, Uses, Differs, Ground, Rests, Owns
<1> QED BY <1>8, <1>9, <1>10, ReaderCalm DEF Differs

(* tune starts the handshake and waits for the key of the client.          *)
LEMMA tuneCalm ==
  ASSUME IInv, IInv', CInv, Calm, NEW c \in Conns, tune(Reader(c))
  PROVE  CInv'
<1> DEFINE t == Reader(c)
<1> USE DEF Doing, lists, objects, sched, inputs
<1>1. running = t /\ acts[t] # <<>> /\ RS(c) = "tune" /\ Head(acts[t]) = "tune"
  BY DEF tune, RS, Spot
<1> USE <1>1
<1>2. /\ Good(c) /\ InUse(c) /\ WS(c) \in Rests /\ t \in Workers /\ t \in Tasks /\ t[2] = c
      /\ Ground(t) /\ slot[c] \in Slots /\ K(c) \in ConnType
      /\ Of(t) = slot[c] /\ State(t) = K(c)
  BY ReaderHere
<1> USE <1>2
<1>3. K(c).cs = "Tuning"
  BY DEF Good, Together, RIdle
<1> USE <1>3
<1>4. /\ ActionDone(t) /\ pc' = [pc EXCEPT ![t] = "r_tuning"]
      /\ running' \in {t, NULL}
      /\ UNCHANGED <<conn, lists, open, objects, slot, local, ready, polling, inputs, fault>>
  BY DEF tune, Await, Goto
<1> USE <1>4
<1>5. acts'[t] = <<>> /\ \A u \in Tasks : u # t => acts'[u] = acts[u]
  BY DoneFacts
<1>6. PICK k, w : k = K(c) /\ w = WS(c)
  OBVIOUS
<1> USE <1>6
<1>7. /\ conn'[slot[c]] = k /\ \A s \in Slots : s # slot[c] => conn'[s] = conn[s]
      /\ Differs(k, K(c), {})
  BY DEF Ground, K, Differs, ConnType
<1> USE <1>7
<1>8. Goes(t, k, "r_tuning")
  BY <1>5 DEF Goes, Yields, Ground, Spot, Rests
<1>9. /\ Together(k.cs, "r_tuning", w) /\ Owns(c, k, "r_tuning", w)
      /\ Moving(c, k, "r_tuning", w) /\ Locks(c, k, "r_tuning", w)
  BY DEF Good, Together, Owns, Moving, Locks, Differs, Rests, RIdle, WIdle, Serving, Carries,
         RHolds, WHolds
<1>10. RLands(c, "r_tuning", w)' /\ Uses(c, k, "r_tuning", w)'
  BY <1>5 DEF Good, RLands, Uses, Differs, Ground, Rests, Owns
<1> QED BY <1>8, <1>9, <1>10, ReaderCalm DEF Differs

(* service may register the member, or send to members and wake their      *)
(* writers.                                                                *)
LEMMA serviceCalm ==
  ASSUME IInv, IInv', CInv, Calm, NEW c \in Conns, service(Reader(c))
  PROVE  CInv'
<1> DEFINE t == Reader(c)
<1> USE DEF Doing, lists, objects, sched, inputs
<1>1. running = t /\ acts[t] # <<>> /\ RS(c) = "service" /\ Head(acts[t]) = "service"
  BY DEF service, RS, Spot
<1> USE <1>1
<1>2. /\ Good(c) /\ InUse(c) /\ WS(c) \in Rests /\ t \in Workers /\ t \in Tasks /\ t[2] = c
      /\ Ground(t) /\ slot[c] \in Slots /\ K(c) \in ConnType
      /\ Of(t) = slot[c] /\ State(t) = K(c)
  BY ReaderHere
<1> USE <1>2
<1>3. /\ K(c).cs = "Idle" /\ K(c).recv \in Kinds /\ pc[t] = "r_unlock" /\ K(c).member = c
      /\ c # NULL /\ K(c).recv # "refused"
  BY NullFacts DEF Calm, Good, Together, Owns, Moving, Serving, RLands
<1> USE <1>3
<1>4. /\ ActionDone(t)
      /\ ready' = ready \/ \E M : \E q \in Woken(M) : ready' = ready \o q
      /\ UNCHANGED <<conn, lists, open, members, mem, peer, pc, slot, local, running, polling,
                     inputs, fault>>
  BY DEF service, Send, Route_deliver
<1> USE <1>4
<1>5. /\ acts'[t] # <<>> /\ Head(acts'[t]) = "clear_recv"
      /\ \A u \in Tasks : u # t => acts'[u] = acts[u]
  BY DoneFacts
<1>6. PICK k, w : k = K(c) /\ w = WS(c)
  OBVIOUS
<1> USE <1>6
<1>7. /\ conn'[slot[c]] = k /\ \A s \in Slots : s # slot[c] => conn'[s] = conn[s]
      /\ Differs(k, K(c), {})
  BY DEF Ground, K, Differs, ConnType
<1> USE <1>7
<1>8. Goes(t, k, "clear_recv")
  BY <1>5 DEF Goes, Yields, Ground, Spot, Rests
<1>9. /\ Together(k.cs, "clear_recv", w) /\ Owns(c, k, "clear_recv", w)
      /\ Moving(c, k, "clear_recv", w) /\ Locks(c, k, "clear_recv", w)
  BY DEF Good, Together, Owns, Moving, Locks, Differs, Rests, RIdle, WIdle, Serving, Carries,
         RHolds, WHolds
<1>10. RLands(c, "clear_recv", w)' /\ Uses(c, k, "clear_recv", w)'
  BY <1>5 DEF Good, RLands, Uses, Differs, Ground, Rests, Owns
<1> QED BY <1>8, <1>9, <1>10, ReaderCalm DEF Differs

(* The reader finds the lock free, because the writer holds it only where  *)
(* it does not yield.                                                      *)
LEMMA reader_lockCalm ==
  ASSUME IInv, IInv', CInv, Calm, NEW c \in Conns,
         ConnectionState_lock(Reader(c), "r_lock", "r_locked")
  PROVE  CInv'
<1> DEFINE t == Reader(c)
<1> USE DEF At, lists, objects, sched, inputs
<1>1. running = t /\ acts[t] = <<>> /\ pc[t] = "r_lock" /\ RS(c) = "r_lock"
  BY DEF ConnectionState_lock, RS, Spot
<1> USE <1>1
<1>2. /\ Good(c) /\ InUse(c) /\ WS(c) \in Rests /\ t \in Workers /\ t \in Tasks /\ t[2] = c
      /\ Ground(t) /\ slot[c] \in Slots /\ K(c) \in ConnType
      /\ Of(t) = slot[c] /\ State(t) = K(c)
  BY ReaderHere
<1> USE <1>2
<1>3. K(c).cs = "Idle" /\ K(c).owner = NULL
  BY DEF Good, Together, Locks, RHolds, WHolds, Rests, RIdle
<1> USE <1>3
<1>4. /\ pc' = [pc EXCEPT ![t] = "r_locked"] /\ conn' = [conn EXCEPT ![slot[c]].owner = t]
      /\ UNCHANGED <<lists, open, objects, acts, slot, local, sched, inputs, fault>>
  BY DEF ConnectionState_lock, Goto
<1> USE <1>4
<1>6. PICK k, w : k = [K(c) EXCEPT !.owner = t] /\ w = WS(c)
  OBVIOUS
<1> USE <1>6
<1>7. /\ conn'[slot[c]] = k /\ \A s \in Slots : s # slot[c] => conn'[s] = conn[s]
      /\ Differs(k, K(c), {"owner"}) /\ k.owner = t
  BY DEF Ground, K, Differs, ConnType
<1> USE <1>7
<1>8. Goes(t, k, "r_locked")
  BY DEF Goes, Yields, Ground, Spot, Rests
<1>9. /\ Together(k.cs, "r_locked", w) /\ Owns(c, k, "r_locked", w)
      /\ Moving(c, k, "r_locked", w) /\ Locks(c, k, "r_locked", w)
  BY SMTT(40)
     DEF Good, Together, Owns, Moving, Locks, Differs, Rests, RIdle, WIdle, Serving, Carries,
         RHolds, WHolds
<1>10. RLands(c, "r_locked", w)' /\ Uses(c, k, "r_locked", w)'
  BY SMTT(40) DEF Good, RLands, Uses, Differs, Ground, Rests, Owns
<1> QED BY <1>8, <1>9, <1>10, ReaderCalm DEF Differs

(* It gives the lock back to nobody.                                       *)
LEMMA reader_unlockCalm ==
  ASSUME IInv, IInv', CInv, Calm, NEW c \in Conns,
         ConnectionState_unlock(Reader(c), "r_unlock", "r_loop")
  PROVE  CInv'
<1> DEFINE t == Reader(c)
<1> USE DEF At, lists, objects, sched, inputs
<1>1. running = t /\ acts[t] = <<>> /\ pc[t] = "r_unlock" /\ RS(c) = "r_unlock"
  BY DEF ConnectionState_unlock, RS, Spot
<1>2. /\ Good(c) /\ InUse(c) /\ WS(c) \in Rests /\ t \in Workers /\ t \in Tasks /\ t[2] = c
      /\ Ground(t) /\ slot[c] \in Slots /\ K(c) \in ConnType
      /\ Of(t) = slot[c] /\ State(t) = K(c)
  BY <1>1, ReaderHere
<1> USE <1>2
<1>3. /\ K(c).cs = "Idle" /\ K(c).owner = t /\ t # NULL /\ K(c).waiting = <<>>
      /\ ready \o <<>> = ready
  <2>1. ready \o <<>> = ready
    BY SMTT(40) DEF IInv, Types
  <2>2. K(c).cs = "Idle"
    <3>1. Together(K(c).cs, "r_unlock", WS(c))
      BY <1>1 DEF Good
    <3> QED BY <3>1 DEF Together, RIdle
  <2>3. K(c).owner = t /\ K(c).waiting = <<>>
    BY <1>1 DEF Good, Locks, RHolds
  <2> QED BY <2>1, <2>2, <2>3, NullFacts
<1> USE <1>3
<1>4. /\ pc' = [pc EXCEPT ![t] = "r_loop"] /\ conn' = [conn EXCEPT ![slot[c]].owner = NULL]
      /\ running' = NULL /\ ready' = Append(ready, t)
      /\ UNCHANGED <<lists, open, objects, acts, slot, local, polling, inputs, fault>>
  BY DEF ConnectionState_unlock, Goto, Yield
<1> USE <1>4
<1>6. PICK k, w : k = [K(c) EXCEPT !.owner = NULL] /\ w = WS(c)
  OBVIOUS
<1> USE <1>6
<1>7. /\ conn'[slot[c]] = k /\ \A s \in Slots : s # slot[c] => conn'[s] = conn[s]
      /\ Differs(k, K(c), {"owner"}) /\ k.owner = NULL
  BY DEF Ground, K, Differs, ConnType
<1> USE <1>7
<1>8. Goes(t, k, "r_loop")
  BY <1>1 DEF Goes, Yields, Ground, Spot, Rests
<1>9. /\ Together(k.cs, "r_loop", w) /\ Owns(c, k, "r_loop", w)
      /\ Moving(c, k, "r_loop", w) /\ Locks(c, k, "r_loop", w)
  BY <1>1, SMTT(40)
     DEF Good, Together, Owns, Moving, Locks, Differs, Rests, RIdle, WIdle, Serving, Carries,
         RHolds, WHolds
<1>10. RLands(c, "r_loop", w)' /\ Uses(c, k, "r_loop", w)'
  BY <1>1, SMTT(40) DEF Good, RLands, Uses, Differs, Ground, Rests, Owns
<1> QED BY <1>1, <1>8, <1>9, <1>10, ReaderCalm DEF Differs

(* The reader starts to wait for the next message.                         *)
LEMMA read_msgCalm ==
  ASSUME IInv, IInv', CInv, Calm, NEW c \in Conns, ConnectionState_read_msg(Reader(c))
  PROVE  CInv'
<1> DEFINE t == Reader(c)
<1> USE DEF At, lists, objects, sched, inputs
<1>1. running = t /\ acts[t] = <<>> /\ pc[t] = "r_loop" /\ RS(c) = "r_loop"
  BY DEF ConnectionState_read_msg, RS, Spot
<1> USE <1>1
<1>2. /\ Good(c) /\ InUse(c) /\ WS(c) \in Rests /\ t \in Workers /\ t \in Tasks /\ t[2] = c
      /\ Ground(t) /\ slot[c] \in Slots /\ K(c) \in ConnType
      /\ Of(t) = slot[c] /\ State(t) = K(c)
  BY ReaderHere
<1> USE <1>2
<1>3. /\ \/ K(c).cs = "Closing" /\ K(c).client = NULL
         \/ K(c).cs = "Idle" /\ K(c).client = c /\ K(c).member = c
      /\ c # NULL
  BY NullFacts DEF Good, Together, Owns, Rests, RIdle
<1> USE <1>3
<1>4. /\ UNCHANGED <<conn, lists, open, objects, acts, slot, ready, polling, inputs, fault>>
      /\ \/ K(c).cs = "Closing" /\ pc' = [pc EXCEPT ![t] = "r_close"]
            /\ UNCHANGED <<local, running>>
         \/ /\ K(c).cs = "Idle" /\ pc' = [pc EXCEPT ![t] = "r_read"]
            /\ local' = [local EXCEPT ![t] = c] /\ running' \in {t, NULL}
  BY DEF ConnectionState_read_msg, Goto, Await, Done
<1> USE <1>4
<1>a. local'[Writer(c)] = local[Writer(c)]
  BY TaskFacts DEF Ground
<1>6. PICK k, p, w :
        /\ k = K(c) /\ w = WS(c) /\ pc'[t] = p
        /\ \/ p = "r_close" /\ K(c).cs = "Closing" /\ running' = running
           \/ p = "r_read" /\ K(c).cs = "Idle" /\ local'[t] = c
  BY DEF Ground, IInv, Types
<1> USE <1>6
<1>7. /\ conn'[slot[c]] = k /\ \A s \in Slots : s # slot[c] => conn'[s] = conn[s]
      /\ Differs(k, K(c), {})
  BY DEF Ground, K, Differs, ConnType
<1> USE <1>7
<1>8. Goes(t, k, p)
  BY DEF Goes, Yields, Ground, Spot, Rests
<1>9. /\ Together(k.cs, p, w) /\ Owns(c, k, p, w)
      /\ Moving(c, k, p, w) /\ Locks(c, k, p, w)
  BY DEF Good, Together, Owns, Moving, Locks, Differs, Rests, RIdle, WIdle, Serving, Carries,
         RHolds, WHolds
<1>10. RLands(c, p, w)' /\ Uses(c, k, p, w)'
  BY <1>a DEF Good, RLands, Uses, Differs, Ground, Rests, Owns
<1> QED BY <1>8, <1>9, <1>10, ReaderCalm DEF Differs

(* A message arrives, or the client is gone: the peer is the live one of   *)
(* this connection.                                                        *)
LEMMA Peer_recvCalm ==
  ASSUME IInv, IInv', CInv, Calm, NEW c \in Conns, Peer_recv(Reader(c))
  PROVE  CInv'
<1> DEFINE t == Reader(c)
<1> USE DEF At, lists, objects, sched, inputs
<1>1. running = t /\ acts[t] = <<>> /\ pc[t] = "r_read" /\ RS(c) = "r_read"
  BY DEF Peer_recv, RS, Spot
<1> USE <1>1
<1>2. /\ Good(c) /\ InUse(c) /\ WS(c) \in Rests /\ t \in Workers /\ t \in Tasks /\ t[2] = c
      /\ Ground(t) /\ slot[c] \in Slots /\ K(c) \in ConnType
      /\ Of(t) = slot[c] /\ State(t) = K(c)
  BY ReaderHere
<1> USE <1>2
<1>3. /\ local[t] = c /\ peer[c] = "live"
      /\ K(c).cs = "Idle" \/ (K(c).cs = "Closing" /\ c \notin open)
  BY DEF Good, Together, Uses, Owns, Rests, RIdle
<1> USE <1>3
<1>4. /\ UNCHANGED <<lists, open, objects, acts, slot, sched, accepted, fault>>
      /\ local' = [local EXCEPT ![t] = NULL]
      /\ \/ \E kind \in Kinds : /\ conn' = [conn EXCEPT ![slot[c]].body = kind]
                                /\ pc' = [pc EXCEPT ![t] = "r_lock"] /\ K(c).cs = "Idle"
         \/ /\ conn' = [conn EXCEPT ![slot[c]].body = NULL]
            /\ pc' = [pc EXCEPT ![t] = "r_close"]
  BY DEF Peer_recv, Goto
<1> USE <1>4
<1>a. local'[Writer(c)] = local[Writer(c)]
  BY TaskFacts DEF Ground
<1>6. PICK k, p, w :
        /\ w = WS(c) /\ pc'[t] = p
        /\ \E b : k = [K(c) EXCEPT !.body = b] /\ conn' = [conn EXCEPT ![slot[c]].body = b]
        /\ \/ p = "r_lock" /\ k.body \in Kinds /\ K(c).cs = "Idle"
           \/ p = "r_close"
  BY DEF Ground, ConnType
<1> USE <1>6
<1>7. /\ conn'[slot[c]] = k /\ \A s \in Slots : s # slot[c] => conn'[s] = conn[s]
      /\ Differs(k, K(c), {"body"})
  BY DEF Ground, K, Differs, ConnType
<1> USE <1>7
<1>8. Goes(t, k, p)
  BY DEF Goes, Yields, Ground, Spot, Rests
<1>9. /\ Together(k.cs, p, w) /\ Owns(c, k, p, w)
      /\ Moving(c, k, p, w) /\ Locks(c, k, p, w)
  BY SMTT(40)
     DEF Good, Together, Owns, Moving, Locks, Differs, Rests, RIdle, WIdle, Serving, Carries,
         RHolds, WHolds
<1>10. RLands(c, p, w)' /\ Uses(c, k, p, w)'
  BY <1>a, SMTT(40) DEF Good, RLands, Uses, Differs, Ground, Rests, Owns
<1> QED BY <1>8, <1>9, <1>10, ReaderCalm DEF Differs

(* The key of the client arrives, or the handshake fails.                  *)
LEMMA tune_identityCalm ==
  ASSUME IInv, IInv', CInv, Calm, NEW c \in Conns, tune_identity(Reader(c))
  PROVE  CInv'
<1> DEFINE t == Reader(c)
<1> USE DEF At, lists, objects, sched, inputs
<1>1. running = t /\ acts[t] = <<>> /\ pc[t] = "r_tuning" /\ RS(c) = "r_tuning"
  BY DEF tune_identity, RS, Spot
<1> USE <1>1
<1>2. /\ Good(c) /\ InUse(c) /\ WS(c) \in Rests /\ t \in Workers /\ t \in Tasks /\ t[2] = c
      /\ Ground(t) /\ slot[c] \in Slots /\ K(c) \in ConnType
      /\ Of(t) = slot[c] /\ State(t) = K(c)
  BY ReaderHere
<1> USE <1>2
<1>3. K(c).cs = "Tuning" /\ peer[c] = "live"
  BY DEF Good, Together, Uses, RIdle
<1> USE <1>3
<1>4. /\ \/ pc' = [pc EXCEPT ![t] = "r_confirm"] /\ UNCHANGED <<conn, acts>>
         \/ pc' = [pc EXCEPT ![t] = "r_pass2"] /\ fgoto_Aborting(t)
      /\ UNCHANGED <<lists, open, objects, slot, local, sched, inputs, fault>>
  BY DEF tune_identity, Goto
<1> USE <1>4
<1>6. PICK k, p, w :
        /\ w = WS(c) /\ acts'[t] = <<>> /\ pc'[t] = p
        /\ \A u \in Tasks : u # t => acts'[u] = acts[u]
        /\ \/ k = K(c) /\ p = "r_confirm" /\ conn' = conn
           \/ /\ k = [K(c) EXCEPT !.cs = "Aborting"] /\ p = "r_pass2"
              /\ conn' = [conn EXCEPT ![slot[c]].cs = "Aborting"]
  BY DEF Ground, fgoto_Aborting
<1> USE <1>6
<1>7. /\ conn'[slot[c]] = k /\ \A s \in Slots : s # slot[c] => conn'[s] = conn[s]
      /\ Differs(k, K(c), {"cs"})
      /\ (k.cs = K(c).cs /\ p = "r_confirm") \/ (k.cs = "Aborting" /\ p = "r_pass2")
  BY DEF Ground, K, Differs, ConnType
<1> USE <1>7
<1>8. Goes(t, k, p)
  BY DEF Goes, Yields, Ground, Spot, Rests
<1>9. /\ Together(k.cs, p, w) /\ Owns(c, k, p, w)
      /\ Moving(c, k, p, w) /\ Locks(c, k, p, w)
  BY SMTT(40)
     DEF Good, Together, Owns, Moving, Locks, Differs, Rests, RIdle, WIdle, Serving, Carries,
         RHolds, WHolds
<1>10. RLands(c, p, w)' /\ Uses(c, k, p, w)'
  BY SMTT(40) DEF Good, RLands, Uses, Differs, Ground, Rests, Owns
<1> QED BY <1>8, <1>9, <1>10, ReaderCalm DEF Differs

(* The handshake ends or fails.                                            *)
LEMMA tune_finalCalm ==
  ASSUME IInv, IInv', CInv, Calm, NEW c \in Conns, tune_final(Reader(c))
  PROVE  CInv'
<1> DEFINE t == Reader(c)
<1> USE DEF At, lists, objects, sched, inputs
<1>1. running = t /\ acts[t] = <<>> /\ pc[t] = "r_final" /\ RS(c) = "r_final"
  BY DEF tune_final, RS, Spot
<1> USE <1>1
<1>2. /\ Good(c) /\ InUse(c) /\ WS(c) \in Rests /\ t \in Workers /\ t \in Tasks /\ t[2] = c
      /\ Ground(t) /\ slot[c] \in Slots /\ K(c) \in ConnType
      /\ Of(t) = slot[c] /\ State(t) = K(c)
  BY ReaderHere
<1> USE <1>2
<1>3. K(c).cs = "Registering" /\ peer[c] = "live"
  BY DEF Good, Together, Uses, RIdle
<1> USE <1>3
<1>4. /\ \/ pc' = [pc EXCEPT ![t] = "r_pass2"] /\ UNCHANGED <<conn, acts>>
         \/ pc' = [pc EXCEPT ![t] = "r_pass2"] /\ fgoto_Aborting(t)
      /\ UNCHANGED <<lists, open, objects, slot, local, sched, inputs, fault>>
  BY DEF tune_final, Goto
<1> USE <1>4
<1>6. PICK k, p, w :
        /\ w = WS(c) /\ acts'[t] = <<>> /\ pc'[t] = p
        /\ \A u \in Tasks : u # t => acts'[u] = acts[u]
        /\ \/ k = K(c) /\ p = "r_pass2" /\ conn' = conn
           \/ /\ k = [K(c) EXCEPT !.cs = "Aborting"] /\ p = "r_pass2"
              /\ conn' = [conn EXCEPT ![slot[c]].cs = "Aborting"]
  BY DEF Ground, fgoto_Aborting
<1> USE <1>6
<1>7. /\ conn'[slot[c]] = k /\ \A s \in Slots : s # slot[c] => conn'[s] = conn[s]
      /\ Differs(k, K(c), {"cs"})
      /\ (k.cs = K(c).cs /\ p = "r_pass2") \/ (k.cs = "Aborting" /\ p = "r_pass2")
  BY DEF Ground, K, Differs, ConnType
<1> USE <1>7
<1>8. Goes(t, k, p)
  BY DEF Goes, Yields, Ground, Spot, Rests
<1>9. /\ Together(k.cs, p, w) /\ Owns(c, k, p, w)
      /\ Moving(c, k, p, w) /\ Locks(c, k, p, w)
  BY SMTT(40)
     DEF Good, Together, Owns, Moving, Locks, Differs, Rests, RIdle, WIdle, Serving, Carries,
         RHolds, WHolds
<1>10. RLands(c, p, w)' /\ Uses(c, k, p, w)'
  BY SMTT(40) DEF Good, RLands, Uses, Differs, Ground, Rests, Owns
<1> QED BY <1>8, <1>9, <1>10, ReaderCalm DEF Differs

(* The key is confirmed: the reader waits for the last message of the      *)
(* handshake.                                                              *)
LEMMA tune_confirmedCalm ==
  ASSUME IInv, IInv', CInv, Calm, NEW c \in Conns, tune_confirmed(Reader(c))
  PROVE  CInv'
<1> DEFINE t == Reader(c)
<1> USE DEF At, lists, objects, sched, inputs
<1>1. running = t /\ acts[t] = <<>> /\ pc[t] = "r_confirmed" /\ RS(c) = "r_confirmed"
  BY DEF tune_confirmed, RS, Spot
<1> USE <1>1
<1>2. /\ Good(c) /\ InUse(c) /\ WS(c) \in Rests /\ t \in Workers /\ t \in Tasks /\ t[2] = c
      /\ Ground(t) /\ slot[c] \in Slots /\ K(c) \in ConnType
      /\ Of(t) = slot[c] /\ State(t) = K(c)
  BY ReaderHere
<1> USE <1>2
<1>3. K(c).cs = "Registering" /\ peer[c] = "live"
  BY DEF Good, Together, Uses, RIdle
<1> USE <1>3
<1>4. /\ pc' = [pc EXCEPT ![t] = "r_final"] /\ running' \in {t, NULL}
      /\ UNCHANGED <<conn, acts, lists, open, objects, slot, local, ready, polling, inputs, fault>>
  BY DEF tune_confirmed, Goto, Await, ExecReturnedZero, Done
<1> USE <1>4
<1>6. PICK k, w : k = K(c) /\ w = WS(c)
  OBVIOUS
<1> USE <1>6
<1>7. /\ conn'[slot[c]] = k /\ \A s \in Slots : s # slot[c] => conn'[s] = conn[s]
      /\ Differs(k, K(c), {})
  BY DEF Ground, K, Differs, ConnType
<1> USE <1>7
<1>8. Goes(t, k, "r_final")
  BY DEF Goes, Yields, Ground, Spot, Rests
<1>9. /\ Together(k.cs, "r_final", w) /\ Owns(c, k, "r_final", w)
      /\ Moving(c, k, "r_final", w) /\ Locks(c, k, "r_final", w)
  BY DEF Good, Together, Owns, Moving, Locks, Differs, Rests, RIdle, WIdle, Serving, Carries,
         RHolds, WHolds
<1>10. RLands(c, "r_final", w)' /\ Uses(c, k, "r_final", w)'
  BY DEF Good, RLands, Uses, Differs, Ground, Rests, Owns
<1> QED BY <1>8, <1>9, <1>10, ReaderCalm DEF Differs

(* What ConnectionState_exec does at the call <<l, e, n>>.                 *)
LEMMA execFacts ==
  ASSUME NEW t, Ground(t), ConnectionState_exec(t), NEW l, NEW e, NEW n, NEW to, NEW do,
         <<l, e, n>> \in ReaderCalls \cup WriterCalls, pc[t] = l,
         State(t).cs \notin Done, Leads(State(t).cs, e, to, do)
  PROVE  /\ pc'[t] = n /\ acts'[t] = do
         /\ conn' = [conn EXCEPT ![Of(t)].cs = to]
         /\ \A u \in Tasks : u # t => pc'[u] = pc[u] /\ acts'[u] = acts[u]
         /\ UNCHANGED <<lists, open, objects, slot, local, sched, inputs, fault>>
<1>1. PICK call \in ReaderCalls \cup WriterCalls :
        /\ call[1] = l /\ Goto(t, call[3])
        /\ conn' = [conn EXCEPT ![Of(t)].cs = Step(State(t).cs, call[2]).to]
        /\ acts' = [acts EXCEPT ![t] = Step(State(t).cs, call[2]).do]
        /\ UNCHANGED <<lists, open, objects, slot, local, sched, inputs, fault>>
  BY DEF ConnectionState_exec, At
<1> USE <1>1
<1>2. call[2] = e /\ call[3] = n
  BY SMTT(40) DEF ReaderCalls, WriterCalls
<1>3. /\ conn' = [conn EXCEPT ![Of(t)].cs = to] /\ acts' = [acts EXCEPT ![t] = do]
      /\ pc' = [pc EXCEPT ![t] = n]
  BY <1>2 DEF Leads, Goto
<1> QED BY <1>3 DEF Ground

(* The calls of the reader: the label, where the machine is and where it   *)
(* goes, the first action, and the label after the call.                   *)
ReaderCall(l, x, to, a, n) ==
  \/ l = "r_key" /\ x = "Accepting" /\ to = "KeyCheck" /\ a = "key_prep" /\ n = "r_pass"
  \/ l = "r_pass" /\ x = "KeyCheck" /\ to = "Tuning" /\ a = "tune" /\ n = "r_pass2"
  \/ l = "r_confirm" /\ x = "Tuning" /\ to = "Registering" /\ a = "register" /\ n = "r_confirmed"
  \/ l = "r_pass2" /\ x = "Registering" /\ to = "Idle" /\ a = "established" /\ n = "r_loop"
  \/ l = "r_pass2" /\ x = "Aborting" /\ to = "Closing" /\ a = "half_close" /\ n = "r_loop"
  \/ l = "r_locked" /\ x = "Idle" /\ to = "Delivering" /\ a = "recv" /\ n = "r_received"
  \/ l = "r_service" /\ x = "Delivering" /\ to = "Idle" /\ a = "msgid_check" /\ n = "r_unlock"
  \/ l = "r_close" /\ x = "Idle" /\ to = "Closing" /\ a = "half_close" /\ n = "r_hub_close"
  \/ l = "r_close" /\ x = "Closing" /\ to = "final" /\ a = "rest_close" /\ n = "r_hub_close"

(* The events that the reader raises, each by the arrow that the chart has *)
(* for it.                                                                 *)
LEMMA reader_execCalm ==
  ASSUME IInv, IInv', CInv, Calm, NEW c \in Conns, ConnectionState_exec(Reader(c))
  PROVE  CInv'
<1> DEFINE t == Reader(c)
           l == pc[t]
<1> USE DEF lists, objects, sched, inputs
<1>1. /\ running = t /\ acts[t] = <<>> /\ RS(c) = l
      /\ \E call \in ReaderCalls \cup WriterCalls : l = call[1]
  BY DEF ConnectionState_exec, At, RS, Spot
<1>2. l \in {"r_key", "r_pass", "r_confirm", "r_pass2", "r_locked", "r_service", "r_close"}
  <2>1. l \in ReaderLabels
    BY DEF IInv, Births
  <2>2. \A call \in ReaderCalls :
          call[1] \in {"r_key", "r_pass", "r_confirm", "r_pass2", "r_locked", "r_service",
                      "r_close"}
    BY SMTT(40) DEF ReaderCalls
  <2>3. \A call \in WriterCalls : call[1] \notin ReaderLabels
    BY SMTT(40) DEF WriterCalls, ReaderLabels
  <2> QED BY <1>1, <2>1, <2>2, <2>3
<1>3. /\ Good(c) /\ InUse(c) /\ WS(c) \in Rests /\ t \in Workers /\ t \in Tasks /\ t[2] = c
      /\ Ground(t) /\ slot[c] \in Slots /\ K(c) \in ConnType
      /\ Of(t) = slot[c] /\ State(t) = K(c)
  BY <1>1, <1>2, ReaderHere
<1>4. PICK x, to, p, n : x = K(c).cs /\ ReaderCall(l, x, to, p, n)
  BY <1>1, <1>2, <1>3 DEF Good, Together, ReaderCall, RIdle, Rests
<1>5. PICK e, do : /\ <<l, e, n>> \in ReaderCalls /\ Leads(x, e, to, do)
                   /\ do # <<>> /\ Head(do) = p /\ (p # "msgid_check" => Tail(do) = <<>>)
  <2>1. "READ_CLOSE" \in CloseEvents
    BY SMTT(40) DEF CloseEvents
  <2>9. /\ Leads("Idle", "READ_CLOSE", "Closing", <<"half_close">>)
        /\ Leads("Closing", "READ_CLOSE", "final", <<"rest_close">>)
    BY <2>1, CalmArrows
  <2> DEFINE Takes(e, do) ==
               /\ <<l, e, n>> \in ReaderCalls /\ Leads(x, e, to, do)
               /\ do # <<>> /\ Head(do) = p /\ (p # "msgid_check" => Tail(do) = <<>>)
  <2> SUFFICES \E e, do : Takes(e, do)
    OBVIOUS
  <2> USE CalmArrows, ListFacts DEF ReaderCalls
  <2>2. CASE l = "r_key"
    <3>1. Takes("KEY_PRESENT", <<"key_prep">>)
      BY <1>4, <2>2 DEF ReaderCall
    <3> QED BY <3>1
  <2>3. CASE l = "r_pass"
    <3>1. Takes("PASS", <<"tune">>)
      BY <1>4, <2>3 DEF ReaderCall
    <3> QED BY <3>1
  <2>4. CASE l = "r_confirm"
    <3>1. Takes("PASS", <<"register">>)
      BY <1>4, <2>4 DEF ReaderCall
    <3> QED BY <3>1
  <2>5. CASE l = "r_pass2"
    <3>1. Takes("PASS", <<"established">>) \/ Takes("PASS", <<"half_close">>)
      BY <1>4, <2>5 DEF ReaderCall
    <3> QED BY <3>1
  <2>6. CASE l = "r_locked"
    <3>1. Takes("MSG_RECV", <<"recv">>)
      BY <1>4, <2>6 DEF ReaderCall
    <3> QED BY <3>1
  <2>7. CASE l = "r_service"
    <3>1. x = "Delivering" /\ to = "Idle" /\ p = "msgid_check" /\ n = "r_unlock"
      BY <1>4, <2>7, SMTT(40) DEF ReaderCall
    <3>3. /\ <<"msgid_check", "service", "clear_recv">> # <<>>
          /\ Head(<<"msgid_check", "service", "clear_recv">>) = "msgid_check"
      OBVIOUS
    <3>4. <<l, "SVC_RECV", n>> \in ReaderCalls
      BY <2>7, <3>1
    <3>5. Leads(x, "SVC_RECV", to, <<"msgid_check", "service", "clear_recv">>)
      BY <3>1
    <3>2. Takes("SVC_RECV", <<"msgid_check", "service", "clear_recv">>)
      BY <3>1, <3>3, <3>4, <3>5
    <3> QED BY <3>2
  <2>8. CASE l = "r_close"
    <3>2. \/ x = "Idle" /\ to = "Closing" /\ p = "half_close" /\ n = "r_hub_close"
          \/ x = "Closing" /\ to = "final" /\ p = "rest_close" /\ n = "r_hub_close"
      BY <1>4, <2>8, SMTT(40) DEF ReaderCall
    <3>3. ASSUME x = "Idle", to = "Closing", p = "half_close", n = "r_hub_close"
          PROVE  Takes("READ_CLOSE", <<"half_close">>)
      BY <2>8, <2>9, <3>3
    <3>4. ASSUME x = "Closing", to = "final", p = "rest_close", n = "r_hub_close"
          PROVE  Takes("READ_CLOSE", <<"rest_close">>)
      BY <2>8, <2>9, <3>4
    <3> QED BY <3>2, <3>3, <3>4
  <2> QED BY <1>2, <2>2, <2>3, <2>4, <2>5, <2>6, <2>7, <2>8
<1>6. x \notin Done
  BY <1>4, SMTT(40) DEF ReaderCall, Done
<1>7. /\ pc'[t] = n /\ acts'[t] = do
      /\ conn' = [conn EXCEPT ![slot[c]].cs = to]
      /\ \A u \in Tasks : u # t => pc'[u] = pc[u] /\ acts'[u] = acts[u]
      /\ UNCHANGED <<lists, open, objects, slot, local, sched, inputs, fault>>
  <2>1. State(t).cs = x /\ <<l, e, n>> \in ReaderCalls \cup WriterCalls
    BY <1>3, <1>4, <1>5
  <2>2. Leads(State(t).cs, e, to, do) /\ State(t).cs \notin Done /\ Ground(t) /\ Of(t) = slot[c]
    BY <1>3, <1>5, <1>6, <2>1
  <2>3. /\ pc'[t] = n /\ acts'[t] = do
        /\ conn' = [conn EXCEPT ![Of(t)].cs = to]
        /\ \A u \in Tasks : u # t => pc'[u] = pc[u] /\ acts'[u] = acts[u]
        /\ UNCHANGED <<lists, open, objects, slot, local, sched, inputs, fault>>
    BY <2>1, <2>2, execFacts
  <2> QED BY <2>2, <2>3
<1>8. PICK k, w : k = [K(c) EXCEPT !.cs = to] /\ w = WS(c)
  OBVIOUS
<1> USE <1>8
<1>9. /\ conn'[slot[c]] = k /\ \A s \in Slots : s # slot[c] => conn'[s] = conn[s]
      /\ Differs(k, K(c), {"cs"}) /\ k.cs = to
  BY <1>3, <1>7 DEF Ground, K, Differs, ConnType
<1> USE <1>9
<1>10. Goes(t, k, p)
  <2>1. p # "logout" /\ p # "w_dequeue"
    BY <1>4, SMTT(40) DEF ReaderCall
  <2> QED BY <1>1, <1>3, <1>5, <1>7, <2>1 DEF Goes, Yields, Spot
<1>11. Together(k.cs, p, w)
  BY <1>1, <1>3, <1>4, SMTT(40) DEF ReaderCall, Good, Together, Rests, RIdle, WIdle
<1>12. Owns(c, k, p, w)
  BY <1>1, <1>3, <1>4, SMTT(40) DEF ReaderCall, Good, Together, Rests, RIdle, Owns, Differs
<1>13. Moving(c, k, p, w) /\ Locks(c, k, p, w)
  BY <1>1, <1>3, <1>4, SMTT(40) DEF ReaderCall, Good, Moving, Locks, Differs, Serving, RHolds
<1>14. RLands(c, p, w)'
  BY <1>1, <1>3, <1>4, <1>5, <1>7, SMTT(40)
     DEF ReaderCall, Good, Together, RLands, Rests, RIdle, WIdle
<1>15. Uses(c, k, p, w)'
  BY <1>1, <1>3, <1>4, <1>5, <1>7, SMTT(40) DEF ReaderCall, Good, Uses, Differs
<1>16. p # "logout" /\ p # "r_exit" /\ x # "final" /\ (to = "final" => p = "rest_close")
       /\ RS(c) # "rest_close"
  BY <1>1, <1>2, <1>4, SMTT(40) DEF ReaderCall
<1> QED BY <1>4, <1>7, <1>10, <1>11, <1>12, <1>13, <1>14, <1>15, <1>16, ReaderCalm DEF Differs
=============================================================================
