---------------------------- MODULE Relay_proofs ----------------------------
(***************************************************************************)
(* Proof that the mendicant's event loop loses, repeats and reorders       *)
(* nothing, for every number of frames and every size of the sockets.      *)
(*                                                                         *)
(* The cells that an end sends are counted from 0; frame f occupies the    *)
(* cells from Start(f) on.  What is under way in one direction is a run of *)
(* consecutive cells: those in the socket that leaves the loop, then what  *)
(* is left of the frame in the loop's hand, then those in the socket that  *)
(* enters the loop.                                                        *)
(***************************************************************************)
EXTENDS Relay, TLAPS

Frames == Nat \ {0}
Start(f) == f - 1 + (f \div 2)

(* The sequence c holds the cells from number a up to, not including, b.   *)
Carries(c, a, b) ==
  /\ Len(c) = b - a
  /\ \A i \in 1 .. Len(c) :
       c[i] \in Frames /\ Start(c[i]) <= a + i - 1 /\ a + i - 1 < Start(c[i]) + Size(c[i])

(* The way of the frames that end e sends: sockets, handlers and actors.   *)
In(e)     == IF e = "hub" THEN "hub_in" ELSE "client_in"
Out(e)    == IF e = "hub" THEN "client_out" ELSE "hub_out"
Recv(e)   == IF e = "hub" THEN "hub_recv" ELSE "listener_recv"
Sending(e) == IF e = "hub" THEN "listener_send" ELSE "hub_send"
Source(e) == IF e = "hub" THEN "hub_writer" ELSE "client_writer"
Sink(e)   == IF e = "hub" THEN "client_reader" ELSE "hub_reader"

Steps == {"select", "down", "hub_recv", "listener_send", "listener_recv", "hub_send"}

Types ==
  /\ sock \in [Sockets -> Seq(Nat)]
  /\ step \in Steps
  /\ held \in [Ends -> Nat]
  /\ count \in [Actors -> Nat]
  /\ sent \in [Ends -> Nat]
  /\ got \in [Ends -> Seq(Nat)]

(* The sets of Proxy_event_loop say whether a frame is in hand, and a      *)
(* handler runs only for the case it is meant for: FD_SWAP and the order   *)
(* of the handlers keep the masks of a round true until they are used.     *)
Loop ==
  /\ step = "down" => closed = Sockets
  /\ step = "select" => count["loop"] = 0
  /\ \A e \in Ends :
       /\ In(e) \in readset <=> held[e] = 0
       /\ Out(e) \in writeset <=> held[e] # 0
       /\ step = Recv(e) => held[e] = 0
       /\ step = Sending(e) => held[e] # 0
  /\ step = "hub_recv" => "client_out" \notin writemask
  /\ step \in {"hub_recv", "listener_send", "listener_recv"} =>
       /\ "client_in" \in readmask => held["client"] = 0
       /\ "hub_out" \in writemask => held["client"] # 0

(* The cells of the frame at hand that the loop has read or written.       *)
Taken(e) == IF step = Recv(e) THEN count["loop"] ELSE 0
Given(e) == IF step = Sending(e) THEN count["loop"] ELSE 0

(* The first cell that has not been received, and that has not been sent.  *)
Arrived(e)  == Start(Len(got[Other(e)]) + 1) + count[Sink(e)]
Departed(e) == Start(sent[e] + 1) + count[Source(e)]

(* The first cell that the loop has not given, f being the next frame that *)
(* it will have read.                                                      *)
Passed(e, f) == IF held[e] = 0 THEN Start(f) ELSE Start(held[e]) + Given(e)

Flow(e) ==
  LET w == Arrived(e) + Len(sock[Out(e)]) IN
  /\ got[Other(e)] = [i \in 1 .. Len(got[Other(e)]) |-> i]
  /\ count[Sink(e)] < Size(Len(got[Other(e)]) + 1)
  /\ count[Source(e)] < Size(sent[e] + 1)
  /\ Carries(sock[Out(e)], Arrived(e), w)
  /\ step # "down" =>
       \E f \in Frames :
         /\ Carries(sock[In(e)], Start(f) + Taken(e), Departed(e))
         /\ Taken(e) < Size(f)
         /\ held[e] # 0 => held[e] + 1 = f /\ Given(e) < Size(held[e])
         /\ w = Passed(e, f)

IInv == Types /\ Loop /\ \A e \in Ends : Flow(e)

-----------------------------------------------------------------------------
(* Frames have one or two cells and follow each other.                     *)
LEMMA FrameFacts ==
  ASSUME NEW f \in Frames
  PROVE  /\ f + 1 \in Frames /\ Start(f) \in Nat /\ Size(f) \in {1, 2}
         /\ Start(f + 1) = Start(f) + Size(f)
  BY DEF Frames, Start, Size

(* A frame ends before a later one starts.                                 *)
LEMMA Monotone ==
  ASSUME NEW f \in Frames, NEW g \in Frames, f < g
  PROVE  Start(f) + Size(f) <= Start(g)
  BY DEF Frames, Start, Size

(* A cell belongs to one frame.                                            *)
LEMMA OneFrame ==
  ASSUME NEW f \in Frames, NEW g \in Frames, NEW p \in Nat,
         Start(f) <= p, p < Start(f) + Size(f), Start(g) <= p, p < Start(g) + Size(g)
  PROVE  f = g
<1>1. Start(f) \in Nat /\ Start(g) \in Nat /\ Size(f) \in Nat /\ Size(g) \in Nat
  BY FrameFacts
<1>2. ~(f < g)
  BY <1>1, Monotone
<1>3. ~(g < f)
  BY <1>1, Monotone
<1> QED BY <1>2, <1>3 DEF Frames

(* Taking the first cell out of a socket.                                  *)
LEMMA CarriesTail ==
  ASSUME NEW c \in Seq(Nat), c # <<>>, NEW a \in Nat, NEW b \in Nat, Carries(c, a, b)
  PROVE  /\ Carries(Tail(c), a + 1, b)
         /\ Head(c) \in Frames /\ Start(Head(c)) <= a /\ a < Start(Head(c)) + Size(Head(c))
<1>1. /\ Len(c) = b - a /\ Len(c) \in Nat /\ Len(c) >= 1
      /\ Tail(c) \in Seq(Nat) /\ Len(Tail(c)) = Len(c) - 1
      /\ \A i \in 1 .. Len(Tail(c)) : Tail(c)[i] = c[i + 1] /\ i + 1 \in 1 .. Len(c)
      /\ Head(c) = c[1]
  BY DEF Carries
<1>2. \A i \in 1 .. Len(c) :
        /\ c[i] \in Frames /\ Start(c[i]) \in Int /\ Size(c[i]) \in Int
        /\ Start(c[i]) <= a + i - 1 /\ a + i - 1 < Start(c[i]) + Size(c[i])
  BY FrameFacts DEF Carries
<1>3. Head(c) \in Frames /\ Start(Head(c)) <= a /\ a < Start(Head(c)) + Size(Head(c))
  <2>1. 1 \in 1 .. Len(c) /\ a + 1 - 1 = a
    BY <1>1
  <2> QED BY <1>1, <1>2, <2>1, Zenon
<1>4. ASSUME NEW i \in 1 .. Len(Tail(c))
      PROVE  /\ Tail(c)[i] \in Frames /\ Start(Tail(c)[i]) <= (a + 1) + i - 1
             /\ (a + 1) + i - 1 < Start(Tail(c)[i]) + Size(Tail(c)[i])
  <2>1. a + (i + 1) - 1 = (a + 1) + i - 1
    BY <1>1, <1>4
  <2> QED BY <1>1, <1>2, <1>4, <2>1, Zenon
<1> QED BY <1>1, <1>3, <1>4 DEF Carries

(* Putting the next cell into it.                                          *)
LEMMA CarriesAppend ==
  ASSUME NEW c \in Seq(Nat), NEW a \in Nat, NEW b \in Nat, Carries(c, a, b),
         NEW f \in Frames, Start(f) <= b, b < Start(f) + Size(f)
  PROVE  Carries(Append(c, f), a, b + 1)
<1> DEFINE d == Append(c, f)
<1>1. /\ Len(c) = b - a /\ Len(c) \in Nat /\ Len(d) = Len(c) + 1
      /\ \A i \in 1 .. Len(d) :
           (i \in 1 .. Len(c) /\ d[i] = c[i]) \/ (a + i - 1 = b /\ d[i] = f)
  BY DEF Carries
<1> HIDE DEF d
<1>2. \A i \in 1 .. Len(d) :
        d[i] \in Frames /\ Start(d[i]) <= a + i - 1 /\ a + i - 1 < Start(d[i]) + Size(d[i])
  BY <1>1, Zenon DEF Carries
<1>3. Len(d) = (b + 1) - a
  BY <1>1
<1> QED BY <1>2, <1>3, Zenon DEF Carries, d

(* The two directions share no socket, actor or handler.                   *)
LEMMA EndFacts ==
  \A e \in Ends :
    /\ In(e) \in Sockets /\ Out(e) \in Sockets /\ Other(e) \in Ends
    /\ Source(e) \in Actors /\ Sink(e) \in Actors /\ "loop" \in Actors
    /\ Source(e) # "loop" /\ Sink(e) # "loop"
    /\ {Recv(e), Sending(e)} \subseteq Steps \ {"select", "down"}
    /\ \A d \in Ends :
         /\ In(d) # Out(e) /\ Source(d) # Sink(e) /\ Recv(d) # Sending(e)
         /\ d # e => /\ In(d) # In(e) /\ Out(d) # Out(e) /\ Other(d) # Other(e)
                     /\ Source(d) # Source(e) /\ Sink(d) # Sink(e)
                     /\ Recv(d) # Recv(e) /\ Sending(d) # Sending(e)
  BY DEF Ends, In, Out, Other, Source, Sink, Recv, Sending, Sockets, Actors, Steps

(* The handler that Proxy_event_loop comes to next wants to run.           *)
LEMMA FollowingFacts ==
  ASSUME NEW i \in 1 .. 5, NEW r, NEW w
  PROVE  LET n == Following(i, r, w) IN
           /\ n \in {"select", "hub_recv", "listener_send", "listener_recv", "hub_send"}
           /\ n = "hub_recv" => i = 1 /\ "hub_in" \in r
           /\ n = "listener_send" => i <= 2 /\ "client_out" \in w
           /\ n = "listener_recv" => i <= 3 /\ "client_in" \in r
           /\ n = "hub_send" => i <= 4 /\ "hub_out" \in w
<1> DEFINE due == {j \in i .. 4 : Wants(Handlers[j], r, w)}
           j == CHOOSE j \in due : \A k \in due : j <= k
<1>1. /\ Handlers[1] = "hub_recv" /\ Handlers[2] = "listener_send"
      /\ Handlers[3] = "listener_recv" /\ Handlers[4] = "hub_send"
  BY Zenon DEF Handlers
<1>2. due \subseteq {1, 2, 3, 4} /\ \A k \in due : k >= i /\ Wants(Handlers[k], r, w)
  OBVIOUS
<1> HIDE DEF due
<1>3. CASE due = {}
  BY <1>3, Zenon DEF Following, due
<1>4. CASE due # {}
  <2>1. \E k \in due : \A l \in due : k <= l
    <3>1. PICK m \in due : m - 1 \notin due /\ m - 2 \notin due /\ m - 3 \notin due
      <4>1. due \cap {0, -1, -2} = {}
        BY <1>2
      <4>2. CASE 1 \in due
        BY <4>1, <4>2
      <4>3. CASE 1 \notin due /\ 2 \in due
        BY <4>1, <4>3
      <4>4. CASE 1 \notin due /\ 2 \notin due /\ 3 \in due
        BY <4>1, <4>4
      <4>5. CASE 1 \notin due /\ 2 \notin due /\ 3 \notin due /\ 4 \in due
        BY <4>1, <4>5
      <4>6. 1 \in due \/ 2 \in due \/ 3 \in due \/ 4 \in due
        BY <1>2, <1>4, Zenon
      <4> QED BY <4>2, <4>3, <4>4, <4>5, <4>6, Zenon
    <3>2. \A l \in due : m <= l
      BY <1>2, <3>1
    <3> QED BY <3>2, Zenon
  <2>2. j \in due
    BY <2>1, Zenon
  <2>3. Following(i, r, w) = Handlers[j]
    BY <1>4, Zenon DEF Following, due
  <2> HIDE DEF j
  <2>4. j \in {1, 2, 3, 4} /\ j >= i /\ Wants(Handlers[j], r, w)
    BY <1>2, <2>2, Zenon
  <2> QED BY <1>1, <2>3, <2>4 DEF Wants
<1> QED BY <1>3, <1>4, Zenon

(* The values that the flow of one direction is made of.                   *)
LEMMA Numbers ==
  ASSUME Types, NEW e \in Ends
  PROVE  /\ sock[In(e)] \in Seq(Nat) /\ sock[Out(e)] \in Seq(Nat)
         /\ Len(sock[Out(e)]) \in Nat
         /\ held[e] \in Nat /\ sent[e] \in Nat
         /\ got[Other(e)] \in Seq(Nat) /\ Len(got[Other(e)]) \in Nat
         /\ sent[e] + 1 \in Frames /\ Len(got[Other(e)]) + 1 \in Frames
         /\ count[Source(e)] \in Nat /\ count[Sink(e)] \in Nat /\ count["loop"] \in Nat
         /\ Taken(e) \in Nat /\ Given(e) \in Nat
         /\ Arrived(e) \in Nat /\ Departed(e) \in Nat
<1>1. /\ In(e) \in Sockets /\ Out(e) \in Sockets /\ Other(e) \in Ends
      /\ Source(e) \in Actors /\ Sink(e) \in Actors /\ "loop" \in Actors
  BY EndFacts, Zenon
<1>2. /\ sock[In(e)] \in Seq(Nat) /\ sock[Out(e)] \in Seq(Nat)
      /\ held[e] \in Nat /\ sent[e] \in Nat /\ got[Other(e)] \in Seq(Nat)
      /\ count[Source(e)] \in Nat /\ count[Sink(e)] \in Nat /\ count["loop"] \in Nat
  BY <1>1, Zenon DEF Types
<1>3. /\ Len(sock[Out(e)]) \in Nat /\ Len(got[Other(e)]) \in Nat
      /\ sent[e] + 1 \in Frames /\ Len(got[Other(e)]) + 1 \in Frames
  BY <1>2, SMTT(30) DEF Frames
<1>4. Taken(e) \in Nat /\ Given(e) \in Nat
  BY <1>2, Zenon DEF Taken, Given
<1>5. Arrived(e) \in Nat /\ Departed(e) \in Nat
  <2>1. Start(sent[e] + 1) \in Nat /\ Start(Len(got[Other(e)]) + 1) \in Nat
    BY <1>3, FrameFacts, Zenon
  <2>2. \A a, b \in Nat : a + b \in Nat
    OBVIOUS
  <2> QED BY <1>2, <2>1, <2>2, Zenon DEF Arrived, Departed
<1> QED BY <1>2, <1>3, <1>4, <1>5, Zenon

(* A step on the other side leaves the flow of a direction alone.          *)
LEMMA FlowKept ==
  ASSUME NEW e \in Ends, Flow(e),
         sock'[In(e)] = sock[In(e)], sock'[Out(e)] = sock[Out(e)], held'[e] = held[e],
         count'[Source(e)] = count[Source(e)], count'[Sink(e)] = count[Sink(e)],
         sent'[e] = sent[e], got'[Other(e)] = got[Other(e)],
         \/ step' = "down"
         \/ step # "down" /\ Taken(e)' = Taken(e) /\ Given(e)' = Given(e)
  PROVE  Flow(e)'
<1>1. Arrived(e)' = Arrived(e) /\ Departed(e)' = Departed(e)
  BY Zenon DEF Arrived, Departed
<1>2. step' # "down" => \A f \in Frames : Passed(e, f)' = Passed(e, f)
  BY Zenon DEF Passed
<1> QED BY <1>1, <1>2, Zenon DEF Flow

(* An end puts a cell of its next frame into its socket.                   *)
LEMMA SourceGives ==
  ASSUME IInv, NEW e \in Ends, step # "down",
         Give(Source(e), In(e), sent[e] + 1, Last(Source(e), sent[e] + 1)),
         sent' = IF Last(Source(e), sent[e] + 1)
                 THEN [sent EXCEPT ![e] = sent[e] + 1] ELSE sent,
         UNCHANGED <<step, held, got>>
  PROVE  Types' /\ \A d \in Ends : Flow(d)'
<1> DEFINE g == sent[e] + 1
           k == count[Source(e)]
           c == sock[In(e)]
           last == k + 1 = Size(g)
<1>1. /\ Types /\ Flow(e) /\ c \in Seq(Nat) /\ g \in Frames /\ g \in Nat /\ k \in Nat
      /\ g + 1 \in Frames /\ Start(g) \in Nat /\ Size(g) \in {1, 2}
      /\ Start(g + 1) = Start(g) + Size(g) /\ Size(g + 1) \in {1, 2} /\ k < Size(g)
  BY Numbers, FrameFacts, Zenon DEF IInv, Flow, Frames
<1>2. /\ sock' = [sock EXCEPT ![In(e)] = Append(c, g)]
      /\ count' = [count EXCEPT ![Source(e)] = IF last THEN 0 ELSE k + 1]
      /\ sent' = IF last THEN [sent EXCEPT ![e] = g] ELSE sent
  BY Zenon DEF Give, Last
<1> HIDE DEF g, k, c, last
<1>3. /\ In(e) \in Sockets /\ Out(e) \in Sockets /\ Source(e) \in Actors
      /\ In(e) # Out(e) /\ Source(e) # Sink(e) /\ Source(e) # "loop"
      /\ \A d \in Ends : d # e =>
           /\ In(d) # In(e) /\ Out(d) # In(e) /\ Source(d) # Source(e)
           /\ Sink(d) # Source(e)
  BY EndFacts, Zenon
<1>4. Types'
  <2>1. Append(c, g) \in Seq(Nat) /\ (IF last THEN 0 ELSE k + 1) \in Nat
    BY <1>1
  <2> QED BY <1>1, <1>2, <1>3, <2>1, Zenon DEF Types
<1>5. /\ sock'[In(e)] = Append(c, g)
      /\ count'[Source(e)] = IF last THEN 0 ELSE k + 1
      /\ sent'[e] = IF last THEN g ELSE sent[e]
      /\ \A s \in Sockets : s # In(e) => sock'[s] = sock[s]
      /\ \A a \in Actors : a # Source(e) => count'[a] = count[a]
      /\ \A d \in Ends : d # e => sent'[d] = sent[d]
  BY <1>1, <1>2, <1>3, Zenon DEF Types
<1>6. \A d \in Ends : Taken(d)' = Taken(d) /\ Given(d)' = Given(d)
  BY <1>3, <1>5, EndFacts, Zenon DEF Taken, Given
<1>7. ASSUME NEW d \in Ends, d # e PROVE Flow(d)'
  BY <1>3, <1>5, <1>6, <1>7, EndFacts, FlowKept, Zenon DEF IInv
<1>8. Flow(e)'
  <2>1. /\ Departed(e) = Start(g) + k /\ Departed(e) \in Nat
        /\ Departed(e)' = Departed(e) + 1 /\ count'[Source(e)] < Size(sent'[e] + 1)
    <3>1. Departed(e) = Start(g) + k /\ Departed(e) \in Nat
      BY <1>1, Numbers, Zenon DEF Departed, g, k
    <3>2. CASE last
      <4>1. Departed(e)' = Start(g + 1) + 0 /\ sent'[e] = g /\ count'[Source(e)] = 0
        BY <1>5, <3>2, Zenon DEF Departed
      <4>2. Start(g + 1) + 0 = Start(g) + k + 1 /\ 0 < Size(g + 1)
        BY <1>1, <3>2 DEF last
      <4> QED BY <3>1, <4>1, <4>2, Zenon
    <3>3. CASE ~last
      <4>1. Departed(e)' = Start(g) + (k + 1) /\ sent'[e] + 1 = g /\ count'[Source(e)] = k + 1
        BY <1>5, <3>3, Zenon DEF Departed, g
      <4>2. Start(g) + (k + 1) = Start(g) + k + 1 /\ k + 1 < Size(g)
        BY <1>1, <3>3 DEF last
      <4> QED BY <3>1, <4>1, <4>2, Zenon
    <3> QED BY <3>1, <3>2, <3>3, Zenon
  <2>2. PICK f \in Frames :
          /\ Carries(c, Start(f) + Taken(e), Departed(e))
          /\ Taken(e) < Size(f)
          /\ held[e] # 0 => held[e] + 1 = f /\ Given(e) < Size(held[e])
          /\ Arrived(e) + Len(sock[Out(e)]) = Passed(e, f)
    BY <1>1, Zenon DEF Flow, c
  <2>3. Start(f) + Taken(e) \in Nat
    <3>1. Start(f) \in Nat /\ Taken(e) \in Nat
      BY <1>1, FrameFacts, Numbers, Zenon
    <3> QED BY <3>1
  <2>4. Start(g) <= Departed(e) /\ Departed(e) < Start(g) + Size(g)
    BY <1>1, <2>1, SMTT(30)
  <2>5. Carries(Append(c, g), Start(f) + Taken(e), Departed(e) + 1)
    BY <1>1, <2>1, <2>2, <2>3, <2>4, CarriesAppend, Zenon
  <2>6. Arrived(e)' = Arrived(e) /\ Passed(e, f)' = Passed(e, f)
    BY <1>3, <1>5, <1>6, EndFacts, Zenon DEF Arrived, Passed
  <2> QED BY <1>1, <1>3, <1>5, <1>6, <2>1, <2>2, <2>5, <2>6, EndFacts, Zenon DEF Flow
<1> QED BY <1>4, <1>7, <1>8, Zenon

(* An end takes the next cell out of its socket.                           *)
LEMMA SinkTakes ==
  ASSUME IInv, NEW e \in Ends, sock[Out(e)] # <<>>,
         LET f == Head(sock[Out(e)]) IN
           /\ Take(Sink(e), Out(e), Last(Sink(e), f))
           /\ got' = IF Last(Sink(e), f)
                     THEN [got EXCEPT ![Other(e)] = Append(@, f)] ELSE got,
         UNCHANGED <<step, held, sent>>
  PROVE  Types' /\ \A d \in Ends : Flow(d)'
<1> DEFINE q == got[Other(e)]
           g == Len(q) + 1
           k == count[Sink(e)]
           c == sock[Out(e)]
           last == k + 1 = Size(g)
<1>1. /\ Types /\ Flow(e) /\ c \in Seq(Nat) /\ c # <<>> /\ q \in Seq(Nat)
      /\ g \in Frames /\ g \in Nat /\ k \in Nat /\ Len(c) \in Nat /\ Arrived(e) \in Nat
      /\ g + 1 \in Frames /\ Start(g) \in Nat /\ Size(g) \in {1, 2}
      /\ Start(g + 1) = Start(g) + Size(g) /\ Size(g + 1) \in {1, 2} /\ k < Size(g)
      /\ q = [i \in 1 .. Len(q) |-> i] /\ Arrived(e) = Start(g) + k
      /\ Carries(c, Arrived(e), Arrived(e) + Len(c))
  <2>1. /\ Types /\ Flow(e) /\ c \in Seq(Nat) /\ q \in Seq(Nat) /\ g \in Frames
        /\ k \in Nat /\ Len(c) \in Nat /\ Arrived(e) \in Nat
    BY Numbers, Zenon DEF IInv
  <2>2. /\ g + 1 \in Frames /\ Start(g) \in Nat /\ Size(g) \in {1, 2}
        /\ Start(g + 1) = Start(g) + Size(g) /\ Size(g + 1) \in {1, 2}
    BY <2>1, FrameFacts, Zenon
  <2>3. /\ k < Size(g) /\ q = [i \in 1 .. Len(q) |-> i] /\ Arrived(e) = Start(g) + k
        /\ Carries(c, Arrived(e), Arrived(e) + Len(c))
    BY <2>1, Zenon DEF Flow, Arrived
  <2> QED BY <2>1, <2>2, <2>3, Zenon DEF Frames
<1>2. /\ Head(c) = g /\ Carries(Tail(c), Arrived(e) + 1, Arrived(e) + Len(c))
      /\ Len(Tail(c)) = Len(c) - 1 /\ Tail(c) \in Seq(Nat)
  <2>1. Arrived(e) + Len(c) \in Nat
    BY <1>1, SMTT(30)
  <2>2. /\ Carries(Tail(c), Arrived(e) + 1, Arrived(e) + Len(c))
        /\ Head(c) \in Frames /\ Start(Head(c)) <= Arrived(e)
        /\ Arrived(e) < Start(Head(c)) + Size(Head(c))
    BY <1>1, <2>1, CarriesTail, Zenon
  <2>3. Start(g) <= Arrived(e) /\ Arrived(e) < Start(g) + Size(g)
    BY <1>1, SMTT(30)
  <2>4. Head(c) = g
    BY <1>1, <2>2, <2>3, OneFrame, Zenon
  <2>5. Len(Tail(c)) = Len(c) - 1 /\ Tail(c) \in Seq(Nat)
    BY <1>1
  <2> QED BY <2>2, <2>4, <2>5, Zenon
<1>3. /\ sock' = [sock EXCEPT ![Out(e)] = Tail(c)]
      /\ count' = [count EXCEPT ![Sink(e)] = IF last THEN 0 ELSE k + 1]
      /\ got' = IF last THEN [got EXCEPT ![Other(e)] = Append(q, g)] ELSE got
  BY <1>2, Zenon DEF Take, Last
<1> HIDE DEF g, k, c, q, last
<1>4. /\ In(e) \in Sockets /\ Out(e) \in Sockets /\ Sink(e) \in Actors /\ Other(e) \in Ends
      /\ In(e) # Out(e) /\ Source(e) # Sink(e) /\ Sink(e) # "loop" /\ Source(e) \in Actors
      /\ \A d \in Ends : d # e =>
           /\ In(d) # Out(e) /\ Out(d) # Out(e) /\ Source(d) # Sink(e)
           /\ Sink(d) # Sink(e) /\ Other(d) # Other(e)
  BY EndFacts, Zenon
<1>5. Append(q, g) \in Seq(Nat) /\ (IF last THEN 0 ELSE k + 1) \in Nat
  BY <1>1
<1>6. Types'
  BY <1>1, <1>2, <1>3, <1>4, <1>5, Zenon DEF Types
<1>7. /\ sock'[Out(e)] = Tail(c)
      /\ count'[Sink(e)] = IF last THEN 0 ELSE k + 1
      /\ got'[Other(e)] = IF last THEN Append(q, g) ELSE q
      /\ \A s \in Sockets : s # Out(e) => sock'[s] = sock[s]
      /\ \A a \in Actors : a # Sink(e) => count'[a] = count[a]
      /\ \A d \in Ends : d # Other(e) => got'[d] = got[d]
  BY <1>1, <1>3, <1>4, Zenon DEF Types, q
<1>8. \A d \in Ends : Taken(d)' = Taken(d) /\ Given(d)' = Given(d)
  BY <1>4, <1>7, EndFacts, Zenon DEF Taken, Given
<1>9. ASSUME NEW d \in Ends, d # e PROVE Flow(d)'
  <2>1. step' = "down" \/ (step # "down" /\ Taken(d)' = Taken(d) /\ Given(d)' = Given(d))
    BY <1>8, Zenon
  <2> QED BY <1>4, <1>7, <1>9, <2>1, EndFacts, FlowKept, Zenon DEF IInv
<1>10. Flow(e)'
  <2>1. /\ Arrived(e)' = Arrived(e) + 1
        /\ got'[Other(e)] = [i \in 1 .. Len(got'[Other(e)]) |-> i]
        /\ count'[Sink(e)] < Size(Len(got'[Other(e)]) + 1)
    <3>1. CASE last
      <4>1. got'[Other(e)] = Append(q, g) /\ count'[Sink(e)] = 0
        BY <1>7, <3>1, Zenon
      <4>2. Len(Append(q, g)) = g /\ Append(q, g) = [i \in 1 .. g |-> i]
        BY <1>1, SMTT(30) DEF g
      <4>3. Arrived(e)' = Start(g + 1) + 0
        BY <4>1, <4>2, Zenon DEF Arrived
      <4>4. Start(g + 1) + 0 = Start(g) + k + 1 /\ 0 < Size(g + 1)
        <5>1. /\ Start(g) \in Nat /\ Start(g + 1) = Start(g) + Size(g) /\ k + 1 = Size(g)
              /\ Size(g + 1) \in {1, 2} /\ k \in Nat
          BY <1>1, <3>1, Zenon DEF last
        <5> QED BY <5>1
      <4> QED BY <1>1, <4>1, <4>2, <4>3, <4>4, Zenon
    <3>2. CASE ~last
      <4>1. got'[Other(e)] = q /\ count'[Sink(e)] = k + 1
        BY <1>7, <3>2, Zenon
      <4>2. k + 1 < Size(g)
        BY <1>1, <3>2, SMTT(30) DEF last
      <4>3. Arrived(e)' = Start(g) + (k + 1)
        BY <4>1, Zenon DEF Arrived, g
      <4>4. Start(g) + (k + 1) = Start(g) + k + 1
        BY <1>1
      <4> QED BY <1>1, <4>1, <4>2, <4>3, <4>4, Zenon DEF g
    <3> QED BY <3>1, <3>2, Zenon
  <2>2. Arrived(e)' + Len(sock'[Out(e)]) = Arrived(e) + Len(c)
    BY <1>1, <1>2, <1>7, <2>1
  <2>3. Departed(e)' = Departed(e) /\ sock'[In(e)] = sock[In(e)]
          /\ count'[Source(e)] = count[Source(e)]
    BY <1>4, <1>7, Zenon DEF Departed
  <2>4. \A f : Passed(e, f)' = Passed(e, f)
    BY <1>8, Zenon DEF Passed
  <2>5. Carries(sock'[Out(e)], Arrived(e)', Arrived(e)' + Len(sock'[Out(e)]))
    BY <1>2, <1>7, <2>1, <2>2, Zenon
  <2>6. ASSUME step' # "down"
        PROVE  \E f \in Frames :
                 /\ Carries(sock'[In(e)], Start(f) + Taken(e)', Departed(e)')
                 /\ Taken(e)' < Size(f)
                 /\ held'[e] # 0 => held'[e] + 1 = f /\ Given(e)' < Size(held'[e])
                 /\ Arrived(e)' + Len(sock'[Out(e)]) = Passed(e, f)'
    <3>1. PICK f \in Frames :
            /\ Carries(sock[In(e)], Start(f) + Taken(e), Departed(e))
            /\ Taken(e) < Size(f)
            /\ held[e] # 0 => held[e] + 1 = f /\ Given(e) < Size(held[e])
            /\ Arrived(e) + Len(c) = Passed(e, f)
      BY <1>1, <2>6, Zenon DEF Flow, c
    <3> QED BY <1>8, <2>2, <2>3, <2>4, <3>1, Zenon
  <2>7. sent' = sent /\ count[Source(e)] < Size(sent[e] + 1)
    BY <1>1, Zenon DEF Flow
  <2> QED BY <2>1, <2>3, <2>5, <2>6, <2>7, Zenon DEF Flow
<1> QED BY <1>6, <1>9, <1>10, Zenon

(* The loop takes a cell of the frame that it reads.  The frame is in its  *)
(* hand after the last one.                                                *)
LEMMA LoopTakes ==
  ASSUME IInv, NEW e \in Ends, step = Recv(e), sock[In(e)] # <<>>,
         LET f == Head(sock[In(e)]) IN
           /\ Take("loop", In(e), Last("loop", f))
           /\ IF Last("loop", f)
              THEN held' = [held EXCEPT ![e] = f] /\ step' \in Steps \ {"down"}
              ELSE UNCHANGED <<held, step>>,
         UNCHANGED <<sent, got>>
  PROVE  /\ Types' /\ \A d \in Ends : Flow(d)'
         /\ Head(sock[In(e)]) \in Frames
         /\ Last("loop", Head(sock[In(e)])) => count'["loop"] = 0
<1> DEFINE k == count["loop"]
           c == sock[In(e)]
<1>1. /\ Types /\ Flow(e) /\ c \in Seq(Nat) /\ c # <<>> /\ k \in Nat /\ held[e] = 0
      /\ step # "down" /\ Taken(e) = k /\ Departed(e) \in Nat
      /\ \A d \in Ends : Given(d) = 0 /\ (d # e => Taken(d) = 0)
  BY Numbers, EndFacts, Zenon DEF IInv, Loop, Taken, Given
<1>2. PICK f \in Frames :
        /\ Carries(c, Start(f) + k, Departed(e)) /\ k < Size(f)
        /\ Arrived(e) + Len(sock[Out(e)]) = Start(f)
  BY <1>1, Zenon DEF Flow, Passed
<1>3. /\ f \in Nat /\ f # 0 /\ f + 1 \in Frames /\ Start(f) \in Nat /\ Size(f) \in {1, 2}
      /\ Start(f + 1) = Start(f) + Size(f) /\ Size(f + 1) \in {1, 2}
  BY FrameFacts, Zenon DEF Frames
<1> DEFINE last == k + 1 = Size(f)
<1>4. /\ Head(c) = f /\ Carries(Tail(c), (Start(f) + k) + 1, Departed(e))
      /\ Tail(c) \in Seq(Nat)
  <2>1. /\ Start(f) + k \in Nat /\ Start(f) <= Start(f) + k
        /\ Start(f) + k < Start(f) + Size(f)
    BY <1>1, <1>2, <1>3, SMTT(30)
  <2>2. /\ Carries(Tail(c), (Start(f) + k) + 1, Departed(e))
        /\ Head(c) \in Frames /\ Start(Head(c)) <= Start(f) + k
        /\ Start(f) + k < Start(Head(c)) + Size(Head(c))
    BY <1>1, <1>2, <2>1, CarriesTail, Zenon
  <2>3. Head(c) = f
    BY <2>1, <2>2, OneFrame, Zenon
  <2>4. Tail(c) \in Seq(Nat)
    BY <1>1
  <2> QED BY <2>2, <2>3, <2>4, Zenon
<1>5. /\ sock' = [sock EXCEPT ![In(e)] = Tail(c)]
      /\ count' = [count EXCEPT !["loop"] = IF last THEN 0 ELSE k + 1]
      /\ IF last THEN held' = [held EXCEPT ![e] = f] /\ step' \in Steps \ {"down"}
         ELSE UNCHANGED <<held, step>>
  BY <1>4, Zenon DEF Take, Last
<1>6. Head(sock[In(e)]) \in Frames /\ (Last("loop", Head(sock[In(e)])) <=> last)
  BY <1>4, Zenon DEF Last
<1> HIDE DEF k, c, last
<1>7. /\ In(e) \in Sockets /\ "loop" \in Actors /\ Source(e) \in Actors /\ Sink(e) \in Actors
      /\ Out(e) \in Sockets /\ In(e) # Out(e)
      /\ \A d \in Ends : /\ Source(d) # "loop" /\ Sink(d) # "loop" /\ In(e) # Out(d)
                         /\ d # e => In(d) # In(e)
  BY EndFacts, Zenon
<1>8. (IF last THEN 0 ELSE k + 1) \in Nat
  BY <1>1
<1>9. Types'
  BY <1>1, <1>3, <1>4, <1>5, <1>7, <1>8, Zenon DEF Types
<1>10. /\ sock'[In(e)] = Tail(c)
       /\ count'["loop"] = IF last THEN 0 ELSE k + 1
       /\ held'[e] = IF last THEN f ELSE 0
       /\ \A s \in Sockets : s # In(e) => sock'[s] = sock[s]
       /\ \A a \in Actors : a # "loop" => count'[a] = count[a]
       /\ \A d \in Ends : d # e => held'[d] = held[d]
       /\ step' # "down"
  BY <1>1, <1>5, <1>7, Zenon DEF Types
<1>11. /\ Taken(e)' = IF last THEN 0 ELSE k + 1
       /\ \A d \in Ends : Given(d)' = 0 /\ (d # e => Taken(d)' = 0)
  BY <1>1, <1>5, <1>10, EndFacts, Zenon DEF Taken, Given
<1>12. ASSUME NEW d \in Ends, d # e PROVE Flow(d)'
  BY <1>1, <1>7, <1>10, <1>11, <1>12, EndFacts, FlowKept, ZenonT(30) DEF IInv
<1>13. Flow(e)'
  <2>1. /\ Arrived(e)' = Arrived(e) /\ Departed(e)' = Departed(e) /\ got' = got /\ sent' = sent
        /\ sock'[Out(e)] = sock[Out(e)] /\ count'[Source(e)] = count[Source(e)]
        /\ count'[Sink(e)] = count[Sink(e)]
    BY <1>7, <1>10, Zenon DEF Arrived, Departed
  <2>2. CASE last
    <3>1. Start(f + 1) + 0 = (Start(f) + k) + 1 /\ 0 < Size(f + 1) /\ 0 < Size(f)
            /\ Start(f) + 0 = Start(f)
      BY <1>1, <1>3, <2>2, SMTT(30) DEF last
    <3>2. Passed(e, f + 1)' = Start(f) + 0
      BY <1>3, <1>10, <1>11, <2>2, Zenon DEF Passed
    <3>3. held'[e] = f /\ Taken(e)' = 0 /\ Given(e)' = 0
      BY <1>10, <1>11, <2>2, Zenon
    <3>4. /\ Carries(sock'[In(e)], Start(f + 1) + Taken(e)', Departed(e)')
          /\ Taken(e)' < Size(f + 1) /\ held'[e] + 1 = f + 1 /\ Given(e)' < Size(held'[e])
          /\ Arrived(e)' + Len(sock'[Out(e)]) = Passed(e, f + 1)'
      BY <1>2, <1>4, <1>10, <2>1, <3>1, <3>2, <3>3, Zenon
    <3> QED BY <1>1, <1>3, <2>1, <3>4, Zenon DEF Flow
  <2>3. CASE ~last
    <3>1. Start(f) + (k + 1) = (Start(f) + k) + 1 /\ k + 1 < Size(f)
      BY <1>1, <1>2, <1>3, <2>3, SMTT(30) DEF last
    <3>2. Passed(e, f)' = Start(f)
      BY <1>10, <2>3, Zenon DEF Passed
    <3>3. held'[e] = 0 /\ Taken(e)' = k + 1
      BY <1>10, <1>11, <2>3, Zenon
    <3>4. /\ Carries(sock'[In(e)], Start(f) + Taken(e)', Departed(e)')
          /\ Taken(e)' < Size(f)
          /\ Arrived(e)' + Len(sock'[Out(e)]) = Passed(e, f)'
      BY <1>2, <1>4, <1>10, <2>1, <3>1, <3>2, <3>3, Zenon
    <3> QED BY <1>1, <2>1, <3>3, <3>4, Zenon DEF Flow
  <2> QED BY <2>2, <2>3, Zenon
<1> QED BY <1>6, <1>9, <1>10, <1>12, <1>13, Zenon

(* The loop gives a cell of the frame in its hand, which is empty after    *)
(* the last one.                                                           *)
LEMMA LoopGives ==
  ASSUME IInv, NEW e \in Ends, step = Sending(e),
         Give("loop", Out(e), held[e], Last("loop", held[e])),
         IF Last("loop", held[e])
         THEN held' = [held EXCEPT ![e] = 0] /\ step' \in Steps \ {"down"}
         ELSE UNCHANGED <<held, step>>,
         UNCHANGED <<sent, got>>
  PROVE  /\ Types' /\ \A d \in Ends : Flow(d)'
         /\ Last("loop", held[e]) => count'["loop"] = 0
<1> DEFINE k == count["loop"]
           c == sock[Out(e)]
           h == held[e]
           w == Arrived(e) + Len(c)
           last == k + 1 = Size(h)
<1>1. /\ Types /\ Flow(e) /\ c \in Seq(Nat) /\ k \in Nat /\ h \in Nat /\ h # 0
      /\ step # "down" /\ Given(e) = k /\ Arrived(e) \in Nat /\ Len(c) \in Nat
      /\ \A d \in Ends : Taken(d) = 0 /\ (d # e => Given(d) = 0)
  BY Numbers, EndFacts, Zenon DEF IInv, Loop, Taken, Given
<1>2. PICK f \in Frames :
        /\ Carries(sock[In(e)], Start(f) + 0, Departed(e))
        /\ h + 1 = f /\ k < Size(h) /\ w = Start(h) + k /\ 0 < Size(f)
  BY <1>1, Zenon DEF Flow, Passed
<1>3. h \in Frames
  BY <1>1, Zenon DEF Frames
<1>4. /\ Start(h) \in Nat /\ Size(h) \in {1, 2} /\ Start(f) = Start(h) + Size(h)
  BY <1>2, <1>3, FrameFacts, Zenon
<1>5. /\ sock' = [sock EXCEPT ![Out(e)] = Append(c, h)]
      /\ count' = [count EXCEPT !["loop"] = IF last THEN 0 ELSE k + 1]
      /\ IF last THEN held' = [held EXCEPT ![e] = 0] /\ step' \in Steps \ {"down"}
         ELSE UNCHANGED <<held, step>>
  BY Zenon DEF Give, Last
<1>6. Carries(c, Arrived(e), w)
  BY <1>1, Zenon DEF Flow
<1>7. Last("loop", held[e]) <=> last
  BY Zenon DEF Last
<1> HIDE DEF k, c, h, w, last
<1>8. w \in Nat /\ Start(h) <= w /\ w < Start(h) + Size(h)
  BY <1>1, <1>2, <1>4 DEF w
<1>9. Carries(Append(c, h), Arrived(e), w + 1)
  BY <1>1, <1>3, <1>6, <1>8, CarriesAppend, Zenon
<1>10. /\ Append(c, h) \in Seq(Nat) /\ Len(Append(c, h)) = Len(c) + 1
       /\ (IF last THEN 0 ELSE k + 1) \in Nat /\ 0 \in Nat
  BY <1>1
<1>11. /\ Out(e) \in Sockets /\ "loop" \in Actors /\ Source(e) \in Actors /\ Sink(e) \in Actors
       /\ In(e) \in Sockets /\ In(e) # Out(e)
       /\ \A d \in Ends : /\ Source(d) # "loop" /\ Sink(d) # "loop" /\ In(d) # Out(e)
                          /\ d # e => Out(d) # Out(e)
  BY EndFacts, Zenon
<1>12. Types'
  BY <1>1, <1>5, <1>10, <1>11, Zenon DEF Types
<1>13. /\ sock'[Out(e)] = Append(c, h)
       /\ count'["loop"] = IF last THEN 0 ELSE k + 1
       /\ held'[e] = IF last THEN 0 ELSE h
       /\ \A s \in Sockets : s # Out(e) => sock'[s] = sock[s]
       /\ \A a \in Actors : a # "loop" => count'[a] = count[a]
       /\ \A d \in Ends : d # e => held'[d] = held[d]
       /\ step' # "down"
  BY <1>1, <1>5, <1>11, Zenon DEF Types, h
<1>14. /\ Given(e)' = IF last THEN 0 ELSE k + 1
       /\ \A d \in Ends : Taken(d)' = 0 /\ (d # e => Given(d)' = 0)
  BY <1>1, <1>5, <1>13, EndFacts, Zenon DEF Taken, Given
<1>15. ASSUME NEW d \in Ends, d # e PROVE Flow(d)'
  BY <1>1, <1>11, <1>13, <1>14, <1>15, EndFacts, FlowKept, Zenon DEF IInv
<1>16. Flow(e)'
  <2>1. /\ Arrived(e)' = Arrived(e) /\ Departed(e)' = Departed(e) /\ got' = got /\ sent' = sent
        /\ sock'[In(e)] = sock[In(e)] /\ count'[Source(e)] = count[Source(e)]
        /\ count'[Sink(e)] = count[Sink(e)] /\ Taken(e)' = 0
    BY <1>11, <1>13, <1>14, Zenon DEF Arrived, Departed
  <2>2. Arrived(e)' + Len(sock'[Out(e)]) = w + 1
    <3>1. Arrived(e) + (Len(c) + 1) = w + 1
      BY <1>1 DEF w
    <3> QED BY <1>10, <1>13, <2>1, <3>1, Zenon
  <2>3. Carries(sock'[Out(e)], Arrived(e)', Arrived(e)' + Len(sock'[Out(e)]))
    BY <1>9, <1>13, <2>1, <2>2, Zenon
  <2>4. /\ held'[e] # 0 => held'[e] + 1 = f /\ Given(e)' < Size(held'[e])
        /\ Passed(e, f)' = w + 1
    <3>1. CASE last
      <4>1. Start(f) = w + 1
        BY <1>1, <1>2, <1>4, <3>1 DEF last
      <4> QED BY <1>13, <3>1, <4>1, Zenon DEF Passed
    <3>2. CASE ~last
      <4>1. Start(h) + (k + 1) = w + 1 /\ k + 1 < Size(h)
        BY <1>1, <1>2, <1>4, <3>2 DEF last
      <4>2. held'[e] = h /\ Given(e)' = k + 1
        BY <1>13, <1>14, <3>2, Zenon
      <4> QED BY <1>1, <1>2, <4>1, <4>2, Zenon DEF Passed
    <3> QED BY <3>1, <3>2, Zenon
  <2>5. Carries(sock'[In(e)], Start(f) + Taken(e)', Departed(e)') /\ Taken(e)' < Size(f)
    BY <1>2, <2>1, Zenon
  <2> QED BY <1>1, <2>1, <2>2, <2>3, <2>4, <2>5, Zenon DEF Flow
<1> QED BY <1>7, <1>12, <1>13, <1>15, <1>16, Zenon

(* What the state of the loop means for either end.                        *)
LEMMA LoopFacts ==
  ASSUME Loop
  PROVE  /\ step = "down" => closed = Sockets
         /\ step = "select" => count["loop"] = 0
         /\ ("hub_in" \in readset <=> held["hub"] = 0)
         /\ ("client_in" \in readset <=> held["client"] = 0)
         /\ ("client_out" \in writeset <=> held["hub"] # 0)
         /\ ("hub_out" \in writeset <=> held["client"] # 0)
         /\ step = "hub_recv" => held["hub"] = 0 /\ "client_out" \notin writemask
         /\ step = "listener_send" => held["hub"] # 0
         /\ step = "listener_recv" => held["client"] = 0
         /\ step = "hub_send" => held["client"] # 0
         /\ step \in {"hub_recv", "listener_send", "listener_recv"} =>
              /\ "client_in" \in readmask => held["client"] = 0
              /\ "hub_out" \in writemask => held["client"] # 0
  BY Zenon DEF Loop, Ends, In, Out, Recv, Sending

(* The two directions by name.                                             *)
LEMMA Sides ==
  /\ "hub" \in Ends /\ "client" \in Ends /\ \A e \in Ends : e = "hub" \/ e = "client"
  /\ In("hub") = "hub_in" /\ In("client") = "client_in"
  /\ Out("hub") = "client_out" /\ Out("client") = "hub_out"
  /\ Recv("hub") = "hub_recv" /\ Recv("client") = "listener_recv"
  /\ Sending("hub") = "listener_send" /\ Sending("client") = "hub_send"
  /\ Source("hub") = "hub_writer" /\ Source("client") = "client_writer"
  /\ Sink("hub") = "client_reader" /\ Sink("client") = "hub_reader"
  /\ Other("hub") = "client" /\ Other("client") = "hub"
  /\ Handlers[1] = "hub_recv" /\ Handlers[2] = "listener_send"
  /\ Handlers[3] = "listener_recv" /\ Handlers[4] = "hub_send"
  BY Zenon DEF Ends, In, Out, Recv, Sending, Source, Sink, Other, Handlers

(* An iteration of the loop starts with the masks that select returns.     *)
LEMMA SelectKeeps ==
  ASSUME IInv, Select
  PROVE  IInv'
<1> DEFINE r == {s \in readset : Readable(s)}
           w == {s \in writeset : Writable(s)}
<1>1. /\ step = "select" /\ readmask' = r /\ writemask' = w /\ step' = Following(1, r, w)
      /\ UNCHANGED <<sock, closed, readset, writeset, held, count, tasks, sent, got>>
  BY Zenon DEF Select
<1>2. r \subseteq readset /\ w \subseteq writeset
  BY Zenon
<1> HIDE DEF r, w
<1>3. /\ step' \in {"select", "hub_recv", "listener_send", "listener_recv", "hub_send"}
      /\ step' = "hub_recv" => "hub_in" \in r
      /\ step' = "listener_send" => "client_out" \in w
      /\ step' = "listener_recv" => "client_in" \in r
      /\ step' = "hub_send" => "hub_out" \in w
  <2>1. 1 \in 1 .. 5
    OBVIOUS
  <2> QED BY <1>1, <2>1, FollowingFacts, Zenon
<1>4. Types' /\ step' # "down"
  BY <1>1, <1>3, Zenon DEF IInv, Types, Steps
<1>5. Loop'
  <2>1. Loop
    BY Zenon DEF IInv
  <2>2. /\ count["loop"] = 0
        /\ ("hub_in" \in readset <=> held["hub"] = 0)
        /\ ("client_in" \in readset <=> held["client"] = 0)
        /\ ("client_out" \in writeset <=> held["hub"] # 0)
        /\ ("hub_out" \in writeset <=> held["client"] # 0)
    BY <1>1, <2>1, LoopFacts, Zenon
  <2> QED BY <1>1, <1>2, <1>3, <1>4, <2>2 DEF Loop, Ends, In, Out, Recv, Sending
<1>6. ASSUME NEW e \in Ends PROVE Flow(e)'
  <2>1. count["loop"] = 0 /\ count'["loop"] = 0
    BY <1>1, LoopFacts, Zenon DEF IInv
  <2>2. Taken(e)' = Taken(e) /\ Given(e)' = Given(e) /\ step # "down"
    BY <1>1, <2>1, Zenon DEF Taken, Given
  <2> QED BY <1>1, <2>2, FlowKept, Zenon DEF IInv
<1> QED BY <1>4, <1>5, <1>6, Zenon DEF IInv

(* The loop ends and its sockets are closed.                               *)
LEMMA FailKeeps ==
  ASSUME IInv, step # "select", step # "down", Fail
  PROVE  IInv'
<1>1. /\ step' = "down" /\ closed' = Sockets
      /\ UNCHANGED <<sock, readset, writeset, readmask, writemask, held, count, tasks, sent, got>>
  BY Zenon DEF Fail
<1>2. Types'
  BY <1>1, Zenon DEF IInv, Types, Steps
<1>3. Loop'
  <2>1. /\ ("hub_in" \in readset <=> held["hub"] = 0)
        /\ ("client_in" \in readset <=> held["client"] = 0)
        /\ ("client_out" \in writeset <=> held["hub"] # 0)
        /\ ("hub_out" \in writeset <=> held["client"] # 0)
    BY LoopFacts, Zenon DEF IInv
  <2> QED BY <1>1, <2>1 DEF Loop, Ends, In, Out, Recv, Sending
<1>4. \A e \in Ends : Flow(e)'
  BY <1>1, FlowKept, Zenon DEF IInv
<1> QED BY <1>2, <1>3, <1>4, Zenon DEF IInv

(* Proxy_hub_recv and Proxy_listener_recv.                                 *)
LEMMA ReceiveKeeps ==
  ASSUME IInv, Proxy_hub_recv \/ Proxy_listener_recv
  PROVE  IInv'
<1>0. 2 \in 1 .. 5 /\ 4 \in 1 .. 5 /\ 1 + 1 = 2 /\ 3 + 1 = 4
  OBVIOUS
<1>1. CASE Proxy_hub_recv
  <2>1. /\ step = "hub_recv"
        /\ \/ /\ sock["hub_in"] # <<>>
              /\ LET f == Head(sock["hub_in"])
                 IN  /\ Take("loop", "hub_in", Last("loop", f))
                     /\ IF Last("loop", f)
                        THEN /\ held' = [held EXCEPT !["hub"] = f]
                             /\ AfterRead("client_out", "hub_in")
                             /\ step' = Following(2, readmask, writemask)
                        ELSE UNCHANGED <<held, writeset, readset, step>>
              /\ UNCHANGED <<closed, readmask, writemask, tasks, sent, got>>
           \/ Fail
    BY <1>0, <1>1, Sides, Zenon DEF Proxy_hub_recv, Receive
  <2>2. CASE Fail
    BY <2>1, <2>2, FailKeeps, Zenon
  <2>3. CASE ~Fail
    <3> DEFINE f == Head(sock["hub_in"])
               last == Last("loop", f)
    <3>1. /\ step' \in {"select", "hub_recv", "listener_send", "listener_recv", "hub_send"}
          /\ last => /\ step' # "hub_recv"
                     /\ step' = "listener_recv" => "client_in" \in readmask
                     /\ step' = "hub_send" => "hub_out" \in writemask
      <4>1. ~(2 = 1)
        OBVIOUS
      <4>2. LET n == Following(2, readmask, writemask) IN
              /\ n \in {"select", "hub_recv", "listener_send", "listener_recv", "hub_send"}
              /\ n # "hub_recv"
              /\ n = "listener_recv" => "client_in" \in readmask
              /\ n = "hub_send" => "hub_out" \in writemask
        BY <1>0, <4>1, FollowingFacts, Zenon
      <4> QED BY <2>1, <2>3, <4>2, Zenon
    <3>2. step' \in Steps \ {"down"}
      BY <3>1, Zenon DEF Steps
    <3>3. /\ Types' /\ \A d \in Ends : Flow(d)'
          /\ f \in Frames /\ (last => count'["loop"] = 0)
      BY <2>1, <2>3, <3>2, LoopTakes, Sides, Zenon
    <3>4. Loop'
      <4>1. /\ ("hub_in" \in readset <=> held["hub"] = 0)
            /\ ("client_in" \in readset <=> held["client"] = 0)
            /\ ("client_out" \in writeset <=> held["hub"] # 0)
            /\ ("hub_out" \in writeset <=> held["client"] # 0)
            /\ "client_out" \notin writemask /\ held["hub"] = 0
            /\ "client_in" \in readmask => held["client"] = 0
            /\ "hub_out" \in writemask => held["client"] # 0
        BY <2>1, LoopFacts, Zenon DEF IInv
      <4>2. CASE last
        <5>1. /\ held'["hub"] = f /\ held'["client"] = held["client"] /\ f # 0
          <6>1. held \in [Ends -> Nat] /\ held' = [held EXCEPT !["hub"] = f]
            BY <2>1, <2>3, <4>2, Zenon DEF IInv, Types
          <6> QED BY <3>3, <6>1, Zenon DEF Ends, Frames
        <5>2. /\ writeset' = writeset \cup {"client_out"} /\ readset' = readset \ {"hub_in"}
              /\ readmask' = readmask /\ writemask' = writemask /\ count'["loop"] = 0
          BY <2>1, <2>3, <3>3, <4>2, Zenon DEF AfterRead
        <5> HIDE DEF f
        <5> QED BY <3>1, <4>1, <4>2, <5>1, <5>2, Zenon
                   DEF Loop, Ends, In, Out, Recv, Sending
      <4>3. CASE ~last
        <5>1. step' = step /\ UNCHANGED <<held, writeset, readset, readmask, writemask>>
          BY <2>1, <2>3, <4>3, Zenon
        <5> QED BY <2>1, <4>1, <5>1, Zenon DEF Loop, Ends, In, Out, Recv, Sending
      <4> QED BY <4>2, <4>3, Zenon
    <3> QED BY <3>3, <3>4, Zenon DEF IInv
  <2> QED BY <2>2, <2>3, Zenon
<1>2. CASE Proxy_listener_recv
  <2>1. /\ step = "listener_recv"
        /\ \/ /\ sock["client_in"] # <<>>
              /\ LET f == Head(sock["client_in"])
                 IN  /\ Take("loop", "client_in", Last("loop", f))
                     /\ IF Last("loop", f)
                        THEN /\ held' = [held EXCEPT !["client"] = f]
                             /\ AfterRead("hub_out", "client_in")
                             /\ step' = Following(4, readmask, writemask)
                        ELSE UNCHANGED <<held, writeset, readset, step>>
              /\ UNCHANGED <<closed, readmask, writemask, tasks, sent, got>>
           \/ Fail
    BY <1>0, <1>2, Sides, Zenon DEF Proxy_listener_recv, Receive
  <2>2. CASE Fail
    BY <2>1, <2>2, FailKeeps, Zenon
  <2>3. CASE ~Fail
    <3> DEFINE f == Head(sock["client_in"])
               last == Last("loop", f)
    <3>1. /\ step' \in {"select", "hub_recv", "listener_send", "listener_recv", "hub_send"}
          /\ last => step' \in {"select", "hub_send"}
      <4>1. 4 \in 1 .. 5 /\ ~(4 = 1) /\ ~(4 <= 2) /\ ~(4 <= 3)
        OBVIOUS
      <4>2. Following(4, readmask, writemask) \in
              {"select", "hub_recv", "listener_send", "listener_recv", "hub_send"}
        BY <4>1, FollowingFacts, Zenon
      <4>3. /\ Following(4, readmask, writemask) # "hub_recv"
            /\ Following(4, readmask, writemask) # "listener_send"
            /\ Following(4, readmask, writemask) # "listener_recv"
        BY <4>1, FollowingFacts, Zenon
      <4> QED BY <2>1, <2>3, <4>2, <4>3, Zenon
    <3>2. step' \in Steps \ {"down"}
      BY <3>1, Zenon DEF Steps
    <3>3. /\ Types' /\ \A d \in Ends : Flow(d)'
          /\ f \in Frames /\ (last => count'["loop"] = 0)
      BY <2>1, <2>3, <3>2, LoopTakes, Sides, ZenonT(30)
    <3>4. Loop'
      <4>1. /\ ("hub_in" \in readset <=> held["hub"] = 0)
            /\ ("client_in" \in readset <=> held["client"] = 0)
            /\ ("client_out" \in writeset <=> held["hub"] # 0)
            /\ ("hub_out" \in writeset <=> held["client"] # 0)
            /\ held["client"] = 0
            /\ "client_in" \in readmask => held["client"] = 0
            /\ "hub_out" \in writemask => held["client"] # 0
        BY <2>1, LoopFacts, Zenon DEF IInv
      <4>2. CASE last
        <5>1. /\ held'["client"] = f /\ held'["hub"] = held["hub"] /\ f # 0
          <6>1. held \in [Ends -> Nat] /\ held' = [held EXCEPT !["client"] = f]
            BY <2>1, <2>3, <4>2, Zenon DEF IInv, Types
          <6> QED BY <3>3, <6>1, Zenon DEF Ends, Frames
        <5>2. /\ writeset' = writeset \cup {"hub_out"} /\ readset' = readset \ {"client_in"}
              /\ readmask' = readmask /\ writemask' = writemask /\ count'["loop"] = 0
          BY <2>1, <2>3, <3>3, <4>2, Zenon DEF AfterRead
        <5> HIDE DEF f
        <5> QED BY <3>1, <4>1, <4>2, <5>1, <5>2, Zenon
                   DEF Loop, Ends, In, Out, Recv, Sending
      <4>3. CASE ~last
        <5>1. step' = step /\ UNCHANGED <<held, writeset, readset, readmask, writemask>>
          BY <2>1, <2>3, <4>3, Zenon
        <5> QED BY <2>1, <4>1, <5>1, Zenon DEF Loop, Ends, In, Out, Recv, Sending
      <4> QED BY <4>2, <4>3, Zenon
    <3> QED BY <3>3, <3>4, Zenon DEF IInv
  <2> QED BY <2>2, <2>3, Zenon
<1> QED BY <1>1, <1>2, Zenon

(* Proxy_listener_send and Proxy_hub_send.                                 *)
LEMMA SendKeeps ==
  ASSUME IInv, Proxy_listener_send \/ Proxy_hub_send
  PROVE  IInv'
<1>0. 3 \in 1 .. 5 /\ 5 \in 1 .. 5 /\ 2 + 1 = 3 /\ 4 + 1 = 5
  OBVIOUS
<1>1. CASE Proxy_listener_send
  <2>1. /\ step = "listener_send"
        /\ \/ /\ Give("loop", "client_out", held["hub"], Last("loop", held["hub"]))
              /\ IF Last("loop", held["hub"])
                 THEN /\ held' = [held EXCEPT !["hub"] = 0]
                      /\ readset' = readset \cup {"hub_in"}
                      /\ writeset' = writeset \ {"client_out"}
                      /\ step' = Following(3, readmask, writemask)
                 ELSE UNCHANGED <<held, writeset, readset, step>>
              /\ UNCHANGED <<closed, readmask, writemask, tasks, sent, got>>
           \/ Fail
    BY <1>0, <1>1, Sides, Zenon DEF Proxy_listener_send, Send
  <2>2. CASE Fail
    BY <2>1, <2>2, FailKeeps, Zenon
  <2>3. CASE ~Fail
    <3> DEFINE last == Last("loop", held["hub"])
    <3>1. /\ step' \in {"select", "hub_recv", "listener_send", "listener_recv", "hub_send"}
          /\ last => /\ step' \notin {"hub_recv", "listener_send"}
                     /\ step' = "listener_recv" => "client_in" \in readmask
                     /\ step' = "hub_send" => "hub_out" \in writemask
      <4>1. ~(3 = 1) /\ ~(3 <= 2)
        OBVIOUS
      <4>2. LET n == Following(3, readmask, writemask) IN
              /\ n \in {"select", "hub_recv", "listener_send", "listener_recv", "hub_send"}
              /\ n # "hub_recv" /\ n # "listener_send"
              /\ n = "listener_recv" => "client_in" \in readmask
              /\ n = "hub_send" => "hub_out" \in writemask
        BY <1>0, <4>1, FollowingFacts, Zenon
      <4> QED BY <2>1, <2>3, <4>2, Zenon
    <3>2. step' \in Steps \ {"down"}
      BY <3>1, Zenon DEF Steps
    <3>3. Types' /\ (\A d \in Ends : Flow(d)') /\ (last => count'["loop"] = 0)
      BY <2>1, <2>3, <3>2, LoopGives, Sides, Zenon
    <3>4. Loop'
      <4>1. /\ ("hub_in" \in readset <=> held["hub"] = 0)
            /\ ("client_in" \in readset <=> held["client"] = 0)
            /\ ("client_out" \in writeset <=> held["hub"] # 0)
            /\ ("hub_out" \in writeset <=> held["client"] # 0)
            /\ held["hub"] # 0
            /\ "client_in" \in readmask => held["client"] = 0
            /\ "hub_out" \in writemask => held["client"] # 0
        BY <2>1, LoopFacts, Zenon DEF IInv
      <4>2. CASE last
        <5>1. held'["hub"] = 0 /\ held'["client"] = held["client"]
          <6>1. held \in [Ends -> Nat] /\ held' = [held EXCEPT !["hub"] = 0]
            BY <2>1, <2>3, <4>2, Zenon DEF IInv, Types
          <6> QED BY <6>1, Zenon DEF Ends
        <5>2. /\ writeset' = writeset \ {"client_out"} /\ readset' = readset \cup {"hub_in"}
              /\ readmask' = readmask /\ writemask' = writemask /\ count'["loop"] = 0
          BY <2>1, <2>3, <3>3, <4>2, Zenon
        <5> QED BY <3>1, <4>1, <4>2, <5>1, <5>2, Zenon
                   DEF Loop, Ends, In, Out, Recv, Sending
      <4>3. CASE ~last
        <5>1. step' = step /\ UNCHANGED <<held, writeset, readset, readmask, writemask>>
          BY <2>1, <2>3, <4>3, Zenon
        <5> QED BY <2>1, <4>1, <5>1 DEF Loop, Ends, In, Out, Recv, Sending
      <4> QED BY <4>2, <4>3, Zenon
    <3> QED BY <3>3, <3>4, Zenon DEF IInv
  <2> QED BY <2>2, <2>3, Zenon
<1>2. CASE Proxy_hub_send
  <2>1. /\ step = "hub_send"
        /\ \/ /\ Give("loop", "hub_out", held["client"], Last("loop", held["client"]))
              /\ IF Last("loop", held["client"])
                 THEN /\ held' = [held EXCEPT !["client"] = 0]
                      /\ readset' = readset \cup {"client_in"}
                      /\ writeset' = writeset \ {"hub_out"}
                      /\ step' = Following(5, readmask, writemask)
                 ELSE UNCHANGED <<held, writeset, readset, step>>
              /\ UNCHANGED <<closed, readmask, writemask, tasks, sent, got>>
           \/ Fail
    BY <1>0, <1>2, Sides, Zenon DEF Proxy_hub_send, Send
  <2>2. CASE Fail
    BY <2>1, <2>2, FailKeeps, Zenon
  <2>3. CASE ~Fail
    <3> DEFINE last == Last("loop", held["client"])
    <3>1. step' \in {"select", "hub_send"} /\ (last => step' = "select")
      <4>1. ~(5 = 1) /\ ~(5 <= 2) /\ ~(5 <= 3) /\ ~(5 <= 4)
        OBVIOUS
      <4>2. Following(5, readmask, writemask) = "select"
        BY <1>0, <4>1, FollowingFacts, Zenon
      <4> QED BY <2>1, <2>3, <4>2, Zenon
    <3>2. step' \in Steps \ {"down"}
      BY <3>1, Zenon DEF Steps
    <3>3. Types' /\ (\A d \in Ends : Flow(d)') /\ (last => count'["loop"] = 0)
      BY <2>1, <2>3, <3>2, LoopGives, Sides, Zenon
    <3>4. Loop'
      <4>1. /\ ("hub_in" \in readset <=> held["hub"] = 0)
            /\ ("client_in" \in readset <=> held["client"] = 0)
            /\ ("client_out" \in writeset <=> held["hub"] # 0)
            /\ ("hub_out" \in writeset <=> held["client"] # 0)
            /\ held["client"] # 0
        BY <2>1, LoopFacts, Zenon DEF IInv
      <4>2. CASE last
        <5>1. held'["client"] = 0 /\ held'["hub"] = held["hub"]
          <6>1. held \in [Ends -> Nat] /\ held' = [held EXCEPT !["client"] = 0]
            BY <2>1, <2>3, <4>2, Zenon DEF IInv, Types
          <6> QED BY <6>1, Zenon DEF Ends
        <5>2. /\ writeset' = writeset \ {"hub_out"} /\ readset' = readset \cup {"client_in"}
              /\ count'["loop"] = 0
          BY <2>1, <2>3, <3>3, <4>2, Zenon
        <5> QED BY <3>1, <4>1, <4>2, <5>1, <5>2, Zenon
                   DEF Loop, Ends, In, Out, Recv, Sending
      <4>3. CASE ~last
        <5>1. step' = step /\ UNCHANGED <<held, writeset, readset, readmask, writemask>>
          BY <2>1, <2>3, <4>3, Zenon
        <5> QED BY <2>1, <4>1, <5>1 DEF Loop, Ends, In, Out, Recv, Sending
      <4> QED BY <4>2, <4>3, Zenon
    <3> QED BY <3>3, <3>4, Zenon DEF IInv
  <2> QED BY <2>2, <2>3, Zenon
<1> QED BY <1>1, <1>2, Zenon

(* A step of an end leaves the event loop alone.                           *)
LEMMA LoopKept ==
  ASSUME Loop, UNCHANGED loop, count'["loop"] = count["loop"],
         step = "down" => closed' = Sockets
  PROVE  Loop'
  BY Zenon DEF Loop, loop

(* A step that moves no cell, or only closes sockets, keeps the flow.      *)
LEMMA QuietKeeps ==
  ASSUME IInv, UNCHANGED <<sock, loop, count, sent, got>>,
         closed' = closed \/ step # "down"
  PROVE  IInv'
<1>1. /\ step' = step /\ held' = held /\ sock' = sock /\ count' = count
      /\ sent' = sent /\ got' = got
  BY Zenon DEF loop
<1>2. Types'
  BY <1>1, Zenon DEF IInv, Types
<1>3. Loop'
  <2>1. step = "down" => closed' = Sockets
    BY Zenon DEF IInv, Loop
  <2> QED BY <1>1, <2>1, LoopKept, Zenon DEF IInv
<1>4. ASSUME NEW e \in Ends PROVE Flow(e)'
  <2>1. Taken(e)' = Taken(e) /\ Given(e)' = Given(e)
    BY <1>1, Zenon DEF Taken, Given
  <2> QED BY <1>1, <2>1, FlowKept, Zenon DEF IInv
<1> QED BY <1>2, <1>3, <1>4, Zenon DEF IInv

(* HubSends and ClientSends.                                               *)
LEMMA SourceKeeps ==
  ASSUME IInv, HubSends \/ ClientSends
  PROVE  IInv'
<1>1. SUFFICES ASSUME NEW e \in Ends, In(e) \notin closed,
                      Give(Source(e), In(e), sent[e] + 1, Last(Source(e), sent[e] + 1)),
                      sent' = IF Last(Source(e), sent[e] + 1)
                              THEN [sent EXCEPT ![e] = sent[e] + 1] ELSE sent,
                      UNCHANGED <<closed, loop, got>>
               PROVE  IInv'
  <2>1. CASE HubSends
    <3>1. CASE "hub_in" \in closed
      <4>1. UNCHANGED <<sock, loop, count, sent, got>> /\ closed' = closed
        BY <2>1, <3>1, Zenon DEF HubSends
      <4> QED BY <4>1, QuietKeeps, Zenon
    <3>2. CASE "hub_in" \notin closed
      <4>1. /\ Give("hub_writer", "hub_in", sent["hub"] + 1,
                    Last("hub_writer", sent["hub"] + 1))
            /\ sent' = IF Last("hub_writer", sent["hub"] + 1)
                       THEN [sent EXCEPT !["hub"] = sent["hub"] + 1] ELSE sent
            /\ UNCHANGED <<closed, loop, got>>
        BY <2>1, <3>2, Zenon DEF HubSends
      <4> QED BY <1>1, <3>2, <4>1, Sides, Zenon
    <3> QED BY <3>1, <3>2, Zenon
  <2>2. CASE ClientSends
    <3>1. /\ "client_in" \notin closed
          /\ Give("client_writer", "client_in", sent["client"] + 1,
                  Last("client_writer", sent["client"] + 1))
          /\ sent' = IF Last("client_writer", sent["client"] + 1)
                     THEN [sent EXCEPT !["client"] = sent["client"] + 1] ELSE sent
          /\ UNCHANGED <<closed, loop, got>>
      BY <2>2, Zenon DEF ClientSends
    <3> QED BY <1>1, <3>1, Sides, Zenon
  <2> QED BY <2>1, <2>2, Zenon
<1>2. step # "down" /\ Source(e) # "loop" /\ "loop" \in Actors
  BY <1>1, EndFacts, Zenon DEF IInv, Loop
<1>3. Types' /\ \A d \in Ends : Flow(d)'
  BY <1>1, <1>2, SourceGives, Zenon DEF loop
<1>4. Loop'
  <2>1. count'["loop"] = count["loop"]
    BY <1>1, <1>2, Zenon DEF Give, IInv, Types
  <2> QED BY <1>1, <1>2, <2>1, LoopKept, Zenon DEF IInv
<1> QED BY <1>3, <1>4, Zenon DEF IInv

(* HubReads and ClientReads.                                               *)
LEMMA SinkKeeps ==
  ASSUME IInv, HubReads \/ ClientReads
  PROVE  IInv'
<1>1. SUFFICES ASSUME NEW e \in Ends, sock[Out(e)] # <<>>,
                      LET f == Head(sock[Out(e)]) IN
                        /\ Take(Sink(e), Out(e), Last(Sink(e), f))
                        /\ got' = IF Last(Sink(e), f)
                                  THEN [got EXCEPT ![Other(e)] = Append(@, f)] ELSE got,
                      UNCHANGED <<closed, loop, sent>>
               PROVE  IInv'
  <2>1. CASE HubReads
    <3>1. CASE sock["hub_out"] = <<>>
      <4>1. UNCHANGED <<sock, loop, count, sent, got>> /\ closed' = closed
        BY <2>1, <3>1, Zenon DEF HubReads
      <4> QED BY <4>1, QuietKeeps, Zenon
    <3>2. CASE sock["hub_out"] # <<>>
      <4>1. LET f == Head(sock["hub_out"]) IN
              /\ Take("hub_reader", "hub_out", Last("hub_reader", f))
              /\ got' = IF Last("hub_reader", f)
                        THEN [got EXCEPT !["hub"] = Append(@, f)] ELSE got
              /\ UNCHANGED <<closed, loop, sent>>
        BY <2>1, <3>2, Zenon DEF HubReads
      <4> QED BY <1>1, <3>2, <4>1, Sides, Zenon
    <3> QED BY <3>1, <3>2, Zenon
  <2>2. CASE ClientReads
    <3>1. LET f == Head(sock["client_out"]) IN
            /\ sock["client_out"] # <<>>
            /\ Take("client_reader", "client_out", Last("client_reader", f))
            /\ got' = IF Last("client_reader", f)
                      THEN [got EXCEPT !["client"] = Append(@, f)] ELSE got
            /\ UNCHANGED <<closed, loop, sent>>
      BY <2>2, Zenon DEF ClientReads
    <3> QED BY <1>1, <3>1, Sides, Zenon
  <2> QED BY <2>1, <2>2, Zenon
<1>2. Sink(e) # "loop" /\ "loop" \in Actors
  BY EndFacts, Zenon
<1>3. Types' /\ \A d \in Ends : Flow(d)'
  BY <1>1, SinkTakes, Zenon DEF loop
<1>4. Loop'
  <2>1. count'["loop"] = count["loop"] /\ (step = "down" => closed' = Sockets)
    BY <1>1, <1>2, Zenon DEF Take, IInv, Types, Loop
  <2> QED BY <1>1, <2>1, LoopKept, Zenon DEF IInv
<1> QED BY <1>3, <1>4, Zenon DEF IInv

-----------------------------------------------------------------------------
(* Before anything is sent.                                                *)
LEMMA InitIsGood == Init => IInv
<1> SUFFICES ASSUME Init PROVE IInv
  BY Zenon
<1>1. Types
  BY DEF Init, Types, Steps, Sockets, Ends, Actors
<1>2. Loop
  BY Zenon DEF Init, Loop, Ends, In, Out, Recv, Sending, Actors
<1>3. ASSUME NEW e \in Ends PROVE Flow(e)
  <2>1. /\ sock[In(e)] = <<>> /\ sock[Out(e)] = <<>> /\ held[e] = 0 /\ sent[e] = 0
        /\ got[Other(e)] = <<>> /\ count[Source(e)] = 0 /\ count[Sink(e)] = 0
        /\ count["loop"] = 0
    BY EndFacts, Zenon DEF Init
  <2>2. /\ Len(<<>>) = 0 /\ 1 \in Frames /\ Start(1) = 0 /\ Size(1) = 2
        /\ <<>> = [i \in 1 .. 0 |-> i] /\ 0 + 1 = 1 /\ 0 + 0 = 0 /\ 0 < 2
    BY DEF Frames, Start, Size
  <2>3. Taken(e) = 0 /\ Given(e) = 0 /\ Arrived(e) = 0 /\ Departed(e) = 0
    BY <2>1, <2>2, Zenon DEF Taken, Given, Arrived, Departed
  <2>4. Carries(<<>>, 0, 0)
    BY DEF Carries
  <2>5. Passed(e, 1) = 0
    BY <2>1, <2>2, Zenon DEF Passed
  <2> QED BY <2>1, <2>2, <2>3, <2>4, <2>5, Zenon DEF Flow
<1> QED BY <1>1, <1>2, <1>3, Zenon DEF IInv

(* Every step of the loop and of its two ends keeps the flow.              *)
LEMMA StepIsGood == IInv /\ [Next]_vars => IInv'
<1> SUFFICES ASSUME IInv, [Next]_vars PROVE IInv'
  BY Zenon
<1>1. CASE Select
  BY <1>1, SelectKeeps, Zenon
<1>2. CASE Proxy_hub_recv \/ Proxy_listener_recv
  BY <1>2, ReceiveKeeps, Zenon
<1>3. CASE Proxy_listener_send \/ Proxy_hub_send
  BY <1>3, SendKeeps, Zenon
<1>4. CASE HubLocksToSend
  BY <1>4, QuietKeeps, Zenon DEF HubLocksToSend
<1>5. CASE HubServices
  BY <1>5, QuietKeeps, Zenon DEF HubServices
<1>6. CASE HubSends \/ ClientSends
  BY <1>6, SourceKeeps, Zenon
<1>7. CASE HubReads \/ ClientReads
  BY <1>7, SinkKeeps, Zenon
<1>8. CASE HubLeaves \/ ClientLeaves
  <2>1. UNCHANGED <<sock, loop, count, sent, got>>
    BY <1>8, Zenon DEF HubLeaves, ClientLeaves
  <2>2. step # "down"
    BY <1>8, LoopFacts, Zenon DEF HubLeaves, ClientLeaves, IInv, Sockets
  <2> QED BY <2>1, <2>2, QuietKeeps, Zenon
<1>9. CASE UNCHANGED vars
  BY <1>9, QuietKeeps, Zenon DEF vars, loop
<1> QED BY <1>1, <1>2, <1>3, <1>4, <1>5, <1>6, <1>7, <1>8, <1>9, Zenon
          DEF Next, Proxy_event_loop

(* A socket that carries the last cell of a frame has it in it.            *)
LEMMA LastCell ==
  ASSUME NEW c \in Seq(Nat), NEW a \in Nat, NEW b \in Nat, Carries(c, a, b),
         NEW f \in Frames, NEW q \in Nat, q = Start(f) + Size(f) - 1, a <= q, q < b
  PROVE  f \in {c[i] : i \in 1 .. Len(c)}
<1>1. q - a + 1 \in 1 .. Len(c) /\ a + (q - a + 1) - 1 = q
  BY DEF Carries
<1> DEFINE i == q - a + 1
<1>2. c[i] \in Frames /\ Start(c[i]) <= q /\ q < Start(c[i]) + Size(c[i])
  BY <1>1, Zenon DEF Carries
<1>3. Start(f) <= q /\ q < Start(f) + Size(f)
  <2>1. Start(f) \in Nat /\ Size(f) \in {1, 2}
    BY FrameFacts, Zenon
  <2> QED BY <2>1
<1>4. c[i] = f
  BY <1>2, <1>3, OneFrame, Zenon
<1> QED BY <1>1, <1>4, Zenon

(* Of the cells under way the last one of a frame is in a socket, unless   *)
(* the frame is in the loop's hand.                                        *)
LEMMA UnderWay ==
  ASSUME IInv, NEW e \in Ends, step # "down",
         NEW f \in (Len(got[Other(e)]) + 1) .. sent[e]
  PROVE  f \in EnRoute(e)
<1> DEFINE n == Len(got[Other(e)])
           q == Start(f) + Size(f) - 1
           w == Arrived(e) + Len(sock[Out(e)])
<1>1. /\ Types /\ Flow(e) /\ sock[In(e)] \in Seq(Nat) /\ sock[Out(e)] \in Seq(Nat)
      /\ Len(sock[Out(e)]) \in Nat /\ held[e] \in Nat /\ n \in Nat /\ sent[e] \in Nat
      /\ n + 1 \in Frames /\ sent[e] + 1 \in Frames
      /\ count[Sink(e)] \in Nat /\ count[Source(e)] \in Nat
      /\ Taken(e) \in Nat /\ Given(e) \in Nat /\ Arrived(e) \in Nat /\ Departed(e) \in Nat
  BY Numbers, Zenon DEF IInv
<1>2. PICK F \in Frames :
        /\ Carries(sock[In(e)], Start(F) + Taken(e), Departed(e))
        /\ Taken(e) < Size(F)
        /\ held[e] # 0 => held[e] + 1 = F /\ Given(e) < Size(held[e])
        /\ w = Passed(e, F)
  BY <1>1, Zenon DEF Flow
<1>3. Carries(sock[Out(e)], Arrived(e), w) /\ count[Sink(e)] < Size(n + 1)
  BY <1>1, Zenon DEF Flow
<1> HIDE DEF n, q, w
<1>4. f \in Frames /\ n + 1 <= f /\ f < sent[e] + 1 /\ f \in Nat
  BY <1>1, SMTT(30) DEF Frames, n
<1>5. /\ Start(f) \in Nat /\ Size(f) \in {1, 2} /\ Start(F) \in Nat /\ Size(F) \in {1, 2}
      /\ Start(n + 1) \in Nat /\ Size(n + 1) \in {1, 2} /\ Start(sent[e] + 1) \in Nat
  BY <1>1, <1>2, <1>4, FrameFacts, Zenon
<1>6. q \in Nat /\ Arrived(e) <= q /\ q < Departed(e) /\ w \in Nat
  <2>1. Arrived(e) = Start(n + 1) + count[Sink(e)]
    BY Zenon DEF Arrived, n
  <2>2. Departed(e) = Start(sent[e] + 1) + count[Source(e)]
    BY Zenon DEF Departed
  <2>3. Start(f) + Size(f) <= Start(sent[e] + 1)
    BY <1>1, <1>4, Monotone, Zenon
  <2>4. Start(n + 1) + Size(n + 1) <= Start(f) + Size(f)
    <3>1. n + 1 = f \/ n + 1 < f
      BY <1>1, <1>4
    <3>2. n + 1 < f => Start(n + 1) + Size(n + 1) <= Start(f)
      BY <1>1, <1>4, Monotone, Zenon
    <3> QED BY <1>5, <3>1, <3>2
  <2>5. q \in Nat /\ w \in Nat
    <3>1. Start(f) + Size(f) - 1 \in Nat
      BY <1>5
    <3>2. \A a, b \in Nat : a + b \in Nat
      OBVIOUS
    <3> QED BY <1>1, <3>1, <3>2, Zenon DEF q, w
  <2>6. q < Departed(e)
    <3>1. q = Start(f) + Size(f) - 1 /\ count[Source(e)] \in Nat /\ Departed(e) \in Nat
      BY <1>1, Zenon DEF q
    <3> QED BY <1>5, <2>2, <2>3, <3>1, SMTT(30)
  <2>7. Arrived(e) <= q
    <3>1. q = Start(f) + Size(f) - 1 /\ count[Sink(e)] \in Nat /\ Arrived(e) \in Nat
      BY <1>1, Zenon DEF q
    <3> QED BY <1>3, <1>5, <2>1, <2>4, <3>1, SMTT(30)
  <2> QED BY <2>5, <2>6, <2>7, Zenon
<1>7. CASE q < w
  <2>1. f \in Cells(Out(e))
    BY <1>1, <1>3, <1>4, <1>6, <1>7, LastCell, Zenon DEF Cells, q
  <2> QED BY <2>1, Zenon DEF EnRoute, Out, Ends
<1>8. CASE Start(F) + Taken(e) <= q
  <2>1. Start(F) + Taken(e) \in Nat
    <3>1. \A a, b \in Nat : a + b \in Nat
      OBVIOUS
    <3> QED BY <1>1, <1>5, <3>1, Zenon
  <2>2. f \in Cells(In(e))
    BY <1>1, <1>2, <1>4, <1>6, <1>8, <2>1, LastCell, Zenon DEF Cells, q
  <2> QED BY <2>2, Zenon DEF EnRoute, In, Ends
<1>9. CASE ~(q < w) /\ ~(Start(F) + Taken(e) <= q)
  <2>1. q < Start(F)
    <3> SUFFICES ASSUME Start(F) <= q PROVE FALSE
      BY <1>5, <1>6
    <3>1. Start(F) <= q /\ q < Start(F) + Size(F)
      BY <1>1, <1>2, <1>5, <1>6, <1>9, SMTT(30)
    <3>2. Start(f) <= q /\ q < Start(f) + Size(f)
      BY <1>5 DEF q
    <3>3. f = F
      BY <1>2, <1>4, <1>6, <3>1, <3>2, OneFrame, Zenon
    <3> QED BY <1>1, <1>2, <1>5, <1>9, <3>3, SMTT(30) DEF q
  <2>2. held[e] # 0
    BY <1>2, <1>5, <1>6, <1>9, <2>1, Zenon DEF Passed
  <2>3. /\ held[e] \in Frames /\ Start(held[e]) \in Nat /\ Size(held[e]) \in {1, 2}
        /\ Start(F) = Start(held[e]) + Size(held[e]) /\ w = Start(held[e]) + Given(e)
    <3>1. held[e] \in Frames
      BY <1>1, <2>2, Zenon DEF Frames
    <3> QED BY <1>2, <2>2, <3>1, FrameFacts, Zenon DEF Passed
  <2>4. Start(held[e]) <= q /\ q < Start(held[e]) + Size(held[e])
    BY <1>1, <1>6, <1>9, <2>1, <2>3
  <2>5. Start(f) <= q /\ q < Start(f) + Size(f)
    BY <1>5 DEF q
  <2>6. f = held[e]
    BY <1>4, <1>6, <2>3, <2>4, <2>5, OneFrame, Zenon
  <2> QED BY <2>6, Zenon DEF EnRoute
<1> QED BY <1>7, <1>8, <1>9, Zenon

(* Each end receives the frames of the other in the order they were sent,  *)
(* without gaps or repetitions, and while Proxy_event_loop runs every      *)
(* frame that was sent and has not arrived is in a socket or in            *)
(* header[side] and body[side], for any number of frames and any size of   *)
(* the sockets.                                                            *)
THEOREM NoFrameIsLost == Spec => []NothingLost
<1>1. IInv => NothingLost
  <2> SUFFICES ASSUME IInv, NEW e \in Ends
               PROVE  LET n == Len(got[Other(e)])
                      IN  /\ got[Other(e)] = [i \in 1 .. n |-> i]
                          /\ step # "down" => (n + 1) .. sent[e] \subseteq EnRoute(e)
    BY Zenon DEF NothingLost
  <2>1. got[Other(e)] = [i \in 1 .. Len(got[Other(e)]) |-> i]
    BY Zenon DEF IInv, Flow
  <2>2. step # "down" => (Len(got[Other(e)]) + 1) .. sent[e] \subseteq EnRoute(e)
    BY UnderWay, Zenon
  <2> QED BY <2>1, <2>2, Zenon
<1> QED BY <1>1, InitIsGood, StepIsGood, PTL DEF Spec
=============================================================================
