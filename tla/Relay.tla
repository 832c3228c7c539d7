------------------------------- MODULE Relay -------------------------------
(***************************************************************************)
(* The mendicant's event loop (src/client/proxy.c, src/client/io.c)        *)
(* between its client and one connection of the hub, over sockets that     *)
(* hold a few cells: one thread, one select, whole frames read and written *)
(* with blocking calls, at most one frame in hand for each direction.      *)
(*                                                                         *)
(* The hub's end is the pair of tasks of ConnectionState_incoming and      *)
(* ConnectionState_outgoing (src/hub/connection_state.c): the writer holds *)
(* the connection's lock while it sends, and the reader takes that lock    *)
(* between two reads.  So the hub may stop reading because its peer does   *)
(* not read, and the mendicant must not do the same.                       *)
(*                                                                         *)
(* Frames are numbered in the order they are sent; a socket is the         *)
(* sequence of the cells in it, each named after its frame.                *)
(***************************************************************************)
EXTENDS Integers, Sequences

CONSTANTS
    MaxFrames,  \* bound: frames each end sends
    SockCells,  \* what a socket holds
    LowWater    \* the free cells select asks of a writable socket

(* A frame in cells, its length field included: short and long ones. *)
Size(f) == 1 + (f % 2)

(* Select calls a socket writable only when a whole frame fits. *)
ASSUME FramesFit == \A f \in 1 .. MaxFrames : Size(f) <= LowWater
ASSUME SocketsHold == LowWater \in 1 .. SockCells /\ MaxFrames \in Nat

VARIABLES
    sock,       \* [Sockets -> Seq(frame)]
    closed,     \* the sockets whose other end is gone
    step,       \* where the event loop is
    readset, writeset, readmask, writemask,
    held,       \* [Sides -> frame], header[side] and body[side]; 0 for none
    count,      \* cells moved by the blocking call in progress
    lock,       \* the holder of the hub connection's lock, or "none"
    reader,     \* the hub's reading task
    writer,     \* the hub's writing task
    sent, got   \* [Ends -> how many frames sent, the frames received]

loop  == <<step, readset, writeset, readmask, writemask, held>>
tasks == <<lock, reader, writer>>
vars  == <<sock, closed, loop, count, tasks, sent, got>>

Ends    == {"hub", "client"}
Sockets == {"hub_in", "hub_out", "client_in", "client_out"}
           \* read from the hub, written to the hub, and so for the client
Actors  == {"loop", "hub_reader", "hub_writer", "client_reader", "client_writer"}

Handlers == <<"hub_recv", "listener_send", "listener_recv", "hub_send">>

-----------------------------------------------------------------------------
(* Blocking input and output, a cell at a time *)

(* readn and writev take and give what there is until the frame is whole. *)
Take(actor, s, whole) ==
    /\ sock[s] # <<>>
    /\ sock' = [sock EXCEPT ![s] = Tail(@)]
    /\ count' = [count EXCEPT ![actor] = IF whole THEN 0 ELSE @ + 1]

Give(actor, s, f, whole) ==
    /\ Len(sock[s]) < SockCells
    /\ sock' = [sock EXCEPT ![s] = Append(@, f)]
    /\ count' = [count EXCEPT ![actor] = IF whole THEN 0 ELSE @ + 1]

Last(actor, f) == count[actor] + 1 = Size(f)

-----------------------------------------------------------------------------
(* Proxy_event_loop *)

Readable(s) == sock[s] # <<>> \/ s \in closed
Writable(s) == SockCells - Len(sock[s]) >= LowWater \/ s \in closed

Wants(h, rmask, wmask) ==
    \/ h = "hub_recv"      /\ "hub_in" \in rmask
    \/ h = "listener_send" /\ "client_out" \in wmask
    \/ h = "listener_recv" /\ "client_in" \in rmask
    \/ h = "hub_send"      /\ "hub_out" \in wmask

(* The first handler from number i on that has an event, or the next round. *)
Following(i, rmask, wmask) ==
    LET due == {j \in i .. 4 : Wants(Handlers[j], rmask, wmask)}
    IN  IF due = {} THEN "select" ELSE Handlers[CHOOSE j \in due : \A k \in due : j <= k]

(* Mutant: a frame is written without asking whether there is room. *)
Select_WritesUnasked ==
    /\ step = "select"
    /\ LET r == {s \in readset : Readable(s)}
           w == writeset
       IN  /\ r \union w # {}
           /\ readmask' = r /\ writemask' = w
           /\ step' = Following(1, r, w)
    /\ UNCHANGED <<sock, closed, readset, writeset, held, count, tasks, sent, got>>

Select ==
    /\ step = "select"
    /\ LET r == {s \in readset : Readable(s)}
           w == {s \in writeset : Writable(s)}
       IN  /\ r \union w # {}
           /\ readmask' = r /\ writemask' = w
           /\ step' = Following(1, r, w)
    /\ UNCHANGED <<sock, closed, readset, writeset, held, count, tasks, sent, got>>

(* The loop gives up: main destroys the proxy, which closes every socket.  *)
Fail ==
    /\ step' = "down"
    /\ closed' = Sockets
    /\ UNCHANGED <<sock, readset, writeset, readmask, writemask, held, count,
                   tasks, sent, got>>

(* Mutant: the FD_CLR of FD_SWAP is missing. *)
AfterRead_KeepsReading(to, from) ==
    /\ writeset' = writeset \union {to}
    /\ readset'  = readset

(* FD_SWAP after a read: wait to write, and read no more until then. *)
AfterRead(to, from) ==
    /\ writeset' = writeset \union {to}
    /\ readset'  = readset \ {from}

Receive(i, side, from, to) ==
    /\ step = Handlers[i]
    /\ \/ /\ sock[from] # <<>>
          /\ LET f == Head(sock[from])
             IN  /\ Take("loop", from, Last("loop", f))
                 /\ IF Last("loop", f)
                    THEN /\ held' = [held EXCEPT ![side] = f]
                         /\ AfterRead(to, from)
                         /\ step' = Following(i + 1, readmask, writemask)
                    ELSE UNCHANGED <<held, writeset, readset, step>>
          /\ UNCHANGED <<closed, readmask, writemask, tasks, sent, got>>
       \/ sock[from] = <<>> /\ from \in closed /\ Fail

(* writev to a peer that has gone fails. *)
Send(i, side, from, to) ==
    /\ step = Handlers[i]
    /\ \/ /\ to \notin closed
          /\ LET f == held[side]
             IN  /\ Give("loop", to, f, Last("loop", f))
                 /\ IF Last("loop", f)
                    THEN /\ held' = [held EXCEPT ![side] = 0]
                         /\ readset' = readset \union {from}
                         /\ writeset' = writeset \ {to}
                         /\ step' = Following(i + 1, readmask, writemask)
                    ELSE UNCHANGED <<held, writeset, readset, step>>
          /\ UNCHANGED <<closed, readmask, writemask, tasks, sent, got>>
       \/ to \in closed /\ Fail

Proxy_hub_recv      == Receive(1, "hub", "hub_in", "client_out")
Proxy_listener_send == Send(2, "hub", "hub_in", "client_out")
Proxy_listener_recv == Receive(3, "client", "client_in", "hub_out")
Proxy_hub_send      == Send(4, "client", "client_in", "hub_out")

Proxy_event_loop == Select \/ Proxy_hub_recv \/ Proxy_listener_send
                      \/ Proxy_listener_recv \/ Proxy_hub_send

-----------------------------------------------------------------------------
(* The hub's two tasks *)

(* ConnectionState_outgoing: a message is queued and the lock is free.  An  *)
(* unlock passes the lock on to the reader if it is waiting for it.         *)
HubLocksToSend ==
    /\ writer = "idle" /\ lock = "none" /\ sent["hub"] < MaxFrames
    /\ writer' = "sending" /\ lock' = "writer"
    /\ UNCHANGED <<sock, closed, loop, count, reader, sent, got>>

(* A failed send leaves the loop with the lock held. *)
HubSends ==
    /\ writer = "sending"
    /\ \/ /\ "hub_in" \notin closed
          /\ LET f == sent["hub"] + 1
             IN  /\ Give("hub_writer", "hub_in", f, Last("hub_writer", f))
                 /\ IF Last("hub_writer", f)
                    THEN /\ sent' = [sent EXCEPT !["hub"] = f]
                         /\ writer' = "idle"
                         /\ lock' = IF reader = "locking" THEN "reader" ELSE "none"
                    ELSE UNCHANGED <<sent, writer, lock>>
          /\ UNCHANGED <<closed, loop, reader, got>>
       \/ /\ "hub_in" \in closed
          /\ writer' = "gone"
          /\ UNCHANGED <<sock, closed, loop, count, reader, lock, sent, got>>

(* ConnectionState_incoming: a frame is read without the lock. *)
HubReads ==
    /\ reader = "reading"
    /\ \/ /\ sock["hub_out"] # <<>>
          /\ LET f == Head(sock["hub_out"])
             IN  /\ Take("hub_reader", "hub_out", Last("hub_reader", f))
                 /\ IF Last("hub_reader", f)
                    THEN /\ got' = [got EXCEPT !["hub"] = Append(@, f)]
                         /\ reader' = "locking"
                    ELSE UNCHANGED <<got, reader>>
          /\ UNCHANGED <<closed, loop, lock, writer, sent>>
       \/ /\ sock["hub_out"] = <<>> /\ "hub_out" \in closed
          /\ reader' = "gone"
          /\ UNCHANGED <<sock, closed, loop, count, lock, writer, sent, got>>

(* It is handled under the lock, and the lock released. *)
HubServices ==
    /\ reader = "locking" /\ lock \in {"none", "reader"}
    /\ reader' = "reading" /\ lock' = "none"
    /\ UNCHANGED <<sock, closed, loop, count, writer, sent, got>>

-----------------------------------------------------------------------------
(* The client, which reads and writes independently *)

ClientSends ==
    /\ sent["client"] < MaxFrames /\ "client_in" \notin closed
    /\ LET f == sent["client"] + 1
       IN  /\ Give("client_writer", "client_in", f, Last("client_writer", f))
           /\ sent' = IF Last("client_writer", f)
                      THEN [sent EXCEPT !["client"] = f] ELSE sent
    /\ UNCHANGED <<closed, loop, tasks, got>>

ClientReads ==
    /\ sock["client_out"] # <<>>
    /\ LET f == Head(sock["client_out"])
       IN  /\ Take("client_reader", "client_out", Last("client_reader", f))
           /\ got' = IF Last("client_reader", f)
                     THEN [got EXCEPT !["client"] = Append(@, f)] ELSE got
    /\ UNCHANGED <<closed, loop, tasks, sent>>

(* Either end may go away between two frames. *)
HubLeaves ==
    /\ "hub_in" \notin closed
    /\ count["hub_writer"] = 0 /\ writer = "idle" /\ lock = "none"
    /\ closed' = closed \union {"hub_in", "hub_out"}
    /\ UNCHANGED <<sock, loop, count, tasks, sent, got>>

ClientLeaves ==
    /\ "client_in" \notin closed /\ count["client_writer"] = 0
    /\ closed' = closed \union {"client_in", "client_out"}
    /\ UNCHANGED <<sock, loop, count, tasks, sent, got>>

Init ==
    /\ sock = [s \in Sockets |-> <<>>]
    /\ closed = {}
    /\ step = "select"
    /\ readset = {"hub_in", "client_in"} /\ writeset = {}
    /\ readmask = {} /\ writemask = {}
    /\ held = [e \in Ends |-> 0]
    /\ count = [a \in Actors |-> 0]
    /\ lock = "none" /\ reader = "reading" /\ writer = "idle"
    /\ sent = [e \in Ends |-> 0] /\ got = [e \in Ends |-> <<>>]

Next == Proxy_event_loop \/ HubLocksToSend \/ HubSends \/ HubReads
          \/ HubServices \/ ClientSends \/ ClientReads \/ HubLeaves \/ ClientLeaves

(* The loop, the hub's tasks and the client keep running; nobody has to      *)
(* leave.                                                                    *)
Spec == /\ Init /\ [][Next]_vars
        /\ WF_vars(Proxy_event_loop)
        /\ WF_vars(HubLocksToSend) /\ WF_vars(HubSends)
        /\ WF_vars(HubReads) /\ WF_vars(HubServices)
        /\ WF_vars(ClientSends) /\ WF_vars(ClientReads)

-----------------------------------------------------------------------------
(* The way of a frame sent by end e, from the last stage to the first. *)
Other(e) == IF e = "hub" THEN "client" ELSE "hub"
Cells(s) == {sock[s][i] : i \in 1 .. Len(sock[s])}
EnRoute(e) == {held[e]} \union
                  (IF e = "hub" THEN Cells("hub_in") \union Cells("client_out")
                                ELSE Cells("client_in") \union Cells("hub_out"))

(* NothingLost: each end receives the frames of the other in the order they *)
(* were sent, without gaps or repetitions, and while the event loop is up   *)
(* every frame sent and not yet received is in a socket or in its hands: a  *)
(* frame waiting in header[side] and body[side] is never overwritten by the *)
(* next one.                                                                *)
NothingLost ==
    \A e \in Ends :
        LET n == Len(got[Other(e)])
        IN  /\ got[Other(e)] = [i \in 1 .. n |-> i]
            /\ step # "down" => (n + 1) .. sent[e] \subseteq EnRoute(e)

(* Delivered: every frame a peer sends reaches the other, although the hub   *)
(* stops reading while it sends and the mendicant's single thread makes      *)
(* blocking calls: nobody waits for everybody.  Frames stay behind only when *)
(* the hub or the client has left, and then the event loop ends.             *)
Delivered ==
    \A e \in Ends, f \in 1 .. MaxFrames :
        sent[e] >= f ~> (Len(got[Other(e)]) >= f \/ step = "down")
=============================================================================
