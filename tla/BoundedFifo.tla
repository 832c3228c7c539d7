---------------------------- MODULE BoundedFifo ----------------------------
(***************************************************************************)
(* What a member's message queue promises (hub/queue.h): messages leave in *)
(* the order they were put in, none is dropped or repeated, at most        *)
(* Capacity wait, and the first one stays in place while its consumer      *)
(* works with it.  Once closed the queue is only emptied.                  *)
(***************************************************************************)
EXTENDS Naturals, Sequences

CONSTANTS Messages, Capacity, NULL

VARIABLES
  q,      \* the waiting messages, oldest first
  held,   \* the message lent to the consumer, or NULL
  open    \* FALSE once the queue is being destroyed

fifoVars == <<q, held, open>>

Init == q = <<>> /\ held = NULL /\ open = TRUE

Put(m) ==
  /\ open /\ Len(q) < Capacity
  /\ q' = Append(q, m)
  /\ UNCHANGED <<held, open>>

Borrow ==
  /\ open /\ held = NULL /\ q # <<>>
  /\ held' = Head(q)
  /\ UNCHANGED <<q, open>>

Remove ==
  /\ open /\ q # <<>> /\ held = Head(q)
  /\ q' = Tail(q)
  /\ held' = NULL
  /\ UNCHANGED open

GiveBack == held # NULL /\ held' = NULL /\ UNCHANGED <<q, open>>

Close == open /\ open' = FALSE /\ UNCHANGED <<q, held>>

Drain ==
  /\ ~open /\ q # <<>>
  /\ q' = Tail(q)
  /\ UNCHANGED <<held, open>>

Next ==
  (\E m \in Messages : Put(m)) \/ Borrow \/ Remove \/ GiveBack \/ Close \/ Drain

Spec == Init /\ [][Next]_fifoVars
=============================================================================
