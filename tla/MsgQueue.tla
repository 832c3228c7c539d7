------------------------------ MODULE MsgQueue ------------------------------
(***************************************************************************)
(* The queue of pending messages that a Member owns (hub/queue.c and       *)
(* hub/queue.h), with the calls hub/member.c makes on it.                  *)
(*                                                                         *)
(* The queue is a ring of Dim message pointers.  `i' is the next slot to   *)
(* read, `j' the next slot to write, and one slot stays unused so that     *)
(* i = j means empty.  Any task of the hub may send to the member; a       *)
(* single consumer, the connection's writer task, borrows the first        *)
(* message, sends it, and then deletes it.  Logging out marks the queue    *)
(* dead, wakes the consumer and destroys the queue.                        *)
(*                                                                         *)
(* Tasks are cooperative coroutines, so a call runs without interruption   *)
(* up to the point where it sleeps; each action below is such a stretch.   *)
(***************************************************************************)
EXTENDS Integers, FiniteSets, Sequences

CONSTANTS
  Messages,   \* the messages that may be queued
  Dim,        \* the number of slots (MEMBER_MSG_QUEUE_LENGTH in the hub)
  NULL,       \* the null pointer
  Garbage     \* the contents of a slot that malloc returned and nobody set

ASSUME DimAssumption == Dim \in Nat \ {0}
ASSUME ValueAssumption ==
  NULL \notin Messages /\ Garbage \notin Messages /\ NULL # Garbage
ASSUME MessagesFinite == IsFiniteSet(Messages)

VARIABLES
  messages,   \* the slots of the ring
  i, j,       \* the read and the write index
  dead,       \* the flag MsgQueue_mark_dead sets
  phase,      \* "live", "draining" inside MsgQueue_destroy, then "freed"
  consumer,   \* where the consumer is, see ConsumerStates
  held,       \* the message MsgQueue_first returned and not yet deleted
  ref_count   \* ref_count[m]: references to m counted by Message_ref_inc

vars == <<messages, i, j, dead, phase, consumer, held, ref_count>>

Slots == 0 .. Dim-1

(***************************************************************************)
(* The consumer does not exist yet, is about to call MsgQueue_first,       *)
(* sleeps in MsgQueue_wait, has been woken but has not run yet, works on   *)
(* the first message, got NULL from MsgQueue_first and stopped, or failed  *)
(* to send and left.                                                       *)
(***************************************************************************)
ConsumerStates ==
  {"none", "asking", "asleep", "woken", "holding", "stopped", "left"}

(***************************************************************************)
(* The type invariant.                                                     *)
(***************************************************************************)
TypeOK ==
  /\ messages \in [Slots -> Messages \cup {NULL, Garbage}]
  /\ i \in Slots /\ j \in Slots
  /\ dead \in BOOLEAN
  /\ phase \in {"live", "draining", "freed"}
  /\ consumer \in ConsumerStates
  /\ held \in Messages \cup {NULL}
  /\ ref_count \in [Messages -> Nat]

-----------------------------------------------------------------------------
MsgQueue_is_empty == i = j
MsgQueue_is_full_NoWrap == i = j + 1
MsgQueue_is_full == i = (j + 1) % Dim
MsgQueue_get_first == messages[i]

(***************************************************************************)
(* The slots between i and j, and the messages in them, oldest first.      *)
(* These describe the ring; no call of the code computes them.             *)
(***************************************************************************)
InWindow(k) == IF i <= j THEN i <= k /\ k < j ELSE i <= k \/ k < j
Count == IF i <= j THEN j - i ELSE j - i + Dim
Wrap(k) == IF k < Dim THEN k ELSE k - Dim
Contents == [k \in 1..Count |-> messages[Wrap(i + k - 1)]]
SlotsHolding(m) == {k \in Slots : InWindow(k) /\ messages[k] = m}

MsgQueue_create ==
  /\ messages = [k \in Slots |-> Garbage]
  /\ i = 0 /\ j = 0
  /\ dead = FALSE

Init ==
  /\ MsgQueue_create
  /\ phase = "live"
  /\ consumer = "none"
  /\ held = NULL
  /\ ref_count = [m \in Messages |-> 0]

-----------------------------------------------------------------------------
(* taskwakeupall on read_wait makes the sleeping consumer ready.           *)
MsgQueue_wake_all_Missed == UNCHANGED consumer
MsgQueue_wake_all ==
  consumer' = IF consumer = "asleep" THEN "woken" ELSE consumer

MsgQueue_add_NoWrap(m) ==
  /\ messages' = [messages EXCEPT ![j] = m]
  /\ j' = j + 1
  /\ ref_count' = [ref_count EXCEPT ![m] = @ + 1]

MsgQueue_add_AdvanceFirst(m) ==
  /\ j' = (j + 1) % Dim
  /\ messages' = [messages EXCEPT ![j'] = m]
  /\ ref_count' = [ref_count EXCEPT ![m] = @ + 1]

MsgQueue_add(m) ==
  /\ messages' = [messages EXCEPT ![j] = m]
  /\ j' = (j + 1) % Dim
  /\ ref_count' = [ref_count EXCEPT ![m] = @ + 1]

(* A send to a full queue changes nothing: the caller gets 0 back.         *)
Member_send_msg(m) ==
  /\ phase = "live"
  /\ ~MsgQueue_is_full
  /\ MsgQueue_add(m)
  /\ MsgQueue_wake_all
  /\ UNCHANGED <<i, dead, phase, held>>

(***************************************************************************)
(* MsgQueue_delete, as the consumer and MsgQueue_destroy use it.  A null   *)
(* first slot leaves everything as it is, and so does an empty queue.      *)
(***************************************************************************)
MsgQueue_delete_NoRelease ==
  /\ ~MsgQueue_is_empty
  /\ messages' = [messages EXCEPT ![i] = NULL]
  /\ i' = (i + 1) % Dim
  /\ UNCHANGED ref_count

MsgQueue_delete_Stays ==
  /\ messages' = [messages EXCEPT ![i] = NULL]
  /\ UNCHANGED <<i, ref_count>>

MsgQueue_delete ==
  IF MsgQueue_is_empty \/ MsgQueue_get_first = NULL
    THEN UNCHANGED <<messages, i, ref_count>>
    ELSE /\ ref_count' = [ref_count EXCEPT ![MsgQueue_get_first] = @ - 1]
         /\ messages' = [messages EXCEPT ![i] = NULL]
         /\ i' = (i + 1) % Dim

(* The handshake is over and the writer task is created.                   *)
Established ==
  /\ phase = "live" /\ ~dead
  /\ consumer = "none"
  /\ consumer' = "asking"
  /\ UNCHANGED <<messages, i, j, dead, phase, held, ref_count>>

(* MsgQueue_first up to its return or to its sleep.                        *)
MsgQueue_first ==
  /\ phase = "live"
  /\ consumer = "asking"
  /\ IF dead
       THEN consumer' = "stopped" /\ UNCHANGED held
       ELSE IF MsgQueue_is_empty
              THEN consumer' = "asleep" /\ UNCHANGED held
              ELSE consumer' = "holding" /\ held' = MsgQueue_get_first
  /\ UNCHANGED <<messages, i, j, dead, phase, ref_count>>

(* MsgQueue_first from its wake-up on.                                     *)
MsgQueue_first_woken ==
  /\ phase = "live"
  /\ consumer = "woken"
  /\ IF dead \/ MsgQueue_is_empty
       THEN consumer' = "stopped" /\ UNCHANGED held
       ELSE consumer' = "holding" /\ held' = MsgQueue_get_first
  /\ UNCHANGED <<messages, i, j, dead, phase, ref_count>>

(* The consumer has sent the message it borrowed.                          *)
Member_delete_msg ==
  /\ phase = "live"
  /\ consumer = "holding"
  /\ MsgQueue_delete
  /\ consumer' = "asking"
  /\ held' = NULL
  /\ UNCHANGED <<j, dead, phase>>

(* The send failed: the writer leaves its loop and the message stays.      *)
Abandon ==
  /\ phase # "draining"
  /\ consumer = "holding"
  /\ consumer' = "left"
  /\ held' = NULL
  /\ UNCHANGED <<messages, i, j, dead, phase, ref_count>>

(* Member_logout up to its taskyield.                                      *)
Member_logout_NotDead ==
  /\ phase = "live"
  /\ ~dead
  /\ MsgQueue_wake_all
  /\ UNCHANGED <<messages, i, j, dead, phase, held, ref_count>>

Member_logout ==
  /\ phase = "live"
  /\ ~dead
  /\ dead' = TRUE
  /\ MsgQueue_wake_all
  /\ UNCHANGED <<messages, i, j, phase, held, ref_count>>

(***************************************************************************)
(* Member_logout after the yield calls MsgQueue_destroy.  The run queue is *)
(* first-in first-out, so a consumer that was ready or that the logout     *)
(* woke has run by then and has seen that the queue is dead.               *)
(***************************************************************************)
MsgQueue_destroy ==
  /\ phase = "live"
  /\ dead
  /\ consumer \notin {"asking", "woken"}
  /\ phase' = "draining"
  /\ UNCHANGED <<messages, i, j, dead, consumer, held, ref_count>>

MsgQueue_destroy_loop ==
  /\ phase = "draining"
  /\ IF MsgQueue_is_empty
       THEN phase' = "freed" /\ UNCHANGED <<messages, i, ref_count>>
       ELSE UNCHANGED phase /\ MsgQueue_delete
  /\ UNCHANGED <<j, dead, consumer, held>>

Next ==
  \/ \E m \in Messages : Member_send_msg(m)
  \/ Established
  \/ MsgQueue_first
  \/ MsgQueue_first_woken
  \/ Member_delete_msg
  \/ Abandon
  \/ Member_logout
  \/ MsgQueue_destroy
  \/ MsgQueue_destroy_loop

(***************************************************************************)
(* A ready task runs eventually, so the consumer's calls of MsgQueue_first *)
(* and the rest of a logout are fair.  Sending to the client may block for *)
(* ever, so Member_delete_msg and Abandon are not.                         *)
(***************************************************************************)
Fairness ==
  /\ WF_vars(MsgQueue_first)
  /\ WF_vars(MsgQueue_first_woken)
  /\ WF_vars(MsgQueue_destroy)
  /\ WF_vars(MsgQueue_destroy_loop)

Spec == Init /\ [][Next]_vars /\ Fairness
-----------------------------------------------------------------------------
(* Every slot from i up to j holds a message, never NULL and never what    *)
(* malloc left there.  MsgQueue_delete returns without advancing when it   *)
(* meets NULL, so without this MsgQueue_destroy would loop for ever.       *)
WindowHoldsMessages == \A k \in Slots : InWindow(k) => messages[k] \in Messages

(* The references the queue took with Message_ref_inc are exactly the      *)
(* slots in use: no message in the ring has been freed, and destroying the *)
(* queue gives every reference back.                                       *)
RefsMatchSlots ==
  \A m \in Messages : ref_count[m] = Cardinality(SlotsHolding(m))

(* The message the writer borrowed with MsgQueue_first is still the first  *)
(* one, and so still referenced, however many sends happen meanwhile.      *)
HeldIsFirst ==
  consumer = "holding" /\ phase = "live" =>
    ~MsgQueue_is_empty /\ held = MsgQueue_get_first

(* MsgQueue_first "blocks until a message is available or the queue is     *)
(* marked dead" (hub/queue.h): with the single consumer of the hub it      *)
(* returns NULL only for a dead queue, although it never sleeps twice.     *)
NullOnlyWhenDead == consumer = "stopped" => dead

(* Sleeping and waking miss nobody: the consumer sleeps only while there   *)
(* is neither a message nor a logout for it.                               *)
AsleepOnlyWhenIdle ==
  consumer = "asleep" => MsgQueue_is_empty /\ ~dead

(* A consumer that wants a message gets the one that is there, or is told  *)
(* that the member logged out: no wake-up is lost.                         *)
MessageIsServed ==
  (~MsgQueue_is_empty /\ consumer \in {"asking", "asleep", "woken"})
    ~> (consumer \in {"holding", "stopped"})

(* Member_logout gets through MsgQueue_destroy: the drain loop ends.       *)
LogoutCompletes == dead ~> phase = "freed"

(* The ring is a bounded first-in first-out queue of Dim-1 messages.       *)
Fifo == INSTANCE BoundedFifo
          WITH q <- Contents, Capacity <- Dim - 1, open <- phase = "live"
FifoSpec == Fifo!Spec
=============================================================================
