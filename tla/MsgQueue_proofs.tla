-------------------------- MODULE MsgQueue_proofs --------------------------
(***************************************************************************)
(* Proofs about MsgQueue, for every number of slots and every finite set   *)
(* of messages.  IInv is the inductive invariant; the refinement of        *)
(* BoundedFifo rests on it.                                                *)
(***************************************************************************)
EXTENDS MsgQueue, FiniteSetTheorems, TLAPS

(* The index after k: (k + 1) % Dim without the remainder.                 *)
After(k) == IF k + 1 = Dim THEN 0 ELSE k + 1

(* The remainder in MsgQueue_add, MsgQueue_delete and MsgQueue_is_full is  *)
(* a step to the next slot that wraps around after the last one.           *)
LEMMA NextSlot ==
  ASSUME NEW k \in Slots
  PROVE  (k + 1) % Dim = After(k) /\ After(k) \in Slots
<1>1. k + 1 < Dim => (k + 1) % Dim = k + 1
  BY DimAssumption DEF Slots
<1>2. k + 1 = Dim => (k + 1) % Dim = 0
  BY DimAssumption DEF Slots
<1>3. QED
  BY <1>1, <1>2, DimAssumption DEF Slots, After
-----------------------------------------------------------------------------
(* A consumer that has been woken, and will return NULL from an empty      *)
(* queue, finds a message or a logout: nobody else removes messages.       *)
WokenForAReason == consumer = "woken" => dead \/ ~MsgQueue_is_empty

(* The consumer has a message exactly while it works on one.               *)
HeldWhileHolding == consumer = "holding" <=> held # NULL

(* MsgQueue_destroy begins only after Member_logout marked the queue dead, *)
(* and after the consumer saw it.                                          *)
DestroyedAfterDead ==
  phase # "live" => dead /\ consumer \notin {"asking", "asleep", "woken"}

IInv ==
  /\ TypeOK
  /\ WindowHoldsMessages
  /\ RefsMatchSlots
  /\ HeldIsFirst
  /\ NullOnlyWhenDead
  /\ AsleepOnlyWhenIdle
  /\ WokenForAReason
  /\ HeldWhileHolding
  /\ DestroyedAfterDead

-----------------------------------------------------------------------------
(* Slots is finite, and so is every set of slots.                          *)
LEMMA SlotsFinite ==
  IsFiniteSet(Slots) /\ \A S \in SUBSET Slots : IsFiniteSet(S)
<1>1. IsFiniteSet(Slots)
  BY FS_Interval, DimAssumption DEF Slots
<1>2. QED
  BY <1>1, FS_Subset, Zenon

(* What MsgQueue_add does to the window: the slot at j joins it, the other *)
(* slots stay as they were, and the queue is no longer empty.              *)
LEMMA AddWindow ==
  ASSUME TypeOK, ~MsgQueue_is_full, NEW m \in Messages, MsgQueue_add(m),
         i' = i
  PROVE  /\ ~InWindow(j)
         /\ \A k \in Slots : InWindow(k)' <=> InWindow(k) \/ k = j
         /\ \A k \in Slots : k # j => messages'[k] = messages[k]
         /\ messages'[j] = m
         /\ i' # j'
         /\ j' \in Slots
<1>1. i \in Slots /\ j \in Slots /\ Dim \in Nat \ {0}
  BY DimAssumption, Zenon DEF TypeOK
<1>2. j' = After(j) /\ i # After(j)
  BY <1>1, NextSlot, Zenon DEF MsgQueue_add, MsgQueue_is_full
<1>3. QED
  BY <1>1, <1>2 DEF TypeOK, MsgQueue_add, InWindow, After, Slots

(* What MsgQueue_delete does to the window of a queue that is not empty:   *)
(* the slot at i leaves it and the other slots stay as they were.          *)
LEMMA DeleteWindow ==
  ASSUME TypeOK, WindowHoldsMessages, ~MsgQueue_is_empty, MsgQueue_delete,
         j' = j
  PROVE  /\ InWindow(i)
         /\ messages[i] \in Messages
         /\ \A k \in Slots : InWindow(k)' <=> InWindow(k) /\ k # i
         /\ \A k \in Slots : k # i => messages'[k] = messages[k]
         /\ ref_count' = [ref_count EXCEPT ![messages[i]] = @ - 1]
         /\ messages' \in [Slots -> Messages \cup {NULL, Garbage}]
         /\ i' \in Slots
<1>1. i \in Slots /\ j \in Slots /\ i # j /\ Dim \in Nat \ {0}
  BY DimAssumption, Zenon DEF TypeOK, MsgQueue_is_empty
<1>2. InWindow(i)
  BY <1>1 DEF InWindow, Slots
<1>3. messages[i] \in Messages /\ messages[i] # NULL
  BY <1>1, <1>2, ValueAssumption, Zenon DEF WindowHoldsMessages
<1>4. /\ i' = After(i)
      /\ messages' = [messages EXCEPT ![i] = NULL]
      /\ ref_count' = [ref_count EXCEPT ![messages[i]] = @ - 1]
  BY <1>1, <1>3, NextSlot, Zenon
     DEF MsgQueue_delete, MsgQueue_is_empty, MsgQueue_get_first
<1>5. \A k \in Slots : InWindow(k)' <=> InWindow(k) /\ k # i
  BY <1>1, <1>4 DEF InWindow, After, Slots
<1>6. /\ \A k \in Slots : k # i => messages'[k] = messages[k]
      /\ messages' \in [Slots -> Messages \cup {NULL, Garbage}]
      /\ i' \in Slots
  BY <1>1, <1>4, NextSlot, Zenon DEF TypeOK
<1>7. QED
  BY <1>2, <1>3, <1>4, <1>5, <1>6, Zenon
-----------------------------------------------------------------------------
(* MsgQueue_add takes the one reference that its new slot accounts for.    *)
LEMMA AddRefs ==
  ASSUME TypeOK, RefsMatchSlots, ~MsgQueue_is_full,
         NEW m \in Messages, MsgQueue_add(m), i' = i
  PROVE  RefsMatchSlots' /\ ref_count' \in [Messages -> Nat]
<1>1. /\ ~InWindow(j)
      /\ \A k \in Slots : InWindow(k)' <=> InWindow(k) \/ k = j
      /\ \A k \in Slots : k # j => messages'[k] = messages[k]
      /\ messages'[j] = m
  BY AddWindow, Zenon
<1>2. j \in Slots /\ ref_count \in [Messages -> Nat]
  BY Zenon DEF TypeOK
<1>3. ref_count' = [ref_count EXCEPT ![m] = @ + 1]
  BY Zenon DEF MsgQueue_add
<1>4. ref_count' \in [Messages -> Nat]
  BY <1>2, <1>3
<1>5. ASSUME NEW n \in Messages
      PROVE  ref_count'[n] = Cardinality(SlotsHolding(n)')
  <2>1. ref_count[n] = Cardinality(SlotsHolding(n))
    BY Zenon DEF RefsMatchSlots
  <2>2. IsFiniteSet(SlotsHolding(n))
    BY SlotsFinite, Zenon DEF SlotsHolding
  <2>3. CASE n = m
    <3>1. SlotsHolding(n)' = SlotsHolding(n) \cup {j} /\ j \notin SlotsHolding(n)
      BY <1>1, <1>2, <2>3, Zenon DEF SlotsHolding
    <3>2. Cardinality(SlotsHolding(n) \cup {j}) = Cardinality(SlotsHolding(n)) + 1
      BY <2>2, <3>1, FS_AddElement, Zenon
    <3>3. ref_count'[n] = ref_count[n] + 1
      BY <1>2, <1>3, <2>3, Zenon
    <3>4. QED
      BY <2>1, <3>1, <3>2, <3>3, Zenon
  <2>4. CASE n # m
    <3>1. SlotsHolding(n)' = SlotsHolding(n)
      BY <1>1, <1>2, <2>4, Zenon DEF SlotsHolding
    <3>2. ref_count'[n] = ref_count[n]
      BY <1>2, <1>3, <2>4, Zenon
    <3>3. QED
      BY <2>1, <3>1, <3>2, Zenon
  <2>5. QED
    BY <2>3, <2>4, Zenon
<1>6. QED
  BY <1>4, <1>5, Zenon DEF RefsMatchSlots

(* MsgQueue_delete gives back the one reference of the slot it clears.     *)
LEMMA DeleteRefs ==
  ASSUME TypeOK, WindowHoldsMessages, RefsMatchSlots, ~MsgQueue_is_empty,
         MsgQueue_delete, j' = j
  PROVE  RefsMatchSlots' /\ ref_count' \in [Messages -> Nat]
<1> DEFINE m == messages[i]
<1>1. /\ InWindow(i)
      /\ m \in Messages
      /\ \A k \in Slots : InWindow(k)' <=> InWindow(k) /\ k # i
      /\ \A k \in Slots : k # i => messages'[k] = messages[k]
      /\ ref_count' = [ref_count EXCEPT ![m] = @ - 1]
  BY DeleteWindow, Zenon
<1>2. i \in Slots /\ ref_count \in [Messages -> Nat]
  BY Zenon DEF TypeOK
<1>3. ASSUME NEW n \in Messages
      PROVE  ref_count'[n] = Cardinality(SlotsHolding(n)')
  <2>1. ref_count[n] = Cardinality(SlotsHolding(n))
    BY Zenon DEF RefsMatchSlots
  <2>2. IsFiniteSet(SlotsHolding(n))
    BY SlotsFinite, Zenon DEF SlotsHolding
  <2>3. CASE n = m
    <3>1. SlotsHolding(n)' = SlotsHolding(n) \ {i} /\ i \in SlotsHolding(n)
      BY <1>1, <1>2, <2>3, Zenon DEF SlotsHolding
    <3>2. Cardinality(SlotsHolding(n) \ {i}) = Cardinality(SlotsHolding(n)) - 1
      BY <2>2, <3>1, FS_RemoveElement, Zenon
    <3>3. ref_count'[n] = ref_count[n] - 1
      BY <1>1, <1>2, <2>3, Zenon
    <3>4. QED
      BY <2>1, <3>1, <3>2, <3>3, Zenon
  <2>4. CASE n # m
    <3>1. SlotsHolding(n)' = SlotsHolding(n)
      BY <1>1, <1>2, <2>4, Zenon DEF SlotsHolding
    <3>2. ref_count'[n] = ref_count[n]
      BY <1>1, <1>2, <2>4, Zenon
    <3>3. QED
      BY <2>1, <3>1, <3>2, Zenon
  <2>5. QED
    BY <2>3, <2>4, Zenon
<1>4. \A n \in Messages : Cardinality(SlotsHolding(n)') \in Nat
  <2>1. \A n \in Messages : SlotsHolding(n)' \in SUBSET Slots
    BY Zenon DEF SlotsHolding
  <2>2. QED
    BY <2>1, SlotsFinite, FS_CardinalityType, Zenon
<1>5. ref_count' \in [Messages -> Nat]
  BY <1>1, <1>2, <1>3, <1>4
<1>6. QED
  BY <1>3, <1>5, Zenon DEF RefsMatchSlots
-----------------------------------------------------------------------------
(* A new queue satisfies the invariant.                                    *)
LEMMA InitInv == Init => IInv
<1> SUFFICES ASSUME Init PROVE IInv
  BY Zenon
<1>1. TypeOK
  <2>1. 0 \in Slots
    BY DimAssumption DEF Slots
  <2>2. messages \in [Slots -> Messages \cup {NULL, Garbage}]
    BY Zenon DEF Init, MsgQueue_create
  <2>3. ref_count \in [Messages -> Nat]
    BY Zenon DEF Init
  <2>4. QED
    BY <2>1, <2>2, <2>3, Zenon DEF Init, MsgQueue_create, TypeOK, ConsumerStates
<1>2. \A k \in Slots : ~InWindow(k)
  BY DEF Init, MsgQueue_create, InWindow, Slots
<1>3. WindowHoldsMessages
  BY <1>2, Zenon DEF WindowHoldsMessages
<1>4. RefsMatchSlots
  <2>1. \A m \in Messages : SlotsHolding(m) = {}
    BY <1>2, Zenon DEF SlotsHolding
  <2>2. QED
    BY <2>1, FS_EmptySet, Zenon DEF RefsMatchSlots, Init
<1>5. QED
  BY <1>1, <1>3, <1>4, Zenon
     DEF IInv, Init, MsgQueue_create, HeldIsFirst, NullOnlyWhenDead,
         AsleepOnlyWhenIdle, WokenForAReason, HeldWhileHolding,
         DestroyedAfterDead

(* Steps that leave the ring and the references alone keep the conjuncts   *)
(* that are about them.                                                    *)
LEMMA RingUnchanged ==
  ASSUME WindowHoldsMessages, RefsMatchSlots,
         UNCHANGED <<messages, i, j, ref_count>>
  PROVE  WindowHoldsMessages' /\ RefsMatchSlots'
<1>1. \A k : InWindow(k)' <=> InWindow(k)
  BY Zenon DEF InWindow
<1>2. \A m : SlotsHolding(m)' = SlotsHolding(m)
  BY <1>1, Zenon DEF SlotsHolding
<1>3. QED
  BY <1>1, <1>2, Zenon DEF WindowHoldsMessages, RefsMatchSlots

(* Sending a message keeps the invariant.                                  *)
LEMMA SendInv ==
  ASSUME IInv, NEW m \in Messages, Member_send_msg(m)
  PROVE  IInv'
<1>1. /\ TypeOK /\ WindowHoldsMessages /\ RefsMatchSlots
      /\ MsgQueue_add(m) /\ ~MsgQueue_is_full /\ i' = i /\ phase = "live"
      /\ UNCHANGED <<dead, phase, held>> /\ MsgQueue_wake_all
  BY Zenon DEF IInv, Member_send_msg
<1>2. /\ ~InWindow(j)
      /\ \A k \in Slots : InWindow(k)' <=> InWindow(k) \/ k = j
      /\ \A k \in Slots : k # j => messages'[k] = messages[k]
      /\ messages'[j] = m
      /\ i' # j'
      /\ j' \in Slots
  BY <1>1, AddWindow, Zenon
<1>3. RefsMatchSlots' /\ ref_count' \in [Messages -> Nat]
  BY <1>1, AddRefs, Zenon
<1>4. TypeOK'
  BY <1>1, <1>2, <1>3, Zenon
     DEF TypeOK, MsgQueue_add, MsgQueue_wake_all, ConsumerStates
<1>5. WindowHoldsMessages'
  BY <1>1, <1>2, Zenon DEF WindowHoldsMessages, TypeOK
<1>6. HeldIsFirst'
  BY <1>1, <1>2, Zenon
     DEF IInv, TypeOK, HeldIsFirst, MsgQueue_is_empty, MsgQueue_get_first,
         MsgQueue_wake_all
<1>7. /\ NullOnlyWhenDead' /\ AsleepOnlyWhenIdle' /\ WokenForAReason'
      /\ HeldWhileHolding' /\ DestroyedAfterDead'
  BY <1>1, <1>2, Zenon
     DEF IInv, NullOnlyWhenDead, AsleepOnlyWhenIdle, WokenForAReason,
         HeldWhileHolding, DestroyedAfterDead, MsgQueue_is_empty,
         MsgQueue_wake_all
<1>8. QED
  BY <1>3, <1>4, <1>5, <1>6, <1>7, Zenon DEF IInv

(* Deleting the first message keeps the conjuncts about the ring, for the  *)
(* consumer and for MsgQueue_destroy alike.                                *)
LEMMA DeleteRing ==
  ASSUME TypeOK, WindowHoldsMessages, RefsMatchSlots, MsgQueue_delete, j' = j
  PROVE  /\ WindowHoldsMessages' /\ RefsMatchSlots'
         /\ messages' \in [Slots -> Messages \cup {NULL, Garbage}]
         /\ i' \in Slots
         /\ ref_count' \in [Messages -> Nat]
<1>1. CASE MsgQueue_is_empty
  <2>1. UNCHANGED <<messages, i, j, ref_count>>
    BY <1>1, Zenon DEF MsgQueue_delete
  <2>2. QED
    BY <2>1, RingUnchanged, Zenon DEF TypeOK
<1>2. CASE ~MsgQueue_is_empty
  <2>1. RefsMatchSlots' /\ ref_count' \in [Messages -> Nat]
    BY <1>2, DeleteRefs, Zenon
  <2>2. /\ \A k \in Slots : InWindow(k)' <=> InWindow(k) /\ k # i
        /\ \A k \in Slots : k # i => messages'[k] = messages[k]
        /\ messages' \in [Slots -> Messages \cup {NULL, Garbage}]
        /\ i' \in Slots
    BY <1>2, DeleteWindow, Zenon
  <2>3. WindowHoldsMessages'
    BY <2>2, Zenon DEF WindowHoldsMessages
  <2>4. QED
    BY <2>1, <2>2, <2>3, Zenon
<1>3. QED
  BY <1>1, <1>2, Zenon

(* The steps of the consumer and of a logout that do not move an index.    *)
LEMMA QuietInv ==
  ASSUME IInv,
         \/ Established \/ MsgQueue_first \/ MsgQueue_first_woken
         \/ Abandon \/ Member_logout \/ MsgQueue_destroy
  PROVE  IInv'
<1>1. TypeOK /\ WindowHoldsMessages /\ RefsMatchSlots
  BY Zenon DEF IInv
<1>2. UNCHANGED <<messages, i, j, ref_count>>
  BY Zenon DEF Established, MsgQueue_first, MsgQueue_first_woken, Abandon,
         Member_logout, MsgQueue_destroy
<1>3. WindowHoldsMessages' /\ RefsMatchSlots'
  BY <1>1, <1>2, RingUnchanged, Zenon
<1>4. ~MsgQueue_is_empty => messages[i] \in Messages /\ messages[i] # NULL
  <2>1. ~MsgQueue_is_empty => i \in Slots /\ InWindow(i)
    BY <1>1 DEF TypeOK, MsgQueue_is_empty, InWindow, Slots
  <2>2. QED
    BY <1>1, <2>1, ValueAssumption, Zenon DEF WindowHoldsMessages
<1>5. CASE Established
  BY <1>1, <1>2, <1>3, <1>5, Zenon
     DEF IInv, TypeOK, ConsumerStates, Established, HeldIsFirst,
         NullOnlyWhenDead, AsleepOnlyWhenIdle, WokenForAReason,
         HeldWhileHolding, DestroyedAfterDead, MsgQueue_is_empty,
         MsgQueue_get_first
<1>6. CASE MsgQueue_first
  BY <1>1, <1>2, <1>3, <1>4, <1>6, Zenon
     DEF IInv, TypeOK, ConsumerStates, MsgQueue_first, HeldIsFirst,
         NullOnlyWhenDead, AsleepOnlyWhenIdle, WokenForAReason,
         HeldWhileHolding, DestroyedAfterDead, MsgQueue_is_empty,
         MsgQueue_get_first
<1>7. CASE MsgQueue_first_woken
  BY <1>1, <1>2, <1>3, <1>4, <1>7, Zenon
     DEF IInv, TypeOK, ConsumerStates, MsgQueue_first_woken, HeldIsFirst,
         NullOnlyWhenDead, AsleepOnlyWhenIdle, WokenForAReason,
         HeldWhileHolding, DestroyedAfterDead, MsgQueue_is_empty,
         MsgQueue_get_first
<1>8. CASE Abandon
  BY <1>1, <1>2, <1>3, <1>8, Zenon
     DEF IInv, TypeOK, ConsumerStates, Abandon, HeldIsFirst,
         NullOnlyWhenDead, AsleepOnlyWhenIdle, WokenForAReason,
         HeldWhileHolding, DestroyedAfterDead, MsgQueue_is_empty,
         MsgQueue_get_first
<1>9. CASE Member_logout
  BY <1>1, <1>2, <1>3, <1>9, Zenon
     DEF IInv, TypeOK, ConsumerStates, Member_logout, MsgQueue_wake_all,
         HeldIsFirst, NullOnlyWhenDead, AsleepOnlyWhenIdle, WokenForAReason,
         HeldWhileHolding, DestroyedAfterDead, MsgQueue_is_empty,
         MsgQueue_get_first
<1>10. CASE MsgQueue_destroy
  BY <1>1, <1>2, <1>3, <1>10, Zenon
     DEF IInv, TypeOK, ConsumerStates, MsgQueue_destroy, HeldIsFirst,
         NullOnlyWhenDead, AsleepOnlyWhenIdle, WokenForAReason,
         HeldWhileHolding, DestroyedAfterDead, MsgQueue_is_empty,
         MsgQueue_get_first
<1>11. QED
  BY <1>5, <1>6, <1>7, <1>8, <1>9, <1>10, Zenon

(* Deleting by the consumer, and the loop of MsgQueue_destroy.             *)
LEMMA RemoveInv ==
  ASSUME IInv, Member_delete_msg \/ MsgQueue_destroy_loop
  PROVE  IInv'
<1>1. TypeOK /\ WindowHoldsMessages /\ RefsMatchSlots /\ j' = j
  BY Zenon DEF IInv, Member_delete_msg, MsgQueue_destroy_loop
<1>2. CASE Member_delete_msg
  <2>1. /\ WindowHoldsMessages' /\ RefsMatchSlots'
        /\ messages' \in [Slots -> Messages \cup {NULL, Garbage}]
        /\ i' \in Slots
        /\ ref_count' \in [Messages -> Nat]
    BY <1>1, <1>2, DeleteRing, Zenon DEF Member_delete_msg
  <2>2. QED
    BY <1>1, <1>2, <2>1, Zenon
       DEF IInv, TypeOK, ConsumerStates, Member_delete_msg, HeldIsFirst,
           NullOnlyWhenDead, AsleepOnlyWhenIdle, WokenForAReason,
           HeldWhileHolding, DestroyedAfterDead
<1>3. CASE MsgQueue_destroy_loop
  <2>1. /\ WindowHoldsMessages' /\ RefsMatchSlots'
        /\ messages' \in [Slots -> Messages \cup {NULL, Garbage}]
        /\ i' \in Slots
        /\ ref_count' \in [Messages -> Nat]
    <3>1. CASE MsgQueue_is_empty
      BY <1>1, <1>3, <3>1, RingUnchanged, Zenon DEF MsgQueue_destroy_loop, TypeOK
    <3>2. CASE ~MsgQueue_is_empty
      BY <1>1, <1>3, <3>2, DeleteRing, Zenon DEF MsgQueue_destroy_loop
    <3>3. QED
      BY <3>1, <3>2, Zenon
  <2>2. phase' \in {"draining", "freed"} /\ phase = "draining"
    BY <1>3, Zenon DEF MsgQueue_destroy_loop
  <2>3. QED
    BY <1>1, <1>3, <2>1, <2>2, Zenon
       DEF IInv, TypeOK, MsgQueue_destroy_loop, HeldIsFirst,
           NullOnlyWhenDead, AsleepOnlyWhenIdle, WokenForAReason,
           HeldWhileHolding, DestroyedAfterDead
<1>4. QED
  BY <1>2, <1>3, Zenon

(* Every step keeps the invariant.                                         *)
LEMMA NextInv == IInv /\ [Next]_vars => IInv'
<1> SUFFICES ASSUME IInv, [Next]_vars PROVE IInv'
  BY Zenon
<1>1. CASE UNCHANGED vars
  <2>1. WindowHoldsMessages' /\ RefsMatchSlots'
    BY <1>1, RingUnchanged, Zenon DEF IInv, vars
  <2>2. QED
    BY <1>1, <2>1, Zenon
       DEF vars, IInv, TypeOK, HeldIsFirst, NullOnlyWhenDead,
           AsleepOnlyWhenIdle, WokenForAReason, HeldWhileHolding,
           DestroyedAfterDead, MsgQueue_is_empty, MsgQueue_get_first
<1>2. ASSUME NEW m \in Messages, Member_send_msg(m) PROVE IInv'
  BY <1>2, SendInv, Zenon
<1>3. QED
  BY <1>1, <1>2, QuietInv, RemoveInv, Zenon DEF Next

-----------------------------------------------------------------------------
(* The ring invariant holds in every state of every behaviour.             *)
THEOREM Invariance == Spec => []IInv
<1>1. QED
  BY InitInv, NextInv, PTL DEF Spec

(* The type invariant that the model checker evaluates.                    *)
THEOREM TypeCorrect == Spec => []TypeOK
<1>1. IInv => TypeOK
  BY Zenon DEF IInv
<1>2. QED
  BY <1>1, Invariance, PTL

(* MsgQueue_delete never meets NULL or an unset slot inside the window.    *)
THEOREM WindowIsFilled == Spec => []WindowHoldsMessages
<1>1. IInv => WindowHoldsMessages
  BY Zenon DEF IInv
<1>2. QED
  BY <1>1, Invariance, PTL

(* Message_ref_inc and Message_ref_dec balance, for every message.         *)
THEOREM ReferencesBalance == Spec => []RefsMatchSlots
<1>1. IInv => RefsMatchSlots
  BY Zenon DEF IInv
<1>2. QED
  BY <1>1, Invariance, PTL

(* The message lent to the writer stays first while the queue lives.       *)
THEOREM BorrowedStaysFirst == Spec => []HeldIsFirst
<1>1. IInv => HeldIsFirst
  BY Zenon DEF IInv
<1>2. QED
  BY <1>1, Invariance, PTL

(* MsgQueue_first returns NULL for a dead queue only.                      *)
THEOREM NullMeansDead == Spec => []NullOnlyWhenDead
<1>1. IInv => NullOnlyWhenDead
  BY Zenon DEF IInv
<1>2. QED
  BY <1>1, Invariance, PTL

(* Nobody sleeps on a message or on a logout.                              *)
THEOREM NobodyOversleeps == Spec => []AsleepOnlyWhenIdle
<1>1. IInv => AsleepOnlyWhenIdle
  BY Zenon DEF IInv
<1>2. QED
  BY <1>1, Invariance, PTL

-----------------------------------------------------------------------------
(* The ring read as a sequence of Count messages that starts at slot i.    *)
RingIsSequence ==
  /\ Count \in 0 .. Dim-1
  /\ Contents \in Seq(Messages)
  /\ Len(Contents) = Count
  /\ MsgQueue_is_empty <=> Contents = <<>>
  /\ ~MsgQueue_is_empty => Head(Contents) = messages[i]

(* The messages in the ring are that sequence whenever the invariant holds. *)
LEMMA ContentsFacts == IInv => RingIsSequence
<1> SUFFICES ASSUME IInv PROVE RingIsSequence
  BY Zenon
<1>1. TypeOK /\ WindowHoldsMessages /\ Dim \in Nat \ {0}
  BY DimAssumption, Zenon DEF IInv
<1>2. i \in Slots /\ j \in Slots
  BY <1>1, Zenon DEF TypeOK
<1>3. Count \in 0 .. Dim-1
  BY <1>1, <1>2 DEF Count, Slots
<1>4. \A k \in 1..Count : Wrap(i + k - 1) \in Slots /\ InWindow(Wrap(i + k - 1))
  BY <1>1, <1>2 DEF Count, Slots, Wrap, InWindow
<1>5. \A k \in 1..Count : messages[Wrap(i + k - 1)] \in Messages
  BY <1>1, <1>4, Zenon DEF WindowHoldsMessages
<1>6. Contents \in Seq(Messages) /\ Len(Contents) = Count
  BY <1>3, <1>5 DEF Contents
<1>7. MsgQueue_is_empty <=> Count = 0
  BY <1>1, <1>2 DEF MsgQueue_is_empty, Count, Slots
<1>8. Count # 0 => Contents[1] = messages[i]
  BY <1>1, <1>2, <1>3 DEF Contents, Wrap, Slots
<1>9. QED
  BY <1>3, <1>6, <1>7, <1>8 DEF RingIsSequence

(* The same fact about the next state.                                     *)
LEMMA ContentsPrimed == IInv' => RingIsSequence'
<1>1. QED
  BY ContentsFacts, PTL

(* MsgQueue_add appends, and a queue that is not full has room for it.     *)
LEMMA AddAppends ==
  ASSUME IInv, IInv', ~MsgQueue_is_full, NEW m \in Messages,
         MsgQueue_add(m), i' = i
  PROVE  Contents' = Append(Contents, m) /\ Len(Contents) < Dim - 1
<1>1. /\ i \in Slots /\ j \in Slots /\ Dim \in Nat \ {0}
      /\ messages \in [Slots -> Messages \cup {NULL, Garbage}]
  BY DimAssumption, Zenon DEF IInv, TypeOK
<1>2. j' = After(j) /\ i # After(j) /\ messages' = [messages EXCEPT ![j] = m]
  BY <1>1, NextSlot, Zenon DEF MsgQueue_add, MsgQueue_is_full
<1>3. Count' = Count + 1 /\ Count < Dim - 1 /\ Count \in Nat
  BY <1>1, <1>2 DEF Count, After, Slots
<1>4. Wrap(i + Count) = j
  BY <1>1 DEF Count, Wrap, Slots
<1>5. \A k \in 1..Count : Wrap(i + k - 1) \in Slots /\ Wrap(i + k - 1) # j
  BY <1>1, <1>3 DEF Count, Wrap, Slots
<1>6. \A k \in 1..Count : Contents'[k] = Contents[k]
  BY <1>1, <1>2, <1>3, <1>5 DEF Contents, Wrap
<1>7. Contents'[Count + 1] = m
  BY <1>1, <1>2, <1>3, <1>4 DEF Contents, Wrap
<1>8. /\ Contents \in Seq(Messages) /\ Len(Contents) = Count
      /\ Contents' \in Seq(Messages) /\ Len(Contents') = Count'
  BY ContentsFacts, ContentsPrimed, Zenon DEF RingIsSequence
<1>9. QED
  BY <1>3, <1>6, <1>7, <1>8

(* MsgQueue_delete removes the head.                                       *)
LEMMA DeleteTails ==
  ASSUME IInv, IInv', ~MsgQueue_is_empty, MsgQueue_delete, j' = j
  PROVE  Contents' = Tail(Contents)
<1>1. /\ i \in Slots /\ j \in Slots /\ i # j /\ Dim \in Nat \ {0}
      /\ TypeOK /\ WindowHoldsMessages
  BY DimAssumption, Zenon DEF IInv, TypeOK, MsgQueue_is_empty
<1>2. messages[i] # NULL /\ \A k \in Slots : k # i => messages'[k] = messages[k]
  BY <1>1, DeleteWindow, ValueAssumption, Zenon
<1>3. i' = After(i)
  BY <1>1, <1>2, NextSlot, Zenon
     DEF MsgQueue_delete, MsgQueue_is_empty, MsgQueue_get_first
<1>4. Count' = Count - 1 /\ Count \in Nat \ {0}
  BY <1>1, <1>3 DEF Count, After, Slots
<1>5. \A k \in 1 .. Count-1 :
        /\ Wrap(i' + k - 1) = Wrap(i + (k + 1) - 1)
        /\ Wrap(i + (k + 1) - 1) \in Slots
        /\ Wrap(i + (k + 1) - 1) # i
  BY <1>1, <1>3 DEF Count, Wrap, After, Slots
<1>6. \A k \in 1 .. Count-1 : Contents'[k] = Contents[k + 1]
  BY <1>2, <1>4, <1>5 DEF Contents, Wrap
<1>7. /\ Contents \in Seq(Messages) /\ Len(Contents) = Count
      /\ Contents' \in Seq(Messages) /\ Len(Contents') = Count'
  BY ContentsFacts, ContentsPrimed, Zenon DEF RingIsSequence
<1>8. QED
  BY <1>4, <1>6, <1>7

(* Steps that leave the ring alone leave its contents alone.               *)
LEMMA ContentsUnchanged ==
  ASSUME UNCHANGED <<messages, i, j>>
  PROVE  Contents' = Contents
<1>1. QED
  BY Zenon DEF Contents, Count, Wrap

(* Each step of the ring is a step of the bounded queue or a stutter.      *)
LEMMA FifoStep ==
  ASSUME IInv, IInv', [Next]_vars
  PROVE  [Fifo!Next]_<<Contents, held, phase = "live">>
<1>0. /\ RingIsSequence
      /\ TypeOK /\ TypeOK'
      /\ HeldIsFirst /\ HeldWhileHolding
      /\ \A m \in Messages : m # NULL
  BY ContentsFacts, ValueAssumption, Zenon DEF IInv
<1>1. CASE UNCHANGED vars
  BY <1>1, ContentsUnchanged, Zenon DEF vars
<1>2. ASSUME NEW m \in Messages, Member_send_msg(m)
      PROVE  Fifo!Next
  <2>1. Contents' = Append(Contents, m) /\ Len(Contents) < Dim - 1
    BY <1>2, AddAppends, Zenon DEF Member_send_msg
  <2>2. Fifo!Put(m)
    BY <1>2, <2>1, Zenon DEF Member_send_msg, Fifo!Put
  <2>3. QED
    BY <2>2, Zenon DEF Fifo!Next
<1>3. CASE Established \/ Member_logout
  BY <1>3, ContentsUnchanged, Zenon DEF Established, Member_logout
<1>4. ASSUME MsgQueue_first \/ MsgQueue_first_woken
      PROVE  [Fifo!Next]_<<Contents, held, phase = "live">>
  <2>1. Contents' = Contents /\ phase' = phase /\ phase = "live"
    BY <1>4, ContentsUnchanged, Zenon DEF MsgQueue_first, MsgQueue_first_woken
  <2>2. CASE held' = held
    BY <2>1, <2>2, Zenon
  <2>3. CASE held' # held
    <3>1. ~MsgQueue_is_empty /\ held' = messages[i] /\ consumer # "holding"
      BY <1>4, <2>3, Zenon
         DEF MsgQueue_first, MsgQueue_first_woken, MsgQueue_get_first
    <3>2. held = NULL /\ Contents # <<>> /\ held' = Head(Contents)
      BY <1>0, <3>1, Zenon DEF HeldWhileHolding, RingIsSequence
    <3>3. Fifo!Borrow
      BY <2>1, <3>2, Zenon DEF Fifo!Borrow
    <3>4. QED
      BY <3>3, Zenon DEF Fifo!Next
  <2>4. QED
    BY <2>2, <2>3, Zenon
<1>5. ASSUME Member_delete_msg PROVE Fifo!Next
  <2>1. ~MsgQueue_is_empty /\ held = messages[i]
    BY <1>0, <1>5, Zenon DEF Member_delete_msg, HeldIsFirst, MsgQueue_get_first
  <2>2. Contents' = Tail(Contents)
    BY <1>5, <2>1, DeleteTails, Zenon DEF Member_delete_msg
  <2>3. Contents # <<>> /\ held = Head(Contents)
    BY <1>0, <2>1, Zenon DEF RingIsSequence
  <2>4. Fifo!Remove
    BY <1>5, <2>2, <2>3, Zenon DEF Member_delete_msg, Fifo!Remove
  <2>5. QED
    BY <2>4, Zenon DEF Fifo!Next
<1>6. ASSUME Abandon PROVE Fifo!Next
  <2>1. held # NULL
    BY <1>0, <1>6, Zenon DEF Abandon, HeldWhileHolding
  <2>2. Fifo!GiveBack
    BY <1>6, <2>1, ContentsUnchanged, Zenon DEF Abandon, Fifo!GiveBack
  <2>3. QED
    BY <2>2, Zenon DEF Fifo!Next
<1>7. ASSUME MsgQueue_destroy PROVE Fifo!Next
  <2>1. Fifo!Close
    BY <1>7, ContentsUnchanged, Zenon DEF MsgQueue_destroy, Fifo!Close
  <2>2. QED
    BY <2>1, Zenon DEF Fifo!Next
<1>8. ASSUME MsgQueue_destroy_loop
      PROVE  [Fifo!Next]_<<Contents, held, phase = "live">>
  <2>1. phase # "live" /\ phase' # "live" /\ held' = held /\ j' = j
    BY <1>8, Zenon DEF MsgQueue_destroy_loop
  <2>2. CASE MsgQueue_is_empty
    BY <1>8, <2>1, <2>2, ContentsUnchanged, Zenon DEF MsgQueue_destroy_loop
  <2>3. CASE ~MsgQueue_is_empty
    <3>1. Contents' = Tail(Contents)
      BY <1>8, <2>1, <2>3, DeleteTails, Zenon DEF MsgQueue_destroy_loop
    <3>2. Contents # <<>>
      BY <1>0, <2>3, Zenon DEF RingIsSequence
    <3>3. Fifo!Drain
      BY <2>1, <3>1, <3>2, Zenon DEF Fifo!Drain
    <3>4. QED
      BY <3>3, Zenon DEF Fifo!Next
  <2>4. QED
    BY <2>2, <2>3, Zenon
<1>9. QED
  BY <1>1, <1>2, <1>3, <1>4, <1>5, <1>6, <1>7, <1>8, Zenon DEF Next

(* The ring of hub/queue.c implements a bounded first-in first-out queue   *)
(* of Dim - 1 messages, for every Dim and every set of messages: nothing   *)
(* is lost, repeated or reordered, however sends, deliveries and a logout  *)
(* interleave and wherever the indices wrap.                               *)
THEOREM Refinement == Spec => FifoSpec
<1>1. Init => Fifo!Init
  BY DimAssumption DEF Init, MsgQueue_create, Fifo!Init, Contents, Count
<1>2. QED
  BY <1>1, Invariance, FifoStep, PTL
     DEF Spec, FifoSpec, Fifo!Spec, Fifo!fifoVars
=============================================================================
