------------------------------ MODULE HeapBag -------------------------------
(***************************************************************************)
(* What the heap of src/hub/heap.c promises its callers: a bag of pointers *)
(* that answers whether a pointer is in it.  Routing uses heaps as this    *)
(* module describes them.                                                  *)
(***************************************************************************)
EXTENDS Naturals

CONSTANTS Addrs, NULL

VARIABLES bag,      \* how often each pointer is in the heap
          op, elem, \* the search in progress, "find" or "delete", if any
          answer    \* of the last call: "none", "in", or "out"

Init ==
  /\ bag = [a \in Addrs |-> 0]
  /\ op = "none" /\ elem = NULL /\ answer = "none"

Add(a) ==
  /\ op = "none"
  /\ bag' = [bag EXCEPT ![a] = @ + 1]
  /\ answer' = "none"
  /\ UNCHANGED <<op, elem>>

Begin(what, a) ==
  /\ op = "none"
  /\ op' = what /\ elem' = a /\ answer' = "none"
  /\ UNCHANGED bag

\* A search ends.  Deleting takes away one occurrence, if there is one.
End ==
  /\ op # "none"
  /\ answer' = IF bag[elem] > 0 THEN "in" ELSE "out"
  /\ bag' = IF op = "delete" /\ bag[elem] > 0
            THEN [bag EXCEPT ![elem] = @ - 1] ELSE bag
  /\ op' = "none" /\ elem' = NULL

Clear ==
  /\ op = "none"
  /\ bag' = [a \in Addrs |-> 0]
  /\ answer' = "none"
  /\ UNCHANGED <<op, elem>>

Next ==
  \/ End \/ Clear
  \/ \E a \in Addrs : Add(a) \/ Begin("find", a) \/ Begin("delete", a)

Spec == Init /\ [][Next]_<<bag, op, elem, answer>>

=============================================================================
