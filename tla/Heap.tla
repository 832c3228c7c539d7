-------------------------------- MODULE Heap --------------------------------
(***************************************************************************)
(* The heap of src/hub/heap.c: a sorted array of pointers that doubles     *)
(* when it is full and halves when it is mostly empty, searched by         *)
(* bisection.  Routes keep their members in one and members their routes.  *)
(*                                                                         *)
(* A pointer is its address.  Heap_find is modelled one turn of its loop   *)
(* at a time, so that what it has ruled out so far can be stated; the      *)
(* other functions are one action each.  Tasks do not switch inside the    *)
(* heap.                                                                   *)
(***************************************************************************)
EXTENDS Integers, FiniteSets, Functions

CONSTANTS Addrs,       \* the addresses of the elements
          HEAP_SIZE,   \* size of a new heap, 8 in the code
          INT_HALF,    \* an int holds -INT_HALF .. INT_HALF - 1
          MaxElements  \* bound on the elements, for model checking

NULL == 0

ASSUME AddrsAreAddresses == Addrs \subseteq Nat \ {NULL}
ASSUME HeapSizePositive == HEAP_SIZE \in Nat \ {0}
ASSUME IntHalfPositive == INT_HALF \in Nat \ {0}

\* All the elements lie within half the range of an int of each other:
\* Heap_void_ptr_compare returns a difference of longs as an int.
ASSUME AddrsAreNear == \A x, y \in Addrs : x - y < INT_HALF

VARIABLES last,      \* heap->last: the number of elements
          size,      \* heap->size: the cells allocated
          members,   \* heap->members
          op,        \* the call in progress: "none", "find" or "delete"
          elem,      \* its argument
          ii, jj,    \* the bounds of the search
          answer     \* what the last call found: "none", "in" or "out"

search == <<op, elem, ii, jj>>
vars == <<last, size, members, op, elem, ii, jj, answer>>

ToInt(d) == ((d + INT_HALF) % (2 * INT_HALF)) - INT_HALF

Heap_void_ptr_compare(x, y) == ToInt(x - y)

Heap_is_full == last = size
Heap_valid(at) == at < last

Sorted(m, n) ==
  \A i, j \in 0..(n - 1) : i < j => Heap_void_ptr_compare(m[i], m[j]) <= 0

\* The cells below n rearranged, the others left alone.
Rearranged(m, n, p) == [i \in DOMAIN m |-> IF i < n THEN m[p[i]] ELSE m[i]]

\* realloc, and the new cells set to NULL.
Heap_resize(m, n) == [i \in 0..(n - 1) |-> IF i \in DOMAIN m THEN m[i] ELSE NULL]

\* Heap_create.
Init ==
  /\ last = 0
  /\ size = HEAP_SIZE
  /\ members = [i \in 0..(HEAP_SIZE - 1) |-> NULL]
  /\ op = "none" /\ elem = NULL /\ ii = 0 /\ jj = 0
  /\ answer = "none"

-----------------------------------------------------------------------------

Heap_sort(m, n) ==
  \E p \in Bijection(0..(n - 1), 0..(n - 1)) :
    /\ Sorted(Rearranged(m, n, p), n)
    /\ members' = Rearranged(m, n, p)

Heap_grow == IF Heap_is_full THEN 2 * size ELSE size

\* Appends and leaves the array unsorted.
Heap_add_Unsorted(a) ==
  /\ op = "none" /\ last < MaxElements
  /\ size' = Heap_grow
  /\ members' = [Heap_resize(members, size') EXCEPT ![last] = a]
  /\ last' = last + 1
  /\ answer' = "none"
  /\ UNCHANGED search

Heap_add(a) ==
  /\ op = "none" /\ last < MaxElements
  /\ size' = Heap_grow
  /\ Heap_sort([Heap_resize(members, size') EXCEPT ![last] = a], last + 1)
  /\ last' = last + 1
  /\ answer' = "none"
  /\ UNCHANGED search

\* Heap_find and Heap_delete both begin with the search.
Heap_find(a, what) ==
  /\ op = "none"
  /\ op' = what /\ elem' = a
  /\ ii' = 0 /\ jj' = last - 1
  /\ answer' = "none"
  /\ UNCHANGED <<last, size, members>>

Heap_compare == Heap_void_ptr_compare(members[(jj + ii) \div 2], elem)

\* One turn of the loop that does not find the element.
Heap_find_loop ==
  /\ op # "none" /\ ii <= jj
  /\ LET kk == (jj + ii) \div 2
     IN  \/ Heap_compare < 0 /\ ii' = kk + 1 /\ UNCHANGED jj
         \/ Heap_compare > 0 /\ jj' = kk - 1 /\ UNCHANGED ii
  /\ UNCHANGED <<last, size, members, op, elem, answer>>

\* memmove of the rest down by one, and NULL in the cell that becomes free.
Moved_KeepsFirst(m, at) ==
  [i \in DOMAIN m |-> IF i = last - 1 THEN NULL
                      ELSE IF i \in (at + 1)..(last - 2) THEN m[i + 1] ELSE m[i]]

Moved(m, at) ==
  [i \in DOMAIN m |-> IF i = last - 1 THEN NULL
                      ELSE IF i \in at..(last - 2) THEN m[i + 1] ELSE m[i]]

\* Halves the array however full it is.
Heap_shrink_Eager(n) == IF n > HEAP_SIZE THEN size \div 2 ELSE size

Heap_shrink(n) == IF n > HEAP_SIZE /\ n < size \div 2 THEN size \div 2 ELSE size

\* The local variables of the search go out of scope.
Returned(found) ==
  /\ answer' = found
  /\ op' = "none" /\ elem' = NULL /\ ii' = 0 /\ jj' = 0

Heap_found ==
  /\ op # "none" /\ ii <= jj /\ Heap_compare = 0
  /\ IF op = "delete"
     THEN /\ last' = last - 1
          /\ size' = Heap_shrink(last - 1)
          /\ members' = Heap_resize(Moved(members, (jj + ii) \div 2), size')
     ELSE UNCHANGED <<last, size, members>>
  /\ Returned("in")

Heap_not_found ==
  /\ op # "none" /\ ii > jj
  /\ Returned("out")
  /\ UNCHANGED <<last, size, members>>

\* Only last is reset: the cells keep what they held.
Heap_clear ==
  /\ op = "none"
  /\ last' = 0
  /\ answer' = "none"
  /\ UNCHANGED <<size, members, search>>

Next ==
  \/ Heap_find_loop \/ Heap_found \/ Heap_not_found \/ Heap_clear
  \/ \E a \in Addrs : Heap_add(a) \/ Heap_find(a, "find") \/ Heap_find(a, "delete")

Spec == Init /\ [][Next]_vars

-----------------------------------------------------------------------------
(* Properties                                                                *)

\* Type invariant: no more elements than cells, a cell for every index the
\* code uses, and pointers, never NULL, in the cells below last.
TypeOK ==
  /\ last \in Nat /\ size \in Nat \ {0} /\ last <= size
  /\ members \in [0..(size - 1) -> Addrs \cup {NULL}]
  /\ \A i \in 0..(last - 1) : members[i] \in Addrs
  /\ op \in {"none", "find", "delete"}
  /\ elem \in Addrs \cup {NULL}
  /\ ii \in Nat /\ jj \in Int
  /\ answer \in {"none", "in", "out"}
  /\ op # "none" => elem \in Addrs /\ jj < last

\* The array is sorted between calls and during a search, through growing,
\* shrinking and clearing, and the search of Heap_find never rules out a cell
\* that holds its element: when the bounds have crossed the element is not in
\* the heap, whatever stale pointers a Heap_clear left behind last.
SearchNarrows ==
  /\ Sorted(members, last)
  /\ op # "none" =>
       \A k \in 0..(last - 1) : members[k] = elem => k \in ii..jj

Occurrences(m, n, a) == { i \in 0..(n - 1) : m[i] = a }
Count(a) == Cardinality(Occurrences(members, last, a))

\* The heap is a bag: an element is found if and only if it was added more
\* often than deleted since the heap was last cleared, a delete takes away one
\* occurrence of its argument and of nothing else, and growing, sorting and
\* shrinking lose and duplicate nothing.
Bag == INSTANCE HeapBag WITH bag <- [a \in Addrs |-> Count(a)]
BagSpec == Bag!Spec

=============================================================================
