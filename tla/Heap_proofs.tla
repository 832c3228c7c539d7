----------------------------- MODULE Heap_proofs ----------------------------
(***************************************************************************)
(* Theorems about the heap, for every set of addresses that are near each  *)
(* other, every initial size and every number of elements.                 *)
(***************************************************************************)
EXTENDS Heap, FiniteSetTheorems, TLAPS

\* Within half the range of an int, the truncated difference has the sign of
\* the difference: the comparison orders pointers by address.
LEMMA SmallModulo ==
  ASSUME NEW n \in Nat, NEW m \in Nat, n < m
  PROVE  n % m = n
BY SMT

\* Among addresses that near, the truncation to int loses nothing.
LEMMA CompareIsExact ==
  ASSUME NEW x \in Addrs, NEW y \in Addrs
  PROVE  Heap_void_ptr_compare(x, y) = x - y
<1>1. x \in Nat /\ y \in Nat
  BY AddrsAreAddresses, Zenon
<1>2. x - y < INT_HALF /\ y - x < INT_HALF
  BY AddrsAreNear, Zenon
<1>3. INT_HALF \in Nat /\ INT_HALF > 0
  BY IntHalfPositive
<1>4. x - y + INT_HALF \in Nat /\ x - y + INT_HALF < 2 * INT_HALF /\ 2 * INT_HALF \in Nat
  BY <1>1, <1>2, <1>3
<1>5. (x - y + INT_HALF) % (2 * INT_HALF) = x - y + INT_HALF
  BY <1>4, SmallModulo, Zenon
<1> QED
  BY <1>1, <1>3, <1>5 DEF Heap_void_ptr_compare, ToInt

\* The cell Heap_find looks at lies between its bounds.
LEMMA MiddleIsInside ==
  ASSUME NEW lo \in Nat, NEW hi \in Int, lo <= hi
  PROVE  (hi + lo) \div 2 \in lo..hi
BY SMT

IInv == TypeOK /\ SearchNarrows

\* Heap_create: an empty array is sorted and nothing is being searched.
LEMMA InitIsGood == Init => IInv
<1> SUFFICES ASSUME Init PROVE IInv
  BY Zenon
<1>1. TypeOK
  BY HeapSizePositive DEF Init, TypeOK
<1>2. SearchNarrows
  BY DEF Init, SearchNarrows, Sorted
<1> QED
  BY <1>1, <1>2, Zenon DEF IInv

-----------------------------------------------------------------------------
(* Facts about arrays: n elements in s cells                                 *)

IsArray(m, n, s) ==
  /\ m \in [0..(s - 1) -> Addrs \cup {NULL}]
  /\ \A i \in 0..(n - 1) : m[i] \in Addrs

\* Heap_resize keeps the elements that fit.
LEMMA ResizeKeeps ==
  ASSUME NEW n \in Nat, NEW s \in Nat, NEW t \in Nat, n <= s, n <= t,
         NEW m, IsArray(m, n, s)
  PROVE  /\ IsArray(Heap_resize(m, t), n, t)
         /\ \A i \in 0..(n - 1) : Heap_resize(m, t)[i] = m[i]
<1> DEFINE r == Heap_resize(m, t)
<1>1. DOMAIN m = 0..(s - 1) /\ \A i \in 0..(s - 1) : m[i] \in Addrs \cup {NULL}
  BY Zenon DEF IsArray
<1>2. r \in [0..(t - 1) -> Addrs \cup {NULL}]
  BY <1>1, Zenon DEF Heap_resize
<1>3. \A i \in 0..(n - 1) : r[i] = m[i]
  BY <1>1 DEF Heap_resize
<1> QED
  BY <1>2, <1>3, Zenon DEF IsArray

\* An element in the first free cell.
LEMMA AppendIsArray ==
  ASSUME NEW n \in Nat, NEW s \in Nat, n < s, NEW m, IsArray(m, n, s), NEW a \in Addrs
  PROVE  IsArray([m EXCEPT ![n] = a], n + 1, s)
<1> DEFINE w == [m EXCEPT ![n] = a]
<1>1. w \in [0..(s - 1) -> Addrs \cup {NULL}]
  BY Zenon DEF IsArray
<1>2. \A i \in 0..(n + 1 - 1) : w[i] \in Addrs
  <2> SUFFICES ASSUME NEW i \in 0..(n + 1 - 1) PROVE w[i] \in Addrs
    BY Zenon
  <2>1. n \in 0..(s - 1) /\ i \in 0..(s - 1)
    OBVIOUS
  <2>2. CASE i = n
    BY <2>1, <2>2, Zenon DEF IsArray
  <2>3. CASE i # n
    BY <2>1, <2>3 DEF IsArray
  <2> QED
    BY <2>2, <2>3, Zenon
<1> QED
  BY <1>1, <1>2 DEF IsArray

\* Rearranging elements leaves elements.
LEMMA RearrangedIsArray ==
  ASSUME NEW n \in Nat, NEW s \in Nat, n <= s, NEW m, IsArray(m, n, s),
         NEW p \in [0..(n - 1) -> 0..(n - 1)]
  PROVE  IsArray(Rearranged(m, n, p), n, s)
<1> DEFINE r == Rearranged(m, n, p)
<1>1. DOMAIN m = 0..(s - 1) /\ \A i \in 0..(s - 1) : m[i] \in Addrs \cup {NULL}
  BY Zenon DEF IsArray
<1>2. \A i \in 0..(n - 1) : r[i] = m[p[i]] /\ p[i] \in 0..(n - 1)
  BY <1>1 DEF Rearranged
<1>3. \A i \in 0..(n - 1) : r[i] \in Addrs
  BY <1>2, Zenon DEF IsArray
<1>4. \A i \in 0..(s - 1) : i < n \/ r[i] = m[i]
  BY <1>1, Zenon DEF Rearranged
<1>5. r = [i \in 0..(s - 1) |-> r[i]]
  BY <1>1, Zenon DEF Rearranged
<1>6. \A i \in 0..(s - 1) : r[i] \in Addrs \cup {NULL}
  BY <1>1, <1>3, <1>4
<1> HIDE DEF r
<1>7. r \in [0..(s - 1) -> Addrs \cup {NULL}]
  BY <1>5, <1>6, Zenon
<1> QED
  BY <1>3, <1>7, Zenon DEF IsArray, r

\* Sorted, for pointers, is the order of their addresses.
LEMMA SortedByAddress ==
  ASSUME NEW n \in Nat, NEW m, \A i \in 0..(n - 1) : m[i] \in Addrs
  PROVE  Sorted(m, n) <=> \A i, j \in 0..(n - 1) : i < j => m[i] <= m[j]
<1>1. \A i, j \in 0..(n - 1) : Heap_void_ptr_compare(m[i], m[j]) = m[i] - m[j]
  BY CompareIsExact, Zenon
<1>2. \A i \in 0..(n - 1) : m[i] \in Nat
  BY AddrsAreAddresses, Zenon
<1>3. \A i, j \in 0..(n - 1) : m[i] - m[j] <= 0 <=> m[i] <= m[j]
  BY <1>2
<1> QED
  BY <1>1, <1>3, Zenon DEF Sorted

\* The memmove of Heap_delete closes the gap and keeps the order.
LEMMA MovedIsSorted ==
  ASSUME NEW s \in Nat, last \in Nat, 0 < last, last <= s, NEW m, IsArray(m, last, s),
         Sorted(m, last), NEW at \in 0..(last - 1)
  PROVE  IsArray(Moved(m, at), last - 1, s) /\ Sorted(Moved(m, at), last - 1)
<1> DEFINE w == Moved(m, at)
           from(i) == IF i < at THEN i ELSE i + 1
<1>1. DOMAIN m = 0..(s - 1) /\ \A i \in 0..(s - 1) : m[i] \in Addrs \cup {NULL}
  BY Zenon DEF IsArray
<1>2. \A i \in 0..(last - 1 - 1) : w[i] = m[from(i)] /\ from(i) \in 0..(last - 1)
  <2> SUFFICES ASSUME NEW i \in 0..(last - 1 - 1)
               PROVE  w[i] = m[from(i)] /\ from(i) \in 0..(last - 1)
    BY Zenon
  <2>1. i \in DOMAIN m /\ i # last - 1
    BY <1>1
  <2>2. CASE i < at
    BY <2>1, <2>2 DEF Moved
  <2>3. CASE ~(i < at)
    <3>1. i \in at..(last - 2)
      BY <2>3
    <3> QED
      BY <2>1, <2>3, <3>1 DEF Moved
  <2> QED
    BY <2>2, <2>3, Zenon
<1>3. w \in [0..(s - 1) -> Addrs \cup {NULL}]
  <2>1. \A i \in 0..(s - 1) : w[i] \in Addrs \cup {NULL}
    <3> SUFFICES ASSUME NEW i \in 0..(s - 1) PROVE w[i] \in Addrs \cup {NULL}
      BY Zenon
    <3>1. w[i] = IF i = last - 1 THEN NULL
                 ELSE IF i \in at..(last - 2) THEN m[i + 1] ELSE m[i]
      BY <1>1, Zenon DEF Moved
    <3>2. i \in at..(last - 2) => i + 1 \in 0..(s - 1)
      OBVIOUS
    <3> QED
      BY <3>1, <3>2, <1>1, Zenon
  <2>2. w = [i \in 0..(s - 1) |-> w[i]]
    BY <1>1, Zenon DEF Moved
  <2> HIDE DEF w
  <2> QED
    BY <2>1, <2>2, Zenon
<1>4. \A i \in 0..(last - 1 - 1) : w[i] \in Addrs
  <2> HIDE DEF w, from
  <2> QED
    BY <1>2, Zenon DEF IsArray
<1>5. \A i, j \in 0..(last - 1 - 1) : i < j => from(i) < from(j)
  OBVIOUS
<1>6. \A i, j \in 0..(last - 1) : i < j => m[i] <= m[j]
  BY SortedByAddress, Zenon DEF IsArray
<1>7. \A i, j \in 0..(last - 1 - 1) : i < j => w[i] <= w[j]
  <2> HIDE DEF w, from
  <2> QED
    BY <1>2, <1>5, <1>6, Zenon
<1>8. last - 1 \in Nat
  OBVIOUS
<1> HIDE DEF w
<1>9. Sorted(w, last - 1)
  BY <1>4, <1>7, <1>8, SortedByAddress, Zenon
<1> QED
  BY <1>3, <1>4, <1>9, Zenon DEF IsArray, w

-----------------------------------------------------------------------------
(* The steps                                                                 *)

\* Heap_add grows a full array before it stores, and sorts afterwards.
LEMMA AddIsGood ==
  ASSUME IInv, NEW a \in Addrs, Heap_add(a)
  PROVE  IInv'
<1>1. last \in Nat /\ size \in Nat /\ last <= size /\ size > 0
  BY DEF IInv, TypeOK
<1>2. size' \in Nat \ {0} /\ last < size'
  BY <1>1 DEF Heap_add, Heap_grow, Heap_is_full
<1>3. last' = last + 1 /\ last' \in Nat /\ last' <= size'
  BY <1>1, <1>2 DEF Heap_add
<1>4. op = "none" /\ UNCHANGED <<op, elem, ii, jj>> /\ answer' = "none"
  BY Zenon DEF Heap_add, search
<1> DEFINE m == [Heap_resize(members, size') EXCEPT ![last] = a]
<1>5. IsArray(m, last + 1, size')
  <2>1. IsArray(members, last, size)
    BY Zenon DEF IInv, TypeOK, IsArray
  <2>2. IsArray(Heap_resize(members, size'), last, size')
    BY <2>1, <1>1, <1>2, ResizeKeeps
  <2> QED
    BY <2>2, <1>1, <1>2, AppendIsArray, Zenon
<1>6. Heap_sort(m, last + 1)
  BY Zenon DEF Heap_add
<1> DEFINE n == last + 1
<1> HIDE DEF m, n
<1>7. PICK p \in Bijection(0..(n - 1), 0..(n - 1)) :
        /\ Sorted(Rearranged(m, n, p), n)
        /\ members' = Rearranged(m, n, p)
  <2>1. Heap_sort(m, n)
    BY <1>6, Zenon DEF n
  <2> QED
    BY <2>1, Zenon DEF Heap_sort
<1>8. p \in [0..(n - 1) -> 0..(n - 1)]
  BY <1>7, Zenon DEF Bijection, Injection
<1>9. n \in Nat /\ n <= size' /\ size' \in Nat /\ last' = n
  BY <1>1, <1>2, <1>3, Zenon DEF n
<1>10. IsArray(members', last', size')
  <2>1. IsArray(m, n, size')
    BY <1>5, Zenon DEF n
  <2>2. IsArray(Rearranged(m, n, p), n, size')
    BY <2>1, <1>8, <1>9, RearrangedIsArray, Zenon
  <2> QED
    BY <2>2, <1>7, <1>9, Zenon
<1>11. TypeOK'
  BY <1>2, <1>3, <1>4, <1>10, Zenon DEF IInv, TypeOK, IsArray
<1>12. SearchNarrows'
  BY <1>4, <1>7, <1>9, Zenon DEF SearchNarrows, Sorted
<1> QED
  BY <1>11, <1>12, Zenon DEF IInv

\* At first nothing is ruled out.
LEMMA FindIsGood ==
  ASSUME IInv, NEW a \in Addrs, NEW what \in {"find", "delete"}, Heap_find(a, what)
  PROVE  IInv'
<1>1. last \in Nat
  BY Zenon DEF IInv, TypeOK
<1>2. UNCHANGED <<last, size, members>> /\ ii' = 0 /\ jj' = last - 1
  BY Zenon DEF Heap_find
<1>3. jj' \in Int /\ jj' < last
  BY <1>1, <1>2
<1>4. TypeOK'
  BY <1>2, <1>3 DEF Heap_find, IInv, TypeOK
<1>5. SearchNarrows'
  <2>1. Sorted(members, last)'
    BY <1>2, Zenon DEF IInv, SearchNarrows, Sorted
  <2>2. \A k \in 0..(last' - 1) : k \in ii'..jj'
    BY <1>1, <1>2, Zenon
  <2> QED
    BY <2>1, <2>2, Zenon DEF SearchNarrows
<1> QED
  BY <1>4, <1>5, Zenon DEF IInv

\* A turn rules out only cells on the wrong side of the middle one.
LEMMA LoopIsGood ==
  ASSUME IInv, Heap_find_loop
  PROVE  IInv'
<1> DEFINE kk == (jj + ii) \div 2
<1>1. last \in Nat /\ ii \in Nat /\ jj \in Int /\ ii <= jj /\ jj < last
  BY Zenon DEF IInv, TypeOK, Heap_find_loop
<1>2. kk \in ii..jj
  BY <1>1, MiddleIsInside, Zenon
<1> HIDE DEF kk
<1>3. kk \in 0..(last - 1)
  BY <1>1, <1>2
<1>4. \A i \in 0..(last - 1) : members[i] \in Addrs
  BY Zenon DEF IInv, TypeOK
<1>5. elem \in Addrs /\ op # "none"
  BY Zenon DEF IInv, TypeOK, Heap_find_loop
<1>6. Heap_compare = members[kk] - elem
  BY <1>3, <1>4, <1>5, CompareIsExact, Zenon DEF Heap_compare, kk
<1>7. elem \in Nat /\ \A i \in 0..(last - 1) : members[i] \in Nat
  BY <1>4, <1>5, AddrsAreAddresses, Zenon
<1>8. \A i, j \in 0..(last - 1) : i < j => members[i] <= members[j]
  <2>1. Sorted(members, last)
    BY Zenon DEF IInv, SearchNarrows
  <2> QED
    BY <1>1, <1>4, <2>1, SortedByAddress, Zenon
<1>9. \A k \in 0..(last - 1) : members[k] = elem => k \in ii..jj
  BY <1>5, Zenon DEF IInv, SearchNarrows
<1>10. UNCHANGED <<last, size, members, op, elem, answer>>
  BY Zenon DEF Heap_find_loop
<1>11. /\ ii' \in Nat /\ jj' \in Int /\ jj' < last
       /\ \A k \in 0..(last - 1) : members[k] = elem => k \in ii'..jj'
  <2>1. CASE Heap_compare < 0 /\ ii' = kk + 1 /\ jj' = jj
    <3>1. \A k \in 0..(last - 1) : members[k] = elem => k > kk
      BY <2>1, <1>3, <1>6, <1>7, <1>8
    <3>2. \A k \in 0..(last - 1) : members[k] = elem => k \in (kk + 1)..jj
      BY <3>1, <1>1, <1>3, <1>9
    <3> QED
      BY <2>1, <3>2, <1>1, <1>3
  <2>2. CASE Heap_compare > 0 /\ jj' = kk - 1 /\ ii' = ii
    <3>1. \A k \in 0..(last - 1) : members[k] = elem => k < kk
      BY <2>2, <1>3, <1>6, <1>7, <1>8
    <3>2. \A k \in 0..(last - 1) : members[k] = elem => k \in ii..(kk - 1)
      BY <3>1, <1>1, <1>3, <1>9
    <3> QED
      BY <2>2, <3>2, <1>1, <1>3
  <2> QED
    BY <2>1, <2>2, Zenon DEF Heap_find_loop, kk
<1>12. TypeOK'
  BY <1>10, <1>11, Zenon DEF IInv, TypeOK
<1>13. SearchNarrows'
  BY <1>10, <1>11, Zenon DEF IInv, SearchNarrows, Sorted
<1> QED
  BY <1>12, <1>13, Zenon DEF IInv

\* Deleting moves the rest down; the array shrinks only to a size that holds it.
LEMMA FoundIsGood ==
  ASSUME IInv, Heap_found
  PROVE  IInv'
<1> DEFINE kk == (jj + ii) \div 2
<1>1. last \in Nat /\ size \in Nat /\ last <= size /\ size > 0
      /\ ii \in Nat /\ jj \in Int /\ ii <= jj /\ jj < last
  BY DEF IInv, TypeOK, Heap_found
<1>2. kk \in 0..(last - 1) /\ 0 < last
  BY <1>1, MiddleIsInside
<1> HIDE DEF kk
<1>3. op' = "none" /\ elem' = NULL /\ ii' = 0 /\ jj' = 0 /\ answer' = "in"
  BY Zenon DEF Heap_found, Returned
<1>4. CASE op = "delete"
  <2>1. last' = last - 1 /\ size' = Heap_shrink(last - 1)
        /\ members' = Heap_resize(Moved(members, kk), size')
    BY <1>4, Zenon DEF Heap_found, kk
  <2>2. size' \in Nat \ {0} /\ last - 1 <= size' /\ last - 1 \in Nat
    BY <1>1, <1>2, <2>1, HeapSizePositive DEF Heap_shrink
  <2> DEFINE w == Moved(members, kk)
             n == last - 1
  <2>3. IsArray(w, n, size) /\ Sorted(w, n)
    BY <1>1, <1>2, MovedIsSorted, Zenon DEF IInv, TypeOK, SearchNarrows, IsArray
  <2>4. n \in Nat /\ n <= size /\ n <= size' /\ size' \in Nat /\ last' = n
    BY <1>1, <2>1, <2>2
  <2> HIDE DEF w, n
  <2>5. /\ IsArray(Heap_resize(w, size'), n, size')
        /\ \A i \in 0..(n - 1) : Heap_resize(w, size')[i] = w[i]
    BY <1>1, <2>3, <2>4, ResizeKeeps
  <2>6. IsArray(members', last', size') /\ \A i \in 0..(n - 1) : members'[i] = w[i]
    BY <2>1, <2>4, <2>5, Zenon DEF w
  <2>7. TypeOK'
    <3>1. last' \in Nat /\ size' \in Nat \ {0} /\ last' <= size'
      BY <2>2, <2>4, Zenon
    <3>2. ii' \in Nat /\ jj' \in Int
      BY <1>3
    <3>3. /\ members' \in [0..(size' - 1) -> Addrs \cup {NULL}]
          /\ \A i \in 0..(last' - 1) : members'[i] \in Addrs
      BY <2>6, Zenon DEF IsArray
    <3> QED
      BY <3>1, <3>2, <3>3, <1>3, Zenon DEF TypeOK
  <2>8. SearchNarrows'
    BY <2>3, <2>4, <2>6, <1>3, Zenon DEF SearchNarrows, Sorted
  <2> QED
    BY <2>7, <2>8, Zenon DEF IInv
<1>5. CASE op # "delete"
  <2>1. UNCHANGED <<last, size, members>>
    BY <1>5, Zenon DEF Heap_found
  <2> QED
    BY <2>1, <1>3 DEF IInv, TypeOK, SearchNarrows, Sorted
<1> QED
  BY <1>4, <1>5, Zenon

\* Heap_find returns NULL and leaves the array alone.
LEMMA NotFoundIsGood ==
  ASSUME IInv, Heap_not_found
  PROVE  IInv'
BY DEF Heap_not_found, Returned, IInv, TypeOK, SearchNarrows, Sorted

\* Heap_clear forgets the elements and keeps the array.
LEMMA ClearIsGood ==
  ASSUME IInv, Heap_clear
  PROVE  IInv'
<1>1. last' = 0 /\ op = "none" /\ answer' = "none"
      /\ UNCHANGED <<size, members, op, elem, ii, jj>>
  BY Zenon DEF Heap_clear, search
<1>2. TypeOK'
  BY <1>1 DEF IInv, TypeOK
<1>3. SearchNarrows'
  BY <1>1 DEF SearchNarrows, Sorted
<1> QED
  BY <1>2, <1>3, Zenon DEF IInv

\* Every call, and every turn of the search, keeps the invariant.
LEMMA StepIsGood == IInv /\ [Next]_vars => IInv'
<1> SUFFICES ASSUME IInv, [Next]_vars PROVE IInv'
  BY Zenon
<1>1. ASSUME NEW a \in Addrs, Heap_add(a) PROVE IInv'
  BY <1>1, AddIsGood, Zenon
<1>2. ASSUME NEW a \in Addrs, Heap_find(a, "find") \/ Heap_find(a, "delete") PROVE IInv'
  BY <1>2, FindIsGood, Zenon
<1>3. CASE UNCHANGED vars
  BY <1>3, Zenon DEF vars, IInv, TypeOK, SearchNarrows, Sorted
<1> QED
  BY <1>1, <1>2, <1>3, LoopIsGood, FoundIsGood, NotFoundIsGood, ClearIsGood, Zenon
     DEF Next

\* So it always holds.
LEMMA AlwaysGood == Spec => []IInv
BY InitIsGood, StepIsGood, PTL DEF Spec

\* No call uses a cell outside the array, and no NULL is below last.
THEOREM TypeCorrect == Spec => []TypeOK
<1>1. IInv => TypeOK
  BY Zenon DEF IInv
<1> QED
  BY <1>1, AlwaysGood, PTL

\* Heap_find never rules out a cell that holds its element.
THEOREM SearchIsSound == Spec => []SearchNarrows
<1>1. IInv => SearchNarrows
  BY Zenon DEF IInv
<1> QED
  BY <1>1, AlwaysGood, PTL

-----------------------------------------------------------------------------
(* How often an element occurs                                               *)

\* How often a pointer is in the array is a number.
LEMMA OccurrencesFinite ==
  ASSUME NEW m, NEW n \in Nat, NEW a
  PROVE  IsFiniteSet(Occurrences(m, n, a)) /\ Cardinality(Occurrences(m, n, a)) \in Nat
<1>1. IsFiniteSet(0..(n - 1))
  BY FS_Interval
<1>2. Occurrences(m, n, a) \in SUBSET (0..(n - 1))
  BY Zenon DEF Occurrences
<1> QED
  BY <1>1, <1>2, FS_Subset, FS_CardinalityType, Zenon

\* Heap_sort does not change how often a pointer is in the array.
LEMMA RearrangedSameCount ==
  ASSUME NEW n \in Nat, NEW m, 0..(n - 1) \subseteq DOMAIN m,
         NEW p \in Bijection(0..(n - 1), 0..(n - 1)), NEW a
  PROVE  Cardinality(Occurrences(Rearranged(m, n, p), n, a))
           = Cardinality(Occurrences(m, n, a))
<1> DEFINE S == Occurrences(Rearranged(m, n, p), n, a)
           T == Occurrences(m, n, a)
           f == [i \in S |-> p[i]]
<1>1. \A i \in 0..(n - 1) : Rearranged(m, n, p)[i] = m[p[i]]
  BY DEF Rearranged
<1>2. p \in [0..(n - 1) -> 0..(n - 1)]
      /\ (\A i, j \in 0..(n - 1) : p[i] = p[j] => i = j)
      /\ (\A j \in 0..(n - 1) : \E i \in 0..(n - 1) : p[i] = j)
  BY Zenon DEF Bijection, Injection, Surjection, IsInjective
<1>3. S = { i \in 0..(n - 1) : m[p[i]] = a }
  BY <1>1, Zenon DEF Occurrences
<1>4. T = { i \in 0..(n - 1) : m[i] = a }
  BY Zenon DEF Occurrences
<1> HIDE DEF S, T
<1>5. f \in [S -> T]
  BY <1>2, <1>3, <1>4, Zenon
<1>6. \A i, j \in S : f[i] = f[j] => i = j
  BY <1>2, <1>3, Zenon
<1>7. \A j \in T : \E i \in S : f[i] = j
  BY <1>2, <1>3, <1>4, Zenon
<1> HIDE DEF f
<1>8. f \in Bijection(S, T)
  BY <1>5, <1>6, <1>7, Zenon DEF Bijection, Injection, Surjection, IsInjective
<1>9. ExistsBijection(S, T)
  BY <1>8, Zenon DEF ExistsBijection
<1> QED
  BY <1>9, OccurrencesFinite, FS_Bijection, Zenon DEF S, T

\* A pointer stored behind the last one counts once more.
LEMMA AppendCounts ==
  ASSUME NEW n \in Nat, NEW m, NEW w, NEW a, NEW b,
         \A i \in 0..(n - 1) : w[i] = m[i], w[n] = a
  PROVE  Cardinality(Occurrences(w, n + 1, b))
           = Cardinality(Occurrences(m, n, b)) + (IF a = b THEN 1 ELSE 0)
<1> DEFINE S == Occurrences(m, n, b)
<1>1. 0..(n + 1 - 1) = (0..(n - 1)) \cup {n} /\ n \notin 0..(n - 1)
  OBVIOUS
<1>2. n \notin S /\ IsFiniteSet(S) /\ Cardinality(S) \in Nat
  <2>1. n \notin S
    BY <1>1, Zenon DEF Occurrences
  <2> QED
    BY <2>1, OccurrencesFinite, Zenon
<1>3. CASE a = b
  <2>1. Occurrences(w, n + 1, b) = S \cup {n}
    BY <1>1, <1>3 DEF Occurrences
  <2> QED
    BY <2>1, <1>2, <1>3, FS_AddElement, Zenon
<1>4. CASE a # b
  <2>1. Occurrences(w, n + 1, b) = S
    BY <1>1, <1>4 DEF Occurrences
  <2> QED
    BY <2>1, <1>2, <1>4
<1> QED
  BY <1>3, <1>4, Zenon

\* Closing the gap at a cell counts the pointer in it once less.
LEMMA MovedCounts ==
  ASSUME NEW n \in Nat, NEW at \in 0..n, NEW m, NEW w, NEW b,
         \A i \in 0..(n - 1) : w[i] = m[IF i < at THEN i ELSE i + 1]
  PROVE  Cardinality(Occurrences(w, n, b))
           = Cardinality(Occurrences(m, n + 1, b)) - (IF m[at] = b THEN 1 ELSE 0)
<1> DEFINE from(i) == IF i < at THEN i ELSE i + 1
           S == Occurrences(w, n, b)
           U == Occurrences(m, n + 1, b)
           f == [i \in S |-> from(i)]
<1>1. S = { i \in 0..(n - 1) : m[from(i)] = b }
  BY Zenon DEF Occurrences
<1>2. U = { i \in 0..n : m[i] = b }
  <2>1. 0..(n + 1 - 1) = 0..n
    OBVIOUS
  <2> QED
    BY <2>1 DEF Occurrences
<1>3. \A i \in 0..(n - 1) : from(i) \in 0..n /\ from(i) # at
  OBVIOUS
<1>4. \A i, j \in 0..(n - 1) : from(i) = from(j) => i = j
  OBVIOUS
<1>5. \A j \in 0..n : j # at => \E i \in 0..(n - 1) : from(i) = j
  <2> SUFFICES ASSUME NEW j \in 0..n, j # at PROVE \E i \in 0..(n - 1) : from(i) = j
    BY Zenon
  <2>1. CASE j < at
    <3>1. j \in 0..(n - 1) /\ from(j) = j
      BY <2>1
    <3> QED
      BY <3>1, Zenon
  <2>2. CASE j > at
    <3>1. j - 1 \in 0..(n - 1) /\ from(j - 1) = j
      BY <2>2
    <3> QED
      BY <3>1, Zenon
  <2> QED
    BY <2>1, <2>2
<1> HIDE DEF from, S, U
<1>6. f \in [S -> U \ {at}]
  BY <1>1, <1>2, <1>3, Zenon
<1>7. \A i, j \in S : f[i] = f[j] => i = j
  BY <1>1, <1>4, Zenon
<1>8. \A j \in U \ {at} : \E i \in S : f[i] = j
  BY <1>1, <1>2, <1>5, Zenon
<1> HIDE DEF f
<1>9. f \in Bijection(S, U \ {at})
  BY <1>6, <1>7, <1>8, Zenon DEF Bijection, Injection, Surjection, IsInjective
<1>10. ExistsBijection(S, U \ {at})
  BY <1>9, Zenon DEF ExistsBijection
<1>11. IsFiniteSet(S) /\ IsFiniteSet(U) /\ Cardinality(U) \in Nat
  <2>1. n + 1 \in Nat
    OBVIOUS
  <2> QED
    BY <2>1, OccurrencesFinite, Zenon DEF S, U
<1>12. Cardinality(S) = Cardinality(U \ {at})
  BY <1>10, <1>11, FS_Bijection, Zenon
<1>13. Cardinality(U \ {at}) = IF at \in U THEN Cardinality(U) - 1 ELSE Cardinality(U)
  BY <1>11, FS_RemoveElement, Zenon
<1>14. at \in U <=> m[at] = b
  BY <1>2, Zenon
<1>15. Cardinality(S) = Cardinality(U) - (IF m[at] = b THEN 1 ELSE 0)
  BY <1>11, <1>12, <1>13, <1>14
<1> QED
  BY <1>15, Zenon DEF S, U

-----------------------------------------------------------------------------
(* The heap implements a bag                                                 *)

\* Heap_resize keeps the cells in use, so a store behind them adds a pointer.
LEMMA GrownArray ==
  ASSUME NEW n \in Nat, NEW s \in Nat, NEW t \in Nat, n <= s, n < t,
         NEW m, IsArray(m, n, s), NEW a
  PROVE  LET w == [Heap_resize(m, t) EXCEPT ![n] = a]
         IN  /\ \A i \in 0..(n - 1) : w[i] = m[i]
             /\ w[n] = a
             /\ 0..(n + 1 - 1) \subseteq DOMAIN w
<1> DEFINE r == Heap_resize(m, t)
<1>1. DOMAIN r = 0..(t - 1) /\ \A i \in 0..(n - 1) : r[i] = m[i]
  <2>1. \A i \in 0..(n - 1) : r[i] = m[i]
    BY ResizeKeeps
  <2> QED
    BY <2>1, Zenon DEF Heap_resize
<1>2. n \in 0..(t - 1) /\ n \notin 0..(n - 1) /\ 0..(n + 1 - 1) \subseteq 0..(t - 1)
      /\ 0..(n - 1) \subseteq 0..(t - 1)
  OBVIOUS
<1> HIDE DEF r
<1>3. /\ \A i \in 0..(n - 1) : [r EXCEPT ![n] = a][i] = m[i]
      /\ [r EXCEPT ![n] = a][n] = a
      /\ DOMAIN [r EXCEPT ![n] = a] = DOMAIN r
  BY <1>1, <1>2, Zenon
<1> QED
  BY <1>1, <1>2, <1>3, Zenon DEF r

\* Heap_add adds to the bag.
LEMMA AddRefines ==
  ASSUME IInv, NEW a \in Addrs, Heap_add(a)
  PROVE  Bag!Add(a)
<1> DEFINE m == [Heap_resize(members, size') EXCEPT ![last] = a]
           n == last + 1
<1>1. last \in Nat /\ size \in Nat /\ last <= size /\ size > 0
  BY DEF IInv, TypeOK
<1>2. size' \in Nat /\ last < size' /\ last' = n /\ n \in Nat
  BY <1>1 DEF Heap_add, Heap_grow, Heap_is_full
<1>3. /\ \A i \in 0..(last - 1) : m[i] = members[i]
      /\ m[last] = a
      /\ 0..(n - 1) \subseteq DOMAIN m
  <2>1. IsArray(members, last, size)
    BY Zenon DEF IInv, TypeOK, IsArray
  <2> QED
    BY <1>1, <1>2, <2>1, GrownArray
<1>4. Heap_sort(m, n)
  BY Zenon DEF Heap_add
<1>5. \A b \in Addrs : Cardinality(Occurrences(m, n, b)) = Count(b) + (IF a = b THEN 1 ELSE 0)
  BY <1>1, <1>3, AppendCounts DEF Count
<1> HIDE DEF m, n
<1>6. PICK p \in Bijection(0..(n - 1), 0..(n - 1)) : members' = Rearranged(m, n, p)
  BY <1>4, Zenon DEF Heap_sort
<1>7. \A b \in Addrs : Count(b)' = Cardinality(Occurrences(m, n, b))
  <2>1. \A b \in Addrs : Cardinality(Occurrences(Rearranged(m, n, p), n, b))
                           = Cardinality(Occurrences(m, n, b))
    BY <1>2, <1>3, <1>6, RearrangedSameCount, Zenon
  <2> QED
    BY <2>1, <1>2, <1>6, Zenon DEF Count
<1> HIDE DEF Count
<1>8. \A b \in Addrs : Count(b)' = Count(b) + (IF a = b THEN 1 ELSE 0)
  BY <1>5, <1>7, Zenon
<1>9. \A b \in Addrs : Count(b) \in Nat
  BY <1>1, OccurrencesFinite, Zenon DEF Count
<1>10. [b \in Addrs |-> Count(b)]' = [[b \in Addrs |-> Count(b)] EXCEPT ![a] = @ + 1]
  <2> DEFINE B == [b \in Addrs |-> Count(b)]
             C == [B EXCEPT ![a] = @ + 1]
  <2>1. \A b \in Addrs : Count(b)' = C[b]
    <3> SUFFICES ASSUME NEW b \in Addrs PROVE Count(b)' = C[b]
      BY Zenon
    <3>1. CASE a = b
      BY <3>1, <1>8, <1>9, Zenon
    <3>2. CASE a # b
      BY <3>2, <1>8, <1>9
    <3> QED
      BY <3>1, <3>2, Zenon
  <2>2. C = [b \in Addrs |-> C[b]]
    BY Zenon
  <2> HIDE DEF C
  <2>3. [b \in Addrs |-> Count(b)'] = [b \in Addrs |-> C[b]]
    BY <2>1, Zenon
  <2> QED
    BY <2>2, <2>3, Zenon DEF C
<1>11. op = "none" /\ answer' = "none" /\ op' = op /\ elem' = elem
  BY Zenon DEF Heap_add, search
<1> QED
  BY <1>10, <1>11, Zenon DEF Bag!Add

\* The bag depends on the array and on last only.
LEMMA CountsPersist ==
  (last' = last /\ members' = members) => \A b : Count(b)' = Count(b)
BY Zenon DEF Count, Occurrences

\* The start of a search is the start of a call on the bag.
LEMMA FindRefines ==
  ASSUME NEW a \in Addrs, NEW what, Heap_find(a, what)
  PROVE  Bag!Begin(what, a)
BY CountsPersist, Zenon DEF Heap_find, Bag!Begin

\* A turn of the search is invisible to the bag.
LEMMA LoopRefines ==
  ASSUME Heap_find_loop
  PROVE  UNCHANGED <<[a \in Addrs |-> Count(a)], op, elem, answer>>
BY CountsPersist, Zenon DEF Heap_find_loop

\* Heap_clear empties the bag.
LEMMA ClearRefines ==
  ASSUME Heap_clear
  PROVE  Bag!Clear
<1>1. \A b : Count(b)' = 0
  <2>1. last' = 0
    BY Zenon DEF Heap_clear
  <2>2. \A b : Occurrences(members', 0, b) = {}
    BY DEF Occurrences
  <2> QED
    BY <2>1, <2>2, FS_EmptySet, Zenon DEF Count
<1>2. op = "none" /\ answer' = "none" /\ op' = op /\ elem' = elem
  BY Zenon DEF Heap_clear, search
<1> QED
  BY <1>1, <1>2, Zenon DEF Bag!Clear

\* The bounds have crossed: no cell holds the element.
LEMMA NotFoundRefines ==
  ASSUME IInv, Heap_not_found
  PROVE  Bag!End
<1>1. op # "none" /\ ii > jj /\ ii \in Nat /\ jj \in Int /\ elem \in Addrs
  BY Zenon DEF Heap_not_found, IInv, TypeOK
<1>2. Occurrences(members, last, elem) = {}
  <2>1. ii..jj = {}
    BY <1>1
  <2> QED
    BY <1>1, <2>1, Zenon DEF IInv, SearchNarrows, Occurrences
<1>3. Count(elem) = 0
  BY <1>2, FS_EmptySet, Zenon DEF Count
<1>4. op' = "none" /\ elem' = NULL /\ answer' = "out" /\ last' = last /\ members' = members
  BY Zenon DEF Heap_not_found, Returned
<1>5. \A b \in Addrs : Count(b)' = Count(b)
  BY <1>4, CountsPersist, Zenon
<1> DEFINE B == [a \in Addrs |-> Count(a)]
<1>6. B' = B /\ ~(B[elem] > 0)
  BY <1>1, <1>3, <1>5
<1> HIDE DEF B
<1>7. /\ answer' = IF B[elem] > 0 THEN "in" ELSE "out"
      /\ B' = IF op = "delete" /\ B[elem] > 0 THEN [B EXCEPT ![elem] = @ - 1] ELSE B
  BY <1>4, <1>6, Zenon
<1> QED
  BY <1>1, <1>4, <1>7, Zenon DEF Bag!End, B

\* What Heap_delete leaves below last, cell by cell.
LEMMA DeletedCells ==
  ASSUME NEW s \in Nat, NEW t \in Nat, last \in Nat, 0 < last, last <= s, last - 1 <= t,
         NEW m, IsArray(m, last, s), Sorted(m, last), NEW at \in 0..(last - 1)
  PROVE  \A i \in 0..(last - 1 - 1) :
           Heap_resize(Moved(m, at), t)[i] = m[IF i < at THEN i ELSE i + 1]
<1>1. DOMAIN m = 0..(s - 1)
  BY Zenon DEF IsArray
<1>2. \A i \in 0..(last - 1 - 1) : Moved(m, at)[i] = m[IF i < at THEN i ELSE i + 1]
  <2> SUFFICES ASSUME NEW i \in 0..(last - 1 - 1)
               PROVE  Moved(m, at)[i] = m[IF i < at THEN i ELSE i + 1]
    BY Zenon
  <2>1. i \in DOMAIN m /\ i # last - 1
    BY <1>1
  <2>2. CASE i < at
    BY <2>1, <2>2 DEF Moved
  <2>3. CASE ~(i < at)
    <3>1. i \in at..(last - 2)
      BY <2>3
    <3> QED
      BY <2>1, <2>3, <3>1, Zenon DEF Moved
  <2> QED
    BY <2>2, <2>3, Zenon
<1>3. \A i \in 0..(last - 1 - 1) : Heap_resize(Moved(m, at), t)[i] = Moved(m, at)[i]
  <2> DEFINE n == last - 1
             w == Moved(m, at)
  <2>1. n \in Nat /\ n <= s /\ n <= t
    OBVIOUS
  <2>2. IsArray(w, n, s)
    BY MovedIsSorted, Zenon
  <2> HIDE DEF n, w
  <2>3. \A i \in 0..(n - 1) : Heap_resize(w, t)[i] = w[i]
    BY <2>1, <2>2, ResizeKeeps
  <2> QED
    BY <2>3, Zenon DEF n, w
<1> QED
  BY <1>2, <1>3, Zenon

\* A search that ends at its element, and the deletion of it.
LEMMA FoundRefines ==
  ASSUME IInv, Heap_found
  PROVE  Bag!End
<1> DEFINE kk == (jj + ii) \div 2
           B == [a \in Addrs |-> Count(a)]
<1>1. last \in Nat /\ size \in Nat /\ last <= size /\ size > 0
      /\ ii \in Nat /\ jj \in Int /\ ii <= jj /\ jj < last
  BY DEF IInv, TypeOK, Heap_found
<1>2. kk \in 0..(last - 1) /\ 0 < last
  BY <1>1, MiddleIsInside
<1>3. op # "none" /\ elem \in Addrs /\ Heap_void_ptr_compare(members[kk], elem) = 0
  BY Zenon DEF IInv, TypeOK, Heap_found, Heap_compare
<1> HIDE DEF kk
<1>4. members[kk] = elem
  <2>1. members[kk] \in Addrs
    BY <1>2, Zenon DEF IInv, TypeOK
  <2>2. members[kk] - elem = 0
    BY <1>3, <2>1, CompareIsExact, Zenon
  <2>3. members[kk] \in Nat /\ elem \in Nat
    BY <1>3, <2>1, AddrsAreAddresses, Zenon
  <2> QED
    BY <2>2, <2>3
<1>5. \A b \in Addrs : Count(b) \in Nat
  BY <1>1, OccurrencesFinite, Zenon DEF Count
<1>6. Count(elem) > 0
  <2>1. kk \in Occurrences(members, last, elem)
    BY <1>2, <1>4, Zenon DEF Occurrences
  <2>2. Count(elem) # 0
    BY <2>1, <1>1, OccurrencesFinite, FS_EmptySet, Zenon DEF Count
  <2> QED
    BY <2>2, <1>3, <1>5
<1>7. op' = "none" /\ elem' = NULL /\ answer' = "in"
  BY Zenon DEF Heap_found, Returned
<1>8. B' = IF op = "delete" THEN [B EXCEPT ![elem] = @ - 1] ELSE B
  <2>1. CASE op = "delete"
    <3> DEFINE n == last - 1
    <3>1. last' = n /\ size' = Heap_shrink(last - 1)
          /\ members' = Heap_resize(Moved(members, kk), size')
      BY <2>1, Zenon DEF Heap_found, kk
    <3>2. size' \in Nat /\ last - 1 <= size' /\ n \in Nat /\ n + 1 = last /\ kk \in 0..n
      BY <1>1, <1>2, <3>1, HeapSizePositive DEF Heap_shrink
    <3>3. \A i \in 0..(n - 1) : members'[i] = members[IF i < kk THEN i ELSE i + 1]
      <4>1. IsArray(members, last, size) /\ Sorted(members, last)
        BY Zenon DEF IInv, TypeOK, SearchNarrows, IsArray
      <4> QED
        BY <4>1, <1>1, <1>2, <3>1, <3>2, DeletedCells
    <3> HIDE DEF n
    <3>4. \A b \in Addrs : Count(b)' = Count(b) - (IF elem = b THEN 1 ELSE 0)
      BY <3>1, <3>2, <3>3, <1>4, MovedCounts DEF Count
    <3> DEFINE C == [B EXCEPT ![elem] = @ - 1]
    <3>5. \A b \in Addrs : Count(b)' = C[b]
      <4> SUFFICES ASSUME NEW b \in Addrs PROVE Count(b)' = C[b]
        BY Zenon
      <4>1. CASE elem = b
        BY <4>1, <3>4, <1>5, Zenon
      <4>2. CASE elem # b
        BY <4>2, <3>4, <1>5
      <4> QED
        BY <4>1, <4>2, Zenon
    <3>6. C = [b \in Addrs |-> C[b]]
      BY Zenon
    <3> HIDE DEF C
    <3>7. [b \in Addrs |-> Count(b)'] = [b \in Addrs |-> C[b]]
      BY <3>5, Zenon
    <3> QED
      BY <2>1, <3>6, <3>7, Zenon DEF C
  <2>2. CASE op # "delete"
    <3>1. last' = last /\ members' = members
      BY <2>2, Zenon DEF Heap_found
    <3> QED
      BY <2>2, <3>1, CountsPersist, Zenon
  <2> QED
    BY <2>1, <2>2, Zenon
<1>9. B[elem] > 0
  BY <1>3, <1>6, Zenon
<1> HIDE DEF B
<1>10. /\ answer' = IF B[elem] > 0 THEN "in" ELSE "out"
       /\ B' = IF op = "delete" /\ B[elem] > 0 THEN [B EXCEPT ![elem] = @ - 1] ELSE B
  BY <1>7, <1>8, <1>9, Zenon
<1> QED
  BY <1>3, <1>7, <1>10, Zenon DEF Bag!End, B

\* Every call of the heap does to the bag of its elements what HeapBag says:
\* finding, adding with its sort and its growth, deleting with its shift and
\* its shrinking, and clearing.
THEOREM Refinement == Spec => BagSpec
<1>1. Init => Bag!Init
  <2> SUFFICES ASSUME Init PROVE Bag!Init
    BY Zenon
  <2>1. \A b : Count(b) = 0
    <3>1. \A b : Occurrences(members, 0, b) = {}
      BY DEF Occurrences
    <3> QED
      BY <3>1, FS_EmptySet, Zenon DEF Init, Count
  <2> QED
    BY <2>1, Zenon DEF Init, Bag!Init
<1>2. IInv /\ [Next]_vars => [Bag!Next]_<<[a \in Addrs |-> Count(a)], op, elem, answer>>
  <2> SUFFICES ASSUME IInv, [Next]_vars
               PROVE  [Bag!Next]_<<[a \in Addrs |-> Count(a)], op, elem, answer>>
    BY Zenon
  <2>1. ASSUME NEW a \in Addrs, Heap_add(a) PROVE Bag!Next
    BY <2>1, AddRefines, Zenon DEF Bag!Next
  <2>2. ASSUME NEW a \in Addrs, Heap_find(a, "find") PROVE Bag!Next
    BY <2>2, FindRefines, Zenon DEF Bag!Next
  <2>3. ASSUME NEW a \in Addrs, Heap_find(a, "delete") PROVE Bag!Next
    BY <2>3, FindRefines, Zenon DEF Bag!Next
  <2>4. CASE Heap_found \/ Heap_not_found
    BY <2>4, FoundRefines, NotFoundRefines, Zenon DEF Bag!Next
  <2>5. CASE Heap_clear
    BY <2>5, ClearRefines, Zenon DEF Bag!Next
  <2>6. CASE Heap_find_loop
    BY <2>6, LoopRefines, Zenon
  <2>7. CASE UNCHANGED vars
    BY <2>7, CountsPersist, Zenon DEF vars
  <2> QED
    BY <2>1, <2>2, <2>3, <2>4, <2>5, <2>6, <2>7, Zenon DEF Next
<1> QED
  BY <1>1, <1>2, AlwaysGood, PTL DEF Spec, BagSpec, Bag!Spec

=============================================================================
