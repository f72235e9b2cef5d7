---------------------------- MODULE MxrTableProofs ----------------------------
(***************************************************************************)
(* Proofs about the descriptor array, for every arena and every capacity:  *)
(* bisection finds what is there, a guard that looks at two neighbours     *)
(* keeps the array sorted and its blocks apart, the gap that is read off   *)
(* two neighbours is the maximal one, and the scan loop finds what the     *)
(* search by sets finds.  This is what lets the proofs about the arenas    *)
(* take the table for the set of its extents.                              *)
(***************************************************************************)
EXTENDS MxrScan, MxrGapsProofs, SequenceTheorems

-----------------------------------------------------------------------------
(* Bisection. *)

(* The indices of Left come before all others. *)
Prefix(Left) == \A i, j \in Indices : i < j /\ j \in Left => i \in Left

(* The first index of l .. r that is not in Left; r when they all are.      *)
IsFirst(Left, l, r, k) ==
  /\ k \in l .. r
  /\ \A i \in Nat : l <= i /\ i < k => i \in Left
  /\ k < r => k \notin Left

First(Left, l, r) == CHOOSE k \in l .. r : IsFirst(Left, l, r, k)

LEMMA FirstExists ==
  ASSUME NEW Left, NEW l \in Nat, NEW r \in Nat, l <= r
  PROVE  IsFirst(Left, l, r, First(Left, l, r)) /\ First(Left, l, r) \in l .. r
<1> DEFINE S == {k \in l .. r : k = r \/ k \notin Left}
<1>1. S \in SUBSET Nat /\ r \in S
  OBVIOUS
<1> HIDE DEF S
<1>2. PICK m \in S : \A n \in S : m <= n
  BY <1>1, NatMin
<1>3. m \in l .. r /\ (m = r \/ m \notin Left)
  BY <1>2 DEF S
<1>4. ASSUME NEW i \in Nat, l <= i, i < m
      PROVE  i \in Left
  <2>1. i \notin S
    BY <1>2, <1>3, <1>4
  <2> QED
    BY <1>3, <1>4, <2>1 DEF S
<1>5. IsFirst(Left, l, r, m)
  BY <1>3, <1>4 DEF IsFirst
<1>6. \E k \in l .. r : IsFirst(Left, l, r, k)
  BY <1>3, <1>5
<1> QED
  BY <1>6 DEF First

LEMMA FirstUnique ==
  ASSUME NEW Left, NEW l \in Nat, NEW r \in Nat, l <= r,
         NEW k \in Nat, IsFirst(Left, l, r, k)
  PROVE  k = First(Left, l, r)
<1> DEFINE m == First(Left, l, r)
<1>1. IsFirst(Left, l, r, m) /\ m \in l .. r
  BY FirstExists
<1> HIDE DEF m
<1>2. m \in Nat /\ m <= r /\ l <= m /\ k <= r /\ l <= k
  BY <1>1 DEF IsFirst
<1>3. ~ (k < m)
  BY <1>1, <1>2 DEF IsFirst
<1>4. ~ (m < k)
  BY <1>1, <1>2 DEF IsFirst
<1>5. k = m
  BY <1>2, <1>3, <1>4
<1> QED
  BY <1>5 DEF m

(* One half of the span holds the answer for the whole. *)
LEMMA FirstHalves ==
  ASSUME NEW Left, Prefix(Left), Len(desc) \in Nat,
         NEW l \in 1 .. (Len(desc) + 1), NEW r \in 1 .. (Len(desc) + 1), l < r,
         NEW mid \in Nat, mid = (l + r) \div 2
  PROVE  /\ l <= mid /\ mid < r /\ mid \in Indices
         /\ mid \in Left => First(Left, l, r) = First(Left, mid + 1, r)
         /\ mid \notin Left => First(Left, l, r) = First(Left, l, mid)
<1>1. l <= mid /\ mid < r /\ l \in Nat /\ r \in Nat /\ mid + 1 \in Nat
  OBVIOUS
<1>2. mid \in Indices
  BY <1>1 DEF Indices
<1>3. ASSUME mid \in Left PROVE First(Left, l, r) = First(Left, mid + 1, r)
  <2> DEFINE k == First(Left, mid + 1, r)
  <2>1. IsFirst(Left, mid + 1, r, k) /\ k \in (mid + 1) .. r
    BY <1>1, FirstExists
  <2> HIDE DEF k
  <2>2. \A i \in Nat : l <= i /\ i <= mid => i \in Left
    BY <1>1, <1>2, <1>3 DEF Prefix, Indices
  <2>3. \A i \in Nat : l <= i /\ i < k => i \in Left
    BY <1>1, <2>1, <2>2 DEF IsFirst
  <2>4. k \in Nat /\ IsFirst(Left, l, r, k)
    BY <1>1, <2>1, <2>3 DEF IsFirst
  <2>5. k = First(Left, l, r)
    BY <1>1, <2>4, FirstUnique
  <2> QED
    BY <2>5 DEF k
<1>4. ASSUME mid \notin Left PROVE First(Left, l, r) = First(Left, l, mid)
  <2> DEFINE k == First(Left, l, mid)
  <2>1. IsFirst(Left, l, mid, k) /\ k \in l .. mid
    BY <1>1, FirstExists
  <2> HIDE DEF k
  <2>2. k \notin Left
    BY <1>1, <1>4, <2>1 DEF IsFirst
  <2>3. k \in Nat /\ IsFirst(Left, l, r, k)
    BY <1>1, <2>1, <2>2 DEF IsFirst
  <2>4. k = First(Left, l, r)
    BY <1>1, <2>3, FirstUnique
  <2> QED
    BY <2>4 DEF k
<1> QED
  BY <1>1, <1>2, <1>3, <1>4

(* The equation of the bisection.  Some function solves it, and all that do *)
(* agree where they are asked.                                              *)
Halving(Left, b) ==
  [s \in Span |->
     LET l == s[1]  r == s[2]  mid == (l + r) \div 2
     IN IF l >= r THEN l
        ELSE IF mid \in Left THEN b[<<mid + 1, r>>] ELSE b[<<l, mid>>]]

LEMMA HalvingAt ==
  ASSUME NEW Left, NEW b, b = Halving(Left, b),
         NEW l \in 1 .. (Len(desc) + 1), NEW r \in 1 .. (Len(desc) + 1)
  PROVE  b[<<l, r>>] = IF l >= r THEN l
                       ELSE IF (l + r) \div 2 \in Left THEN b[<<(l + r) \div 2 + 1, r>>]
                       ELSE b[<<l, (l + r) \div 2>>]
<1>1. <<l, r>> \in Span
  BY DEF Span
<1>2. b[<<l, r>>] = Halving(Left, b)[<<l, r>>]
  OBVIOUS
<1> QED
  BY <1>1, <1>2 DEF Halving

LEMMA HalvingSolved ==
  ASSUME NEW Left, Prefix(Left), Len(desc) \in Nat
  PROVE  \E b : b = Halving(Left, b)
<1> DEFINE b == [s \in Span |-> IF s[1] >= s[2] THEN s[1] ELSE First(Left, s[1], s[2])]
<1>1. ASSUME NEW l \in 1 .. (Len(desc) + 1), NEW r \in 1 .. (Len(desc) + 1), l <= r
      PROVE  b[<<l, r>>] = First(Left, l, r)
  <2>1. <<l, r>> \in Span
    BY DEF Span
  <2>2. b[<<l, r>>] = IF l >= r THEN l ELSE First(Left, l, r)
    BY <2>1
  <2>3. First(Left, l, r) \in l .. r
    BY <1>1, FirstExists
  <2> QED
    BY <1>1, <2>2, <2>3
<1>2. ASSUME NEW s \in Span
      PROVE  b[s] = Halving(Left, b)[s]
  <2>1. PICK l \in 1 .. (Len(desc) + 1), r \in 1 .. (Len(desc) + 1) : s = <<l, r>>
    BY DEF Span
  <2>2. b[s] = IF l >= r THEN l ELSE First(Left, l, r)
    BY <2>1
  <2>3. PICK mid \in Nat : mid = (l + r) \div 2
    OBVIOUS
  <2>4. Halving(Left, b)[s] = IF l >= r THEN l
                              ELSE IF mid \in Left THEN b[<<mid + 1, r>>] ELSE b[<<l, mid>>]
    BY <2>1, <2>3 DEF Halving
  <2> HIDE DEF b
  <2>5. CASE l < r
    <3>1. /\ l <= mid /\ mid < r /\ mid \in Indices
          /\ mid \in Left => First(Left, l, r) = First(Left, mid + 1, r)
          /\ mid \notin Left => First(Left, l, r) = First(Left, l, mid)
      BY <2>3, <2>5, FirstHalves
    <3>2. /\ b[<<mid + 1, r>>] = First(Left, mid + 1, r)
          /\ b[<<l, mid>>] = First(Left, l, mid)
      BY <1>1, <3>1 DEF Indices
    <3> QED
      BY <2>2, <2>4, <2>5, <3>1, <3>2
  <2> QED
    BY <2>2, <2>4, <2>5
<1>3. b = Halving(Left, b)
  <2>1. Halving(Left, b) = [s \in Span |-> Halving(Left, b)[s]]
    BY DEF Halving
  <2>2. b = [s \in Span |-> b[s]]
    OBVIOUS
  <2> HIDE DEF b
  <2> QED
    BY <1>2, <2>1, <2>2
<1> HIDE DEF b
<1> QED
  BY <1>3

LEMMA HalvingUnique ==
  ASSUME NEW Left, Prefix(Left), Len(desc) \in Nat, NEW b, b = Halving(Left, b),
         NEW l \in 1 .. (Len(desc) + 1), NEW r \in 1 .. (Len(desc) + 1), l <= r
  PROVE  b[<<l, r>>] = First(Left, l, r)
<1> DEFINE I == 1 .. (Len(desc) + 1)
           Bad(p, q) == p <= q /\ b[<<p, q>>] # First(Left, p, q)
           S == {n \in Nat : \E p, q \in I : Bad(p, q) /\ n = q - p}
<1>1. SUFFICES ASSUME Bad(l, r) PROVE FALSE
  OBVIOUS
<1>2. r - l \in S
  <2>1. r - l \in Nat /\ l \in I /\ r \in I
    BY <1>1
  <2> HIDE DEF I, Bad
  <2>2. \E p, q \in I : Bad(p, q) /\ r - l = q - p
    BY <1>1, <2>1
  <2> QED
    BY <2>1, <2>2
<1>3. S \in SUBSET Nat /\ S # {}
  BY <1>2
<1>4. PICK n \in S : \A m \in S : n <= m
  <2> HIDE DEF S
  <2> QED
    BY <1>3, NatMin
<1>5. PICK p \in I, q \in I : Bad(p, q) /\ n = q - p
  BY <1>4
<1>6. \A u, v \in I : u <= v /\ v - u < q - p => b[<<u, v>>] = First(Left, u, v)
  <2> SUFFICES ASSUME NEW u \in I, NEW v \in I, u <= v, v - u < q - p, Bad(u, v) PROVE FALSE
    OBVIOUS
  <2>1. v - u \in Nat
    OBVIOUS
  <2>2. v - u < n
    BY <1>5
  <2> HIDE DEF I, Bad
  <2>3. v - u \in S
    BY <2>1
  <2> HIDE DEF S
  <2>4. n <= v - u /\ n \in Nat
    BY <1>3, <1>4, <2>3
  <2> QED
    BY <2>1, <2>2, <2>4
<1> HIDE DEF S
<1>7. PICK mid \in Nat : mid = (p + q) \div 2
  OBVIOUS
<1>8. b[<<p, q>>] = IF p >= q THEN p
                    ELSE IF mid \in Left THEN b[<<mid + 1, q>>] ELSE b[<<p, mid>>]
  BY <1>7, HalvingAt
<1>9. CASE p < q
  <2>1. /\ p <= mid /\ mid < q /\ mid \in Indices
        /\ mid \in Left => First(Left, p, q) = First(Left, mid + 1, q)
        /\ mid \notin Left => First(Left, p, q) = First(Left, p, mid)
    BY <1>7, <1>9, FirstHalves
  <2>2. /\ b[<<mid + 1, q>>] = First(Left, mid + 1, q)
        /\ b[<<p, mid>>] = First(Left, p, mid)
    BY <1>6, <2>1 DEF Indices
  <2> QED
    BY <1>5, <1>8, <1>9, <2>1, <2>2
<1>10. CASE ~ (p < q)
  <2>1. First(Left, p, q) \in p .. q
    BY <1>5, FirstExists
  <2> QED
    BY <1>5, <1>8, <1>10, <2>1
<1> QED
  BY <1>9, <1>10

(* What the bisection comes up with. *)
LEMMA BisectFirst ==
  ASSUME NEW Left, Prefix(Left), Len(desc) \in Nat
  PROVE  IsFirst(Left, 1, Len(desc) + 1, Bisect(Left))
<1> DEFINE b == CHOOSE f : f = Halving(Left, f)
<1>1. b = Halving(Left, b)
  BY HalvingSolved
<1>2. Bisect(Left) = b[<<1, Len(desc) + 1>>]
  BY DEF Bisect, Halving
<1> HIDE DEF b
<1>3. Bisect(Left) = First(Left, 1, Len(desc) + 1)
  BY <1>1, <1>2, HalvingUnique
<1> QED
  BY <1>3, FirstExists

(* The search for an offset, in the same way. *)
Off(i) == desc[i].off

Ascending ==
  /\ desc \in Seq(Extent) /\ Len(desc) \in Nat
  /\ \A i, j \in Indices : i < j => Off(i) < Off(j)

At(key, l, r) == {i \in Indices : l <= i /\ i < r /\ Off(i) = key}

LEMMA OffType ==
  ASSUME Ascending, NEW i \in Indices
  PROVE  Off(i) \in Nat /\ i \in Nat
<1>1. desc[i] \in Extent /\ i \in Nat
  BY DEF Ascending, Indices
<1> QED
  BY <1>1 DEF Extent, Off

LEMMA AtHalves ==
  ASSUME Ascending, NEW key \in Nat,
         NEW l \in 1 .. (Len(desc) + 1), NEW r \in 1 .. (Len(desc) + 1), l < r,
         NEW mid \in Nat, mid = (l + r) \div 2
  PROVE  /\ l <= mid /\ mid < r /\ mid \in Indices
         /\ Off(mid) = key => At(key, l, r) = {mid}
         /\ Off(mid) < key => At(key, l, r) = At(key, mid + 1, r)
         /\ key < Off(mid) => At(key, l, r) = At(key, l, mid)
<1>1. l <= mid /\ mid < r /\ l \in Nat /\ r \in Nat /\ Len(desc) \in Nat
  BY DEF Ascending
<1>2. mid \in Indices
  BY <1>1 DEF Indices
<1>3. \A i \in Indices : Off(i) \in Nat /\ i \in Nat
  BY OffType
<1>4. ASSUME Off(mid) = key PROVE At(key, l, r) = {mid}
  <2>1. \A i \in Indices : Off(i) = key => i = mid
    BY <1>2, <1>3, <1>4 DEF Ascending
  <2> QED
    BY <1>1, <1>2, <1>4, <2>1 DEF At
<1>5. ASSUME Off(mid) < key PROVE At(key, l, r) = At(key, mid + 1, r)
  <2>1. \A i \in Indices : Off(i) = key => mid < i
    BY <1>1, <1>2, <1>3, <1>5 DEF Ascending
  <2> QED
    BY <1>1, <1>3, <2>1 DEF At
<1>6. ASSUME key < Off(mid) PROVE At(key, l, r) = At(key, l, mid)
  <2>1. \A i \in Indices : Off(i) = key => i < mid
    BY <1>1, <1>2, <1>3, <1>6 DEF Ascending
  <2> QED
    BY <1>1, <1>3, <2>1 DEF At
<1> QED
  BY <1>1, <1>2, <1>4, <1>5, <1>6

SearchStep(key, f, l, r, mid) ==
  IF l >= r THEN {}
  ELSE IF Off(mid) = key THEN {mid}
  ELSE IF Off(mid) < key THEN f[<<mid + 1, r>>] ELSE f[<<l, mid>>]

Searching(key, f) == [s \in Span |-> SearchStep(key, f, s[1], s[2], (s[1] + s[2]) \div 2)]

LEMMA SearchingAt ==
  ASSUME NEW key, NEW f, f = Searching(key, f),
         NEW l \in 1 .. (Len(desc) + 1), NEW r \in 1 .. (Len(desc) + 1)
  PROVE  f[<<l, r>>] = SearchStep(key, f, l, r, (l + r) \div 2)
<1>1. <<l, r>> \in Span
  BY DEF Span
<1>2. f[<<l, r>>] = Searching(key, f)[<<l, r>>]
  OBVIOUS
<1> QED
  BY <1>1, <1>2 DEF Searching

LEMMA SearchingSolved ==
  ASSUME Ascending, NEW key \in Nat
  PROVE  \E f : f = Searching(key, f)
<1> DEFINE f == [s \in Span |-> At(key, s[1], s[2])]
<1>0. Len(desc) \in Nat
  BY DEF Ascending
<1>1. ASSUME NEW l \in 1 .. (Len(desc) + 1), NEW r \in 1 .. (Len(desc) + 1)
      PROVE  f[<<l, r>>] = At(key, l, r)
  <2>1. <<l, r>> \in Span
    BY DEF Span
  <2> QED
    BY <2>1
<1>2. ASSUME NEW s \in Span
      PROVE  f[s] = Searching(key, f)[s]
  <2>1. PICK l \in 1 .. (Len(desc) + 1), r \in 1 .. (Len(desc) + 1) : s = <<l, r>>
    BY DEF Span
  <2>2. f[s] = At(key, l, r)
    BY <1>1, <2>1
  <2>3. PICK mid \in Nat : mid = (l + r) \div 2
    BY <1>0
  <2>4. Searching(key, f)[s] = SearchStep(key, f, l, r, mid)
    <3> HIDE DEF f
    <3>1. s = <<l, r>> /\ <<l, r>> \in Span
      BY <2>1 DEF Span
    <3>2. Searching(key, f)[<<l, r>>] = SearchStep(key, f, l, r, (l + r) \div 2)
      BY <3>1 DEF Searching
    <3> QED
      BY <2>3, <3>1, <3>2, Zenon
  <2> HIDE DEF f
  <2>5. CASE l < r
    <3>1. /\ l <= mid /\ mid < r /\ mid \in Indices
          /\ Off(mid) = key => At(key, l, r) = {mid}
          /\ Off(mid) < key => At(key, l, r) = At(key, mid + 1, r)
          /\ key < Off(mid) => At(key, l, r) = At(key, l, mid)
      BY <2>3, <2>5, AtHalves
    <3>2. f[<<mid + 1, r>>] = At(key, mid + 1, r) /\ f[<<l, mid>>] = At(key, l, mid)
      BY <1>0, <1>1, <3>1 DEF Indices
    <3>3. Off(mid) \in Nat
      BY <3>1, OffType
    <3> QED
      BY <1>0, <2>2, <2>4, <2>5, <3>1, <3>2, <3>3 DEF SearchStep
  <2>6. CASE ~ (l < r)
    <3>1. At(key, l, r) = {}
      BY <1>0, <2>6 DEF At, Indices
    <3> QED
      BY <1>0, <2>2, <2>4, <2>6, <3>1 DEF SearchStep
  <2> QED
    BY <2>5, <2>6
<1>3. f = Searching(key, f)
  <2>1. Searching(key, f) = [s \in Span |-> Searching(key, f)[s]]
    BY DEF Searching
  <2>2. f = [s \in Span |-> f[s]]
    OBVIOUS
  <2> HIDE DEF f
  <2> QED
    BY <1>2, <2>1, <2>2
<1> HIDE DEF f
<1> QED
  BY <1>3

LEMMA SearchingUnique ==
  ASSUME Ascending, NEW key \in Nat, NEW f, f = Searching(key, f),
         NEW l \in 1 .. (Len(desc) + 1), NEW r \in 1 .. (Len(desc) + 1), l <= r
  PROVE  f[<<l, r>>] = At(key, l, r)
<1> DEFINE I == 1 .. (Len(desc) + 1)
           Bad(p, q) == p <= q /\ f[<<p, q>>] # At(key, p, q)
           S == {n \in Nat : \E p, q \in I : Bad(p, q) /\ n = q - p}
<1>0. Len(desc) \in Nat
  BY DEF Ascending
<1>1. SUFFICES ASSUME Bad(l, r) PROVE FALSE
  OBVIOUS
<1>2. r - l \in S
  <2>1. r - l \in Nat /\ l \in I /\ r \in I
    BY <1>0, <1>1
  <2> HIDE DEF I, Bad
  <2>2. \E p, q \in I : Bad(p, q) /\ r - l = q - p
    BY <1>1, <2>1
  <2> QED
    BY <2>1, <2>2
<1>3. S \in SUBSET Nat /\ S # {}
  BY <1>2
<1>4. PICK n \in S : \A m \in S : n <= m
  <2> HIDE DEF S
  <2> QED
    BY <1>3, NatMin
<1>5. PICK p \in I, q \in I : Bad(p, q) /\ n = q - p
  BY <1>4
<1>6. \A u, v \in I : u <= v /\ v - u < q - p => f[<<u, v>>] = At(key, u, v)
  <2> SUFFICES ASSUME NEW u \in I, NEW v \in I, u <= v, v - u < q - p, Bad(u, v) PROVE FALSE
    OBVIOUS
  <2>1. v - u \in Nat
    BY <1>0
  <2>2. v - u < n
    BY <1>5
  <2> HIDE DEF I, Bad
  <2>3. v - u \in S
    BY <2>1
  <2> HIDE DEF S
  <2>4. n <= v - u /\ n \in Nat
    BY <1>3, <1>4, <2>3
  <2> QED
    BY <2>1, <2>2, <2>4
<1> HIDE DEF S
<1>7. PICK mid \in Nat : mid = (p + q) \div 2
  BY <1>0
<1>8. f[<<p, q>>] = SearchStep(key, f, p, q, mid)
  BY <1>7, SearchingAt, Zenon
<1>9. CASE p < q
  <2>1. /\ p <= mid /\ mid < q /\ mid \in Indices
        /\ Off(mid) = key => At(key, p, q) = {mid}
        /\ Off(mid) < key => At(key, p, q) = At(key, mid + 1, q)
        /\ key < Off(mid) => At(key, p, q) = At(key, p, mid)
    BY <1>7, <1>9, AtHalves
  <2>2. f[<<mid + 1, q>>] = At(key, mid + 1, q) /\ f[<<p, mid>>] = At(key, p, mid)
    <3>1. mid \in I /\ mid + 1 \in I /\ p \in Nat /\ q \in Nat /\ mid \in Nat
      BY <1>0, <1>7, <2>1 DEF Indices
    <3>2. mid + 1 <= q /\ q - (mid + 1) < q - p /\ p <= mid /\ mid - p < q - p
      BY <2>1, <3>1
    <3> HIDE DEF I
    <3> QED
      BY <1>6, <3>1, <3>2
  <2>3. Off(mid) \in Nat
    BY <2>1, OffType
  <2> QED
    BY <1>0, <1>5, <1>8, <1>9, <2>1, <2>2, <2>3 DEF SearchStep
<1>10. CASE ~ (p < q)
  <2>1. At(key, p, q) = {}
    BY <1>0, <1>10 DEF At, Indices
  <2> QED
    BY <1>0, <1>5, <1>8, <1>10, <2>1 DEF SearchStep
<1> QED
  BY <1>9, <1>10

LEMMA FindKeyExact ==
  ASSUME Ascending, NEW key \in Nat
  PROVE  FindKey(key) = {i \in Indices : desc[i].off = key}
<1> DEFINE f == CHOOSE g : g = Searching(key, g)
<1>0. Len(desc) \in Nat
  BY DEF Ascending
<1>1. f = Searching(key, f)
  BY SearchingSolved
<1>2. FindKey(key) = f[<<1, Len(desc) + 1>>]
  BY DEF FindKey, Searching, SearchStep, Off
<1> HIDE DEF f
<1>3. FindKey(key) = At(key, 1, Len(desc) + 1)
  BY <1>0, <1>1, <1>2, SearchingUnique
<1> QED
  BY <1>0, <1>3 DEF At, Indices, Off

-----------------------------------------------------------------------------
(* The array stays sorted. *)

(* Entry i comes before entry j with all of its bytes, for every two of     *)
(* them: Sorted says it of neighbours, and this is what follows.            *)
ArrayInv ==
  /\ desc \in Seq(Extent) /\ Len(desc) <= Slots
  /\ \A i \in Indices : desc[i].len > 0 /\ EndOf(desc[i]) <= Bytes
  /\ \A i, j \in Indices : i < j => EndOf(desc[i]) <= desc[j].off

LEMMA EntryType ==
  ASSUME desc \in Seq(Extent), NEW i \in Indices
  PROVE  /\ desc[i] \in Extent /\ desc[i].off \in Nat /\ desc[i].len \in Nat
         /\ EndOf(desc[i]) \in Nat /\ EndOf(desc[i]) = desc[i].off + desc[i].len
         /\ i \in Nat /\ Len(desc) \in Nat
<1>1. desc[i] \in Extent /\ i \in Nat /\ Len(desc) \in Nat
  BY DEF Indices
<1> QED
  BY <1>1 DEF Extent, EndOf

LEMMA ArrayAscends == ArrayInv => Ascending
<1> SUFFICES ASSUME ArrayInv PROVE Ascending
  OBVIOUS
<1>1. desc \in Seq(Extent) /\ Len(desc) \in Nat
  BY DEF ArrayInv
<1>2. ASSUME NEW i \in Indices, NEW j \in Indices, i < j
      PROVE  desc[i].off < desc[j].off
  <2>1. EndOf(desc[i]) <= desc[j].off /\ desc[i].len > 0
    BY <1>2 DEF ArrayInv
  <2> QED
    BY <1>1, <2>1, EntryType
<1> QED
  BY <1>1, <1>2 DEF Ascending, Off

(* t is s with x at place i, and everything behind moved up by one. *)
IsWith(t, s, i, x) ==
  /\ t \in Seq(Extent) /\ Len(t) = Len(s) + 1
  /\ \A j \in 1 .. (Len(s) + 1) : t[j] = IF j < i THEN s[j] ELSE IF j = i THEN x ELSE s[j - 1]

LEMMA InsertedAt ==
  ASSUME NEW s \in Seq(Extent), NEW i \in 1 .. (Len(s) + 1), NEW x \in Extent
  PROVE  IsWith(InsertAt(s, i, x), s, i, x)
<1> DEFINE a == SubSeq(s, 1, i - 1)
           b == SubSeq(s, i, Len(s))
           ax == a \o <<x>>
<1>1. Len(s) \in Nat /\ \A k \in 1 .. Len(s) : s[k] \in Extent
  OBVIOUS
<1>2. /\ a \in Seq(Extent) /\ Len(a) = i - 1
      /\ \A k \in 1 .. (i - 1) : a[k] = s[k]
  BY <1>1, SubSeqProperties
<1>3. /\ b \in Seq(Extent) /\ Len(b) = Len(s) - i + 1
      /\ \A k \in 1 .. (Len(s) - i + 1) : b[k] = s[i + k - 1]
  BY <1>1, SubSeqProperties
<1> HIDE DEF a, b
<1>4. <<x>> \in Seq(Extent) /\ Len(<<x>>) = 1 /\ <<x>>[1] = x
  OBVIOUS
<1>5. /\ ax \in Seq(Extent) /\ Len(ax) = i
      /\ \A k \in 1 .. i : ax[k] = IF k < i THEN s[k] ELSE x
  <2>1. /\ ax \in Seq(Extent) /\ Len(ax) = i - 1 + 1
        /\ \A k \in 1 .. (i - 1) + 1 : ax[k] = IF k <= i - 1 THEN a[k] ELSE <<x>>[k - (i - 1)]
    BY <1>2, <1>4, ConcatProperties
  <2> HIDE DEF ax
  <2>2. ASSUME NEW k \in 1 .. i PROVE ax[k] = IF k < i THEN s[k] ELSE x
    BY <1>1, <1>2, <1>4, <2>1
  <2> QED
    BY <1>1, <2>1, <2>2
<1> HIDE DEF ax
<1>6. /\ ax \o b \in Seq(Extent) /\ Len(ax \o b) = i + (Len(s) - i + 1)
      /\ \A k \in 1 .. i + (Len(s) - i + 1) :
           (ax \o b)[k] = IF k <= i THEN ax[k] ELSE b[k - i]
  BY <1>3, <1>5, ConcatProperties
<1>7. InsertAt(s, i, x) = ax \o b
  BY DEF InsertAt, ax, a, b
<1>8. ASSUME NEW j \in 1 .. (Len(s) + 1)
      PROVE  (ax \o b)[j] = IF j < i THEN s[j] ELSE IF j = i THEN x ELSE s[j - 1]
  <2>1. CASE j <= i
    BY <1>1, <1>5, <1>6, <2>1
  <2>2. CASE i < j
    <3>1. j - i \in 1 .. (Len(s) - i + 1) /\ i + (j - i) - 1 = j - 1
      BY <1>1, <2>2
    <3>2. b[j - i] = s[j - 1]
      BY <1>3, <3>1
    <3> QED
      BY <1>1, <1>6, <2>2, <3>2
  <2>3. j <= i \/ i < j
    BY <1>1
  <2> QED
    BY <2>1, <2>2, <2>3, Zenon
<1>9. Len(ax \o b) = Len(s) + 1
  BY <1>1, <1>6
<1> QED
  BY <1>6, <1>7, <1>8, <1>9 DEF IsWith

LEMMA RemovedAt ==
  ASSUME NEW s \in Seq(Extent), NEW i \in 1 .. Len(s)
  PROVE  /\ RemoveAt(s, i) \in Seq(Extent)
         /\ Len(RemoveAt(s, i)) = Len(s) - 1
         /\ \A j \in 1 .. (Len(s) - 1) : RemoveAt(s, i)[j] = IF j < i THEN s[j] ELSE s[j + 1]
<1> DEFINE a == SubSeq(s, 1, i - 1)
           b == SubSeq(s, i + 1, Len(s))
<1>1. Len(s) \in Nat /\ \A k \in 1 .. Len(s) : s[k] \in Extent
  OBVIOUS
<1>2. /\ a \in Seq(Extent) /\ Len(a) = i - 1
      /\ \A k \in 1 .. (i - 1) : a[k] = s[k]
  BY <1>1, SubSeqProperties
<1>3. /\ b \in Seq(Extent) /\ Len(b) = Len(s) - i
      /\ \A k \in 1 .. (Len(s) - i) : b[k] = s[i + k]
  BY <1>1, SubSeqProperties
<1> HIDE DEF a, b
<1>4. /\ a \o b \in Seq(Extent) /\ Len(a \o b) = (i - 1) + (Len(s) - i)
      /\ \A k \in 1 .. (i - 1) + (Len(s) - i) :
           (a \o b)[k] = IF k <= i - 1 THEN a[k] ELSE b[k - (i - 1)]
  <2>1. /\ a \o b \in Seq(Extent) /\ Len(a \o b) = Len(a) + Len(b)
        /\ \A k \in 1 .. Len(a) + Len(b) :
             (a \o b)[k] = IF k <= Len(a) THEN a[k] ELSE b[k - Len(a)]
    BY <1>2, <1>3, ConcatProperties
  <2> QED
    BY <1>2, <1>3, <2>1, Zenon
<1>5. RemoveAt(s, i) = a \o b
  BY DEF RemoveAt, a, b
<1>6. ASSUME NEW j \in 1 .. (Len(s) - 1)
      PROVE  (a \o b)[j] = IF j < i THEN s[j] ELSE s[j + 1]
  <2>1. CASE j < i
    BY <1>1, <1>2, <1>4, <2>1
  <2>2. CASE ~ (j < i)
    <3>1. j - (i - 1) \in 1 .. (Len(s) - i) /\ i + (j - (i - 1)) = j + 1
      BY <1>1, <2>2
    <3>2. b[j - (i - 1)] = s[j + 1]
      BY <1>3, <3>1
    <3> QED
      BY <1>1, <1>4, <2>2, <3>2
  <2> QED
    BY <2>1, <2>2
<1> QED
  BY <1>1, <1>4, <1>5, <1>6

(* Where a block of that offset belongs: behind all that start before it.   *)
LEMMA InsertPosExact ==
  ASSUME ArrayInv, NEW key \in Nat
  PROVE  /\ InsertPos(key) \in 1 .. (Len(desc) + 1)
         /\ \A i \in Indices : i < InsertPos(key) <=> desc[i].off < key
<1> DEFINE Left == {i \in Indices : desc[i].off < key}
           pos  == InsertPos(key)
<1>1. desc \in Seq(Extent) /\ Len(desc) \in Nat
  BY DEF ArrayInv
<1>2. \A i \in Indices : desc[i].off \in Nat /\ i \in Nat
  BY <1>1, EntryType
<1>3. \A i, j \in Indices : i < j => desc[i].off < desc[j].off
  BY ArrayAscends DEF Ascending, Off
<1>4. Prefix(Left)
  BY <1>2, <1>3 DEF Prefix
<1>5. IsFirst(Left, 1, Len(desc) + 1, pos)
  BY <1>1, <1>4, BisectFirst DEF InsertPos
<1>6. pos \in 1 .. (Len(desc) + 1)
  BY <1>5 DEF IsFirst
<1>7. ASSUME NEW i \in Indices, i < pos PROVE desc[i].off < key
  BY <1>1, <1>5, <1>7 DEF IsFirst, Indices
<1>8. ASSUME NEW i \in Indices, ~ (i < pos) PROVE ~ (desc[i].off < key)
  <2>1. pos \in Indices /\ pos \notin Left /\ pos <= i
    BY <1>1, <1>5, <1>6, <1>8 DEF IsFirst, Indices
  <2>2. ~ (desc[pos].off < key)
    BY <2>1
  <2>3. pos = i \/ pos < i
    BY <1>6, <2>1 DEF Indices
  <2> QED
    BY <1>2, <1>3, <2>1, <2>2, <2>3
<1> QED
  BY <1>6, <1>7, <1>8

LEMMA InsertKeeps ==
  ASSUME ArrayInv, NEW x \in Extent, Insert(x)
  PROVE  ArrayInv'
<1> DEFINE pos == InsertPos(x.off)
           n   == Len(desc)
<1>1. /\ x.off \in Nat /\ x.len \in Nat /\ EndOf(x) = x.off + x.len
      /\ desc \in Seq(Extent) /\ n \in Nat /\ Bytes \in Nat /\ Slots \in Nat
  BY TableSize DEF Extent, EndOf, ArrayInv
<1>2. pos \in 1 .. (n + 1)
  BY <1>1, InsertPosExact
<1>3. /\ x.len > 0 /\ EndOf(x) <= Bytes /\ n < Slots
      /\ pos > 1 => EndOf(desc[pos - 1]) <= x.off
      /\ pos <= n => EndOf(x) <= desc[pos].off
      /\ desc' = InsertAt(desc, pos, x)
  BY DEF Insert
<1> HIDE DEF pos
<1>4. /\ desc' \in Seq(Extent) /\ Len(desc') = n + 1
      /\ \A j \in 1 .. (n + 1) : desc'[j] = IF j < pos THEN desc[j] ELSE IF j = pos THEN x ELSE desc[j - 1]
  <2>1. IsWith(InsertAt(desc, pos, x), desc, pos, x)
    BY <1>1, <1>2, InsertedAt
  <2> QED
    BY <1>3, <2>1 DEF IsWith
<1>5. \A i \in Indices : /\ desc[i].off \in Nat /\ EndOf(desc[i]) \in Nat /\ i \in Nat
                         /\ desc[i].off < EndOf(desc[i]) /\ desc[i].len > 0
                         /\ EndOf(desc[i]) <= Bytes
  <2> SUFFICES ASSUME NEW i \in Indices
               PROVE  /\ desc[i].off \in Nat /\ EndOf(desc[i]) \in Nat /\ i \in Nat
                      /\ desc[i].off < EndOf(desc[i]) /\ desc[i].len > 0
                      /\ EndOf(desc[i]) <= Bytes
    OBVIOUS
  <2>1. desc[i].len > 0 /\ EndOf(desc[i]) <= Bytes
    BY DEF ArrayInv
  <2> QED
    BY <1>1, <2>1, EntryType
<1>6. \A i, j \in Indices : i < j => EndOf(desc[i]) <= desc[j].off
  BY DEF ArrayInv
<1>7. ASSUME NEW i \in Indices, i < pos PROVE EndOf(desc[i]) <= x.off
  <2>1. pos - 1 \in Indices /\ pos > 1 /\ (i = pos - 1 \/ i < pos - 1)
    BY <1>1, <1>2, <1>7 DEF Indices
  <2> QED
    BY <1>1, <1>3, <1>5, <1>6, <2>1
<1>8. ASSUME NEW i \in Indices, pos <= i PROVE EndOf(x) <= desc[i].off
  <2>1. pos \in Indices /\ pos <= n /\ (i = pos \/ pos < i)
    BY <1>1, <1>2, <1>8 DEF Indices
  <2> QED
    BY <1>1, <1>3, <1>5, <1>6, <2>1
<1>9. \A i \in Indices' : desc'[i].len > 0 /\ EndOf(desc'[i]) <= Bytes
  <2> SUFFICES ASSUME NEW i \in 1 .. (n + 1)
               PROVE  desc'[i].len > 0 /\ EndOf(desc'[i]) <= Bytes
    BY <1>4 DEF Indices
  <2>1. CASE i < pos
    BY <1>1, <1>2, <1>4, <1>5, <2>1 DEF Indices
  <2>2. CASE i = pos
    BY <1>1, <1>2, <1>3, <1>4, <2>2
  <2>3. CASE pos < i
    <3>1. i - 1 \in Indices /\ desc'[i] = desc[i - 1]
      BY <1>1, <1>2, <1>4, <2>3 DEF Indices
    <3> QED
      BY <1>5, <3>1
  <2>4. i < pos \/ i = pos \/ pos < i
    BY <1>1, <1>2
  <2> QED
    BY <2>1, <2>2, <2>3, <2>4
<1>10. \A i, j \in Indices' : i < j => EndOf(desc'[i]) <= desc'[j].off
  <2> SUFFICES ASSUME NEW i \in 1 .. (n + 1), NEW j \in 1 .. (n + 1), i < j
               PROVE  EndOf(desc'[i]) <= desc'[j].off
    BY <1>4 DEF Indices
  <2>1. CASE j < pos
    <3>1. i \in Indices /\ j \in Indices /\ desc'[i] = desc[i] /\ desc'[j] = desc[j]
      BY <1>1, <1>2, <1>4, <2>1 DEF Indices
    <3> QED
      BY <1>6, <3>1
  <2>2. CASE j = pos
    <3>1. i \in Indices /\ i < pos /\ desc'[i] = desc[i] /\ desc'[j] = x
      BY <1>1, <1>2, <1>4, <2>2 DEF Indices
    <3> QED
      BY <1>7, <3>1
  <2>3. CASE pos < j /\ i < pos
    <3>1. i \in Indices /\ j - 1 \in Indices /\ desc'[i] = desc[i] /\ desc'[j] = desc[j - 1] /\ i < j - 1
      BY <1>1, <1>2, <1>4, <2>3 DEF Indices
    <3> QED
      BY <1>6, <3>1
  <2>4. CASE pos < j /\ i = pos
    <3>1. j - 1 \in Indices /\ pos <= j - 1 /\ desc'[i] = x /\ desc'[j] = desc[j - 1]
      BY <1>1, <1>2, <1>4, <2>4 DEF Indices
    <3> QED
      BY <1>8, <3>1
  <2>5. CASE pos < j /\ pos < i
    <3>1. /\ i - 1 \in Indices /\ j - 1 \in Indices /\ i - 1 < j - 1
          /\ desc'[i] = desc[i - 1] /\ desc'[j] = desc[j - 1]
      BY <1>1, <1>2, <1>4, <2>5 DEF Indices
    <3> QED
      BY <1>6, <3>1
  <2>6. j < pos \/ j = pos \/ (pos < j /\ (i < pos \/ i = pos \/ pos < i))
    BY <1>1, <1>2
  <2> QED
    BY <2>1, <2>2, <2>3, <2>4, <2>5, <2>6
<1>11. Len(desc') <= Slots
  BY <1>1, <1>3, <1>4
<1> QED
  BY <1>4, <1>9, <1>10, <1>11 DEF ArrayInv

LEMMA DeleteKeeps ==
  ASSUME ArrayInv, NEW k \in Indices, desc' = RemoveAt(desc, k)
  PROVE  ArrayInv'
<1> DEFINE n == Len(desc)
<1>1. desc \in Seq(Extent) /\ n \in Nat /\ k \in 1 .. n /\ Slots \in Nat /\ n <= Slots
  BY TableSize DEF ArrayInv, Indices
<1>2. /\ desc' \in Seq(Extent) /\ Len(desc') = n - 1
      /\ \A j \in 1 .. (n - 1) : desc'[j] = IF j < k THEN desc[j] ELSE desc[j + 1]
  <2>1. /\ RemoveAt(desc, k) \in Seq(Extent) /\ Len(RemoveAt(desc, k)) = n - 1
        /\ \A j \in 1 .. (n - 1) : RemoveAt(desc, k)[j] = IF j < k THEN desc[j] ELSE desc[j + 1]
    BY <1>1, RemovedAt
  <2> QED
    BY <2>1, Zenon
<1>3. ASSUME NEW i \in 1 .. (n - 1)
      PROVE  /\ desc'[i] = IF i < k THEN desc[i] ELSE desc[i + 1]
             /\ i \in Indices /\ i + 1 \in Indices
  BY <1>1, <1>2 DEF Indices
<1>4. \A i \in Indices' : desc'[i].len > 0 /\ EndOf(desc'[i]) <= Bytes
  <2>1. Indices' = 1 .. (n - 1)
    BY <1>2 DEF Indices
  <2> QED
    BY <1>3, <2>1 DEF ArrayInv
<1>5. \A i, j \in Indices' : i < j => EndOf(desc'[i]) <= desc'[j].off
  <2> SUFFICES ASSUME NEW i \in 1 .. (n - 1), NEW j \in 1 .. (n - 1), i < j
               PROVE  EndOf(desc'[i]) <= desc'[j].off
    BY <1>2 DEF Indices
  <2>1. /\ desc'[i] = IF i < k THEN desc[i] ELSE desc[i + 1]
        /\ desc'[j] = IF j < k THEN desc[j] ELSE desc[j + 1]
        /\ i \in Indices /\ i + 1 \in Indices /\ j \in Indices /\ j + 1 \in Indices
    BY <1>3
  <2>2. i + 1 < j + 1 /\ i < j + 1 /\ ~ (j < k /\ ~ (i < k))
    BY <1>1
  <2>3. /\ EndOf(desc[i]) <= desc[j].off /\ EndOf(desc[i]) <= desc[j + 1].off
        /\ EndOf(desc[i + 1]) <= desc[j + 1].off
    BY <2>1, <2>2 DEF ArrayInv
  <2> QED
    BY <2>1, <2>2, <2>3
<1>6. Len(desc') <= Slots
  BY <1>1, <1>2
<1> QED
  BY <1>2, <1>4, <1>5, <1>6 DEF ArrayInv

LEMMA SetLenKeeps ==
  ASSUME ArrayInv, NEW k \in Indices, NEW len \in Nat, 0 < len,
         desc[k].off + len <= NextBoundary(k, Bytes),
         desc' = [desc EXCEPT ![k].len = len]
  PROVE  ArrayInv'
<1> DEFINE n == Len(desc)
           x == [desc[k] EXCEPT !.len = len]
<1>1. /\ desc \in Seq(Extent) /\ n \in Nat /\ k \in 1 .. n /\ n <= Slots
      /\ desc[k] \in Extent /\ desc[k].off \in Nat /\ Bytes \in Nat
  BY EntryType, TableSize DEF ArrayInv, Indices
<1>2. x \in Extent /\ x.off = desc[k].off /\ x.len = len /\ EndOf(x) = desc[k].off + len
  BY <1>1 DEF Extent, EndOf
<1>3. desc' = [desc EXCEPT ![k] = x]
  OBVIOUS
<1> HIDE DEF x
<1>4. /\ desc' \in Seq(Extent) /\ Len(desc') = n
      /\ \A j \in 1 .. n : desc'[j] = IF j = k THEN x ELSE desc[j]
  BY <1>1, <1>2, <1>3, ExceptSeq
<1>5. \A i, j \in Indices : i < j => EndOf(desc[i]) <= desc[j].off
  BY DEF ArrayInv
<1>6. EndOf(x) <= Bytes /\ \A j \in Indices : k < j => EndOf(x) <= desc[j].off
  <2>1. CASE k < n /\ desc[k + 1].off < Bytes
    <3>1. NextBoundary(k, Bytes) = desc[k + 1].off /\ k + 1 \in Indices
      BY <1>1, <2>1 DEF NextBoundary, Indices
    <3>2. desc[k + 1].off \in Nat
      BY <1>1, <3>1, EntryType
    <3>3. ASSUME NEW j \in Indices, k < j PROVE EndOf(x) <= desc[j].off
      <4>1. j = k + 1 \/ k + 1 < j
        BY <1>1, <3>3 DEF Indices
      <4>2. CASE k + 1 < j
        <5>1. /\ desc[k + 1].off <= EndOf(desc[k + 1]) /\ EndOf(desc[k + 1]) <= desc[j].off
              /\ desc[j].off \in Nat /\ EndOf(desc[k + 1]) \in Nat
          <6>1. /\ desc[k + 1].off \in Nat /\ desc[k + 1].len \in Nat
                /\ EndOf(desc[k + 1]) = desc[k + 1].off + desc[k + 1].len
            BY <1>1, <3>1, EntryType
          <6>2. desc[j].off \in Nat
            BY <1>1, EntryType
          <6>3. EndOf(desc[k + 1]) <= desc[j].off
            BY <1>5, <3>1, <4>2
          <6> QED
            BY <6>1, <6>2, <6>3
        <5>2. EndOf(x) <= desc[k + 1].off /\ EndOf(x) \in Nat
          BY <1>1, <1>2, <2>1, <3>1, <3>2
        <5> QED
          BY <3>2, <5>1, <5>2
      <4> QED
        BY <1>2, <3>1, <4>1, <4>2
    <3> QED
      BY <1>1, <1>2, <2>1, <3>1, <3>2, <3>3
  <2>2. CASE ~ (k < n /\ desc[k + 1].off < Bytes)
    <3>1. NextBoundary(k, Bytes) = Bytes
      BY <2>2 DEF NextBoundary
    <3>2. ASSUME NEW j \in Indices, k < j PROVE EndOf(x) <= desc[j].off
      <4>1. k < n /\ k + 1 \in Indices /\ (j = k + 1 \/ k + 1 < j)
        BY <1>1, <3>2 DEF Indices
      <4>2. ~ (desc[k + 1].off < Bytes)
        BY <2>2, <4>1
      <4>3. /\ desc[k + 1].off \in Nat /\ desc[k + 1].off < EndOf(desc[k + 1])
            /\ EndOf(desc[k + 1]) <= Bytes
        <5>1. desc[k + 1].len > 0 /\ EndOf(desc[k + 1]) <= Bytes
          BY <4>1 DEF ArrayInv
        <5> QED
          BY <1>1, <4>1, <5>1, EntryType
      <4> QED
        BY <1>1, <4>2, <4>3, EntryType, <4>1
    <3> QED
      BY <1>1, <1>2, <3>1, <3>2
  <2> QED
    BY <2>1, <2>2
<1>7. \A i \in Indices' : desc'[i].len > 0 /\ EndOf(desc'[i]) <= Bytes
  <2> SUFFICES ASSUME NEW i \in 1 .. n
               PROVE  desc'[i].len > 0 /\ EndOf(desc'[i]) <= Bytes
    BY <1>4 DEF Indices
  <2>1. desc[i].len > 0 /\ EndOf(desc[i]) <= Bytes
    BY DEF ArrayInv, Indices
  <2> QED
    BY <1>2, <1>4, <1>6, <2>1
<1>8. \A i, j \in Indices' : i < j => EndOf(desc'[i]) <= desc'[j].off
  <2> SUFFICES ASSUME NEW i \in 1 .. n, NEW j \in 1 .. n, i < j
               PROVE  EndOf(desc'[i]) <= desc'[j].off
    BY <1>4 DEF Indices
  <2>1. EndOf(desc[i]) <= desc[j].off
    BY <1>5 DEF Indices
  <2>2. desc'[i] = (IF i = k THEN x ELSE desc[i]) /\ desc'[j] = IF j = k THEN x ELSE desc[j]
    BY <1>4
  <2>3. CASE i = k
    BY <1>6, <2>2, <2>3 DEF Indices
  <2>4. CASE i # k
    BY <1>2, <2>1, <2>2, <2>4
  <2> QED
    BY <2>3, <2>4
<1> QED
  BY <1>1, <1>4, <1>7, <1>8 DEF ArrayInv

LEMMA PlaceType == Place \subseteq Nat
<1>1. Align \in Nat /\ Bytes \in Nat
  BY SearchAssumption, TableSize
<1>2. \A k \in 0 .. (Bytes \div Align) : k \in Nat
  OBVIOUS
<1>3. \A k \in Nat : k * Align \in Nat
  BY <1>1
<1> QED
  BY <1>2, <1>3 DEF Place

LEMMA ArrayInit == Init => ArrayInv
<1> SUFFICES ASSUME desc = <<>> PROVE ArrayInv
  BY DEF Init
<1>1. desc \in Seq(Extent) /\ Len(desc) = 0 /\ Slots \in Nat
  BY TableSize
<1>2. Indices = {}
  BY <1>1 DEF Indices
<1> QED
  BY <1>1, <1>2 DEF ArrayInv

LEMMA ArrayStep == ArrayInv /\ [Next]_desc => ArrayInv'
<1> SUFFICES ASSUME ArrayInv, [Next]_desc PROVE ArrayInv'
  OBVIOUS
<1>1. ASSUME NEW key \in Place, NEW i \in FindKey(key) PROVE i \in Indices
  BY <1>1, PlaceType, ArrayAscends, FindKeyExact
<1>2. CASE \E x \in [off : Place, len : Place] : Insert(x)
  <2>1. PICK x \in [off : Place, len : Place] : Insert(x)
    BY <1>2
  <2>2. x \in Extent
    BY PlaceType DEF Extent
  <2> QED
    BY <2>1, <2>2, InsertKeeps
<1>3. CASE \E key \in Place : Delete(key)
  <2>1. PICK key \in Place : Delete(key)
    BY <1>3
  <2>2. PICK i \in FindKey(key) : desc' = RemoveAt(desc, i)
    BY <2>1 DEF Delete
  <2> QED
    BY <1>1, <2>2, DeleteKeeps
<1>4. CASE \E key, len \in Place : SetLen(key, len)
  <2>1. PICK key \in Place, len \in Place : SetLen(key, len)
    BY <1>4
  <2>2. PICK i \in FindKey(key) : /\ 0 < len
                                  /\ desc[i].off + len <= NextBoundary(i, Bytes)
                                  /\ desc' = [desc EXCEPT ![i].len = len]
    BY <2>1 DEF SetLen
  <2>3. len \in Nat /\ i \in Indices
    BY <1>1, PlaceType
  <2> QED
    BY <2>2, <2>3, SetLenKeeps
<1>5. CASE UNCHANGED desc
  BY <1>5 DEF ArrayInv, Indices
<1> QED
  BY <1>2, <1>3, <1>4, <1>5 DEF Next

(* Of every two entries the first ends before the second starts, whatever   *)
(* inserts, deletes and length changes have come before.                    *)
THEOREM ArraySafety == Spec => []ArrayInv
<1> QED
  BY ArrayInit, ArrayStep, PTL DEF Spec

(* The table is sorted, its blocks apart, within the arena and the table    *)
(* within its capacity: mxr_desc_insert and the length writes of realloc    *)
(* look at one neighbour on each side, and that is enough.                  *)
THEOREM TableSorted == Spec => []Sorted
<1>1. ArrayInv => Sorted
  <2> SUFFICES ASSUME ArrayInv PROVE Sorted
    OBVIOUS
  <2>1. ASSUME NEW i \in Indices, i < Len(desc) PROVE EndOf(desc[i]) <= desc[i + 1].off
    <3>1. i + 1 \in Indices /\ i < i + 1
      BY <2>1 DEF ArrayInv, Indices
    <3> QED
      BY <3>1 DEF ArrayInv
  <2> QED
    BY <2>1 DEF ArrayInv, Sorted
<1> QED
  BY <1>1, ArraySafety, PTL

(* The bisection by offset finds the block that starts there, and nothing   *)
(* where none starts.                                                       *)
THEOREM SearchByOffsetExact == Spec => []FindsByOffset
<1>1. ArrayInv => FindsByOffset
  BY ArrayAscends, FindKeyExact, TableSize DEF FindsByOffset
<1> QED
  BY <1>1, ArraySafety, PTL

(* What ArrayInv says of the entries, as numbers. *)
LEMMA EntryFacts ==
  ASSUME ArrayInv
  PROVE  /\ desc \in Seq(Extent) /\ Len(desc) \in Nat /\ Indices = 1 .. Len(desc)
         /\ \A i \in Indices : /\ desc[i].off \in Nat /\ EndOf(desc[i]) \in Nat /\ i \in Nat
                               /\ desc[i].off < EndOf(desc[i])
         /\ \A i, j \in Indices : i < j => EndOf(desc[i]) <= desc[j].off
         /\ \A i, j \in Indices : i < j => EndOf(desc[i]) <= EndOf(desc[j])
         /\ \A i, j \in Indices : i < j => desc[i].off <= desc[j].off
<1>1. desc \in Seq(Extent) /\ Len(desc) \in Nat /\ Indices = 1 .. Len(desc)
  BY DEF ArrayInv, Indices
<1>2. ASSUME NEW i \in Indices
      PROVE  /\ desc[i].off \in Nat /\ EndOf(desc[i]) \in Nat /\ i \in Nat
             /\ desc[i].off < EndOf(desc[i])
  <2>1. desc[i].len > 0
    BY DEF ArrayInv
  <2> QED
    BY <1>1, <2>1, EntryType
<1>3. \A i, j \in Indices : i < j => EndOf(desc[i]) <= desc[j].off
  BY DEF ArrayInv
<1>4. ASSUME NEW i \in Indices, NEW j \in Indices, i < j
      PROVE  EndOf(desc[i]) <= EndOf(desc[j]) /\ desc[i].off <= desc[j].off
  <2>1. EndOf(desc[i]) <= desc[j].off
    BY <1>3, <1>4
  <2> QED
    BY <1>2, <2>1
<1> QED
  BY <1>1, <1>2, <1>3, <1>4

LEMMA BlocksAre == ASSUME desc \in Seq(Extent) PROVE Blocks = {desc[i] : i \in Indices}
<1>1. DOMAIN desc = Indices
  BY DEF Indices
<1> QED
  BY <1>1 DEF Blocks, Range

(* The guard of mxr_desc_insert is exact: it refuses a block if and only if *)
(* that block overlaps some entry, and not just one of the two it reads.    *)
THEOREM OverlapGuardExact == Spec => []GuardIsExact
<1>1. ArrayInv => GuardIsExact
  <2> SUFFICES ASSUME ArrayInv, NEW x \in [off : Place, len : Place \ {0}]
               PROVE  (/\ InsertPos(x.off) > 1 => EndOf(desc[InsertPos(x.off) - 1]) <= x.off
                       /\ InsertPos(x.off) <= Len(desc) => EndOf(x) <= desc[InsertPos(x.off)].off)
                      <=> IsFree(Blocks, x)
    BY DEF GuardIsExact
  <2> DEFINE pos == InsertPos(x.off)
             n   == Len(desc)
  <2>1. x.off \in Nat /\ x.len \in Nat /\ x.len > 0 /\ EndOf(x) = x.off + x.len
    <3>1. x.off \in Place /\ x.len \in Place /\ x.len # 0
      OBVIOUS
    <3>2. x.off \in Nat /\ x.len \in Nat
      BY <3>1, PlaceType
    <3> QED
      BY <3>1, <3>2 DEF EndOf
  <2>2. pos \in 1 .. (n + 1) /\ \A i \in Indices : i < pos <=> desc[i].off < x.off
    BY <2>1, InsertPosExact
  <2> HIDE DEF pos
  <2>3. IsFree(Blocks, x) <=> \A i \in Indices : EndOf(desc[i]) <= x.off \/ EndOf(x) <= desc[i].off
    BY BlocksAre, EntryFacts DEF IsFree, Disjoint
  <2>4. ASSUME pos > 1 => EndOf(desc[pos - 1]) <= x.off,
               pos <= n => EndOf(x) <= desc[pos].off,
               NEW i \in Indices
        PROVE  EndOf(desc[i]) <= x.off \/ EndOf(x) <= desc[i].off
    <3>1. CASE i < pos
      <4>1. pos - 1 \in Indices /\ pos > 1 /\ (i = pos - 1 \/ i < pos - 1)
        BY <2>2, <3>1, EntryFacts
      <4>2. EndOf(desc[i]) <= EndOf(desc[pos - 1])
        BY <4>1, EntryFacts
      <4> QED
        BY <2>1, <2>4, <4>1, <4>2, EntryFacts
    <3>2. CASE ~ (i < pos)
      <4>1. pos \in Indices /\ pos <= n /\ (i = pos \/ pos < i)
        BY <2>2, <3>2, EntryFacts
      <4>2. desc[pos].off <= desc[i].off
        BY <4>1, EntryFacts
      <4> QED
        BY <2>1, <2>4, <4>1, <4>2, EntryFacts
    <3> QED
      BY <3>1, <3>2
  <2>5. ASSUME \A i \in Indices : EndOf(desc[i]) <= x.off \/ EndOf(x) <= desc[i].off
        PROVE  /\ pos > 1 => EndOf(desc[pos - 1]) <= x.off
               /\ pos <= n => EndOf(x) <= desc[pos].off
    <3>1. ASSUME pos > 1 PROVE EndOf(desc[pos - 1]) <= x.off
      <4>1. pos - 1 \in Indices /\ pos - 1 < pos
        BY <2>2, <3>1, EntryFacts
      <4>2. desc[pos - 1].off < x.off /\ desc[pos - 1].off \in Nat
        BY <2>2, <4>1, EntryFacts
      <4>3. EndOf(desc[pos - 1]) <= x.off \/ EndOf(x) <= desc[pos - 1].off
        BY <2>5, <4>1
      <4> QED
        BY <2>1, <4>2, <4>3
    <3>2. ASSUME pos <= n PROVE EndOf(x) <= desc[pos].off
      <4>1. pos \in Indices /\ ~ (pos < pos)
        BY <2>2, <3>2, EntryFacts
      <4>2. ~ (desc[pos].off < x.off) /\ desc[pos].off < EndOf(desc[pos])
            /\ desc[pos].off \in Nat /\ EndOf(desc[pos]) \in Nat
        BY <2>2, <4>1, EntryFacts
      <4>3. EndOf(desc[pos]) <= x.off \/ EndOf(x) <= desc[pos].off
        BY <2>5, <4>1
      <4> QED
        BY <2>1, <4>2, <4>3
    <3> QED
      BY <3>1, <3>2
  <2>6. (/\ pos > 1 => EndOf(desc[pos - 1]) <= x.off
         /\ pos <= n => EndOf(x) <= desc[pos].off)
        <=> IsFree(Blocks, x)
    BY <2>3, <2>4, <2>5
  <2> QED
    BY <2>6 DEF pos
<1> QED
  BY <1>1, ArraySafety, PTL

(* The gap that a free records, read off the two neighbours of the freed    *)
(* entry and clipped to its region, is a maximal gap of what is left: the   *)
(* hint never names a part of a gap, nor bytes that a block takes.          *)
THEOREM RecordedGapMaximal == Spec => []ReleasedGapIsMaximal
<1>1. ArrayInv => ReleasedGapIsMaximal
  <2> SUFFICES ASSUME ArrayInv, NEW i \in Indices, NEW lo \in Place, NEW hi \in Place,
                      lo <= desc[i].off, EndOf(desc[i]) <= hi
               PROVE  FreedGap(i, lo, hi) \in Gaps(Blocks \ {desc[i]}, lo, hi)
    BY DEF ReleasedGapIsMaximal
  <2> DEFINE B    == Blocks \ {desc[i]}
             from == IF i - 1 \in Indices /\ EndOf(desc[i - 1]) > lo THEN EndOf(desc[i - 1]) ELSE lo
             to   == IF i + 1 \in Indices /\ desc[i + 1].off < hi THEN desc[i + 1].off ELSE hi
             starts == {lo} \cup {EndOf(b) : b \in {c \in B : lo < EndOf(c) /\ EndOf(c) < hi}}
             ends   == {hi} \cup {b.off : b \in {c \in B : lo < c.off /\ c.off < hi}}
             g    == [off |-> from, len |-> to - from]
  <2>1. lo \in Nat /\ hi \in Nat
    BY PlaceType
  <2>2. \A j \in Indices : j # i => desc[j] \in B
    BY BlocksAre, EntryFacts
  <2>3. from \in Nat /\ from <= desc[i].off /\ from \in starts
    <3>1. CASE i - 1 \in Indices /\ EndOf(desc[i - 1]) > lo
      <4>1. i - 1 < i /\ i - 1 # i
        BY EntryFacts
      <4>2. desc[i - 1] \in B /\ EndOf(desc[i - 1]) <= desc[i].off /\ EndOf(desc[i - 1]) \in Nat
        BY <2>2, <3>1, <4>1, EntryFacts
      <4>3. lo < EndOf(desc[i - 1]) /\ EndOf(desc[i - 1]) < hi
        BY <2>1, <3>1, <4>2, EntryFacts
      <4> QED
        BY <3>1, <4>2, <4>3
    <3>2. CASE ~ (i - 1 \in Indices /\ EndOf(desc[i - 1]) > lo)
      BY <2>1, <3>2
    <3> QED
      BY <3>1, <3>2
  <2>4. to \in Nat /\ EndOf(desc[i]) <= to /\ to \in ends
    <3>1. CASE i + 1 \in Indices /\ desc[i + 1].off < hi
      <4>1. i < i + 1 /\ i + 1 # i
        BY EntryFacts
      <4>2. desc[i + 1] \in B /\ EndOf(desc[i]) <= desc[i + 1].off /\ desc[i + 1].off \in Nat
        BY <2>2, <3>1, <4>1, EntryFacts
      <4>3. lo < desc[i + 1].off
        BY <2>1, <4>2, EntryFacts
      <4> QED
        BY <3>1, <4>2, <4>3
    <3>2. CASE ~ (i + 1 \in Indices /\ desc[i + 1].off < hi)
      BY <2>1, <3>2
    <3> QED
      BY <3>1, <3>2
  <2>5. ASSUME NEW j \in Indices, j < i PROVE EndOf(desc[j]) <= from
    <3>1. i - 1 \in Indices /\ (j = i - 1 \/ j < i - 1)
      BY <2>5, EntryFacts
    <3>2. EndOf(desc[j]) <= EndOf(desc[i - 1]) /\ EndOf(desc[j]) \in Nat /\ EndOf(desc[i - 1]) \in Nat
      BY <3>1, EntryFacts
    <3> QED
      BY <2>1, <3>1, <3>2
  <2>6. ASSUME NEW j \in Indices, i < j PROVE to <= desc[j].off
    <3>1. i + 1 \in Indices /\ (j = i + 1 \/ i + 1 < j)
      BY <2>6, EntryFacts
    <3>2. desc[i + 1].off <= desc[j].off /\ desc[j].off \in Nat /\ desc[i + 1].off \in Nat
      BY <3>1, EntryFacts
    <3> QED
      BY <2>1, <3>1, <3>2
  <2>7. from < to
    BY <2>3, <2>4, EntryFacts
  <2>8. FreedGap(i, lo, hi) = g
    <3> DEFINE d == RemoveAt(desc, i)
    <3>1. DOMAIN d = 1 .. (Len(desc) - 1)
      BY RemovedAt, EntryFacts
    <3>2. \A j \in 1 .. (Len(desc) - 1) : d[j] = IF j < i THEN desc[j] ELSE desc[j + 1]
      BY RemovedAt, EntryFacts
    <3> HIDE DEF d
    <3>3. i \in 1 .. Len(desc) /\ Len(desc) \in Nat /\ Indices = 1 .. Len(desc)
      BY EntryFacts
    <3>4. /\ i - 1 \in DOMAIN d <=> i - 1 \in Indices
          /\ i - 1 \in DOMAIN d => d[i - 1] = desc[i - 1]
      BY <3>1, <3>2, <3>3
    <3>5. /\ i \in DOMAIN d <=> i + 1 \in Indices
          /\ i \in DOMAIN d => d[i] = desc[i + 1]
      BY <3>1, <3>2, <3>3
    <3>6. GapBetween(d, i - 1, i, lo, hi) = g
      BY <2>7, <3>4, <3>5 DEF GapBetween
    <3> QED
      BY <3>6 DEF FreedGap, d
  <2> HIDE DEF from, to
  <2>9. EndOf(g) = to /\ g.off = from /\ g.len > 0
    BY <2>3, <2>4, <2>7 DEF EndOf
  <2>10. IsFree(B, g)
    <3> SUFFICES ASSUME NEW b \in B PROVE Disjoint(b, g)
      BY DEF IsFree
    <3>1. PICK j \in Indices : b = desc[j]
      BY BlocksAre, EntryFacts
    <3>2. j < i \/ i < j
      BY <3>1, EntryFacts
    <3> QED
      BY <2>5, <2>6, <2>9, <3>1, <3>2 DEF Disjoint
  <2>11. g \in {[off |-> a, len |-> e - a] : a \in starts, e \in ends}
    <3> HIDE DEF starts, ends
    <3> QED
      BY <2>3, <2>4
  <2>12. g \in Gaps(B, lo, hi)
    BY <2>9, <2>10, <2>11 DEF Gaps
  <2> QED
    BY <2>8, <2>12
<1> QED
  BY <1>1, ArraySafety, PTL

-----------------------------------------------------------------------------
(* The scan.  First the geometry: what lies between the end of the blocks   *)
(* behind the scan and the next block is the next gap, and no other gap     *)
(* starts before that block ends.                                           *)

(* Every block lies behind c or starts at to or later. *)
Parted(B, c, to) == \A b \in B : EndOf(b) <= c \/ to <= b.off

GapTo(c, to) == [off |-> c, len |-> to - c]

GapStarts(B, lo, c) == c = lo \/ \E b \in B : EndOf(b) = c
GapEnds(B, hi, to)  == to = hi \/ \E b \in B : b.off = to

LEMMA NextGap ==
  ASSUME NEW B \in SUBSET Extent, NEW lo \in Nat, NEW hi \in Nat,
         NEW c \in Nat, NEW to \in Nat, lo <= c, c < to, to <= hi, Parted(B, c, to),
         GapStarts(B, lo, c), GapEnds(B, hi, to)
  PROVE  /\ GapTo(c, to) \in Gaps(B, lo, hi) /\ EndOf(GapTo(c, to)) = to
         /\ \A g \in Gaps(B, lo, hi) : c <= g.off /\ g.off < to => g = GapTo(c, to)
<1> DEFINE starts == {lo} \cup {EndOf(b) : b \in {x \in B : lo < EndOf(x) /\ EndOf(x) < hi}}
           ends   == {hi} \cup {b.off : b \in {x \in B : lo < x.off /\ x.off < hi}}
           n      == GapTo(c, to)
<1>1. c \in starts
  BY c < to, to <= hi, lo <= c DEF GapStarts
<1>2. to \in ends
  BY c < to, to <= hi, lo <= c DEF GapEnds
<1>3. n.off = c /\ n.len = to - c /\ EndOf(n) = to /\ n.len > 0 /\ n \in Extent
  BY DEF GapTo, EndOf, Extent
<1>4. IsFree(B, n)
  BY <1>3 DEF IsFree, Disjoint, Parted
<1>5. n \in {[off |-> a, len |-> e - a] : a \in starts, e \in ends}
  <2> HIDE DEF starts, ends
  <2> QED
    BY <1>1, <1>2 DEF GapTo
<1>6. n \in Gaps(B, lo, hi)
  BY <1>3, <1>4, <1>5 DEF Gaps
<1> HIDE DEF n
<1>7. ASSUME NEW g \in Gaps(B, lo, hi), c <= g.off, g.off < to
      PROVE  g = n
  <2>1. g \in Extent /\ g.len > 0 /\ g.off \in Nat /\ g.len \in Nat
    BY GapSound DEF Extent
  <2> DEFINE x == [off |-> g.off, len |-> 1]
  <2>2. x \in Extent /\ x.len > 0 /\ x.off = g.off /\ EndOf(x) = g.off + 1
    BY <2>1 DEF Extent, EndOf
  <2> HIDE DEF x
  <2>3. g.off <= x.off /\ EndOf(x) <= EndOf(g) /\ n.off <= x.off /\ EndOf(x) <= EndOf(n)
    BY <1>3, <1>7, <2>1, <2>2 DEF EndOf
  <2> QED
    BY <1>6, <2>2, <2>3, GapUnique
<1> QED
  BY <1>3, <1>6, <1>7 DEF n

(* No gap starts inside a block or at its first byte. *)
LEMMA NoGapIn ==
  ASSUME NEW B \in SUBSET Extent, NEW lo \in Nat, NEW hi \in Nat,
         NEW b \in B, NEW g \in Gaps(B, lo, hi), g.off < EndOf(b)
  PROVE  g.off < b.off
<1>1. g \in Extent /\ g.len > 0 /\ Disjoint(b, g) /\ b \in Extent
  BY GapSound DEF IsFree
<1> QED
  BY <1>1 DEF Disjoint, Extent, EndOf

-----------------------------------------------------------------------------
(* The gaps that the scan has behind it, and what it knows of them.         *)

Seen(q, c) == {g \in Gaps(Blocks, q.lo, q.hi) : g.off < c}

AheadOf(g, h) == g.len < h.len \/ (g.len = h.len /\ g.off <= h.off)

BestOf(q, G, best) ==
  \/ best = {} /\ \A h \in G : h.len < q.bytes
  \/ \E g \in G : /\ best = {g} /\ g.len >= q.bytes
                  /\ \A h \in G : h.len >= q.bytes => AheadOf(g, h)

LongestOf(G, n) ==
  /\ n \in Nat /\ \A g \in G : g.len <= n
  /\ n = 0 \/ \E g \in G : g.len = n

NoneEarly(q, G) == \A g \in G : g.len >= q.bytes => ~ StopsScan(g, q.bytes, q.hi)

Known(q, s, G) == BestOf(q, G, s.best) /\ LongestOf(G, s.largest) /\ NoneEarly(q, G)

(* A gap that does not end the search and lies behind all the others.       *)
LEMMA KnowOneMore ==
  ASSUME NEW q, q.bytes \in Nat, NEW G \in SUBSET Extent, NEW g \in Extent,
         \A h \in G : h.off < g.off, NEW best, NEW largest,
         BestOf(q, G, best), LongestOf(G, largest)
  PROVE  /\ BestOf(q, G \cup {g}, Better(q, best, g))
         /\ LongestOf(G \cup {g}, Longer(largest, g.len))
<1>0. /\ \A h \in G \cup {g} : h.off \in Nat /\ h.len \in Nat
      /\ g.off \in Nat /\ g.len \in Nat
  BY DEF Extent
<1>1. LongestOf(G \cup {g}, Longer(largest, g.len))
  BY <1>0 DEF LongestOf, Longer
<1>2. CASE best = {} /\ \A h \in G : h.len < q.bytes
  <2>1. CASE g.len >= q.bytes
    <3>1. Better(q, best, g) = {g}
      BY <1>2, <2>1 DEF Better
    <3>2. \A h \in G \cup {g} : h.len >= q.bytes => h = g
      BY <1>0, <1>2
    <3>3. AheadOf(g, g)
      BY <1>0 DEF AheadOf
    <3> QED
      BY <1>1, <2>1, <3>1, <3>2, <3>3 DEF BestOf
  <2>2. CASE ~ (g.len >= q.bytes)
    <3>1. Better(q, best, g) = best /\ g.len < q.bytes
      BY <1>0, <2>2 DEF Better
    <3> QED
      BY <1>1, <1>2, <3>1 DEF BestOf
  <2> QED
    BY <2>1, <2>2
<1>3. CASE \E b \in G : /\ best = {b} /\ b.len >= q.bytes
                        /\ \A h \in G : h.len >= q.bytes => AheadOf(b, h)
  <2>1. PICK b \in G : /\ best = {b} /\ b.len >= q.bytes
                       /\ \A h \in G : h.len >= q.bytes => AheadOf(b, h)
    BY <1>3
  <2>2. b.off < g.off /\ b.off \in Nat /\ b.len \in Nat
    BY <1>0
  <2>3. CASE g.len >= q.bytes /\ g.len < b.len
    <3>1. Better(q, best, g) = {g}
      BY <2>1, <2>3 DEF Better
    <3>2. \A h \in G \cup {g} : h.len >= q.bytes => AheadOf(g, h)
      BY <1>0, <2>1, <2>2, <2>3 DEF AheadOf
    <3> QED
      BY <1>1, <2>3, <3>1, <3>2 DEF BestOf
  <2>4. CASE ~ (g.len >= q.bytes /\ g.len < b.len)
    <3>1. Better(q, best, g) = best
      BY <1>0, <2>1, <2>2, <2>4 DEF Better
    <3>2. \A h \in G \cup {g} : h.len >= q.bytes => AheadOf(b, h)
      BY <1>0, <2>1, <2>2, <2>4 DEF AheadOf
    <3> QED
      BY <1>1, <2>1, <3>1, <3>2 DEF BestOf
  <2> QED
    BY <2>3, <2>4
<1> QED
  BY <1>2, <1>3 DEF BestOf

-----------------------------------------------------------------------------
(* One look at a gap, one pass of the loop. *)

ScanType == [cur : Nat, best : SUBSET Extent, largest : Nat, early : SUBSET Extent]

(* The search has ended with the first gap that is good enough. *)
Ended(q, early) ==
  LET E == EarlyGaps(Blocks, q.lo, q.hi, q.bytes)
  IN \E g \in E : early = {g} /\ \A h \in E : g.off <= h.off

SeenUpTo(q, c, to) == Seen(q, c) \cup (IF to > c THEN {GapTo(c, to)} ELSE {})

LEMMA QueryType ==
  ASSUME NEW q \in Queries
  PROVE  q.lo \in Nat /\ q.hi \in Nat /\ q.max \in Nat /\ q.bytes \in Nat /\ q.bytes > 0
<1>1. q \in [lo : Nat, hi : Nat, max : Nat, bytes : Nat \ {0}]
  BY QueryAssumption
<1> QED
  BY <1>1

LEMMA BlocksType == ArrayInv => Blocks \in SUBSET Extent
<1> SUFFICES ASSUME ArrayInv PROVE Blocks \in SUBSET Extent
  OBVIOUS
<1>1. desc \in Seq(Extent) /\ Indices = 1 .. Len(desc)
  BY EntryFacts
<1>2. \A i \in Indices : desc[i] \in Extent
  BY <1>1, EntryType
<1> QED
  BY <1>1, <1>2, BlocksAre

LEMMA LookResult ==
  ASSUME ArrayInv, NEW q \in Queries, NEW s \in ScanType, s.early = {},
         NEW to \in Nat, NEW relax \in BOOLEAN,
         Known(q, s, Seen(q, s.cur)),
         to > s.cur => /\ GapTo(s.cur, to) \in Gaps(Blocks, q.lo, q.hi)
                       /\ relax <=> to # q.hi
  PROVE  LET t == Look(q, s, to, relax) IN
         /\ t \in ScanType /\ t.cur = s.cur
         /\ \/ t.early = {} /\ Known(q, t, SeenUpTo(q, s.cur, to))
            \/ Ended(q, t.early)
<1> DEFINE g == [off |-> s.cur, len |-> IF to > s.cur THEN to - s.cur ELSE 0]
           t == Look(q, s, to, relax)
           G == Seen(q, s.cur)
<1>0. /\ s.cur \in Nat /\ s.largest \in Nat /\ s.best \in SUBSET Extent
      /\ s = [cur |-> s.cur, best |-> s.best, largest |-> s.largest, early |-> s.early]
  BY DEF ScanType
<1>1. q.lo \in Nat /\ q.hi \in Nat /\ q.bytes \in Nat /\ q.bytes > 0
  BY QueryType
<1>2. Blocks \in SUBSET Extent
  BY BlocksType
<1>3. G \in SUBSET Extent /\ \A h \in G : h.off < s.cur
  BY <1>1, <1>2, GapSound DEF Seen
<1>4. /\ g \in Extent /\ g.off = s.cur /\ g.off \in Nat /\ g.len \in Nat
      /\ to > s.cur => g = GapTo(s.cur, to) /\ EndOf(g) = to
      /\ ~ (to > s.cur) => g.len = 0
  BY <1>0 DEF Extent, EndOf, GapTo
<1>5. t = IF Stops(q, g, relax) THEN [s EXCEPT !.early = {g}]
          ELSE [s EXCEPT !.best = Better(q, s.best, g), !.largest = Longer(s.largest, g.len)]
  BY DEF Look
<1> HIDE DEF g, t, G
<1>6. CASE Stops(q, g, relax)
  <2>1. t = [s EXCEPT !.early = {g}]
    BY <1>5, <1>6
  <2>2. t \in ScanType /\ t.cur = s.cur /\ t.early = {g}
    BY <1>0, <1>4, <2>1 DEF ScanType
  <2>3. g.len >= q.bytes /\ to > s.cur
    BY <1>1, <1>4, <1>6 DEF Stops
  <2>4. g \in EarlyGaps(Blocks, q.lo, q.hi, q.bytes)
    BY <1>4, <1>6, <2>3 DEF Stops, StopsScan, EarlyGaps, Fitting
  <2>5. ASSUME NEW h \in EarlyGaps(Blocks, q.lo, q.hi, q.bytes) PROVE g.off <= h.off
    <3>1. h \in Gaps(Blocks, q.lo, q.hi) /\ h.len >= q.bytes /\ StopsScan(h, q.bytes, q.hi)
      BY DEF EarlyGaps, Fitting
    <3>2. h \notin G
      BY <3>1 DEF Known, NoneEarly, G
    <3>3. ~ (h.off < s.cur) /\ h.off \in Nat
      BY <1>1, <1>2, <3>1, <3>2, GapSound DEF G, Seen, Extent
    <3> QED
      BY <1>0, <1>4, <3>3
  <2>6. Ended(q, t.early)
    BY <2>2, <2>4, <2>5 DEF Ended
  <2> QED
    BY <2>2, <2>6 DEF t
<1>7. CASE ~ Stops(q, g, relax)
  <2>1. t = [s EXCEPT !.best = Better(q, s.best, g), !.largest = Longer(s.largest, g.len)]
    BY <1>5, <1>7
  <2>2. Better(q, s.best, g) \in SUBSET Extent /\ Longer(s.largest, g.len) \in Nat
    BY <1>0, <1>4 DEF Better, Longer
  <2>3. /\ t \in ScanType /\ t.cur = s.cur /\ t.early = {}
        /\ t.best = Better(q, s.best, g) /\ t.largest = Longer(s.largest, g.len)
    BY <1>0, <2>1, <2>2 DEF ScanType
  <2>4. BestOf(q, G, s.best) /\ LongestOf(G, s.largest) /\ NoneEarly(q, G)
    BY DEF Known, G
  <2>5. CASE to > s.cur
    <3>1. SeenUpTo(q, s.cur, to) = G \cup {g}
      BY <1>4, <2>5 DEF SeenUpTo, G
    <3>2. \A h \in G : h.off < g.off
      BY <1>3, <1>4
    <3>3. /\ BestOf(q, G \cup {g}, Better(q, s.best, g))
          /\ LongestOf(G \cup {g}, Longer(s.largest, g.len))
      BY <1>1, <1>3, <1>4, <2>4, <3>2, KnowOneMore
    <3>4. NoneEarly(q, G \cup {g})
      BY <1>4, <1>7, <2>4, <2>5 DEF NoneEarly, Stops, StopsScan
    <3> QED
      BY <2>3, <3>1, <3>3, <3>4 DEF Known, t
  <2>6. CASE ~ (to > s.cur)
    <3>1. SeenUpTo(q, s.cur, to) = G
      BY <2>6 DEF SeenUpTo, G
    <3>2. t.best = s.best /\ t.largest = s.largest
      BY <1>0, <1>1, <1>4, <2>3, <2>6 DEF Better, Longer
    <3> QED
      BY <2>3, <2>4, <3>1, <3>2 DEF Known, t
  <2> QED
    BY <2>5, <2>6
<1> QED
  BY <1>6, <1>7

(* The blocks that the loop has passed lie behind cur, and cur is where a   *)
(* gap could start.                                                         *)
Behind(q, k, c) ==
  /\ q.lo <= c /\ GapStarts(Blocks, q.lo, c)
  /\ \A j \in Indices : j <= k => EndOf(desc[j]) <= c \/ q.hi <= c \/ q.hi <= desc[j].off

LoopInv(q, k, s) ==
  /\ s \in ScanType
  /\ \/ s.early = {} /\ Behind(q, k, s.cur) /\ Known(q, s, Seen(q, s.cur))
     \/ Ended(q, s.early)

LEMMA LoopStarts ==
  ASSUME ArrayInv, NEW q \in Queries, NEW k,
         \A j \in Indices : j <= k => EndOf(desc[j]) <= q.lo
  PROVE  LoopInv(q, k, Fresh(q))
<1> DEFINE s == Fresh(q)
<1>1. s \in ScanType /\ s.cur = q.lo /\ s.best = {} /\ s.largest = 0 /\ s.early = {} /\ q.lo \in Nat
  BY QueryType DEF Fresh, ScanType
<1> HIDE DEF s
<1>2. Seen(q, q.lo) = {}
  BY QueryType, BlocksType, GapSound DEF Seen, Extent
<1>3. Known(q, s, Seen(q, s.cur))
  BY <1>1, <1>2 DEF Known, BestOf, LongestOf, NoneEarly
<1>4. Behind(q, k, s.cur)
  BY <1>1 DEF Behind, GapStarts
<1> QED
  BY <1>1, <1>3, <1>4 DEF LoopInv, s

(* What is seen once the next block is behind, too. *)
LEMMA SeenPast ==
  ASSUME ArrayInv, NEW q \in Queries, NEW k \in Indices, NEW c \in Nat,
         Behind(q, k - 1, c), c < q.hi, desc[k].off < q.hi
  PROVE  /\ desc[k].off > c => GapTo(c, desc[k].off) \in Gaps(Blocks, q.lo, q.hi)
         /\ Seen(q, Longer(c, EndOf(desc[k]))) = SeenUpTo(q, c, desc[k].off)
<1> DEFINE to == desc[k].off
           n  == Longer(c, EndOf(desc[k]))
<1>1. q.lo \in Nat /\ q.hi \in Nat /\ Blocks \in SUBSET Extent
  BY QueryType, BlocksType
<1>2. to \in Nat /\ EndOf(desc[k]) \in Nat /\ to < EndOf(desc[k]) /\ desc[k] \in Blocks
  BY EntryFacts, BlocksAre
<1>3. Parted(Blocks, c, to)
  <2> SUFFICES ASSUME NEW j \in Indices PROVE EndOf(desc[j]) <= c \/ to <= desc[j].off
    BY BlocksAre, EntryFacts DEF Parted
  <2>1. CASE j < k
    <3>1. j <= k - 1 /\ desc[j].off <= to /\ desc[j].off \in Nat
      BY <2>1, EntryFacts
    <3> QED
      BY <1>1, <1>2, <3>1 DEF Behind
  <2>2. CASE ~ (j < k)
    <3>1. j = k \/ k < j
      BY <2>2, EntryFacts
    <3> QED
      BY <1>2, <3>1, EntryFacts
  <2> QED
    BY <2>1, <2>2
<1>4. ASSUME to > c
      PROVE  /\ GapTo(c, to) \in Gaps(Blocks, q.lo, q.hi)
             /\ \A g \in Gaps(Blocks, q.lo, q.hi) : c <= g.off /\ g.off < to => g = GapTo(c, to)
  <2>1. q.lo <= c /\ GapStarts(Blocks, q.lo, c)
    BY DEF Behind
  <2>2. c < to /\ to <= q.hi /\ to \in Nat /\ GapEnds(Blocks, q.hi, to)
    BY <1>1, <1>2, <1>4 DEF GapEnds
  <2> HIDE DEF to
  <2> QED
    BY <1>1, <1>3, <2>1, <2>2, NextGap
<1>5. n \in Nat /\ c <= n /\ EndOf(desc[k]) <= n /\ (n = c \/ n = EndOf(desc[k]))
  BY <1>2 DEF Longer
<1>6. \A g \in Gaps(Blocks, q.lo, q.hi) : g.off \in Nat /\ (g.off < EndOf(desc[k]) => g.off < to)
  BY <1>1, <1>2, NoGapIn, GapSound DEF Extent
<1>7. GapTo(c, to).off = c
  BY DEF GapTo
<1> HIDE DEF to, n
<1>8. Seen(q, n) = SeenUpTo(q, c, to)
  <2>1. ASSUME NEW g \in Seen(q, n) PROVE g \in SeenUpTo(q, c, to)
    <3>1. g \in Gaps(Blocks, q.lo, q.hi) /\ g.off < n
      BY DEF Seen
    <3>2. CASE g.off < c
      BY <3>1, <3>2 DEF Seen, SeenUpTo
    <3>3. CASE ~ (g.off < c)
      <4>1. c <= g.off /\ g.off < to
        BY <1>2, <1>5, <1>6, <3>1, <3>3
      <4>2. to > c
        BY <1>2, <1>6, <3>1, <4>1
      <4> QED
        BY <1>4, <3>1, <4>1, <4>2 DEF SeenUpTo
    <3> QED
      BY <3>2, <3>3
  <2>2. ASSUME NEW g \in SeenUpTo(q, c, to) PROVE g \in Seen(q, n)
    <3>1. CASE g \in Seen(q, c)
      BY <1>5, <1>6, <3>1 DEF Seen
    <3>2. CASE to > c /\ g = GapTo(c, to)
      BY <1>2, <1>4, <1>5, <1>7, <3>2 DEF Seen
    <3> QED
      BY <3>1, <3>2 DEF SeenUpTo
  <2> QED
    BY <2>1, <2>2
<1> QED
  BY <1>4, <1>8 DEF to, n

LEMMA PassKeeps ==
  ASSUME ArrayInv, NEW q \in Queries, NEW k \in Indices, NEW s, LoopInv(q, k - 1, s)
  PROVE  LoopInv(q, k, Pass(q, s, desc[k]))
<1> DEFINE x == desc[k]
           n == Longer(s.cur, EndOf(x))
<1>1. /\ q.lo \in Nat /\ q.hi \in Nat /\ Blocks \in SUBSET Extent
      /\ s \in ScanType /\ s.cur \in Nat
  BY QueryType, BlocksType DEF LoopInv, ScanType
<1>2. /\ x.off \in Nat /\ EndOf(x) \in Nat /\ x.off < EndOf(x) /\ x \in Blocks
      /\ \A j \in Indices : j <= k => j <= k - 1 \/ j = k
  BY EntryFacts, BlocksAre
<1>3. CASE s.early # {}
  <2>1. Pass(q, s, x) = s
    BY <1>3 DEF Pass
  <2> QED
    BY <1>3, <2>1 DEF LoopInv
<1>4. CASE s.early = {} /\ (s.cur >= q.hi \/ x.off >= q.hi)
  <2>1. Pass(q, s, x) = s
    BY <1>4 DEF Pass
  <2>2. ~ Ended(q, s.early)
    BY <1>4 DEF Ended
  <2>3. Behind(q, k - 1, s.cur) /\ Known(q, s, Seen(q, s.cur))
    BY <2>2 DEF LoopInv
  <2>4. Behind(q, k, s.cur)
    BY <1>1, <1>2, <1>4, <2>3 DEF Behind
  <2> QED
    BY <1>1, <1>4, <2>1, <2>3, <2>4 DEF LoopInv
<1>5. CASE s.early = {} /\ ~ (s.cur >= q.hi) /\ ~ (x.off >= q.hi)
  <2> DEFINE t == Look(q, s, x.off, TRUE)
             u == [t EXCEPT !.cur = n]
  <2>0. Pass(q, s, x) = u
    BY <1>5 DEF Pass
  <2>1. ~ Ended(q, s.early)
    BY <1>5 DEF Ended
  <2>2. Behind(q, k - 1, s.cur) /\ Known(q, s, Seen(q, s.cur))
    BY <2>1 DEF LoopInv
  <2>3. /\ x.off > s.cur => GapTo(s.cur, x.off) \in Gaps(Blocks, q.lo, q.hi)
        /\ Seen(q, n) = SeenUpTo(q, s.cur, x.off)
    <3>1. s.cur < q.hi /\ x.off < q.hi
      BY <1>1, <1>2, <1>5
    <3> QED
      BY <1>1, <2>2, <3>1, SeenPast
  <2>4. /\ t \in ScanType /\ t.cur = s.cur
        /\ \/ t.early = {} /\ Known(q, t, SeenUpTo(q, s.cur, x.off))
           \/ Ended(q, t.early)
    <3>1. s.early = {} /\ (TRUE <=> x.off # q.hi)
      BY <1>1, <1>2, <1>5
    <3>2. x.off > s.cur => /\ GapTo(s.cur, x.off) \in Gaps(Blocks, q.lo, q.hi)
                           /\ TRUE <=> x.off # q.hi
      BY <2>3, <3>1
    <3> HIDE DEF x
    <3> QED
      BY <1>1, <1>2, <2>2, <3>1, <3>2, LookResult
  <2>5. n \in Nat /\ s.cur <= n /\ EndOf(x) <= n /\ (n = s.cur \/ n = EndOf(x))
    BY <1>1, <1>2 DEF Longer
  <2> HIDE DEF t, n
  <2>6. /\ u \in ScanType /\ u.cur = n /\ u.early = t.early
        /\ u.best = t.best /\ u.largest = t.largest
    BY <2>4, <2>5 DEF ScanType
  <2> HIDE DEF u
  <2>7. CASE Ended(q, t.early)
    BY <2>0, <2>6, <2>7 DEF LoopInv
  <2>8. CASE t.early = {} /\ Known(q, t, SeenUpTo(q, s.cur, x.off))
    <3>1. Known(q, u, Seen(q, n))
      BY <2>3, <2>6, <2>8 DEF Known
    <3>2. q.lo <= n /\ GapStarts(Blocks, q.lo, n)
      <4>1. q.lo <= s.cur /\ GapStarts(Blocks, q.lo, s.cur)
        BY <2>2 DEF Behind
      <4> QED
        BY <1>1, <1>2, <2>5, <4>1 DEF GapStarts
    <3>3. ASSUME NEW j \in Indices, j <= k
          PROVE  EndOf(desc[j]) <= n \/ q.hi <= n \/ q.hi <= desc[j].off
      <4>1. CASE j = k
        BY <2>5, <4>1
      <4>2. CASE j <= k - 1
        <5>1. EndOf(desc[j]) <= s.cur \/ q.hi <= s.cur \/ q.hi <= desc[j].off
          BY <2>2, <4>2 DEF Behind
        <5> QED
          BY <1>1, <2>5, <5>1, EntryFacts
      <4> QED
        BY <1>2, <3>3, <4>1, <4>2
    <3>4. Behind(q, k, n)
      BY <3>2, <3>3 DEF Behind
    <3> QED
      BY <2>0, <2>6, <2>8, <3>1, <3>4 DEF LoopInv
  <2> QED
    BY <2>4, <2>7, <2>8
<1> QED
  BY <1>3, <1>4, <1>5

-----------------------------------------------------------------------------
(* The whole loop: the recursive function of the passes has values, and the *)
(* invariant of the loop holds of each.                                     *)

PassAt(q, start, f, i) == IF i < start THEN Fresh(q) ELSE Pass(q, f[i - 1], desc[i])

LoopFrom(q, start, f) == [i \in 0 .. Len(desc) |-> PassAt(q, start, f, i)]

LEMMA LoopSolved ==
  ASSUME NEW q, NEW start \in Nat \ {0}, Len(desc) \in Nat
  PROVE  \E f : f = LoopFrom(q, start, f)
<1> DEFINE Runs(n) == \E f : \A i \in 0 .. n : f[i] = PassAt(q, start, f, i)
           T == {n \in 0 .. Len(desc) : ~ Runs(n)}
<1>1. T = {}
  <2> SUFFICES ASSUME T # {} PROVE FALSE
    OBVIOUS
  <2>1. T \in SUBSET Nat
    OBVIOUS
  <2> HIDE DEF T
  <2>2. PICK m \in T : \A n \in T : m <= n
    BY <2>1, NatMin
  <2> USE DEF T
  <2>3. m \in 0 .. Len(desc) /\ m \in Nat /\ ~ Runs(m)
    BY <2>2
  <2>4. CASE m = 0
    <3> DEFINE f == [i \in {0} |-> Fresh(q)]
    <3>1. \A i \in 0 .. m : f[i] = PassAt(q, start, f, i)
      BY <2>4 DEF PassAt
    <3>2. Runs(m)
      BY <3>1
    <3> QED
      BY <2>3, <3>2
  <2>5. CASE m # 0
    <3>1. m - 1 \in 0 .. Len(desc) /\ m - 1 \notin T
      <4>1. m - 1 \in 0 .. Len(desc) /\ m - 1 < m
        BY <2>3, <2>5
      <4> HIDE DEF T
      <4> QED
        BY <2>1, <2>2, <4>1
    <3>2. PICK f : \A i \in 0 .. (m - 1) : f[i] = PassAt(q, start, f, i)
      BY <3>1
    <3> DEFINE h == [i \in 0 .. m |-> IF i < m THEN f[i] ELSE PassAt(q, start, f, m)]
    <3>3. ASSUME NEW i \in 0 .. m PROVE h[i] = PassAt(q, start, h, i)
      <4>1. CASE i < m
        <5>1. h[i] = PassAt(q, start, f, i)
          BY <2>3, <3>2, <4>1
        <5>2. i < start \/ (i - 1 \in 0 .. m /\ i - 1 < m /\ h[i - 1] = f[i - 1])
          BY <2>3, <4>1
        <5> HIDE DEF h
        <5> QED
          BY <5>1, <5>2 DEF PassAt
      <4>2. CASE i = m
        <5>1. h[i] = PassAt(q, start, f, i)
          BY <2>3, <4>2
        <5>2. i - 1 \in 0 .. m /\ i - 1 < m /\ h[i - 1] = f[i - 1]
          BY <2>3, <2>5, <4>2
        <5> HIDE DEF h
        <5> QED
          BY <5>1, <5>2 DEF PassAt
      <4> QED
        BY <2>3, <4>1, <4>2
    <3> HIDE DEF h
    <3>4. Runs(m)
      BY <3>3
    <3> QED
      BY <2>3, <3>4
  <2> QED
    BY <2>4, <2>5
<1>2. Runs(Len(desc))
  BY <1>1
<1>3. PICK f : \A i \in 0 .. Len(desc) : f[i] = PassAt(q, start, f, i)
  BY <1>2
<1> DEFINE h == [i \in 0 .. Len(desc) |-> f[i]]
<1>4. ASSUME NEW i \in 0 .. Len(desc) PROVE h[i] = PassAt(q, start, h, i)
  <2>1. h[i] = PassAt(q, start, f, i)
    BY <1>3
  <2>2. i < start \/ (i - 1 \in 0 .. Len(desc) /\ h[i - 1] = f[i - 1])
    OBVIOUS
  <2> HIDE DEF h
  <2> QED
    BY <2>1, <2>2 DEF PassAt
<1>5. h = [i \in 0 .. Len(desc) |-> h[i]]
  OBVIOUS
<1> HIDE DEF h
<1>6. h = LoopFrom(q, start, h)
  BY <1>4, <1>5 DEF LoopFrom
<1> QED
  BY <1>6

(* The entries before start end before the region.                          *)
LEMMA PassesKeep ==
  ASSUME ArrayInv, NEW q \in Queries, NEW start \in Nat \ {0},
         \A j \in Indices : j < start => EndOf(desc[j]) <= q.lo
  PROVE  LoopInv(q, Len(desc), Passes(q, start))
<1> DEFINE b == CHOOSE f : f = LoopFrom(q, start, f)
           N == Len(desc)
           T == {n \in 0 .. N : ~ LoopInv(q, n, b[n])}
<1>0. N \in Nat /\ Indices = 1 .. N
  BY EntryFacts
<1>1. b = LoopFrom(q, start, b)
  BY <1>0, LoopSolved
<1>2. Passes(q, start) = b[N]
  BY DEF Passes, LoopFrom, PassAt
<1> HIDE DEF b
<1>3. \A i \in 0 .. N : b[i] = PassAt(q, start, b, i)
  BY <1>1 DEF LoopFrom
<1>4. T = {}
  <2> SUFFICES ASSUME T # {} PROVE FALSE
    OBVIOUS
  <2>1. T \in SUBSET Nat
    OBVIOUS
  <2> HIDE DEF T
  <2>2. PICK m \in T : \A n \in T : m <= n
    BY <2>1, NatMin
  <2> USE DEF T
  <2>3. m \in 0 .. N /\ m \in Nat /\ ~ LoopInv(q, m, b[m])
    BY <2>2
  <2>4. CASE m < start
    <3>1. b[m] = Fresh(q)
      BY <1>3, <2>3, <2>4 DEF PassAt
    <3>2. \A j \in Indices : j <= m => EndOf(desc[j]) <= q.lo
      BY <1>0, <2>3, <2>4
    <3>3. LoopInv(q, m, b[m])
      BY <3>1, <3>2, LoopStarts
    <3> QED
      BY <2>3, <3>3
  <2>5. CASE ~ (m < start)
    <3>1. m \in Indices /\ m - 1 \in 0 .. N /\ m - 1 < m
      BY <1>0, <2>3, <2>5
    <3>2. LoopInv(q, m - 1, b[m - 1])
      BY <2>2, <2>3, <3>1
    <3>3. b[m] = Pass(q, b[m - 1], desc[m])
      BY <1>3, <2>3, <2>5 DEF PassAt
    <3>4. LoopInv(q, m, b[m])
      BY <3>1, <3>2, <3>3, PassKeeps
    <3> QED
      BY <2>3, <3>4
  <2> QED
    BY <2>4, <2>5
<1>5. LoopInv(q, N, b[N])
  BY <1>0, <1>4
<1> QED
  BY <1>2, <1>5

-----------------------------------------------------------------------------
(* The tail, and what the search returns. *)

LEMMA TailSeen ==
  ASSUME ArrayInv, NEW q \in Queries, NEW c \in Nat, Behind(q, Len(desc), c)
  PROVE  /\ q.hi > c => GapTo(c, q.hi) \in Gaps(Blocks, q.lo, q.hi)
         /\ SeenUpTo(q, c, q.hi) = Gaps(Blocks, q.lo, q.hi)
<1>1. q.lo \in Nat /\ q.hi \in Nat /\ Blocks \in SUBSET Extent
  BY QueryType, BlocksType
<1>2. ASSUME q.hi > c
      PROVE  /\ GapTo(c, q.hi) \in Gaps(Blocks, q.lo, q.hi)
             /\ \A g \in Gaps(Blocks, q.lo, q.hi) : c <= g.off /\ g.off < q.hi => g = GapTo(c, q.hi)
  <2>1. \A j \in Indices : EndOf(desc[j]) <= c \/ q.hi <= desc[j].off
    BY <1>1, <1>2, EntryFacts DEF Behind
  <2>2. Parted(Blocks, c, q.hi)
    BY <2>1, BlocksAre, EntryFacts DEF Parted
  <2>3. q.lo <= c /\ GapStarts(Blocks, q.lo, c) /\ GapEnds(Blocks, q.hi, q.hi)
    BY DEF Behind, GapEnds
  <2>4. c < q.hi /\ q.hi <= q.hi
    BY <1>1, <1>2
  <2> QED
    BY <1>1, <2>2, <2>3, <2>4, NextGap
<1>3. ASSUME NEW g \in Gaps(Blocks, q.lo, q.hi) PROVE g \in SeenUpTo(q, c, q.hi)
  <2>1. g.off \in Nat /\ g.off < q.hi
    BY <1>1, GapSound DEF Extent, EndOf
  <2>2. CASE g.off < c
    BY <2>2 DEF Seen, SeenUpTo
  <2>3. CASE c <= g.off
    <3>1. q.hi > c
      BY <1>1, <2>1, <2>3
    <3> QED
      BY <1>2, <2>1, <2>3, <3>1 DEF SeenUpTo
  <2> QED
    BY <2>1, <2>2, <2>3
<1>4. ASSUME NEW g \in SeenUpTo(q, c, q.hi) PROVE g \in Gaps(Blocks, q.lo, q.hi)
  BY <1>2 DEF SeenUpTo, Seen
<1> QED
  BY <1>2, <1>3, <1>4

LEMMA SameStart ==
  ASSUME NEW B \in SUBSET Extent, NEW lo \in Nat, NEW hi \in Nat,
         NEW g \in Gaps(B, lo, hi), NEW h \in Gaps(B, lo, hi), g.off = h.off
  PROVE  g = h
<1>1. g \in Extent /\ h \in Extent /\ g.len > 0 /\ h.len > 0
  BY GapSound
<1>2. g.off \in Nat /\ g.len \in Nat /\ h.len \in Nat
  BY <1>1 DEF Extent
<1> DEFINE x == [off |-> g.off, len |-> 1]
<1>3. x \in Extent /\ x.len > 0 /\ x.off = g.off /\ EndOf(x) = g.off + 1
  BY <1>2 DEF Extent, EndOf
<1> HIDE DEF x
<1>4. g.off <= x.off /\ EndOf(x) <= EndOf(g) /\ h.off <= x.off /\ EndOf(x) <= EndOf(h)
  BY <1>1, <1>2, <1>3 DEF EndOf
<1> QED
  BY <1>3, <1>4, GapUnique

LEMMA EndedFinds ==
  ASSUME ArrayInv, NEW q \in Queries, NEW early, Ended(q, early)
  PROVE  /\ BestGap(Blocks, q.lo, q.hi, q.bytes) = early
         /\ LearntLargest(Blocks, q.lo, q.hi, q.bytes) = {}
<1> DEFINE E == EarlyGaps(Blocks, q.lo, q.hi, q.bytes)
<1>1. PICK g \in E : early = {g} /\ \A h \in E : g.off <= h.off
  BY DEF Ended
<1>2. \A h \in E : h \in Gaps(Blocks, q.lo, q.hi)
  BY DEF EarlyGaps, Fitting
<1>3. q.lo \in Nat /\ q.hi \in Nat /\ Blocks \in SUBSET Extent
  BY QueryType, BlocksType
<1>4. \A h \in E : h.off \in Nat
  BY <1>2, <1>3, GapSound DEF Extent
<1> HIDE DEF E
<1>5. \A h \in E : (\A i \in E : h.off <= i.off) => h.off = g.off
  BY <1>1, <1>4
<1>6. \A h \in E : h.off = g.off => h = g
  BY <1>1, <1>2, <1>3, SameStart
<1>7. {h \in E : \A i \in E : h.off <= i.off} = {g}
  BY <1>1, <1>5, <1>6
<1>8. E # {}
  BY <1>1
<1> QED
  BY <1>1, <1>7, <1>8 DEF BestGap, LearntLargest, E

LEMMA KnownFinds ==
  ASSUME ArrayInv, NEW q \in Queries, NEW t, Known(q, t, Gaps(Blocks, q.lo, q.hi))
  PROVE  /\ BestGap(Blocks, q.lo, q.hi, q.bytes) = t.best
         /\ LearntLargest(Blocks, q.lo, q.hi, q.bytes) = {t.largest}
<1> DEFINE G == Gaps(Blocks, q.lo, q.hi)
           F == Fitting(Blocks, q.lo, q.hi, q.bytes)
           best == BestGap(Blocks, q.lo, q.hi, q.bytes)
<1>1. q.lo \in Nat /\ q.hi \in Nat /\ q.bytes \in Nat /\ Blocks \in SUBSET Extent
  BY QueryType, BlocksType
<1>2. \A g \in G : g \in Extent /\ g.off \in Nat /\ g.len \in Nat
  BY <1>1, GapSound DEF Extent
<1>3. EarlyGaps(Blocks, q.lo, q.hi, q.bytes) = {}
  BY DEF Known, NoneEarly, EarlyGaps, Fitting
<1>4. F = {g \in G : g.len >= q.bytes}
  BY DEF Fitting
<1>5. best = {g \in F : \A h \in F : AheadOf(g, h)}
  BY <1>3 DEF BestGap, AheadOf
<1>6. BestOf(q, G, t.best) /\ LongestOf(G, t.largest)
  BY DEF Known
<1>7. LearntLargest(Blocks, q.lo, q.hi, q.bytes) = LargestGap(Blocks, q.lo, q.hi)
  BY <1>3 DEF LearntLargest
<1>8. LargestGap(Blocks, q.lo, q.hi) = {n \in {0} \cup {g.len : g \in G} : \A g \in G : g.len <= n}
  BY DEF LargestGap
<1> HIDE DEF G, F, best
<1>9. LargestGap(Blocks, q.lo, q.hi) = {t.largest}
  <2>1. t.largest \in LargestGap(Blocks, q.lo, q.hi)
    BY <1>6, <1>8 DEF LongestOf
  <2>2. ASSUME NEW n \in LargestGap(Blocks, q.lo, q.hi) PROVE n = t.largest
    BY <1>2, <1>6, <1>8, <2>2 DEF LongestOf
  <2> QED
    BY <2>1, <2>2
<1>10. CASE t.best = {} /\ \A h \in G : h.len < q.bytes
  <2>1. F = {}
    BY <1>1, <1>2, <1>4, <1>10
  <2> QED
    BY <1>5, <1>7, <1>9, <1>10, <2>1 DEF best
<1>11. CASE \E g \in G : /\ t.best = {g} /\ g.len >= q.bytes
                         /\ \A h \in G : h.len >= q.bytes => AheadOf(g, h)
  <2>1. PICK g \in G : /\ t.best = {g} /\ g.len >= q.bytes
                       /\ \A h \in G : h.len >= q.bytes => AheadOf(g, h)
    BY <1>11
  <2>2. g \in best
    BY <1>4, <1>5, <2>1
  <2>3. ASSUME NEW h \in best PROVE h = g
    <3>1. h \in G /\ h.len >= q.bytes /\ AheadOf(h, g)
      BY <1>4, <1>5, <2>1
    <3>2. AheadOf(g, h)
      BY <2>1, <3>1
    <3>3. h.off = g.off
      BY <1>2, <2>1, <3>1, <3>2 DEF AheadOf
    <3> QED
      BY <1>1, <2>1, <3>1, <3>3, SameStart DEF G
  <2>4. best = {g}
    BY <2>2, <2>3
  <2> QED
    BY <1>7, <1>9, <2>1, <2>4 DEF best
<1> QED
  BY <1>6, <1>10, <1>11 DEF BestOf

LEMMA SearchResult ==
  ASSUME ArrayInv, NEW q \in Queries, NEW start \in Nat \ {0},
         \A j \in Indices : j < start => EndOf(desc[j]) <= q.lo
  PROVE  FindBestFreeIn(q, start) =
           [found  |-> FindBestFree(Blocks, q.lo, q.hi, q.bytes, q.max),
            learnt |-> LearntLargest(Blocks, q.lo, q.hi, q.bytes)]
<1> DEFINE s == Passes(q, start)
           t == IF s.early # {} THEN s ELSE Look(q, s, q.hi, FALSE)
           result(gaps, learnt) ==
             [found |-> {Cut(g, q.bytes, q.max) : g \in gaps}, learnt |-> learnt]
<1>1. LoopInv(q, Len(desc), s)
  BY PassesKeep
<1>2. FindBestFreeIn(q, start) =
        IF t.early # {} THEN result(t.early, {}) ELSE result(t.best, {t.largest})
  BY DEF FindBestFreeIn
<1>3. FindBestFree(Blocks, q.lo, q.hi, q.bytes, q.max) =
        {Cut(g, q.bytes, q.max) : g \in BestGap(Blocks, q.lo, q.hi, q.bytes)}
  BY DEF FindBestFree
<1> HIDE DEF s
<1>4. \/ t.early = {} /\ Known(q, t, Gaps(Blocks, q.lo, q.hi))
      \/ Ended(q, t.early)
  <2>1. CASE s.early # {}
    BY <1>1, <2>1 DEF LoopInv
  <2>2. CASE s.early = {}
    <3>1. ~ Ended(q, s.early)
      BY <2>2 DEF Ended
    <3>2. s \in ScanType /\ Behind(q, Len(desc), s.cur) /\ Known(q, s, Seen(q, s.cur))
      BY <1>1, <3>1 DEF LoopInv
    <3>3. s.cur \in Nat /\ q.hi \in Nat
      BY <3>2, QueryType DEF ScanType
    <3>4. /\ q.hi > s.cur => GapTo(s.cur, q.hi) \in Gaps(Blocks, q.lo, q.hi)
          /\ SeenUpTo(q, s.cur, q.hi) = Gaps(Blocks, q.lo, q.hi)
      BY <3>2, <3>3, TailSeen
    <3>5. q.hi > s.cur => /\ GapTo(s.cur, q.hi) \in Gaps(Blocks, q.lo, q.hi)
                          /\ FALSE <=> q.hi # q.hi
      BY <3>4
    <3> DEFINE u == Look(q, s, q.hi, FALSE)
    <3>6. \/ u.early = {} /\ Known(q, u, SeenUpTo(q, s.cur, q.hi))
          \/ Ended(q, u.early)
      BY <2>2, <3>2, <3>3, <3>5, LookResult
    <3>7. t = u
      BY <2>2
    <3> HIDE DEF u, t
    <3> QED
      BY <3>4, <3>6, <3>7
  <2> QED
    BY <2>1, <2>2
<1> HIDE DEF t
<1>5. CASE Ended(q, t.early)
  <2>1. /\ BestGap(Blocks, q.lo, q.hi, q.bytes) = t.early
        /\ LearntLargest(Blocks, q.lo, q.hi, q.bytes) = {}
    BY <1>5, EndedFinds
  <2>2. t.early # {}
    BY <1>5 DEF Ended
  <2> QED
    BY <1>2, <1>3, <2>1, <2>2
<1>6. CASE t.early = {} /\ Known(q, t, Gaps(Blocks, q.lo, q.hi))
  <2>1. /\ BestGap(Blocks, q.lo, q.hi, q.bytes) = t.best
        /\ LearntLargest(Blocks, q.lo, q.hi, q.bytes) = {t.largest}
    BY <1>6, KnownFinds
  <2> QED
    BY <1>2, <1>3, <1>6, <2>1
<1> QED
  BY <1>4, <1>5, <1>6

(* The entries that the bisection skips end at or before the region.        *)
LEMMA FirstAfterSkips ==
  ASSUME ArrayInv, NEW lo \in Nat
  PROVE  /\ FirstAfter(lo) \in Nat \ {0}
         /\ \A j \in Indices : j < FirstAfter(lo) => EndOf(desc[j]) <= lo
<1> DEFINE Left == {i \in Indices : EndOf(desc[i]) <= lo}
<1>1. Prefix(Left)
  <2> SUFFICES ASSUME NEW i \in Indices, NEW j \in Indices, i < j, j \in Left PROVE i \in Left
    BY DEF Prefix
  <2>1. EndOf(desc[i]) <= EndOf(desc[j]) /\ EndOf(desc[j]) <= lo
    BY EntryFacts
  <2> QED
    BY <2>1, EntryFacts
<1>2. IsFirst(Left, 1, Len(desc) + 1, FirstAfter(lo))
  BY <1>1, EntryFacts, BisectFirst DEF FirstAfter
<1>3. ASSUME NEW j \in Indices, j < FirstAfter(lo) PROVE EndOf(desc[j]) <= lo
  <2>1. j \in Nat /\ 1 <= j
    BY EntryFacts
  <2> HIDE DEF Left
  <2>2. j \in Left
    BY <1>2, <1>3, <2>1 DEF IsFirst
  <2> QED
    BY <2>2 DEF Left
<1>4. FirstAfter(lo) \in Nat \ {0}
  BY <1>2, EntryFacts DEF IsFirst
<1> QED
  BY <1>3, <1>4

(* mxr_find_best_free finds what the definition by sets finds: the first    *)
(* gap that is good enough or else the tightest, cut by the anti-sliver     *)
(* rule; and when it reports a longest gap, that gap is the longest.  Both  *)
(* hold with and without the skip by bisection.                             *)
THEOREM ScanFindsTheGap == Spec => []ScanIsSearch
<1>1. ArrayInv => ScanIsSearch
  <2> SUFFICES ASSUME ArrayInv, NEW q \in Queries, NEW start \in {1, FirstAfter(q.lo)}
               PROVE  FindBestFreeIn(q, start) =
                        [found  |-> FindBestFree(Blocks, q.lo, q.hi, q.bytes, q.max),
                         learnt |-> LearntLargest(Blocks, q.lo, q.hi, q.bytes)]
    BY DEF ScanIsSearch
  <2>1. q.lo \in Nat
    BY QueryType
  <2>2. start \in Nat \ {0} /\ \A j \in Indices : j < start => EndOf(desc[j]) <= q.lo
    <3>1. CASE start = 1
      BY <3>1, EntryFacts
    <3>2. CASE start = FirstAfter(q.lo)
      BY <2>1, <3>2, FirstAfterSkips
    <3> QED
      BY <3>1, <3>2
  <2> QED
    BY <2>2, SearchResult
<1> QED
  BY <1>1, ArraySafety, PTL

=============================================================================
