----------------------------- MODULE MxrGapsProofs -----------------------------
(***************************************************************************)
(* Facts about gaps and searches that hold for every set of extents: the   *)
(* proofs about both arenas rest on them.                                  *)
(***************************************************************************)
EXTENDS MxrGaps, FiniteSetTheorems, TLAPS

-----------------------------------------------------------------------------
(* Gaps and cuts. *)

(* What a search relies on: a gap is a nonempty free range of its region. *)
LEMMA GapSound ==
  ASSUME NEW B \in SUBSET Extent, NEW lo \in Nat, NEW hi \in Nat,
         NEW g \in Gaps(B, lo, hi)
  PROVE  /\ g \in Extent /\ g.len > 0 /\ IsFree(B, g)
         /\ lo <= g.off /\ EndOf(g) <= hi
<1> DEFINE starts == {lo} \cup {EndOf(b) : b \in {c \in B : lo < EndOf(c) /\ EndOf(c) < hi}}
           ends   == {hi} \cup {b.off : b \in {c \in B : lo < c.off /\ c.off < hi}}
<1>0. g \in {[off |-> a, len |-> e - a] : a \in starts, e \in ends}
  BY DEF Gaps
<1>1. PICK a \in starts, e \in ends : g = [off |-> a, len |-> e - a]
  BY <1>0
<1>2. a \in Nat /\ lo <= a
  BY DEF EndOf, Extent
<1>3. e \in Nat /\ e <= hi
  BY DEF Extent
<1>4. g.len > 0 /\ IsFree(B, g)
  BY DEF Gaps
<1>5. g.off = a /\ g.len = e - a
  BY <1>1
<1>6. g.len \in Nat /\ EndOf(g) = e
  BY <1>2, <1>3, <1>4, <1>5 DEF EndOf
<1> QED
  BY <1>1, <1>2, <1>3, <1>4, <1>5, <1>6 DEF Extent

(* A gap begins at the border or behind a block, and ends at the border or  *)
(* where a block begins.                                                    *)
LEMMA GapBorders ==
  ASSUME NEW B \in SUBSET Extent, NEW lo \in Nat, NEW hi \in Nat,
         NEW g \in Gaps(B, lo, hi)
  PROVE  /\ g.off = lo \/ \E b \in B : EndOf(b) = g.off
         /\ EndOf(g) = hi \/ \E b \in B : b.off = EndOf(g)
<1> DEFINE starts == {lo} \cup {EndOf(b) : b \in {c \in B : lo < EndOf(c) /\ EndOf(c) < hi}}
           ends   == {hi} \cup {b.off : b \in {c \in B : lo < c.off /\ c.off < hi}}
<1>1. g \in {[off |-> a, len |-> e - a] : a \in starts, e \in ends}
  BY DEF Gaps
<1>2. PICK a \in starts, e \in ends : g = [off |-> a, len |-> e - a]
  BY <1>1
<1>3. a \in Nat /\ e \in Nat
  BY DEF EndOf, Extent
<1>4. g.off = a /\ EndOf(g) = e
  BY <1>2, <1>3 DEF EndOf
<1> QED
  BY <1>4

(* Gaps are maximal: two gaps of a window that share a byte are the same. *)
LEMMA GapUnique ==
  ASSUME NEW B \in SUBSET Extent, NEW lo \in Nat, NEW hi \in Nat,
         NEW g \in Gaps(B, lo, hi), NEW h \in Gaps(B, lo, hi),
         NEW x \in Extent, x.len > 0,
         g.off <= x.off, EndOf(x) <= EndOf(g), h.off <= x.off, EndOf(x) <= EndOf(h)
  PROVE  g = h
<1>1. ASSUME NEW u \in Gaps(B, lo, hi), NEW v \in Gaps(B, lo, hi),
             u.off <= x.off, EndOf(x) <= EndOf(u), v.off <= x.off, EndOf(x) <= EndOf(v)
      PROVE  u.off <= v.off /\ EndOf(v) <= EndOf(u)
  <2>1. /\ u \in Extent /\ lo <= u.off /\ EndOf(u) <= hi /\ IsFree(B, u)
        /\ v \in Extent /\ lo <= v.off /\ EndOf(v) <= hi /\ IsFree(B, v)
    BY GapSound
  <2>2. u.off <= v.off
    <3>1. CASE u.off = lo
      BY <2>1, <3>1
    <3>2. CASE \E b \in B : EndOf(b) = u.off
      BY <1>1, <2>1, <3>2 DEF IsFree, Disjoint, EndOf, Extent
    <3> QED
      BY <3>1, <3>2, GapBorders
  <2>3. EndOf(v) <= EndOf(u)
    <3>1. CASE EndOf(u) = hi
      BY <2>1, <3>1
    <3>2. CASE \E b \in B : b.off = EndOf(u)
      BY <1>1, <2>1, <3>2 DEF IsFree, Disjoint, EndOf, Extent
    <3> QED
      BY <3>1, <3>2, GapBorders
  <2> QED
    BY <2>2, <2>3
<1>2. g.off = h.off /\ EndOf(g) = EndOf(h) /\ g \in Extent /\ h \in Extent
  <2>1. g \in Extent /\ h \in Extent
    BY GapSound
  <2>2. g.off <= h.off /\ EndOf(h) <= EndOf(g) /\ h.off <= g.off /\ EndOf(g) <= EndOf(h)
    BY <1>1
  <2> QED
    BY <2>1, <2>2 DEF EndOf, Extent
<1> QED
  BY <1>2 DEF EndOf, Extent

(* A cut begins where the gap does, holds the request and stays in the gap. *)
LEMMA CutSound ==
  ASSUME NEW g \in Extent, NEW bytes \in Nat, NEW max \in Nat, bytes <= g.len
  PROVE  LET x == Cut(g, bytes, max) IN
         /\ x \in Extent /\ x.off = g.off
         /\ bytes <= x.len /\ x.len <= g.len
BY DEF Cut, CutLen, Extent

(* Part of a free range is free. *)
LEMMA PartFree ==
  ASSUME NEW B \in SUBSET Extent, NEW g \in Extent, NEW x \in Extent,
         IsFree(B, g), g.off <= x.off, EndOf(x) <= EndOf(g)
  PROVE  IsFree(B, x)
BY DEF IsFree, Disjoint, EndOf, Extent

(* What two disjoint ranges share, a part of one of them does not. *)
LEMMA PartDisjoint ==
  ASSUME NEW b \in Extent, NEW y \in Extent, NEW x \in Extent,
         Disjoint(b, y), y.off <= x.off, EndOf(x) <= EndOf(y)
  PROVE  Disjoint(b, x)
BY DEF Disjoint, EndOf, Extent

LEMMA LargestGapType ==
  ASSUME NEW B \in SUBSET Extent, NEW lo \in Nat, NEW hi \in Nat
  PROVE  LargestGap(B, lo, hi) \in SUBSET Nat
BY GapSound DEF LargestGap, Extent

(* Blocks outside a region do not show in its gaps. *)
LEMMA GapsFrame ==
  ASSUME NEW B \in SUBSET Extent, NEW lo \in Nat, NEW hi \in Nat,
         NEW x \in Extent, EndOf(x) <= lo \/ hi <= x.off
  PROVE  Gaps(B \cup {x}, lo, hi) = Gaps(B, lo, hi)
<1> DEFINE C == B \cup {x}
           starts(A) == {lo} \cup {EndOf(b) : b \in {c \in A : lo < EndOf(c) /\ EndOf(c) < hi}}
           ends(A)   == {hi} \cup {b.off : b \in {c \in A : lo < c.off /\ c.off < hi}}
           cand(A)   == {[off |-> a, len |-> e - a] : a \in starts(A), e \in ends(A)}
<1>1. C \in SUBSET Extent
  OBVIOUS
<1>2. ~(lo < EndOf(x) /\ EndOf(x) < hi) /\ ~(lo < x.off /\ x.off < hi)
  BY DEF EndOf, Extent
<1>3. starts(C) = starts(B)
  BY <1>2, Zenon
<1>4. ends(C) = ends(B)
  BY <1>2, Zenon
<1> HIDE DEF starts, ends
<1>5. cand(C) = cand(B)
  BY <1>3, <1>4
<1> USE DEF starts, ends
<1>6. ASSUME NEW g \in cand(B), g.len > 0, IsFree(B, g)
      PROVE  IsFree(C, g)
  <2>1. g \in Gaps(B, lo, hi)
    BY <1>6 DEF Gaps
  <2>2. g \in Extent /\ lo <= g.off /\ EndOf(g) <= hi
    BY <2>1, GapSound
  <2>3. Disjoint(x, g)
    BY <2>2 DEF Disjoint, EndOf, Extent
  <2> QED
    BY <1>6, <2>3 DEF IsFree
<1>7. ASSUME NEW g \in cand(B), IsFree(C, g)
      PROVE  IsFree(B, g)
  BY <1>7 DEF IsFree
<1>8. Gaps(B, lo, hi) = {g \in cand(B) : g.len > 0 /\ IsFree(B, g)}
  BY DEF Gaps
<1>9. Gaps(C, lo, hi) = {g \in cand(C) : g.len > 0 /\ IsFree(C, g)}
  BY DEF Gaps
<1> HIDE DEF cand, C
<1>10. Gaps(C, lo, hi) = Gaps(B, lo, hi)
  BY <1>5, <1>6, <1>7, <1>8, <1>9
<1> QED
  BY <1>10 DEF C

LEMMA LargestGapFrame ==
  ASSUME NEW B \in SUBSET Extent, NEW lo \in Nat, NEW hi \in Nat,
         NEW x \in Extent, EndOf(x) <= lo \/ hi <= x.off
  PROVE  LargestGap(B \cup {x}, lo, hi) = LargestGap(B, lo, hi)
BY GapsFrame DEF LargestGap

(* The whole of an empty region is its longest gap. *)
LEMMA LargestGapNone ==
  ASSUME NEW lo \in Nat, NEW hi \in Nat, lo <= hi
  PROVE  LargestGap({}, lo, hi) = {hi - lo}
<1> DEFINE g == [off |-> lo, len |-> hi - lo]
<1>1. \A a : a \in Gaps({}, lo, hi) <=> a = g /\ a.len > 0
  BY DEF Gaps, IsFree
<1>2. g.len = hi - lo /\ hi - lo \in Nat
  OBVIOUS
<1> HIDE DEF g
<1>3. CASE hi - lo = 0
  <2>1. Gaps({}, lo, hi) = {}
    BY <1>1, <1>2, <1>3
  <2> QED
    BY <1>3, <2>1 DEF LargestGap
<1>4. CASE hi - lo > 0
  <2>1. Gaps({}, lo, hi) = {g}
    BY <1>1, <1>2, <1>4
  <2>2. LargestGap({}, lo, hi) = {n \in {0, hi - lo} : hi - lo <= n}
    BY <1>2, <2>1 DEF LargestGap
  <2> QED
    BY <1>2, <1>4, <2>2
<1> QED
  BY <1>2, <1>3, <1>4

-----------------------------------------------------------------------------
(* Searches return free room. *)

LEMMA FindSound ==
  ASSUME NEW B \in SUBSET Extent, NEW lo \in Nat, NEW hi \in Nat,
         NEW bytes \in Nat, NEW max \in Nat,
         NEW x \in FindBestFree(B, lo, hi, bytes, max)
  PROVE  /\ x \in Extent /\ bytes <= x.len /\ IsFree(B, x)
         /\ lo <= x.off /\ EndOf(x) <= hi
         /\ \E g \in Extent : bytes <= g.len /\ x = Cut(g, bytes, max)
<1>1. PICK g \in BestGap(B, lo, hi, bytes) : x = Cut(g, bytes, max)
  BY DEF FindBestFree
<1>2. g \in Gaps(B, lo, hi) /\ g.len >= bytes
  BY DEF BestGap, EarlyGaps, Fitting
<1>3. g \in Extent /\ IsFree(B, g) /\ lo <= g.off /\ EndOf(g) <= hi
  BY <1>2, GapSound
<1>4. x \in Extent /\ x.off = g.off /\ bytes <= x.len /\ x.len <= g.len
  BY <1>1, <1>2, <1>3, CutSound
<1>5. EndOf(x) <= EndOf(g) /\ lo <= x.off /\ EndOf(x) <= hi
  BY <1>3, <1>4 DEF EndOf, Extent
<1>6. IsFree(B, x)
  BY <1>3, <1>4, <1>5, PartFree DEF Extent
<1> QED
  BY <1>1, <1>2, <1>3, <1>4, <1>5, <1>6

-----------------------------------------------------------------------------
(* What a search does not miss. *)

(* Every nonempty set of numbers has a least one. *)
LEMMA NatMin ==
  ASSUME NEW S \in SUBSET Nat, S # {}
  PROVE  \E m \in S : \A n \in S : m <= n
<1> DEFINE R == OpToRel(<, Nat)
<1>1. IsWellFoundedOn(R, Nat)
  BY NatLessThanWellFounded
<1>2. \A x, y \in Nat : <<y, x>> \in R <=> y < x
  BY DEF OpToRel
<1> HIDE DEF R
<1>3. PICK m \in S : \A y \in S : ~ (<<y, m>> \in R)
  BY <1>1, WFMin
<1>4. \A y \in S : ~ (y < m)
  BY <1>2, <1>3
<1> QED
  BY <1>4

(* A free range lies in a gap. *)
LEMMA GapAround ==
  ASSUME NEW B \in SUBSET Extent, NEW lo \in Nat, NEW hi \in Nat,
         NEW x \in Extent, x.len > 0, lo <= x.off, EndOf(x) <= hi, IsFree(B, x)
  PROVE  \E g \in Gaps(B, lo, hi) : g.off <= x.off /\ EndOf(x) <= EndOf(g)
<1> DEFINE starts == {lo} \cup {EndOf(b) : b \in {c \in B : lo < EndOf(c) /\ EndOf(c) < hi}}
           ends   == {hi} \cup {b.off : b \in {c \in B : lo < c.off /\ c.off < hi}}
           left   == {a \in starts : a <= x.off}
           right  == {e \in ends : EndOf(x) <= e}
           back   == {n \in Nat : \E a \in left : n = x.off - a}
<1>1. x.off \in Nat /\ x.len \in Nat /\ EndOf(x) \in Nat /\ EndOf(x) = x.off + x.len
  BY DEF Extent, EndOf
<1>2. starts \subseteq Nat /\ ends \subseteq Nat
  BY DEF Extent, EndOf
<1>3. lo \in left /\ hi \in right
  OBVIOUS
<1>4. PICK a \in left : \A c \in left : c <= a
  <2>1. x.off - lo \in back
    BY <1>1, <1>3
  <2>2. PICK n \in back : \A m \in back : n <= m
    BY <2>1, NatMin
  <2>3. PICK a \in left : n = x.off - a
    BY <2>2
  <2>4. ASSUME NEW c \in left PROVE c <= a
    <3>1. c \in Nat /\ a \in Nat /\ c <= x.off /\ a <= x.off
      BY <1>2
    <3> DEFINE k == x.off - c
    <3>2. k \in Nat /\ k = x.off - c
      BY <1>1, <3>1
    <3> HIDE DEF k
    <3>3. k \in back
      BY <3>2
    <3>4. n <= k
      BY <2>2, <3>3
    <3> QED
      BY <1>1, <2>3, <3>1, <3>2, <3>4
  <2> QED
    BY <2>4
<1>5. PICK e \in right : \A c \in right : e <= c
  BY <1>2, <1>3, NatMin
<1> DEFINE g == [off |-> a, len |-> e - a]
<1>6. /\ a \in Nat /\ e \in Nat /\ a <= x.off /\ EndOf(x) <= e
      /\ g.off = a /\ g.len = e - a /\ g.len > 0 /\ EndOf(g) = e
  BY <1>1, <1>2 DEF EndOf
<1>7. ASSUME NEW b \in B PROVE Disjoint(b, g)
  <2>1. b.off \in Nat /\ EndOf(b) \in Nat
    BY DEF Extent, EndOf
  <2>2. CASE EndOf(b) <= x.off
    <3>1. CASE EndOf(b) <= lo
      BY <1>3, <1>4, <1>6, <2>1, <3>1 DEF Disjoint
    <3>2. CASE lo < EndOf(b)
      <4>1. EndOf(b) < hi
        BY <1>1, <2>1, <2>2
      <4>2. EndOf(b) \in left
        BY <2>2, <3>2, <4>1
      <4> QED
        BY <1>4, <1>6, <4>2 DEF Disjoint
    <3> QED
      BY <2>1, <3>1, <3>2
  <2>3. CASE EndOf(x) <= b.off
    <3>1. CASE hi <= b.off
      BY <1>3, <1>5, <1>6, <2>1, <3>1 DEF Disjoint
    <3>2. CASE b.off < hi
      <4>1. lo < b.off
        BY <1>1, <2>1, <2>3
      <4>2. b.off \in right
        BY <2>3, <3>2, <4>1
      <4> QED
        BY <1>5, <1>6, <4>2 DEF Disjoint
    <3> QED
      BY <2>1, <3>1, <3>2
  <2> QED
    BY <2>2, <2>3 DEF IsFree, Disjoint
<1>8. g \in {[off |-> s, len |-> t - s] : s \in starts, t \in ends}
  <2>1. a \in starts /\ e \in ends
    OBVIOUS
  <2> HIDE DEF starts, ends, left, right
  <2> QED
    BY <2>1
<1>9. IsFree(B, g)
  BY <1>7 DEF IsFree
<1> HIDE DEF g, left, right
<1>10. g \in Gaps(B, lo, hi)
  BY <1>6, <1>8, <1>9 DEF Gaps
<1> QED
  BY <1>6, <1>10

(* The search of a region fails only when no gap is long enough. *)
LEMMA BestGapFound ==
  ASSUME NEW B \in SUBSET Extent, NEW lo \in Nat, NEW hi \in Nat, NEW bytes \in Nat,
         Fitting(B, lo, hi, bytes) # {}
  PROVE  BestGap(B, lo, hi, bytes) # {}
<1> DEFINE fit   == Fitting(B, lo, hi, bytes)
           early == EarlyGaps(B, lo, hi, bytes)
<1>1. fit \subseteq Extent /\ early \subseteq fit
  BY GapSound DEF Fitting, EarlyGaps
<1> HIDE DEF fit, early
<1>2. ASSUME NEW F \in SUBSET Extent, F # {}
      PROVE  \E g \in F : \A h \in F : g.off <= h.off
  <2> DEFINE S == {g.off : g \in F}
  <2>1. S \in SUBSET Nat /\ S # {}
    BY <1>2 DEF Extent
  <2>2. PICK m \in S : \A n \in S : m <= n
    BY <2>1, NatMin
  <2> QED
    BY <2>2
<1>3. CASE early # {}
  BY <1>1, <1>2, <1>3 DEF BestGap, early
<1>4. CASE early = {}
  <2> DEFINE S == {g.len : g \in fit}
  <2>1. S \in SUBSET Nat /\ S # {}
    BY <1>1 DEF Extent, fit
  <2>2. PICK m \in S : \A n \in S : m <= n
    BY <2>1, NatMin
  <2> DEFINE F == {g \in fit : g.len = m}
  <2>3. F \in SUBSET Extent /\ F # {}
    BY <1>1, <2>2
  <2>4. PICK g \in F : \A h \in F : g.off <= h.off
    BY <1>2, <2>3
  <2>5. ASSUME NEW h \in fit
        PROVE  g.len < h.len \/ (g.len = h.len /\ g.off <= h.off)
    <3>1. h.len \in Nat /\ m <= h.len /\ g.len = m
      BY <1>1, <2>2, <2>4 DEF Extent
    <3>2. h.len = m => g.off <= h.off
      BY <2>4
    <3>3. m \in Nat
      BY <2>1, <2>2
    <3> HIDE DEF F, S, fit
    <3> QED
      BY <3>1, <3>2, <3>3
  <2> QED
    BY <1>4, <2>4, <2>5 DEF BestGap, fit, early
<1> QED
  BY <1>3, <1>4

(* A cache computed by a full pass is not below any gap. *)
LEMMA LargestGapBounds ==
  ASSUME NEW B, NEW lo, NEW hi, NEW n \in LargestGap(B, lo, hi), NEW g \in Gaps(B, lo, hi)
  PROVE  g.len <= n
BY DEF LargestGap

-----------------------------------------------------------------------------
(* Counting free bytes. *)

LEMMA FreeBytesCard ==
  ASSUME NEW B \in SUBSET Extent, NEW lo \in Nat, NEW hi \in Nat
  PROVE  /\ IsFiniteSet(FreeBytes(B, lo, hi))
         /\ Cardinality(FreeBytes(B, lo, hi)) \in Nat
         /\ lo <= hi => Cardinality(FreeBytes(B, lo, hi)) <= hi - lo
<1>1. /\ IsFiniteSet(lo .. (hi - 1))
      /\ Cardinality(lo .. (hi - 1)) = IF lo > hi - 1 THEN 0 ELSE (hi - 1) - lo + 1
  BY FS_Interval
<1>2. FreeBytes(B, lo, hi) \in SUBSET (lo .. (hi - 1))
  BY DEF FreeBytes
<1>3. /\ IsFiniteSet(FreeBytes(B, lo, hi))
      /\ Cardinality(FreeBytes(B, lo, hi)) <= Cardinality(lo .. (hi - 1))
  BY <1>1, <1>2, FS_Subset
<1>4. Cardinality(FreeBytes(B, lo, hi)) \in Nat
  BY <1>3, FS_CardinalityType
<1> QED
  BY <1>1, <1>3, <1>4

(* A block takes as many free bytes as it is long. *)
LEMMA FreeBytesTaken ==
  ASSUME NEW B \in SUBSET Extent, NEW lo \in Nat, NEW hi \in Nat,
         NEW x \in Extent, IsFree(B, x), lo <= x.off, EndOf(x) <= hi
  PROVE  Cardinality(FreeBytes(B, lo, hi)) = Cardinality(FreeBytes(B \cup {x}, lo, hi)) + x.len
<1> DEFINE F == FreeBytes(B, lo, hi)
           X == x.off .. (EndOf(x) - 1)
           G == FreeBytes(B \cup {x}, lo, hi)
<1>1. x.off \in Nat /\ x.len \in Nat /\ EndOf(x) = x.off + x.len
  BY DEF Extent, EndOf
<1>2. Cardinality(X) = x.len
  <2> DEFINE a == x.off
             b == EndOf(x) - 1
  <2>1. a \in Int /\ b \in Int /\ b = a + x.len - 1
    BY <1>1
  <2> HIDE DEF a, b
  <2>2. Cardinality(a .. b) = IF a > b THEN 0 ELSE b - a + 1
    BY <2>1, FS_Interval
  <2>3. Cardinality(a .. b) = x.len
    BY <1>1, <2>1, <2>2
  <2> QED
    BY <2>3 DEF a, b
<1>3. F \cap X = X
  <2>1. ASSUME NEW i \in X PROVE i \in F
    <3>1. i \in lo .. (hi - 1) /\ x.off <= i /\ i < EndOf(x)
      BY <1>1
    <3>2. ASSUME NEW b \in B PROVE i < b.off \/ EndOf(b) <= i
      <4>1. EndOf(b) <= x.off \/ EndOf(x) <= b.off
        BY DEF IsFree, Disjoint
      <4>2. b.off \in Nat /\ EndOf(b) \in Nat
        BY DEF Extent, EndOf
      <4> QED
        BY <1>1, <3>1, <4>1, <4>2
    <3> QED
      BY <3>1, <3>2 DEF FreeBytes
  <2> QED
    BY <2>1
<1>4. G = F \ X
  <2>1. \A i \in lo .. (hi - 1) : i \in X <=> ~ (i < x.off \/ EndOf(x) <= i)
    BY <1>1
  <2>2. G = {i \in F : i < x.off \/ EndOf(x) <= i}
    BY DEF FreeBytes
  <2>3. F \subseteq lo .. (hi - 1)
    BY DEF FreeBytes
  <2> HIDE DEF F, G, X
  <2> QED
    BY <2>1, <2>2, <2>3
<1>5. IsFiniteSet(F) /\ Cardinality(F) \in Nat
  BY FreeBytesCard
<1> HIDE DEF F, X, G
<1>6. Cardinality(F \ X) = Cardinality(F) - Cardinality(F \cap X)
  BY <1>5, FS_Difference
<1>7. Cardinality(G) = Cardinality(F) - x.len
  BY <1>2, <1>3, <1>4, <1>6
<1> QED
  BY <1>1, <1>5, <1>7 DEF F, G

(* A free range is not longer than the free bytes of its region. *)
LEMMA FreeRangeFits ==
  ASSUME NEW B \in SUBSET Extent, NEW lo \in Nat, NEW hi \in Nat,
         NEW x \in Extent, IsFree(B, x), lo <= x.off, EndOf(x) <= hi
  PROVE  x.len <= Cardinality(FreeBytes(B, lo, hi))
<1>1. B \cup {x} \in SUBSET Extent /\ x.len \in Nat
  BY DEF Extent
<1>2. Cardinality(FreeBytes(B \cup {x}, lo, hi)) \in Nat
  BY <1>1, FreeBytesCard
<1>3. Cardinality(FreeBytes(B, lo, hi)) = Cardinality(FreeBytes(B \cup {x}, lo, hi)) + x.len
  BY FreeBytesTaken
<1> QED
  BY <1>1, <1>2, <1>3

(* A block outside takes none. *)
LEMMA FreeBytesFrame ==
  ASSUME NEW B \in SUBSET Extent, NEW lo \in Nat, NEW hi \in Nat,
         NEW x \in Extent, EndOf(x) <= lo \/ hi <= x.off
  PROVE  FreeBytes(B \cup {x}, lo, hi) = FreeBytes(B, lo, hi)
BY DEF FreeBytes, EndOf, Extent

(* What a region gains at its end is free. *)
LEMMA FreeBytesTail ==
  ASSUME NEW B \in SUBSET Extent, NEW lo \in Nat, NEW hi \in Nat, NEW d \in Nat,
         lo <= hi, \A b \in B : EndOf(b) <= hi
  PROVE  Cardinality(FreeBytes(B, lo, hi + d)) = Cardinality(FreeBytes(B, lo, hi)) + d
<1> DEFINE F == FreeBytes(B, lo, hi)
           X == hi .. (hi + d - 1)
<1>1. FreeBytes(B, lo, hi + d) = F \cup X
  BY DEF FreeBytes, EndOf, Extent
<1>2. F \cap X = {}
  BY DEF FreeBytes
<1>3. IsFiniteSet(X) /\ Cardinality(X) = d
  BY FS_Interval
<1>4. IsFiniteSet(F) /\ Cardinality(F) \in Nat
  BY FreeBytesCard
<1> HIDE DEF F, X
<1>5. Cardinality(F \cup X) = Cardinality(F) + Cardinality(X) - Cardinality(F \cap X)
  BY <1>3, <1>4, FS_Union
<1>6. Cardinality(F \cap X) = 0
  BY <1>2, FS_EmptySet
<1>7. Cardinality(F \cup X) = Cardinality(F) + d
  BY <1>3, <1>4, <1>5, <1>6
<1> QED
  BY <1>1, <1>7 DEF F

(* Without blocks every byte is free. *)
LEMMA FreeBytesNone ==
  ASSUME NEW lo \in Nat, NEW hi \in Nat, lo <= hi
  PROVE  Cardinality(FreeBytes({}, lo, hi)) = hi - lo
<1>1. FreeBytes({}, lo, lo) = {}
  BY DEF FreeBytes
<1>2. Cardinality(FreeBytes({}, lo, lo)) = 0
  BY <1>1, FS_EmptySet
<1>3. PICK d \in Nat : d = hi - lo /\ hi = lo + d
  <2>1. hi - lo \in Nat /\ hi = lo + (hi - lo)
    OBVIOUS
  <2> QED
    BY <2>1
<1>4. Cardinality(FreeBytes({}, lo, lo + d)) = Cardinality(FreeBytes({}, lo, lo)) + d
  BY FreeBytesTail
<1>5. Cardinality(FreeBytes({}, lo, hi)) = 0 + d
  BY <1>2, <1>3, <1>4
<1> QED
  BY <1>3, <1>5

-----------------------------------------------------------------------------
(* Shares. *)

(* A part of m is not more than m. *)
LEMMA ShareBound ==
  ASSUME NEW m \in Nat, NEW n \in Nat, NEW d \in Nat \ {0}, n <= d
  PROVE  (m * n) \div d <= m /\ (m * n) \div d \in Int
<1>1. m * n <= m * d
  OBVIOUS
<1>2. m * n \in Nat
  OBVIOUS
<1>3. \A k \in Nat : k <= m * d => k \div d <= m
  OBVIOUS
<1> QED
  BY <1>1, <1>2, <1>3

-----------------------------------------------------------------------------
(* Alignment: offsets and lengths are multiples of Align. *)

Aligned(n) == \E k \in Int : n = k * Align

AlignedPiece(x) == Aligned(x.off) /\ Aligned(x.len)

LEMMA AlignedZero == Aligned(0)
<1>1. 0 = 0 * Align
  BY SearchAssumption
<1> QED
  BY <1>1 DEF Aligned

LEMMA AlignedSum ==
  ASSUME NEW n, NEW m, Aligned(n), Aligned(m)
  PROVE  n \in Int /\ m \in Int /\ Aligned(n + m) /\ Aligned(n - m)
<1>1. PICK k \in Int : n = k * Align
  BY DEF Aligned
<1>2. PICK j \in Int : m = j * Align
  BY DEF Aligned
<1>3. Align \in Int
  BY SearchAssumption
<1>4. n + m = (k + j) * Align /\ n - m = (k - j) * Align
  BY <1>1, <1>2, <1>3
<1>5. k + j \in Int /\ k - j \in Int /\ n \in Int /\ m \in Int
  BY <1>1, <1>2, <1>3
<1> QED
  BY <1>4, <1>5 DEF Aligned

(* A multiple below m is not above m rounded down, and the next multiple is *)
(* a whole unit away.                                                       *)
LEMMA AlignedBelow ==
  ASSUME NEW n \in Nat, NEW m \in Nat, Aligned(n), n <= m
  PROVE  n <= m - (m % Align) /\ Aligned(m - (m % Align)) /\ m - (m % Align) \in Nat
         /\ m - (m % Align) <= m
<1>1. Align \in Nat /\ Align > 0
  BY SearchAssumption
<1>2. PICK k \in Int : n = k * Align
  BY DEF Aligned
<1> DEFINE q == m \div Align
           s == m % Align
<1>3. q \in Int /\ s \in Nat /\ s < Align /\ m = q * Align + s
  BY <1>1
<1> HIDE DEF q, s
<1>4. k <= q
  <2>1. k * Align < (q + 1) * Align
    BY <1>1, <1>2, <1>3
  <2>2. k < q + 1
    BY <1>1, <1>3, <2>1
  <2> QED
    BY <1>3, <2>2
<1>5. k * Align <= q * Align
  BY <1>1, <1>3, <1>4
<1>6. m - s = q * Align
  BY <1>1, <1>3
<1>7. Aligned(m - s)
  BY <1>3, <1>6 DEF Aligned
<1> QED
  BY <1>1, <1>2, <1>3, <1>5, <1>6, <1>7 DEF s

LEMMA GapAligned ==
  ASSUME NEW B \in SUBSET Extent, NEW lo \in Nat, NEW hi \in Nat,
         Aligned(lo), Aligned(hi), \A b \in B : AlignedPiece(b),
         NEW g \in Gaps(B, lo, hi)
  PROVE  AlignedPiece(g) /\ Aligned(EndOf(g))
<1>1. ASSUME NEW b \in B PROVE Aligned(EndOf(b)) /\ Aligned(b.off)
  BY AlignedSum DEF AlignedPiece, EndOf
<1>2. Aligned(g.off) /\ Aligned(EndOf(g))
  BY <1>1, GapBorders
<1>3. g.len = EndOf(g) - g.off
  BY GapSound DEF EndOf, Extent
<1>4. Aligned(g.len)
  BY <1>2, <1>3, AlignedSum
<1> QED
  BY <1>2, <1>4 DEF AlignedPiece

LEMMA CutLenAligned ==
  ASSUME NEW gap, NEW bytes, NEW max, Aligned(gap), Aligned(bytes)
  PROVE  Aligned(CutLen(gap, bytes, max))
BY DEF CutLen

LEMMA FindAligned ==
  ASSUME NEW B \in SUBSET Extent, NEW lo \in Nat, NEW hi \in Nat, NEW bytes \in Nat,
         Aligned(lo), Aligned(hi), Aligned(bytes), \A b \in B : AlignedPiece(b),
         NEW max, NEW x \in FindBestFree(B, lo, hi, bytes, max)
  PROVE  AlignedPiece(x)
<1>1. PICK g \in BestGap(B, lo, hi, bytes) : x = Cut(g, bytes, max)
  BY DEF FindBestFree
<1>2. g \in Gaps(B, lo, hi)
  BY <1>1 DEF BestGap, EarlyGaps, Fitting
<1>3. AlignedPiece(g)
  BY <1>2, GapAligned
<1> QED
  BY <1>1, <1>3, CutLenAligned DEF Cut, AlignedPiece

-----------------------------------------------------------------------------
(* The longest gap. *)

LEMMA NatMax ==
  ASSUME NEW S \in SUBSET Nat, S # {}, NEW N \in Nat, \A n \in S : n <= N
  PROVE  \E m \in S : \A n \in S : n <= m
<1> DEFINE T == {N - n : n \in S}
<1>1. T \in SUBSET Nat /\ T # {}
  <2>1. \A n \in S : N - n \in Nat
    OBVIOUS
  <2>2. T \in SUBSET Nat
    BY <2>1, Zenon
  <2>3. T # {}
    OBVIOUS
  <2> QED
    BY <2>2, <2>3
<1>2. PICK t \in T : \A u \in T : t <= u
  BY <1>1, NatMin
<1>3. PICK m \in S : t = N - m
  BY <1>2
<1>4. ASSUME NEW n \in S PROVE n <= m
  <2>1. N - m <= N - n
    BY <1>2, <1>3
  <2> QED
    BY <2>1
<1> QED
  BY <1>4

LEMMA LargestGapOf ==
  ASSUME NEW B \in SUBSET Extent, NEW lo \in Nat, NEW hi \in Nat
  PROVE  \E n \in Nat : /\ LargestGap(B, lo, hi) = {n}
                        /\ n <= hi
                        /\ n = 0 \/ \E g \in Gaps(B, lo, hi) : n = g.len
<1> DEFINE G == Gaps(B, lo, hi)
           S == {0} \cup {g.len : g \in G}
<1>1. \A g \in G : g.len \in Nat /\ g.len <= hi
  BY GapSound DEF EndOf, Extent
<1> HIDE DEF G
<1>2. S \in SUBSET Nat /\ S # {} /\ \A n \in S : n <= hi
  BY <1>1
<1>3. PICK n \in S : \A m \in S : m <= n
  BY <1>2, NatMax
<1>4. LargestGap(B, lo, hi) = {m \in S : \A g \in G : g.len <= m}
  BY DEF LargestGap, G
<1>5. n \in {m \in S : \A g \in G : g.len <= m}
  BY <1>3
<1>6. ASSUME NEW m \in S, \A g \in G : g.len <= m PROVE m = n
  <2>1. n <= m
    BY <1>1, <1>2, <1>3, <1>6
  <2> QED
    BY <1>2, <1>3, <2>1
<1>7. LargestGap(B, lo, hi) = {n}
  BY <1>4, <1>5, <1>6
<1> QED
  BY <1>2, <1>3, <1>7 DEF G

-----------------------------------------------------------------------------
(* Size classes: one after the other, with no size between two of them.     *)

LEMMA Classes ==
  ASSUME NEW N \in Nat \ {0}, NEW min \in [0 .. (N - 1) -> Nat], NEW max \in [0 .. (N - 1) -> Nat],
         \A r \in 0 .. (N - 1) : max[r] = Unlimited <=> r = N - 1,
         \A r \in (0 .. (N - 1)) \ {N - 1} : min[r] <= max[r] /\ min[r + 1] = max[r] + 1
  PROVE  /\ \A q, r \in 0 .. (N - 1) : q < r => max[q] < min[r] /\ max[q] # Unlimited
         /\ \A n \in Nat : min[0] <= n =>
              \E r \in 0 .. (N - 1) : min[r] <= n /\ (max[r] = Unlimited \/ n <= max[r])
<1> DEFINE R == 0 .. (N - 1)
<1>0. 0 \in R /\ N - 1 \in R /\ \A r \in R : r \in Nat /\ r <= N - 1
  OBVIOUS
<1>1. ASSUME NEW r \in R, r # N - 1 PROVE r + 1 \in R
  BY <1>1
<1>2. ASSUME NEW q \in R, NEW r \in R, q < r, r - 1 # q
      PROVE  r - 1 \in R \ {N - 1} /\ q < r - 1
  BY <1>2
<1>3. ASSUME NEW q \in R, NEW r \in R, q < r PROVE q \in R \ {N - 1}
  BY <1>3
<1>4. /\ min \in [R -> Nat] /\ max \in [R -> Nat]
      /\ \A r \in R : max[r] = Unlimited <=> r = N - 1
      /\ \A r \in R \ {N - 1} : min[r] <= max[r] /\ min[r + 1] = max[r] + 1
  OBVIOUS
<1>5. N - 1 \in Nat
  OBVIOUS
<1> HIDE DEF R
<1>6. ASSUME NEW q \in R, NEW r \in R, q < r PROVE max[q] < min[r]
  <2> DEFINE S == {s \in R : q < s /\ ~(max[q] < min[s])}
  <2>1. SUFFICES ASSUME S # {} PROVE FALSE
    BY <1>6
  <2>2. S \in SUBSET Nat
    BY <1>0, Zenon
  <2>3. PICK s \in S : \A t \in S : s <= t
    BY <2>1, <2>2, NatMin
  <2>4. s \in R /\ q < s /\ ~(max[q] < min[s]) /\ s \in Nat /\ q \in Nat
    BY <1>0, <2>3
  <2>5. CASE s - 1 = q
    <3>1. s = q + 1
      BY <2>4, <2>5
    <3>2. min[s] = max[q] + 1
      BY <1>3, <1>4, <2>4, <3>1
    <3> QED
      BY <1>4, <2>4, <3>2
  <2>6. CASE s - 1 # q
    <3>1. s - 1 \in R \ {N - 1} /\ q < s - 1 /\ s - 1 + 1 = s
      BY <1>2, <2>4, <2>6
    <3>2. max[q] < min[s - 1]
      <4>1. s - 1 \notin S
        BY <2>3, <2>4
      <4> QED
        BY <3>1, <4>1
    <3>3. min[s - 1] <= max[s - 1] /\ min[s] = max[s - 1] + 1
      BY <1>4, <3>1
    <3>4. max[q] \in Nat /\ min[s - 1] \in Nat /\ max[s - 1] \in Nat
      BY <1>4, <3>1
    <3> QED
      BY <2>4, <3>2, <3>3, <3>4
  <2> QED
    BY <2>5, <2>6
<1>7. ASSUME NEW q \in R, NEW r \in R, q < r PROVE max[q] # Unlimited
  BY <1>3, <1>4, <1>7
<1>8. ASSUME NEW n \in Nat, min[0] <= n
      PROVE  \E r \in R : min[r] <= n /\ (max[r] = Unlimited \/ n <= max[r])
  <2> DEFINE S == {r \in R : min[r] <= n}
  <2>1. S \in SUBSET Nat
    BY <1>0, Zenon
  <2>2. S # {} /\ \A r \in S : r <= N - 1
    BY <1>0, <1>8
  <2>3. PICK r \in S : \A s \in S : s <= r
    BY <1>5, <2>1, <2>2, NatMax
  <2>4. r \in R /\ min[r] <= n
    BY <2>3
  <2>5. CASE r = N - 1
    BY <1>4, <2>4, <2>5
  <2>6. CASE r # N - 1
    <3>1. r + 1 \in R /\ min[r + 1] = max[r] + 1
      BY <1>1, <1>4, <2>4, <2>6
    <3>2. ~(min[r + 1] <= n)
      <4>1. r \in Nat
        BY <1>0, <2>4
      <4> QED
        BY <2>3, <3>1, <4>1
    <3>3. max[r] \in Nat
      BY <1>4, <2>4
    <3> QED
      BY <2>4, <3>1, <3>2, <3>3
  <2> QED
    BY <2>5, <2>6
<1> QED
  BY <1>6, <1>7, <1>8 DEF R

=============================================================================
