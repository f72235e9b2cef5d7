---------------------------- MODULE MxrDramProofs ----------------------------
(***************************************************************************)
(* Proofs about the DRAM arena, for every layout, table and build option:  *)
(* first the invariant by which blocks stay apart and recorded gaps stay   *)
(* sound, then what rests on it: the occupancy of the descriptor table,    *)
(* the exactness of the largest-gap caches and of the free bytes, the      *)
(* class bounds, and the requests that must be served.                     *)
(***************************************************************************)
EXTENDS MxrDram, MxrGapsProofs

-----------------------------------------------------------------------------
(* Recorded gaps. *)

(* What may be believed of a recorded gap h of the region [lo, hi). *)
Sound(B, lo, hi, h) ==
  h.len > 0 => lo <= h.off /\ EndOf(h) <= hi /\ IsFree(B, h)

LEMMA NoHintSound ==
  ASSUME NEW B \in SUBSET Extent, NEW lo \in Nat, NEW hi \in Nat
  PROVE  NoHint \in Extent /\ Sound(B, lo, hi, NoHint)
BY DEF NoHint, Extent, Sound

(* The remainder of a recorded gap lies in it, clear of what was taken. *)
LEMMA RemainderSound ==
  ASSUME NEW g \in Extent, NEW x \in Extent, ~Disjoint(g, x)
  PROVE  LET y == Remainder(g, x) IN
         /\ y \in Extent
         /\ y.len > 0 => g.off <= y.off /\ EndOf(y) <= EndOf(g) /\ Disjoint(x, y)
BY DEF Remainder, Less, Extent, Disjoint, EndOf

LEMMA CarveSound ==
  ASSUME NEW B \in SUBSET Extent, NEW lo \in Nat, NEW hi \in Nat, NEW tot,
         NEW h \in [Slot -> Extent], NEW x \in Extent,
         \A k \in Slot : Sound(B, lo, hi, h[k])
  PROVE  /\ HintCarve(h, x, tot) \in [Slot -> Extent]
         /\ \A k \in Slot : Sound(B \cup {x}, lo, hi, HintCarve(h, x, tot)[k])
<1> DEFINE new == HintCarve(h, x, tot)
<1>1. SUFFICES ASSUME NEW k \in Slot
               PROVE  new[k] \in Extent /\ Sound(B \cup {x}, lo, hi, new[k])
  BY DEF HintCarve
<1>2. new[k] = IF h[k].len = 0 \/ Disjoint(h[k], x) THEN h[k]
               ELSE Recorded(Remainder(h[k], x), tot)
  BY DEF HintCarve
<1>3. h[k] \in Extent /\ Sound(B, lo, hi, h[k])
  OBVIOUS
<1>4. CASE h[k].len = 0 \/ Disjoint(h[k], x)
  BY <1>2, <1>3, <1>4 DEF Sound, IsFree, Disjoint, EndOf, Extent
<1>5. CASE ~(h[k].len = 0 \/ Disjoint(h[k], x))
  <2> DEFINE y == Remainder(h[k], x)
  <2>1. new[k] = NoHint \/ new[k] = y
    BY <1>2, <1>5 DEF Recorded
  <2>2. CASE new[k] = NoHint
    BY <2>2, NoHintSound
  <2>3. CASE new[k] = y
    <3>1. /\ y \in Extent
          /\ y.len > 0 => h[k].off <= y.off /\ EndOf(y) <= EndOf(h[k]) /\ Disjoint(x, y)
      BY <1>3, <1>5, RemainderSound
    <3>2. h[k].len > 0
      BY <1>3, <1>5 DEF Extent
    <3>3. IsFree(B, h[k]) /\ lo <= h[k].off /\ EndOf(h[k]) <= hi
      BY <1>3, <3>2 DEF Sound
    <3>4. y.len > 0 => IsFree(B, y)
      BY <1>3, <3>1, <3>3, PartFree
    <3>5. y.len > 0 => lo <= y.off /\ EndOf(y) <= hi
      BY <1>3, <3>1, <3>3 DEF EndOf, Extent
    <3> HIDE DEF y
    <3>6. Sound(B \cup {x}, lo, hi, y)
      BY <3>1, <3>4, <3>5 DEF Sound, IsFree
    <3> QED
      BY <2>3, <3>1, <3>6
  <2> QED
    BY <2>1, <2>2, <2>3
<1> QED
  BY <1>4, <1>5

LEMMA StoreSound ==
  ASSUME NEW B \in SUBSET Extent, NEW lo \in Nat, NEW hi \in Nat, NEW tot,
         NEW h \in [Slot -> Extent], NEW g \in Extent,
         Sound(B, lo, hi, g), \A k \in Slot : Sound(B, lo, hi, h[k])
  PROVE  /\ HintStore(h, g, tot) \in [Slot -> Extent]
         /\ \A k \in Slot : Sound(B, lo, hi, HintStore(h, g, tot)[k])
<1>1. \A k \in Slot : HintStore(h, g, tot)[k] \in {NoHint, g, h[k]}
  BY DEF HintStore, Recorded
<1>2. NoHint \in Extent /\ Sound(B, lo, hi, NoHint)
  BY NoHintSound
<1>3. HintStore(h, g, tot) = [k \in Slot |-> HintStore(h, g, tot)[k]]
  BY DEF HintStore
<1> QED
  BY <1>1, <1>2, <1>3

(* What was free stays free, and sound, when blocks go or turn smaller. *)
LEMMA SoundMonotone ==
  ASSUME NEW B \in SUBSET Extent, NEW C \in SUBSET Extent,
         NEW lo \in Nat, NEW hi \in Nat, NEW h \in Extent,
         Sound(B, lo, hi, h),
         \A c \in C : \E b \in B : b.off <= c.off /\ EndOf(c) <= EndOf(b)
  PROVE  Sound(C, lo, hi, h)
BY DEF Sound, IsFree, Disjoint, EndOf, Extent

-----------------------------------------------------------------------------
(* The inductive invariant: a block may be cut from a recorded gap without  *)
(* a look at the table, so that separation of the blocks needs soundness of *)
(* the records, and both need the regions to tile the arena.                *)

Inv == TypeOK /\ ArenaTiled /\ BlocksSeparate /\ HintSound

LEMMA RegionFacts ==
  ASSUME TypeOK, NEW r \in Region
  PROVE  /\ RegStart[r] \in Nat /\ RegEnd(r) \in Nat
         /\ total[r] \in Nat /\ free[r] \in Nat
         /\ hints[r] \in [Slot -> Extent]
         /\ RegMax[r] \in Nat /\ RegMin[r] \in Nat
         /\ Last \in Region /\ arenaEnd \in Nat
<1>1. RegStart[r] \in Nat /\ RegMax[r] \in Nat /\ RegMin[r] \in Nat
  BY LayoutAssumption
<1>2. Last \in Region
  BY LayoutAssumption DEF Region, Last
<1>3. total[r] \in Nat /\ free[r] \in Nat /\ arenaEnd \in Nat
  BY DEF TypeOK
<1>4. hints[r] \in [Slot -> Extent]
  BY DEF TypeOK
<1>5. RegEnd(r) \in Nat
  BY <1>1, <1>3 DEF RegEnd
<1> QED
  BY <1>1, <1>2, <1>3, <1>4, <1>5

(* Ranges of two regions share nothing. *)
LEMMA RegionsApart ==
  ASSUME TypeOK, ArenaTiled, NEW r \in Region, NEW q \in Region, r # q,
         NEW x \in Extent, NEW y \in Extent, Within(r, x), Within(q, y)
  PROVE  Disjoint(x, y) /\ (EndOf(x) <= RegStart[q] \/ RegEnd(q) <= x.off)
<1>1. ASSUME NEW a \in Region, NEW b \in Region, a < b
      PROVE  RegEnd(a) <= RegStart[b]
  <2>1. a # Last /\ a + 1 \in Region /\ a + 1 <= b
    BY <1>1, LayoutAssumption DEF Region, Last
  <2>2. RegEnd(a) = RegStart[a + 1]
    BY <2>1 DEF ArenaTiled
  <2>3. RegStart[a + 1] <= RegStart[b]
    <3>1. CASE a + 1 = b
      BY <3>1, RegionFacts
    <3>2. CASE a + 1 < b
      BY <2>1, <3>2, LayoutAssumption
    <3> QED
      BY <2>1, <3>1, <3>2 DEF Region
  <2> QED
    BY <2>2, <2>3
<1>2. r < q \/ q < r
  BY DEF Region
<1>3. RegEnd(r) <= RegStart[q] \/ RegEnd(q) <= RegStart[r]
  BY <1>1, <1>2
<1>4. /\ RegStart[r] \in Nat /\ RegStart[q] \in Nat
      /\ RegEnd(r) \in Nat /\ RegEnd(q) \in Nat
  BY RegionFacts
<1> QED
  BY <1>3, <1>4 DEF Within, Disjoint, EndOf, Extent

(* The answer of a search is a free range of its region that holds the request. *)
LEMMA OwnSound ==
  ASSUME Inv, NEW r \in Region, NEW bytes \in Nat \ {0}, NEW x \in OwnFinds(r, bytes)
  PROVE  /\ x \in Extent /\ bytes <= x.len /\ Within(r, x) /\ IsFree(blocks, x)
         /\ \E g \in Extent : bytes <= g.len /\ x = Cut(g, bytes, RegMax[r])
<1>1. x \in HintCut(r, bytes) \/ x \in Find(r, bytes)
  BY DEF OwnFinds
<1>2. TypeOK /\ HintSound /\ blocks \in SUBSET Extent
  BY DEF Inv, TypeOK
<1>3. CASE x \in Find(r, bytes)
  BY <1>2, <1>3, RegionFacts, FindSound DEF Find, Within
<1>4. CASE x \in HintCut(r, bytes)
  <2>1. PICK k \in Slot : hints[r][k].len >= bytes /\ x = Cut(hints[r][k], bytes, RegMax[r])
    BY <1>4 DEF HintCut, HintSlots
  <2> DEFINE g == hints[r][k]
  <2>2. g \in Extent /\ bytes <= g.len /\ g.len > 0
    BY <1>2, <2>1, RegionFacts DEF Extent
  <2>3. Within(r, g) /\ IsFree(blocks, g)
    BY <1>2, <2>2 DEF HintSound
  <2>4. x \in Extent /\ x.off = g.off /\ bytes <= x.len /\ x.len <= g.len
    BY <1>2, <2>1, <2>2, RegionFacts, CutSound
  <2>5. Within(r, x) /\ EndOf(x) <= EndOf(g)
    BY <1>2, <2>2, <2>3, <2>4, RegionFacts DEF Within, EndOf, Extent
  <2>6. IsFree(blocks, x)
    BY <1>2, <2>2, <2>3, <2>4, <2>5, PartFree DEF Extent
  <2> QED
    BY <2>1, <2>2, <2>4, <2>5, <2>6
<1> QED
  BY <1>1, <1>3, <1>4

LEMMA CrossSound ==
  ASSUME Inv, NEW r \in Region, NEW bytes \in Nat \ {0}, NEW x \in CrossFinds(r, bytes)
  PROVE  /\ x \in Extent /\ bytes <= x.len /\ Within(r, x) /\ IsFree(blocks, x)
         /\ \E g \in Extent : bytes <= g.len /\ x = Cut(g, bytes, RegMax[r])
<1>1. TypeOK /\ blocks \in SUBSET Extent
  BY DEF Inv, TypeOK
<1> QED
  BY <1>1, RegionFacts, FindSound DEF CrossFinds, Find, Within

LEMMA DeltaType == Delta \in Nat /\ Delta > 0 /\ InitCap \in Nat /\ Delta = DescChunk * 8
BY TableAssumption DEF Delta, DescSize, InitCap

(* Insertion of a free range, with or without a growth of the table. *)
LEMMA PlaceSafe ==
  ASSUME Inv, NEW r \in Region, NEW x \in Extent, x.len > 0, Within(r, x),
         IsFree(blocks, x), TableTakes(x), NEW c \in [Region -> SUBSET Nat],
         Place(r, x, c)
  PROVE  Inv'
<1> DEFINE eaten  == [off |-> arenaEnd - Delta, len |-> Delta]
           total1 == IF TableFull THEN [total EXCEPT ![Last] = @ - Delta] ELSE total
           free1  == IF TableFull THEN [free EXCEPT ![Last] = Less(@, Delta)] ELSE free
           cache1 == IF TableFull THEN [c EXCEPT ![Last] = {}] ELSE c
           hints1 == IF TableFull
                     THEN [hints EXCEPT ![Last] = HintCarve(@, eaten, total1[Last])] ELSE hints
           E(q)   == RegStart[q] + total1[q]
<1>1. TypeOK /\ ArenaTiled /\ BlocksSeparate /\ HintSound /\ blocks \in SUBSET Extent
  BY DEF Inv, TypeOK
<1>2. /\ blocks' = blocks \cup {x}
      /\ arenaEnd' = IF TableFull THEN arenaEnd - Delta ELSE arenaEnd
      /\ cap' = IF TableFull THEN cap + DescChunk ELSE cap
      /\ total' = total1
      /\ free' = [free1 EXCEPT ![r] = Less(@, x.len)]
      /\ cache' = [cache1 EXCEPT ![r] = {}]
      /\ hints' = [hints1 EXCEPT ![r] = HintCarve(@, x, total1[r])]
      /\ broken' = broken
  BY DEF Place
<1>3. Last \in Region /\ RegStart \in [Region -> Nat]
  BY <1>1, RegionFacts, LayoutAssumption
<1>4. TableFull => CanGrowFor(x)
  BY DEF TableTakes
<1>5. total1 \in [Region -> Nat] /\ free1 \in [Region -> Nat]
  BY <1>1, <1>3, <1>4, DeltaType DEF TypeOK, CanGrowFor, Less
<1>6. /\ \A q \in Region : E(q) \in Nat
      /\ \A q \in Region : q # Last \/ ~TableFull => E(q) = RegEnd(q)
      /\ TableFull => E(Last) = arenaEnd - Delta /\ E(Last) < RegEnd(Last)
  <2>1. RegEnd(Last) = arenaEnd /\ arenaEnd \in Nat
    BY <1>1, <1>3 DEF ArenaTiled, TypeOK
  <2>2. total \in [Region -> Nat]
    BY <1>1 DEF TypeOK
  <2>3. TableFull => total1[Last] = total[Last] - Delta
    BY <1>3, <2>2
  <2>4. TableFull => E(Last) = arenaEnd - Delta /\ E(Last) < RegEnd(Last)
    BY <1>3, <2>1, <2>2, <2>3, DeltaType DEF RegEnd
  <2>5. \A q \in Region : q # Last \/ ~TableFull => E(q) = RegEnd(q)
    BY <2>2 DEF RegEnd
  <2>6. \A q \in Region : E(q) \in Nat
    BY <1>3, <1>5
  <2> QED
    BY <2>4, <2>5, <2>6
<1>7. ASSUME NEW q \in Region, NEW b \in blocks', Within(q, b)
      PROVE  EndOf(b) <= E(q)
  <2>1. CASE TableFull /\ q = Last
    BY <1>2, <1>4, <1>6, <2>1 DEF CanGrowFor
  <2>2. CASE ~(TableFull /\ q = Last)
    BY <1>6, <1>7, <2>2 DEF Within
  <2> QED
    BY <2>1, <2>2
<1>8. /\ hints1 \in [Region -> [Slot -> Extent]]
      /\ \A q \in Region : \A k \in Slot : Sound(blocks, RegStart[q], E(q), hints1[q][k])
  <2>1. /\ hints \in [Region -> [Slot -> Extent]]
        /\ \A q \in Region : \A k \in Slot : Sound(blocks, RegStart[q], RegEnd(q), hints[q][k])
    BY <1>1 DEF TypeOK, HintSound, Sound, Within
  <2>2. CASE ~TableFull
    BY <1>6, <2>1, <2>2
  <2>3. CASE TableFull
    <3> DEFINE carved == HintCarve(hints[Last], eaten, total1[Last])
    <3>1. eaten \in Extent
      BY <1>1, <1>4, <2>3, DeltaType DEF CanGrowFor, Extent, TypeOK
    <3>2. RegStart[Last] \in Nat /\ RegEnd(Last) \in Nat /\ hints[Last] \in [Slot -> Extent]
      BY <1>1, <1>3, RegionFacts
    <3> HIDE DEF eaten
    <3>3. /\ carved \in [Slot -> Extent]
          /\ \A k \in Slot : Sound(blocks \cup {eaten}, RegStart[Last], RegEnd(Last), carved[k])
      BY <1>1, <1>3, <2>1, <3>1, <3>2, CarveSound
    <3>4. ASSUME NEW k \in Slot
          PROVE  Sound(blocks, RegStart[Last], E(Last), carved[k])
      <4> DEFINE h == carved[k]
      <4>1. h \in Extent /\ Sound(blocks \cup {eaten}, RegStart[Last], RegEnd(Last), h)
        BY <3>3
      <4> HIDE DEF h, carved
      <4>2. h.len > 0 => IsFree(blocks, h) /\ Disjoint(eaten, h)
                         /\ RegStart[Last] <= h.off /\ EndOf(h) <= RegEnd(Last)
        BY <4>1 DEF Sound, IsFree
      <4>3. eaten.off = E(Last) /\ EndOf(eaten) = RegEnd(Last)
        BY <1>1, <1>3, <1>6, <2>3, DeltaType DEF eaten, EndOf, ArenaTiled, TypeOK
      <4>4. h.len > 0 => EndOf(h) <= E(Last)
        BY <1>3, <1>6, <3>2, <4>1, <4>2, <4>3 DEF Disjoint, EndOf, Extent
      <4>5. Sound(blocks, RegStart[Last], E(Last), h)
        BY <4>2, <4>4 DEF Sound
      <4> QED
        BY <4>5 DEF h
    <3>5. hints1 = [hints EXCEPT ![Last] = carved]
      BY <2>3 DEF eaten
    <3> HIDE DEF carved, hints1, E
    <3> QED
      BY <1>3, <1>6, <2>1, <2>3, <3>3, <3>4, <3>5
  <2> QED
    BY <2>2, <2>3
<1> HIDE DEF E, hints1, total1, free1, cache1, eaten
<1>9. TypeOK'
  <2>1. blocks' \subseteq Extent /\ IsFiniteSet(blocks') /\ broken' \subseteq Nat
    BY <1>1, <1>2, FS_AddElement DEF TypeOK
  <2>2. arenaEnd' \in Nat /\ cap' \in Nat
    BY <1>1, <1>2, <1>4, DeltaType, TableAssumption DEF TypeOK, CanGrowFor
  <2>3. total' \in [Region -> Nat] /\ free' \in [Region -> Nat]
    BY <1>2, <1>5 DEF Less, Extent
  <2>4. cache' \in [Region -> SUBSET Nat]
    BY <1>2 DEF cache1
  <2>5. HintCarve(hints1[r], x, total1[r]) \in [Slot -> Extent]
    BY <1>1, <1>3, <1>6, <1>8, CarveSound
  <2>6. hints' \in [Region -> [Slot -> Extent]]
    BY <1>2, <1>8, <2>5
  <2> QED
    BY <2>1, <2>2, <2>3, <2>4, <2>6 DEF TypeOK
<1>10. \A q \in Region : RegEnd(q)' = E(q)
  BY <1>2 DEF RegEnd, E
<1>11. ArenaTiled'
  <2>1. \A q \in Region : RegEnd(q)' = IF q = Last THEN arenaEnd' ELSE RegStart[q + 1]
    BY <1>1, <1>2, <1>6, <1>10 DEF ArenaTiled
  <2>2. Dynamic => (arenaEnd' + cap' * 8 = RawEnd)
    BY <1>1, <1>2, DeltaType, TableAssumption DEF ArenaTiled, TypeOK, DescSize
  <2> QED
    BY <2>1, <2>2 DEF ArenaTiled, DescSize
<1>12. BlocksSeparate'
  <2>1. ASSUME NEW b \in blocks', NEW d \in blocks', b # d
        PROVE  Disjoint(b, d)
    BY <1>1, <1>2, <2>1 DEF BlocksSeparate, IsFree, Disjoint
  <2>2. ASSUME NEW b \in blocks'
        PROVE  b.len > 0 /\ \E q \in Region : RegStart[q] <= b.off /\ EndOf(b) <= E(q)
    BY <1>1, <1>2, <1>7 DEF BlocksSeparate, Within
  <2> QED
    BY <1>10, <2>1, <2>2 DEF BlocksSeparate, Within
<1>13. ASSUME NEW q \in Region, NEW k \in Slot
       PROVE  Sound(blocks', RegStart[q], E(q), hints'[q][k])
  <2>1. /\ RegStart[q] \in Nat /\ E(q) \in Nat
        /\ hints1[q] \in [Slot -> Extent] /\ hints1[q][k] \in Extent
    BY <1>3, <1>6, <1>8
  <2>2. CASE q = r
    BY <1>1, <1>2, <1>8, <2>1, <2>2, CarveSound
  <2>3. CASE q # r
    <3>1. hints'[q][k] = hints1[q][k] /\ Sound(blocks, RegStart[q], E(q), hints1[q][k])
      BY <1>2, <1>8, <2>3
    <3>2. E(q) <= RegEnd(q) /\ RegEnd(q) \in Nat
      BY <1>1, <1>3, <1>6, RegionFacts
    <3>3. hints1[q][k].len > 0 => Within(q, hints1[q][k])
      BY <2>1, <3>1, <3>2 DEF Sound, Within, EndOf, Extent
    <3>4. hints1[q][k].len > 0 => Disjoint(x, hints1[q][k])
      BY <1>1, <2>1, <2>3, <3>3, RegionsApart
    <3> QED
      BY <1>2, <3>1, <3>4 DEF Sound, IsFree
  <2> QED
    BY <2>2, <2>3
<1>14. HintSound'
  BY <1>10, <1>13 DEF HintSound, Sound, Within
<1> QED
  BY <1>9, <1>11, <1>12, <1>14 DEF Inv

(* Recording the gap left by a block that goes or turns smaller. *)
LEMMA RecordSafe ==
  ASSUME Inv, NEW C \in SUBSET Extent,
         \A c \in C : \E b \in blocks : b.off <= c.off /\ EndOf(c) <= EndOf(b),
         NEW r \in Region, NEW g \in Gaps(C, RegStart[r], RegEnd(r))
  PROVE  LET new == [hints EXCEPT ![r] = HintStore(@, g, total[r])] IN
         /\ new \in [Region -> [Slot -> Extent]]
         /\ \A q \in Region : \A k \in Slot :
              Sound(C, RegStart[q], RegEnd(q), new[q][k])
<1> DEFINE stored == HintStore(hints[r], g, total[r])
           new    == [hints EXCEPT ![r] = HintStore(@, g, total[r])]
<1>1. /\ TypeOK /\ blocks \in SUBSET Extent
      /\ hints \in [Region -> [Slot -> Extent]]
  BY DEF Inv, TypeOK
<1>2. ASSUME NEW q \in Region, NEW k \in Slot
      PROVE  Sound(C, RegStart[q], RegEnd(q), hints[q][k])
  <2>1. Sound(blocks, RegStart[q], RegEnd(q), hints[q][k])
    BY DEF Inv, HintSound, Sound, Within
  <2> QED
    BY <1>1, <2>1, RegionFacts, SoundMonotone
<1>3. g \in Extent /\ Sound(C, RegStart[r], RegEnd(r), g)
  BY <1>1, RegionFacts, GapSound DEF Sound
<1>4. /\ stored \in [Slot -> Extent]
      /\ \A k \in Slot : Sound(C, RegStart[r], RegEnd(r), stored[k])
  BY <1>1, <1>2, <1>3, RegionFacts, StoreSound
<1> HIDE DEF stored
<1>5. new = [hints EXCEPT ![r] = stored]
  BY DEF stored
<1> QED
  BY <1>1, <1>2, <1>4, <1>5

(* Blocks of part of the extents are separate where the blocks were. *)
LEMMA PartsSeparate ==
  ASSUME Inv, NEW b \in blocks, NEW x \in Extent, x.len > 0,
         b.off <= x.off, EndOf(x) <= EndOf(b), NEW C, C \subseteq (blocks \ {b}) \cup {x}
  PROVE  /\ \A c, d \in C : c # d => Disjoint(c, d)
         /\ \A c \in C : c.len > 0 /\ \E q \in Region : Within(q, c)
<1>1. TypeOK /\ BlocksSeparate /\ blocks \in SUBSET Extent
  BY DEF Inv, TypeOK
<1>2. ASSUME NEW c \in blocks \ {b}
      PROVE  Disjoint(c, x) /\ Disjoint(x, c)
  <2>1. Disjoint(c, b)
    BY <1>1 DEF BlocksSeparate
  <2>2. Disjoint(c, x)
    BY <1>1, <2>1, PartDisjoint
  <2> QED
    BY <2>2 DEF Disjoint
<1>3. \E q \in Region : Within(q, x)
  <2>1. PICK q \in Region : Within(q, b)
    BY <1>1 DEF BlocksSeparate
  <2> QED
    BY <1>1, <2>1, RegionFacts DEF Within, EndOf, Extent
<1> QED
  BY <1>1, <1>2, <1>3 DEF BlocksSeparate

LEMMA ReleaseSafe ==
  ASSUME Inv, NEW b \in blocks, Release(b)
  PROVE  Inv'
<1> DEFINE rest == blocks \ {b}
<1>1. /\ TypeOK /\ ArenaTiled /\ BlocksSeparate /\ HintSound
      /\ blocks \in SUBSET Extent /\ rest \in SUBSET Extent /\ b \in Extent
  BY DEF Inv, TypeOK
<1>2. blocks' = rest /\ broken' = broken
  BY DEF Release
<1>3. PICK r \in Region : \E g \in Gaps(rest, RegStart[r], RegEnd(r)) :
         LET free1  == [free EXCEPT ![r] = Capped(@ + b.len, total[r])]
             cache1 == [cache EXCEPT ![r] = {}]
             hints1 == [hints EXCEPT ![r] = HintStore(@, g, total[r])]
         IN IF TableSlack(rest)
            THEN GiveBackChunk(rest, free1, cache1, hints1)
            ELSE /\ free' = free1 /\ cache' = cache1 /\ hints' = hints1
                 /\ UNCHANGED <<arenaEnd, cap, total>>
  BY DEF Release
<1>4. PICK g \in Gaps(rest, RegStart[r], RegEnd(r)) :
         LET free1  == [free EXCEPT ![r] = Capped(@ + b.len, total[r])]
             cache1 == [cache EXCEPT ![r] = {}]
             hints1 == [hints EXCEPT ![r] = HintStore(@, g, total[r])]
         IN IF TableSlack(rest)
            THEN GiveBackChunk(rest, free1, cache1, hints1)
            ELSE /\ free' = free1 /\ cache' = cache1 /\ hints' = hints1
                 /\ UNCHANGED <<arenaEnd, cap, total>>
  BY <1>3
<1> DEFINE free1  == [free EXCEPT ![r] = Capped(@ + b.len, total[r])]
           cache1 == [cache EXCEPT ![r] = {}]
           hints1 == [hints EXCEPT ![r] = HintStore(@, g, total[r])]
<1>5. /\ free1 \in [Region -> Nat] /\ cache1 \in [Region -> SUBSET Nat]
      /\ total \in [Region -> Nat] /\ arenaEnd \in Nat /\ cap \in Nat
  BY <1>1 DEF TypeOK, Capped, Extent
<1>6. /\ hints1 \in [Region -> [Slot -> Extent]]
      /\ \A q \in Region : \A k \in Slot :
           Sound(rest, RegStart[q], RegEnd(q), hints1[q][k])
  <2>1. \A c \in rest : \E d \in blocks : d.off <= c.off /\ EndOf(c) <= EndOf(d)
    BY <1>1 DEF Extent, EndOf
  <2> QED
    BY <1>1, <2>1, RecordSafe
<1>7. /\ \A c, d \in rest : c # d => Disjoint(c, d)
      /\ \A c \in rest : c.len > 0 /\ \E q \in Region : Within(q, c)
  BY <1>1 DEF BlocksSeparate
<1>8. /\ rest \subseteq Extent /\ IsFiniteSet(rest) /\ broken' \subseteq Nat
  BY <1>1, <1>2, FS_RemoveElement DEF TypeOK
<1> HIDE DEF rest, free1, cache1, hints1
<1>9. CASE ~TableSlack(rest)
  <2>1. free' = free1 /\ cache' = cache1 /\ hints' = hints1
        /\ UNCHANGED <<arenaEnd, cap, total>>
    BY <1>4, <1>9 DEF free1, cache1, hints1
  <2>2. TypeOK'
    BY <1>2, <1>5, <1>6, <1>8, <2>1 DEF TypeOK
  <2>3. ArenaTiled'
    BY <1>1, <2>1 DEF ArenaTiled, RegEnd
  <2>4. BlocksSeparate'
    BY <1>2, <1>7, <2>1 DEF BlocksSeparate, Within, RegEnd
  <2>5. HintSound'
    BY <1>2, <1>6, <2>1 DEF HintSound, Sound, Within, RegEnd
  <2> QED
    BY <2>2, <2>3, <2>4, <2>5 DEF Inv
<1>10. CASE TableSlack(rest)
  <2>1. GiveBackChunk(rest, free1, cache1, hints1)
    BY <1>4, <1>10 DEF free1, cache1, hints1
  <2>2. /\ arenaEnd' = arenaEnd + Delta /\ cap' = cap - DescChunk
        /\ total' = [total EXCEPT ![Last] = @ + Delta]
        /\ free' = [free1 EXCEPT ![Last] = Capped(@ + Delta, total[Last] + Delta)]
        /\ cache' = [cache1 EXCEPT ![Last] = {}]
    BY <2>1 DEF GiveBackChunk
  <2>3. PICK h \in Gaps(rest, RegStart[Last], RegEnd(Last) + Delta) :
          hints' = [hints1 EXCEPT ![Last] = HintStore(@, h, total[Last] + Delta)]
    BY <2>1 DEF GiveBackChunk
  <2>4. cap - DescChunk \in Nat
    BY <1>5, <1>8, <1>10, FS_CardinalityType, TableAssumption DEF TableSlack
  <2>5. Last \in Region /\ RegStart[Last] \in Nat /\ RegEnd(Last) \in Nat
    BY <1>1, RegionFacts
  <2>6. /\ \A q \in Region : q # Last => RegEnd(q)' = RegEnd(q)
        /\ RegEnd(Last)' = RegEnd(Last) + Delta
    BY <1>5, <2>2, <2>5, DeltaType DEF RegEnd
  <2> DEFINE stored == HintStore(hints1[Last], h, total[Last] + Delta)
  <2>7. /\ stored \in [Slot -> Extent]
        /\ \A k \in Slot : Sound(rest, RegStart[Last], RegEnd(Last) + Delta, stored[k])
    <3>1. RegEnd(Last) + Delta \in Nat
      BY <2>5, DeltaType
    <3>2. h \in Extent /\ Sound(rest, RegStart[Last], RegEnd(Last) + Delta, h)
      BY <1>1, <2>5, <3>1, GapSound DEF Sound
    <3>3. hints1[Last] \in [Slot -> Extent]
      BY <1>6, <2>5
    <3>4. \A k \in Slot : Sound(rest, RegStart[Last], RegEnd(Last) + Delta, hints1[Last][k])
      BY <1>6, <2>5, <3>3, DeltaType DEF Sound, EndOf, Extent
    <3> QED
      BY <1>1, <2>5, <3>1, <3>2, <3>3, <3>4, StoreSound
  <2> HIDE DEF stored
  <2>8. hints' = [hints1 EXCEPT ![Last] = stored]
    BY <2>3 DEF stored
  <2>9. TypeOK'
    <3>1. free' \in [Region -> Nat] /\ total' \in [Region -> Nat]
      <4>1. free1[Last] \in Nat /\ total[Last] \in Nat /\ Delta \in Nat
        BY <1>5, <2>5, DeltaType
      <4>2. Capped(free1[Last] + Delta, total[Last] + Delta) \in Nat /\ total[Last] + Delta \in Nat
        BY <4>1 DEF Capped
      <4> QED
        BY <1>5, <2>2, <4>2
    <3>2. hints' \in [Region -> [Slot -> Extent]]
      BY <1>6, <2>7, <2>8
    <3> QED
      BY <1>2, <1>5, <1>8, <2>2, <2>4, <3>1, <3>2, DeltaType DEF TypeOK
  <2>10. ArenaTiled'
    <3>1. \A q \in Region : RegEnd(q)' = IF q = Last THEN arenaEnd' ELSE RegStart[q + 1]
      BY <1>1, <2>2, <2>6 DEF ArenaTiled
    <3>2. Dynamic => arenaEnd' + cap' * 8 = RawEnd
      BY <1>1, <1>5, <2>2, DeltaType, TableAssumption DEF ArenaTiled, DescSize
    <3> QED
      BY <3>1, <3>2 DEF ArenaTiled, DescSize
  <2>11. BlocksSeparate'
    <3>1. ASSUME NEW c \in rest, NEW q \in Region, Within(q, c)
          PROVE  Within(q, c)'
      BY <1>8, <2>5, <2>6, <3>1, DeltaType DEF Within, EndOf, Extent
    <3> QED
      BY <1>2, <1>7, <3>1 DEF BlocksSeparate, Within
  <2>12. \A q \in Region : \A k \in Slot :
           Sound(blocks', RegStart[q], RegEnd(q)', hints'[q][k])
    BY <1>2, <1>6, <2>6, <2>7, <2>8
  <2>13. HintSound'
    BY <2>12 DEF HintSound, Sound, Within
  <2> QED
    BY <2>9, <2>10, <2>11, <2>13 DEF Inv
<1> QED
  BY <1>9, <1>10

LEMMA ShrinkSafe ==
  ASSUME Inv, NEW b \in blocks, NEW bytes \in Nat \ {0}, Shrink(b, bytes)
  PROVE  Inv'
<1> DEFINE x   == [off |-> b.off, len |-> bytes]
           new == (blocks \ {b}) \cup {x}
<1>1. /\ TypeOK /\ ArenaTiled /\ blocks \in SUBSET Extent /\ b \in Extent
  BY DEF Inv, TypeOK
<1>2. /\ blocks' = new /\ bytes < b.len
      /\ UNCHANGED <<broken, arenaEnd, cap, total>>
  BY DEF Shrink, Resized
<1>3. PICK r \in Region : \E g \in Gaps(new, RegStart[r], RegEnd(r)) :
        /\ free' = [free EXCEPT ![r] = Capped(@ + (b.len - bytes), total[r])]
        /\ cache' = [cache EXCEPT ![r] = {}]
        /\ hints' = [hints EXCEPT ![r] = HintStore(@, g, total[r])]
  BY DEF Shrink, Resized
<1>g. PICK g \in Gaps(new, RegStart[r], RegEnd(r)) :
        /\ free' = [free EXCEPT ![r] = Capped(@ + (b.len - bytes), total[r])]
        /\ cache' = [cache EXCEPT ![r] = {}]
        /\ hints' = [hints EXCEPT ![r] = HintStore(@, g, total[r])]
  BY <1>3
<1>4. /\ x \in Extent /\ x.len > 0 /\ b.off <= x.off /\ EndOf(x) <= EndOf(b)
      /\ new \in SUBSET Extent
  BY <1>1, <1>2 DEF Extent, EndOf
<1>5. \A c \in new : \E d \in blocks : d.off <= c.off /\ EndOf(c) <= EndOf(d)
  BY <1>1, <1>4 DEF Extent, EndOf
<1>n. new \subseteq (blocks \ {b}) \cup {x}
  OBVIOUS
<1>f. IsFiniteSet(new)
  BY <1>1, FS_RemoveElement, FS_AddElement DEF TypeOK
<1> HIDE DEF new, x
<1>6. /\ hints' \in [Region -> [Slot -> Extent]]
      /\ \A q \in Region : \A k \in Slot : Sound(new, RegStart[q], RegEnd(q), hints'[q][k])
  BY <1>g, <1>4, <1>5, RecordSafe
<1>7. /\ \A c, d \in new : c # d => Disjoint(c, d)
      /\ \A c \in new : c.len > 0 /\ \E q \in Region : Within(q, c)
  BY <1>1, <1>4, <1>n, PartsSeparate
<1>9. free' \in [Region -> Nat] /\ cache' \in [Region -> SUBSET Nat]
  <2>1. /\ free[r] \in Nat /\ total[r] \in Nat /\ b.len \in Nat /\ b.len - bytes \in Nat
        /\ free \in [Region -> Nat] /\ cache \in [Region -> SUBSET Nat]
    BY <1>1, <1>2 DEF TypeOK, Extent
  <2>2. Capped(free[r] + (b.len - bytes), total[r]) \in Nat
    BY <2>1 DEF Capped
  <2> QED
    BY <1>g, <2>1, <2>2
<1>10. TypeOK'
  BY <1>1, <1>2, <1>4, <1>6, <1>f, <1>9 DEF TypeOK
<1>11. ArenaTiled'
  BY <1>1, <1>2 DEF ArenaTiled, RegEnd
<1>12. BlocksSeparate'
  BY <1>2, <1>7 DEF BlocksSeparate, Within, RegEnd
<1>13. HintSound'
  BY <1>2, <1>6 DEF HintSound, Sound, Within, RegEnd
<1> QED
  BY <1>10, <1>11, <1>12, <1>13 DEF Inv

LEMMA ExtendSafe ==
  ASSUME Inv, NEW b \in blocks, NEW bytes \in Nat \ {0}, Extend(b, bytes)
  PROVE  Inv'
<1>1. /\ TypeOK /\ ArenaTiled /\ BlocksSeparate /\ HintSound
      /\ blocks \in SUBSET Extent /\ b \in Extent
  BY DEF Inv, TypeOK
<1>2. b.len < bytes /\ UNCHANGED <<broken, arenaEnd, cap, total>>
  BY DEF Extend
<1>3. PICK r \in Region : \E g \in RoomBehind(r, b, bytes) :
        LET len == CutLen(b.len + g.len, bytes, RegMax[r])
            add == [off |-> EndOf(b), len |-> len - b.len]
        IN /\ InRegion(r, b.off)
           /\ blocks' = Resized(b, len)
           /\ free' = [free EXCEPT ![r] = Less(@, add.len)]
           /\ cache' = [cache EXCEPT ![r] = {}]
           /\ hints' = [hints EXCEPT ![r] = HintCarve(@, add, total[r])]
  BY DEF Extend
<1>g. PICK g \in RoomBehind(r, b, bytes) :
        LET len == CutLen(b.len + g.len, bytes, RegMax[r])
            add == [off |-> EndOf(b), len |-> len - b.len]
        IN /\ InRegion(r, b.off)
           /\ blocks' = Resized(b, len)
           /\ free' = [free EXCEPT ![r] = Less(@, add.len)]
           /\ cache' = [cache EXCEPT ![r] = {}]
           /\ hints' = [hints EXCEPT ![r] = HintCarve(@, add, total[r])]
  BY <1>3
<1> DEFINE len == CutLen(b.len + g.len, bytes, RegMax[r])
           add == [off |-> EndOf(b), len |-> len - b.len]
           x   == [off |-> b.off, len |-> len]
           new == (blocks \ {b}) \cup {x}
<1>4. /\ InRegion(r, b.off) /\ blocks' = new
      /\ free' = [free EXCEPT ![r] = Less(@, add.len)]
      /\ cache' = [cache EXCEPT ![r] = {}]
      /\ hints' = [hints EXCEPT ![r] = HintCarve(@, add, total[r])]
  BY <1>g DEF Resized
<1>5. /\ RegStart[r] \in Nat /\ RegEnd(r) \in Nat /\ RegMax[r] \in Nat
      /\ total[r] \in Nat /\ free[r] \in Nat /\ hints[r] \in [Slot -> Extent]
  BY <1>1, RegionFacts
<1>6. /\ g \in Extent /\ g.len > 0 /\ IsFree(blocks, g) /\ EndOf(g) <= RegEnd(r)
      /\ g.off = EndOf(b) /\ bytes <= b.len + g.len
  BY <1>1, <1>5, GapSound DEF RoomBehind
<1>7. len \in Nat /\ b.len < len /\ len <= b.len + g.len
  BY <1>1, <1>2, <1>6 DEF CutLen, Extent
<1> HIDE DEF len
<1>8. /\ x \in Extent /\ x.off = b.off /\ x.len = len /\ EndOf(x) = b.off + len
      /\ add \in Extent /\ add.len > 0 /\ add.off = EndOf(b) /\ EndOf(add) = EndOf(x)
      /\ EndOf(add) <= EndOf(g) /\ new \in SUBSET Extent
  BY <1>1, <1>6, <1>7 DEF Extent, EndOf
<1>9. Within(r, x)
  <2>1. EndOf(x) <= RegEnd(r)
    BY <1>5, <1>6, <1>8 DEF EndOf, Extent
  <2> QED
    BY <1>4, <1>8, <2>1 DEF Within, InRegion
<1> HIDE DEF x, add
<1>10. ASSUME NEW y \in Extent, y.len > 0, Disjoint(y, b), Disjoint(y, add)
       PROVE  Disjoint(y, x) /\ Disjoint(x, y)
  BY <1>1, <1>8, <1>10 DEF Disjoint, EndOf, Extent
<1>11. IsFree(blocks, add)
  <2>1. g.off <= add.off
    BY <1>6, <1>8 DEF Extent
  <2> QED
    BY <1>1, <1>6, <1>8, <2>1, PartFree
<1>12. ASSUME NEW c \in blocks \ {b}
       PROVE  Disjoint(c, x) /\ Disjoint(x, c)
  <2>1. c \in Extent /\ c.len > 0 /\ Disjoint(c, b) /\ Disjoint(c, add)
    BY <1>1, <1>11 DEF BlocksSeparate, IsFree
  <2> QED
    BY <1>10, <2>1
<1>13. TypeOK'
  <2>1. IsFiniteSet(new)
    BY <1>1, FS_RemoveElement, FS_AddElement DEF TypeOK
  <2>2. Less(free[r], add.len) \in Nat
    BY <1>5, <1>8 DEF Less, Extent
  <2>3. free' \in [Region -> Nat] /\ cache' \in [Region -> SUBSET Nat]
    BY <1>1, <1>4, <2>2 DEF TypeOK
  <2>4. HintCarve(hints[r], add, total[r]) \in [Slot -> Extent]
    <3>1. \A k \in Slot : Sound(blocks, RegStart[r], RegEnd(r), hints[r][k])
      BY <1>1 DEF HintSound, Sound, Within
    <3> QED
      BY <1>1, <1>5, <1>8, <3>1, CarveSound
  <2>5. hints' \in [Region -> [Slot -> Extent]]
    BY <1>1, <1>4, <2>4 DEF TypeOK
  <2> QED
    BY <1>1, <1>2, <1>4, <1>8, <2>1, <2>3, <2>5 DEF TypeOK
<1>14. ArenaTiled'
  BY <1>1, <1>2 DEF ArenaTiled, RegEnd
<1>15. BlocksSeparate'
  <2>1. ASSUME NEW c \in new, NEW d \in new, c # d
        PROVE  Disjoint(c, d)
    BY <1>1, <1>12, <2>1 DEF BlocksSeparate
  <2>2. ASSUME NEW c \in new
        PROVE  c.len > 0 /\ \E q \in Region : Within(q, c)
    BY <1>1, <1>7, <1>8, <1>9 DEF BlocksSeparate, Extent
  <2> QED
    BY <1>2, <1>4, <2>1, <2>2 DEF BlocksSeparate, Within, RegEnd
<1>16. ASSUME NEW q \in Region, NEW k \in Slot
       PROVE  Sound(new, RegStart[q], RegEnd(q), hints'[q][k])
  <2>1. \A j \in Slot : Sound(blocks, RegStart[q], RegEnd(q), hints[q][j])
    BY <1>1 DEF HintSound, Sound, Within
  <2>2. RegStart[q] \in Nat /\ RegEnd(q) \in Nat /\ hints[q] \in [Slot -> Extent]
    BY <1>1, RegionFacts
  <2>3. CASE q = r
    <3> DEFINE carved == HintCarve(hints[r], add, total[r])
    <3>1. /\ carved[k] \in Extent
          /\ Sound(blocks \cup {add}, RegStart[r], RegEnd(r), carved[k])
      <4>1. \A j \in Slot : Sound(blocks, RegStart[r], RegEnd(r), hints[r][j])
        BY <2>1, <2>3
      <4>2. /\ HintCarve(hints[r], add, total[r]) \in [Slot -> Extent]
            /\ \A j \in Slot : Sound(blocks \cup {add}, RegStart[r], RegEnd(r),
                                   HintCarve(hints[r], add, total[r])[j])
        BY <1>1, <1>5, <1>8, <4>1, CarveSound
      <4> QED
        BY <4>2
    <3>2. hints'[q][k] = carved[k]
      BY <1>1, <1>4, <2>3 DEF TypeOK
    <3> HIDE DEF carved
    <3>3. carved[k].len > 0 => Disjoint(x, carved[k])
      <4>1. carved[k].len > 0 => Disjoint(b, carved[k]) /\ Disjoint(add, carved[k])
        BY <3>1 DEF Sound, IsFree
      <4>2. carved[k].len > 0 => Disjoint(carved[k], b) /\ Disjoint(carved[k], add)
        BY <4>1 DEF Disjoint
      <4> QED
        BY <1>10, <3>1, <4>2
    <3> QED
      BY <2>3, <3>1, <3>2, <3>3 DEF Sound, IsFree
  <2>4. CASE q # r
    <3>1. hints'[q][k] = hints[q][k] /\ hints[q][k] \in Extent
      BY <1>1, <1>4, <2>2, <2>4 DEF TypeOK
    <3>2. hints[q][k].len > 0 => Within(q, hints[q][k])
      BY <2>1 DEF Sound, Within
    <3>3. hints[q][k].len > 0 => Disjoint(x, hints[q][k])
      BY <1>1, <1>8, <1>9, <2>4, <3>1, <3>2, RegionsApart
    <3> QED
      BY <2>1, <3>1, <3>3 DEF Sound, IsFree
  <2> QED
    BY <2>3, <2>4
<1>17. HintSound'
  BY <1>2, <1>4, <1>16 DEF HintSound, Sound, Within, RegEnd
<1> QED
  BY <1>13, <1>14, <1>15, <1>17 DEF Inv

(* The caches that a request leaves behind are sets of numbers. *)
LEMMA RequestCacheType ==
  ASSUME TypeOK, NEW q \in Region, NEW bytes
  PROVE  OwnCache(q, bytes) \in SUBSET Nat /\ CrossCache(q, bytes) \in SUBSET Nat
<1>1. cache[q] \in SUBSET Nat /\ blocks \in SUBSET Extent
  BY DEF TypeOK
<1>2. Learnt(q, bytes) \in SUBSET Nat
  BY <1>1, RegionFacts, LargestGapType DEF Learnt, LearntLargest
<1> QED
  BY <1>1, <1>2 DEF OwnCache, CrossCache

LEMMA InitInv == Init => Inv
<1> SUFFICES ASSUME Init PROVE Inv
  OBVIOUS
<1> USE DEF Init
<1>1. Last \in Region /\ \A r \in Region : r # Last => r + 1 \in Region /\ r < r + 1
  BY LayoutAssumption DEF Region, Last
<1>2. /\ RegStart \in [Region -> Nat] /\ ArenaInit \in Nat /\ RegStart[Last] <= ArenaInit
      /\ \A r \in Region : r # Last => RegStart[r] <= RegStart[r + 1]
  BY <1>1, LayoutAssumption
<1>3. total \in [Region -> Nat]
  BY <1>1, <1>2
<1>4. TypeOK
  <2>1. cache \in [Region -> SUBSET Nat] /\ free \in [Region -> Nat]
    BY <1>3
  <2>2. hints \in [Region -> [Slot -> Extent]]
    BY DEF NoHint, Extent
  <2> QED
    BY <1>2, <1>3, <2>1, <2>2, DeltaType, FS_EmptySet DEF TypeOK
<1>5. ArenaTiled
  <2>1. \A r \in Region : RegEnd(r) = IF r = Last THEN arenaEnd ELSE RegStart[r + 1]
    BY <1>1, <1>2 DEF RegEnd
  <2> QED
    BY <2>1 DEF ArenaTiled, RawEnd
<1>6. BlocksSeparate /\ HintSound
  BY DEF BlocksSeparate, HintSound, NoHint
<1> QED
  BY <1>4, <1>5, <1>6 DEF Inv

LEMMA TakeSafe ==
  ASSUME Inv, NEW bytes \in Nat \ {0}, NEW x, Take(bytes, x)
  PROVE  Inv'
<1>1. PICK own \in Region : \/ TakeOwn(own, bytes, x)
                            \/ \E r \in Region : TakeCross(own, r, bytes, x)
  BY DEF Take
<1>2. TypeOK
  BY DEF Inv
<1>3. CASE TakeOwn(own, bytes, x)
  <2>1. x \in OwnFinds(own, bytes) /\ TableTakes(x) /\ Place(own, x, cache)
    BY <1>3 DEF TakeOwn, Lands
  <2>2. x \in Extent /\ x.len > 0 /\ Within(own, x) /\ IsFree(blocks, x)
    BY <2>1, OwnSound DEF Extent
  <2>3. cache \in [Region -> SUBSET Nat]
    BY <1>2 DEF TypeOK
  <2> QED
    BY <2>1, <2>2, <2>3, PlaceSafe
<1>4. CASE \E r \in Region : TakeCross(own, r, bytes, x)
  <2>1. PICK r \in Region : TakeCross(own, r, bytes, x)
    BY <1>4
  <2> DEFINE c == [q \in Region |-> IF q = own THEN OwnCache(q, bytes)
                                    ELSE IF Before(own, q, r) THEN CrossCache(q, bytes)
                                    ELSE cache[q]]
  <2>2. x \in CrossFinds(r, bytes) /\ TableTakes(x) /\ Place(r, x, c)
    BY <2>1 DEF TakeCross, Lands
  <2>3. x \in Extent /\ x.len > 0 /\ Within(r, x) /\ IsFree(blocks, x)
    BY <2>2, CrossSound DEF Extent
  <2>4. c \in [Region -> SUBSET Nat]
    BY <1>2, RequestCacheType DEF TypeOK
  <2> HIDE DEF c
  <2> QED
    BY <2>2, <2>3, <2>4, PlaceSafe
<1> QED
  BY <1>1, <1>3, <1>4

(* A step that leaves the table and the records alone. *)
LEMMA QuietSafe ==
  ASSUME Inv, UNCHANGED <<blocks, arenaEnd, cap, total, free, hints>>,
         broken' \subseteq Nat, cache' \in [Region -> SUBSET Nat]
  PROVE  Inv'
<1>1. TypeOK'
  BY DEF Inv, TypeOK
<1>2. ArenaTiled'
  BY DEF Inv, ArenaTiled, RegEnd
<1>3. BlocksSeparate'
  BY DEF Inv, BlocksSeparate, Within, RegEnd
<1>4. HintSound'
  BY DEF Inv, HintSound, Within, RegEnd
<1> QED
  BY <1>1, <1>2, <1>3, <1>4 DEF Inv

LEMMA RefuseCache ==
  ASSUME TypeOK, NEW own \in Region, NEW bytes, Refuse(own, bytes)
  PROVE  cache' \in [Region -> SUBSET Nat]
BY RequestCacheType DEF Refuse, TypeOK

LEMMA StepInv == Inv /\ [Next]_arenaVars => Inv'
<1> SUFFICES ASSUME Inv, [Next]_arenaVars PROVE Inv'
  OBVIOUS
<1>0. TypeOK /\ Requests \subseteq Nat \ {0}
  BY OptionAssumption DEF Inv
<1>1. CASE \E bytes \in Requests : \E x \in Answers(bytes) : Take(bytes, x)
  BY <1>0, <1>1, TakeSafe
<1>2. CASE \E bytes \in Requests : \E own \in Region : Refuse(own, bytes)
  <2>1. PICK bytes \in Requests, own \in Region : Refuse(own, bytes)
    BY <1>2
  <2> QED
    BY <1>0, <2>1, RefuseCache, QuietSafe DEF Refuse, TypeOK
<1>3. CASE \E b \in blocks : Release(b)
  BY <1>3, ReleaseSafe
<1>4. CASE \E b \in blocks : \E bytes \in Requests : Shrink(b, bytes)
  BY <1>0, <1>4, ShrinkSafe
<1>5. CASE \E b \in blocks : \E bytes \in Requests : Extend(b, bytes)
  BY <1>0, <1>5, ExtendSafe
<1>6. CASE \E b \in blocks : Overrun(b)
  <2>1. PICK b \in blocks : Overrun(b)
    BY <1>6
  <2>2. broken' \subseteq Nat /\ cache' \in [Region -> SUBSET Nat]
    BY <1>0, <2>1 DEF Overrun, TypeOK, Extent
  <2> QED
    BY <2>1, <2>2, QuietSafe DEF Overrun
<1>7. CASE UNCHANGED arenaVars
  BY <1>0, <1>7, QuietSafe DEF arenaVars, TypeOK
<1>8. CASE \E R \in SUBSET Region : Inspect(R)
  <2>1. PICK R \in SUBSET Region : Inspect(R)
    BY <1>8
  <2>2. \A r \in Region : LargestGap(blocks, RegStart[r], RegEnd(r)) \in SUBSET Nat
    BY <1>0, RegionFacts, LargestGapType DEF TypeOK
  <2>3. cache' \in [Region -> SUBSET Nat] /\ broken' \subseteq Nat
    BY <1>0, <2>1, <2>2 DEF Inspect, TypeOK
  <2> QED
    BY <2>1, <2>3, QuietSafe DEF Inspect
<1> QED
  BY <1>1, <1>2, <1>3, <1>4, <1>5, <1>6, <1>7, <1>8 DEF Next

(* The inductive invariant holds throughout, for every layout, table mode,  *)
(* search option and mix of requests.                                       *)
THEOREM Safety == Spec => []Inv
BY InitInv, StepInv, PTL DEF Spec

(* Every variable keeps its type: in particular no byte count of a region,  *)
(* of the arena or of the table's capacity ever goes below zero.            *)
THEOREM TypeCorrect == Spec => []TypeOK
<1>1. Inv => TypeOK
  BY DEF Inv
<1> QED
  BY <1>1, Safety, PTL

(* The regions tile the arena and a moving table fills what is left of the  *)
(* raw memory, through every growth and shrinking.                          *)
THEOREM RegionsTile == Spec => []ArenaTiled
<1>1. Inv => ArenaTiled
  BY DEF Inv
<1> QED
  BY <1>1, Safety, PTL

(* No two live blocks overlap and none crosses a region's border. *)
THEOREM BlocksApart == Spec => []BlocksSeparate
<1>1. Inv => BlocksSeparate
  BY DEF Inv
<1> QED
  BY <1>1, Safety, PTL

(* Every recorded gap is free room of its region whenever it may be used. *)
THEOREM RecordsSound == Spec => []HintSound
<1>1. Inv => HintSound
  BY DEF Inv
<1> QED
  BY <1>1, Safety, PTL

LEMMA RegionInArena ==
  ASSUME TypeOK, ArenaTiled, NEW r \in Region
  PROVE  RegEnd(r) <= arenaEnd
<1>1. CASE r = Last
  BY <1>1, RegionFacts DEF ArenaTiled
<1>2. CASE r # Last
  <2>1. Last \in Region /\ r + 1 \in Region /\ (r + 1 = Last \/ r + 1 < Last)
    BY <1>2, LayoutAssumption DEF Region, Last
  <2>2. RegEnd(r) = RegStart[r + 1] /\ RegEnd(Last) = arenaEnd
    BY <1>2, <2>1 DEF ArenaTiled
  <2>3. RegStart[r + 1] \in Nat /\ RegStart[Last] \in Nat /\ RegStart[r + 1] <= RegStart[Last]
    BY <2>1, LayoutAssumption
  <2>4. RegStart[Last] <= RegEnd(Last)
    BY <2>1, RegionFacts DEF RegEnd
  <2> QED
    BY <2>2, <2>3, <2>4, RegionFacts
<1> QED
  BY <1>1, <1>2

(* No search ever comes up with a range that the table's guard against      *)
(* overlaps has to refuse: its failure counters stay at zero.               *)
THEOREM InsertsNeverRefused == Spec => []InsertsPass
<1>1. ASSUME Inv, NEW bytes \in Requests, NEW x \in Answers(bytes)
      PROVE  InsertOk(x)
  <2>1. bytes \in Nat \ {0} /\ TypeOK /\ ArenaTiled
    BY <1>1, OptionAssumption DEF Inv
  <2>2. PICK r \in Region : x \in OwnFinds(r, bytes) \/ x \in CrossFinds(r, bytes)
    BY DEF Answers
  <2>3. x \in Extent /\ bytes <= x.len /\ Within(r, x) /\ IsFree(blocks, x)
    BY <1>1, <2>1, <2>2, OwnSound, CrossSound
  <2>4. x.len > 0
    BY <2>1, <2>3 DEF Extent
  <2>5. RegEnd(r) <= arenaEnd
    BY <2>1, RegionInArena
  <2>6. EndOf(x) <= arenaEnd
    BY <2>1, <2>3, <2>5, RegionFacts DEF Within, EndOf, Extent
  <2> QED
    BY <2>3, <2>4, <2>6 DEF InsertOk
<1>2. Inv => InsertsPass
  BY <1>1 DEF InsertsPass
<1> QED
  BY <1>2, Safety, PTL

-----------------------------------------------------------------------------
(* Quarantine. *)

LEMMA QuarantineStep ==
  ASSUME [Next]_arenaVars, NEW b \in blocks, b.off \in broken
  PROVE  b \in blocks'
<1>1. CASE \E bytes \in Requests : \E x \in Answers(bytes) : Take(bytes, x)
  BY <1>1 DEF Take, TakeOwn, TakeCross, Place
<1>2. CASE \E bytes \in Requests : \E own \in Region : Refuse(own, bytes)
  BY <1>2 DEF Refuse
<1>3. CASE \E c \in blocks : Release(c)
  BY <1>3 DEF Release, Intact
<1>4. CASE \E c \in blocks : \E bytes \in Requests : Shrink(c, bytes)
  BY <1>4 DEF Shrink, Resized, Intact
<1>5. CASE \E c \in blocks : \E bytes \in Requests : Extend(c, bytes)
  BY <1>5 DEF Extend, Resized, Intact
<1>6. CASE \E c \in blocks : Overrun(c)
  BY <1>6 DEF Overrun
<1>7. CASE UNCHANGED arenaVars
  BY <1>7 DEF arenaVars
<1>8. CASE \E R \in SUBSET Region : Inspect(R)
  BY <1>8 DEF Inspect
<1> QED
  BY <1>1, <1>2, <1>3, <1>4, <1>5, <1>6, <1>7, <1>8 DEF Next

(* A block whose canary words were destroyed is never released nor resized. *)
THEOREM QuarantineHolds == Spec => Quarantine
<1>1. [Next]_arenaVars => [\A b \in blocks : b.off \in broken => b \in blocks']_arenaVars
  BY QuarantineStep
<1> QED
  BY <1>1, PTL DEF Spec, Quarantine

-----------------------------------------------------------------------------
(* A block is found by its offset: no two blocks share one. *)
LEMMA OffsetIsKey ==
  ASSUME Inv, NEW b \in blocks, NEW c \in blocks, b.off = c.off
  PROVE  b = c
BY DEF Inv, TypeOK, BlocksSeparate, Disjoint, EndOf, Extent

(* A resized block replaces exactly one entry of the table. *)
LEMMA ResizedCard ==
  ASSUME Inv, NEW b \in blocks, NEW len \in Nat
  PROVE  Cardinality(Resized(b, len)) = Cardinality(blocks)
<1> DEFINE x == [off |-> b.off, len |-> len]
<1>1. IsFiniteSet(blocks)
  BY DEF Inv, TypeOK
<1>2. Cardinality(blocks \ {b}) = Cardinality(blocks) - 1 /\ IsFiniteSet(blocks \ {b})
  BY <1>1, FS_RemoveElement
<1>3. x \notin blocks \ {b}
  BY OffsetIsKey
<1>4. Cardinality((blocks \ {b}) \cup {x}) = Cardinality(blocks \ {b}) + 1
  BY <1>2, <1>3, FS_AddElement
<1>5. Cardinality(blocks) \in Nat
  BY <1>1, FS_CardinalityType
<1> QED
  BY <1>2, <1>4, <1>5 DEF Resized

(* The capacity only ever changes by whole chunks. *)
Chunks == \E k \in Nat : cap = InitCap + k * DescChunk

TableInv == Inv /\ TableFits /\ Chunks

LEMMA CapGrows ==
  ASSUME Chunks PROVE \E k \in Nat : cap + DescChunk = InitCap + k * DescChunk
<1>1. PICK k \in Nat : cap = InitCap + k * DescChunk
  BY DEF Chunks
<1>2. DescChunk \in Nat /\ InitCap \in Nat
  BY TableAssumption, DeltaType
<1>3. (k + 1) * DescChunk = k * DescChunk + DescChunk
  BY <1>2
<1> QED
  BY <1>1, <1>2, <1>3

LEMMA CapShrinks ==
  ASSUME Chunks, cap > InitCap
  PROVE  (\E k \in Nat : cap - DescChunk = InitCap + k * DescChunk) /\ InitCap <= cap - DescChunk
<1>1. PICK k \in Nat : cap = InitCap + k * DescChunk
  BY DEF Chunks
<1>2. DescChunk \in Nat /\ InitCap \in Nat
  BY TableAssumption, DeltaType
<1>3. k # 0
  BY <1>1, <1>2
<1>4. k - 1 \in Nat
  BY <1>3
<1>5. PICK j \in Nat : j = k - 1
  BY <1>4
<1>6. k * DescChunk = j * DescChunk + DescChunk
  <2>1. k = j + 1
    BY <1>5
  <2>2. (j + 1) * DescChunk = j * DescChunk + DescChunk
    BY <1>2
  <2> QED
    BY <2>1, <2>2
<1>7. j * DescChunk \in Nat
  BY <1>2
<1> QED
  BY <1>1, <1>2, <1>6, <1>7

LEMMA TableFacts ==
  ASSUME Inv
  PROVE  /\ cap \in Nat /\ Cardinality(blocks) \in Nat /\ IsFiniteSet(blocks)
         /\ InitCap \in Nat /\ DescChunk \in Nat \ {0} /\ MaxDesc \in Nat /\ InitCap <= MaxDesc
BY FS_CardinalityType, TableAssumption DEF Inv, TypeOK, InitCap

(* As many blocks, or the same capacity with the slack of before. *)
LEMMA TableStill ==
  ASSUME TableInv, Inv', cap' = cap, Cardinality(blocks') = Cardinality(blocks)
  PROVE  TableInv'
BY DEF TableInv, TableFits, Chunks

LEMMA TablePlace ==
  ASSUME TableInv, Inv', NEW x \in Extent, x.len > 0, IsFree(blocks, x),
         TableTakes(x), NEW r, NEW c, Place(r, x, c)
  PROVE  TableInv'
<1>1. x \notin blocks
  BY DEF IsFree, Disjoint, EndOf, Extent
<1>2. /\ cap \in Nat /\ Cardinality(blocks) \in Nat /\ IsFiniteSet(blocks)
      /\ InitCap \in Nat /\ DescChunk \in Nat \ {0} /\ MaxDesc \in Nat
  BY TableFacts DEF TableInv
<1>3. Cardinality(blocks') = Cardinality(blocks) + 1
  BY <1>1, <1>2, FS_AddElement DEF Place
<1>4. CASE TableFull
  <2>1. cap' = cap + DescChunk /\ cap + DescChunk <= MaxDesc
    BY <1>4 DEF Place, TableTakes, CanGrowFor
  <2>2. Cardinality(blocks) = cap /\ InitCap <= cap
    BY <1>2, <1>4 DEF TableFull, TableInv, TableFits
  <2>3. TableFits'
    BY <1>2, <1>3, <2>1, <2>2 DEF TableFits
  <2>4. Chunks'
    BY <2>1, CapGrows DEF TableInv, Chunks
  <2> QED
    BY <2>3, <2>4 DEF TableInv
<1>5. CASE ~TableFull
  <2>1. cap' = cap /\ Cardinality(blocks) < cap
    BY <1>2, <1>5 DEF Place, TableFull
  <2>2. TableFits'
    BY <1>2, <1>3, <2>1 DEF TableInv, TableFits
  <2> QED
    BY <2>1, <2>2 DEF TableInv, Chunks
<1> QED
  BY <1>4, <1>5

LEMMA TableRelease ==
  ASSUME TableInv, Inv', NEW b \in blocks, Release(b)
  PROVE  TableInv'
<1> DEFINE rest == blocks \ {b}
<1>1. /\ cap \in Nat /\ Cardinality(blocks) \in Nat /\ IsFiniteSet(blocks)
      /\ InitCap \in Nat /\ DescChunk \in Nat \ {0} /\ MaxDesc \in Nat /\ InitCap <= MaxDesc
  BY TableFacts DEF TableInv
<1>2. blocks' = rest /\ Cardinality(rest) = Cardinality(blocks) - 1
      /\ Cardinality(rest) \in Nat
  BY <1>1, FS_RemoveElement, FS_CardinalityType DEF Release
<1> HIDE DEF rest
<1>3. cap' = IF TableSlack(rest) THEN cap - DescChunk ELSE cap
  BY DEF Release, GiveBackChunk, rest
<1>4. /\ Cardinality(blocks) <= cap /\ cap <= MaxDesc /\ InitCap <= cap
      /\ cap = InitCap \/ cap - Cardinality(blocks) < 2 * DescChunk
  BY DEF TableInv, TableFits
<1>5. CASE TableSlack(rest)
  <2>1. Dynamic /\ cap > InitCap /\ cap - Cardinality(rest) >= 2 * DescChunk
    BY <1>5 DEF TableSlack
  <2>2. Chunks' /\ InitCap <= cap - DescChunk
    BY <1>3, <1>5, <2>1, CapShrinks DEF TableInv, Chunks
  <2>3. TableFits'
    BY <1>1, <1>2, <1>3, <1>4, <1>5, <2>1, <2>2 DEF TableFits
  <2> QED
    BY <2>2, <2>3 DEF TableInv
<1>6. CASE ~TableSlack(rest)
  <2>1. ~Dynamic => cap = InitCap
    BY <1>1, <1>4 DEF InitCap
  <2>2. TableFits'
    BY <1>1, <1>2, <1>3, <1>4, <1>6, <2>1 DEF TableFits, TableSlack
  <2> QED
    BY <1>3, <1>6, <2>2 DEF TableInv, Chunks
<1> QED
  BY <1>5, <1>6

LEMMA TableInit == Init => TableInv
<1> SUFFICES ASSUME Init PROVE TableInv
  OBVIOUS
<1>1. Inv
  BY InitInv
<1>2. cap = InitCap /\ Cardinality(blocks) = 0
  BY FS_EmptySet DEF Init
<1>3. TableFits
  BY <1>1, <1>2, TableFacts DEF TableFits
<1>4. Chunks
  <2>1. 0 * DescChunk = 0
    BY TableAssumption
  <2>2. cap = InitCap + 0 * DescChunk
    BY <1>2, <2>1, DeltaType
  <2> QED
    BY <2>2 DEF Chunks
<1> QED
  BY <1>1, <1>3, <1>4 DEF TableInv

LEMMA TakeIsPlace ==
  ASSUME Inv, NEW bytes \in Nat \ {0}, NEW x, Take(bytes, x)
  PROVE  /\ x \in Extent /\ x.len > 0 /\ IsFree(blocks, x) /\ TableTakes(x)
         /\ \E r \in Region : Within(r, x) /\ \E c : Place(r, x, c)
<1>1. PICK own \in Region : \/ TakeOwn(own, bytes, x)
                            \/ \E r \in Region : TakeCross(own, r, bytes, x)
  BY DEF Take
<1>2. CASE TakeOwn(own, bytes, x)
  <2>1. x \in OwnFinds(own, bytes) /\ TableTakes(x) /\ Place(own, x, cache)
    BY <1>2 DEF TakeOwn, Lands
  <2> QED
    BY <2>1, OwnSound DEF Extent
<1>3. CASE \E r \in Region : TakeCross(own, r, bytes, x)
  <2>1. PICK r \in Region : TakeCross(own, r, bytes, x)
    BY <1>3
  <2> DEFINE c == [q \in Region |-> IF q = own THEN OwnCache(q, bytes)
                                    ELSE IF Before(own, q, r) THEN CrossCache(q, bytes)
                                    ELSE cache[q]]
  <2>2. x \in CrossFinds(r, bytes) /\ TableTakes(x) /\ Place(r, x, c)
    BY <2>1 DEF TakeCross, Lands
  <2>3. x \in Extent /\ x.len > 0 /\ Within(r, x) /\ IsFree(blocks, x)
    BY <2>2, CrossSound DEF Extent
  <2> HIDE DEF c
  <2> QED
    BY <2>2, <2>3
<1> QED
  BY <1>1, <1>2, <1>3

LEMMA TableStep == TableInv /\ [Next]_arenaVars => TableInv'
<1> SUFFICES ASSUME TableInv, [Next]_arenaVars PROVE TableInv'
  OBVIOUS
<1>0. Inv /\ Inv' /\ Requests \subseteq Nat \ {0} /\ blocks \subseteq Extent
  BY StepInv, OptionAssumption DEF TableInv, Inv, TypeOK
<1>1. CASE \E bytes \in Requests : \E x \in Answers(bytes) : Take(bytes, x)
  BY <1>0, <1>1, TakeIsPlace, TablePlace
<1>2. CASE \E bytes \in Requests : \E own \in Region : Refuse(own, bytes)
  BY <1>0, <1>2, TableStill DEF Refuse
<1>3. CASE \E b \in blocks : Release(b)
  BY <1>0, <1>3, TableRelease
<1>4. CASE \E b \in blocks : \E bytes \in Requests : Shrink(b, bytes)
  <2>1. PICK b \in blocks, bytes \in Requests : Shrink(b, bytes)
    BY <1>4
  <2>2. blocks' = Resized(b, bytes) /\ cap' = cap
    BY <2>1 DEF Shrink
  <2> QED
    BY <1>0, <2>2, ResizedCard, TableStill
<1>5. CASE \E b \in blocks : \E bytes \in Requests : Extend(b, bytes)
  <2>1. PICK b \in blocks, bytes \in Requests : Extend(b, bytes)
    BY <1>5
  <2>2. PICK r \in Region : \E g \in RoomBehind(r, b, bytes) :
          blocks' = Resized(b, CutLen(b.len + g.len, bytes, RegMax[r]))
    BY <2>1 DEF Extend
  <2>3. PICK g \in RoomBehind(r, b, bytes) :
          blocks' = Resized(b, CutLen(b.len + g.len, bytes, RegMax[r]))
    BY <2>2
  <2>4. g \in Extent
    BY <1>0, RegionFacts, GapSound DEF RoomBehind, Inv
  <2>5. CutLen(b.len + g.len, bytes, RegMax[r]) \in Nat
    BY <1>0, <2>4 DEF CutLen, Extent
  <2>6. cap' = cap
    BY <2>1 DEF Extend
  <2> QED
    BY <1>0, <2>3, <2>5, <2>6, ResizedCard, TableStill
<1>6. CASE \E b \in blocks : Overrun(b)
  BY <1>0, <1>6, TableStill DEF Overrun
<1>7. CASE UNCHANGED arenaVars
  BY <1>0, <1>7, TableStill DEF arenaVars
<1>8. CASE \E R \in SUBSET Region : Inspect(R)
  BY <1>0, <1>8, TableStill DEF Inspect
<1> QED
  BY <1>1, <1>2, <1>3, <1>4, <1>5, <1>6, <1>7, <1>8 DEF Next

(* The table never holds more blocks than it has slots, never outgrows      *)
(* MaxDesc nor shrinks below its first capacity, and beyond that capacity   *)
(* keeps less than two spare chunks, whatever the workload.                 *)
THEOREM TableNeverOverflows == Spec => []TableFits
<1>1. TableInv => TableFits
  BY DEF TableInv
<1> QED
  BY <1>1, TableInit, TableStep, PTL DEF Spec

-----------------------------------------------------------------------------
(* The region found by a block's offset holds the whole block. *)
LEMMA RegionOfBlock ==
  ASSUME Inv, NEW b \in blocks, NEW r \in Region, InRegion(r, b.off)
  PROVE  Within(r, b)
<1>1. TypeOK /\ ArenaTiled /\ b \in Extent /\ b.len > 0
  BY DEF Inv, TypeOK, BlocksSeparate
<1>2. PICK q \in Region : Within(q, b)
  BY DEF Inv, BlocksSeparate
<1>3. CASE q = r
  BY <1>2, <1>3
<1>4. CASE q # r
  <2> DEFINE y == [off |-> b.off, len |-> 1]
  <2>1. y \in Extent /\ Within(r, y)
    BY <1>1, RegionFacts DEF InRegion, Within, EndOf, Extent
  <2>2. Disjoint(b, y)
    BY <1>1, <1>2, <1>4, <2>1, RegionsApart
  <2> QED
    BY <1>1, <2>2 DEF Disjoint, EndOf, Extent
<1> QED
  BY <1>3, <1>4

(* A set of caches is exact for the blocks of B and regions as they are. *)
Exact(c, B, q) == c[q] # {} => c[q] = LargestGap(B, RegStart[q], RegEnd(q))

(* What is added or taken away in one region does not show in another. *)
LEMMA ExactFrame ==
  ASSUME Inv, NEW B \in SUBSET Extent, NEW r \in Region, NEW q \in Region, r # q,
         NEW x \in Extent, Within(r, x)
  PROVE  LargestGap(B \cup {x}, RegStart[q], RegEnd(q))
           = LargestGap(B, RegStart[q], RegEnd(q))
<1>1. TypeOK /\ ArenaTiled
  BY DEF Inv
<1>2. RegStart[q] \in Nat /\ RegEnd(q) \in Nat
  BY <1>1, RegionFacts
<1>3. Within(q, [off |-> RegStart[q], len |-> 0]) /\ [off |-> RegStart[q], len |-> 0] \in Extent
  BY <1>1, RegionFacts DEF Within, EndOf, Extent, RegEnd
<1>4. EndOf(x) <= RegStart[q] \/ RegEnd(q) <= x.off
  BY <1>1, <1>3, RegionsApart
<1> QED
  BY <1>2, <1>4, LargestGapFrame

CacheInv == Inv /\ CacheExact

LEMMA RequestCacheExact ==
  ASSUME CacheInv, NEW q \in Region, NEW bytes
  PROVE  /\ OwnCache(q, bytes) # {} =>
              OwnCache(q, bytes) = LargestGap(blocks, RegStart[q], RegEnd(q))
         /\ CrossCache(q, bytes) # {} =>
              CrossCache(q, bytes) = LargestGap(blocks, RegStart[q], RegEnd(q))
BY DEF CacheInv, CacheExact, OwnCache, CrossCache, Learnt, LearntLargest

LEMMA CachePlace ==
  ASSUME Inv, NEW r \in Region, NEW x \in Extent, Within(r, x),
         NEW c \in [Region -> SUBSET Nat], \A q \in Region : Exact(c, blocks, q),
         Place(r, x, c)
  PROVE  CacheExact'
<1>1. /\ blocks' = blocks \cup {x} /\ blocks \in SUBSET Extent
      /\ total' = IF TableFull THEN [total EXCEPT ![Last] = @ - Delta] ELSE total
      /\ cache' = [(IF TableFull THEN [c EXCEPT ![Last] = {}] ELSE c) EXCEPT ![r] = {}]
      /\ total \in [Region -> Nat] /\ Last \in Region
  BY RegionFacts DEF Place, Inv, TypeOK
<1>2. SUFFICES ASSUME NEW q \in Region, cache'[q] # {}
               PROVE  cache'[q] = LargestGap(blocks', RegStart[q], RegEnd(q)')
  BY DEF CacheExact
<1>3. q # r /\ cache'[q] = c[q] /\ total'[q] = total[q]
  BY <1>1, <1>2
<1>4. cache'[q] = LargestGap(blocks, RegStart[q], RegEnd(q))
  BY <1>2, <1>3 DEF Exact
<1>5. LargestGap(blocks \cup {x}, RegStart[q], RegEnd(q))
        = LargestGap(blocks, RegStart[q], RegEnd(q))
  BY <1>1, <1>3, ExactFrame
<1>6. RegEnd(q)' = RegEnd(q) /\ blocks' = blocks \cup {x}
  BY <1>1, <1>3 DEF RegEnd
<1> QED
  BY <1>4, <1>5, <1>6

(* A step that changes the extent of one block inside region r. *)
LEMMA CacheChange ==
  ASSUME CacheInv, NEW r \in Region, NEW b \in blocks, InRegion(r, b.off),
         NEW C \in SUBSET Extent, \A c \in C : Within(r, c),
         blocks' = (blocks \ {b}) \cup C, C = {} \/ \E x \in C : C = {x},
         \A q \in Region : q # r => cache'[q] = {} \/ (cache'[q] = cache[q] /\ total'[q] = total[q]),
         cache'[r] = {}
  PROVE  CacheExact'
<1>1. /\ Inv /\ Within(r, b) /\ b \in Extent /\ (blocks \ {b}) \in SUBSET Extent
      /\ (blocks \ {b}) \cup {b} = blocks
  BY RegionOfBlock DEF CacheInv, Inv, TypeOK
<1>2. SUFFICES ASSUME NEW q \in Region, cache'[q] # {}
               PROVE  cache'[q] = LargestGap(blocks', RegStart[q], RegEnd(q)')
  BY DEF CacheExact
<1>3. q # r /\ cache'[q] = cache[q] /\ RegEnd(q)' = RegEnd(q)
  BY <1>2 DEF RegEnd
<1>4. cache'[q] = LargestGap(blocks, RegStart[q], RegEnd(q))
  BY <1>2, <1>3 DEF CacheInv, CacheExact
<1>5. LargestGap(blocks, RegStart[q], RegEnd(q))
        = LargestGap(blocks \ {b}, RegStart[q], RegEnd(q))
  <2>1. LargestGap((blocks \ {b}) \cup {b}, RegStart[q], RegEnd(q))
          = LargestGap(blocks \ {b}, RegStart[q], RegEnd(q))
    <3>1. r # q /\ Inv
      BY <1>1, <1>3
    <3>2. Within(r, b) /\ b \in Extent /\ (blocks \ {b}) \in SUBSET Extent
      BY <1>1
    <3> QED
      BY <3>1, <3>2, ExactFrame
  <2> QED
    BY <1>1, <2>1
<1>6. LargestGap(blocks', RegStart[q], RegEnd(q))
        = LargestGap(blocks \ {b}, RegStart[q], RegEnd(q))
  <2>1. CASE C = {}
    BY <2>1
  <2>2. CASE \E x \in C : C = {x}
    <3>1. PICK x \in C : C = {x}
      BY <2>2
    <3>2. x \in Extent /\ Within(r, x) /\ blocks' = (blocks \ {b}) \cup {x}
      BY <3>1
    <3> QED
      BY <1>1, <1>3, <3>2, ExactFrame
  <2> QED
    BY <2>1, <2>2
<1> QED
  BY <1>3, <1>4, <1>5, <1>6

LEMMA CacheRelease ==
  ASSUME CacheInv, NEW b \in blocks, Release(b)
  PROVE  CacheExact'
<1> DEFINE rest == blocks \ {b}
<1>1. PICK r \in Region : \E g \in Gaps(rest, RegStart[r], RegEnd(r)) :
         LET free1  == [free EXCEPT ![r] = Capped(@ + b.len, total[r])]
             cache1 == [cache EXCEPT ![r] = {}]
             hints1 == [hints EXCEPT ![r] = HintStore(@, g, total[r])]
         IN /\ InRegion(r, b.off)
            /\ IF TableSlack(rest)
               THEN GiveBackChunk(rest, free1, cache1, hints1)
               ELSE /\ free' = free1 /\ cache' = cache1 /\ hints' = hints1
                    /\ UNCHANGED <<arenaEnd, cap, total>>
  BY DEF Release
<1> DEFINE cache1 == [cache EXCEPT ![r] = {}]
<1> HIDE DEF rest
<1>2. /\ InRegion(r, b.off)
      /\ \/ cache' = cache1 /\ total' = total
         \/ /\ cache' = [cache1 EXCEPT ![Last] = {}]
            /\ total' = [total EXCEPT ![Last] = @ + Delta]
  BY <1>1 DEF GiveBackChunk
<1>3. /\ cache \in [Region -> SUBSET Nat] /\ total \in [Region -> Nat] /\ Last \in Region
      /\ blocks' = (blocks \ {b}) \cup {}
  BY RegionFacts DEF CacheInv, Inv, TypeOK, Release
<1>4. /\ \A q \in Region : q # r =>
             cache'[q] = {} \/ (cache'[q] = cache[q] /\ total'[q] = total[q])
      /\ cache'[r] = {}
  BY <1>2, <1>3
<1> QED
  BY <1>2, <1>3, <1>4, CacheChange

(* A resized block stays in its region. *)
LEMMA CacheResize ==
  ASSUME CacheInv, Inv', NEW b \in blocks, NEW len \in Nat, NEW r \in Region,
         InRegion(r, b.off), blocks' = Resized(b, len), total' = total,
         cache' = [cache EXCEPT ![r] = {}]
  PROVE  CacheExact'
<1> DEFINE x == [off |-> b.off, len |-> len]
<1>1. /\ cache \in [Region -> SUBSET Nat] /\ b \in Extent /\ x \in Extent /\ x.off = b.off
  BY DEF CacheInv, Inv, TypeOK, Extent
<1>2. blocks' = (blocks \ {b}) \cup {x}
  BY DEF Resized
<1> HIDE DEF x
<1>3. PICK q \in Region : Within(q, x)
  <2>1. PICK q \in Region : RegStart[q] <= x.off /\ EndOf(x) <= RegEnd(q)'
    BY <1>2 DEF Inv, BlocksSeparate, Within
  <2> QED
    BY <2>1 DEF Within, RegEnd
<1>4. x.len > 0
  BY <1>2 DEF Inv, BlocksSeparate
<1>5. Within(r, x)
  <2>1. CASE q = r
    BY <1>3, <2>1
  <2>2. CASE q # r
    <3> DEFINE y == [off |-> b.off, len |-> 1]
    <3>1. TypeOK /\ ArenaTiled
      BY DEF CacheInv, Inv
    <3>2. y \in Extent /\ Within(r, y)
      BY <1>1, <3>1, RegionFacts DEF InRegion, Within, EndOf, Extent
    <3>3. Disjoint(x, y)
      BY <1>1, <1>3, <2>2, <3>1, <3>2, RegionsApart
    <3> QED
      BY <1>1, <1>4, <3>3 DEF Disjoint, EndOf, Extent
  <2> QED
    BY <2>1, <2>2
<1>6. cache'[r] = {} /\ \A p \in Region : p # r => cache'[p] = cache[p] /\ total'[p] = total[p]
  BY <1>1
<1>7. {x} \in SUBSET Extent /\ (\A c \in {x} : Within(r, c)) /\ \E c \in {x} : {x} = {c}
  BY <1>1, <1>5
<1> QED
  BY <1>2, <1>6, <1>7, CacheChange

LEMMA CacheTake ==
  ASSUME CacheInv, NEW bytes \in Nat \ {0}, NEW x, Take(bytes, x)
  PROVE  CacheExact'
<1>1. PICK own \in Region : \/ TakeOwn(own, bytes, x)
                            \/ \E r \in Region : TakeCross(own, r, bytes, x)
  BY DEF Take
<1>2. Inv /\ TypeOK /\ cache \in [Region -> SUBSET Nat]
  BY DEF CacheInv, Inv, TypeOK
<1>3. CASE TakeOwn(own, bytes, x)
  <2>1. x \in OwnFinds(own, bytes) /\ Place(own, x, cache)
    BY <1>3 DEF TakeOwn
  <2>2. x \in Extent /\ Within(own, x)
    BY <1>2, <2>1, OwnSound
  <2>3. \A q \in Region : Exact(cache, blocks, q)
    BY DEF CacheInv, CacheExact, Exact
  <2> QED
    BY <1>2, <2>1, <2>2, <2>3, CachePlace
<1>4. CASE \E r \in Region : TakeCross(own, r, bytes, x)
  <2>1. PICK r \in Region : TakeCross(own, r, bytes, x)
    BY <1>4
  <2> DEFINE c == [q \in Region |-> IF q = own THEN OwnCache(q, bytes)
                                    ELSE IF Before(own, q, r) THEN CrossCache(q, bytes)
                                    ELSE cache[q]]
  <2>2. x \in CrossFinds(r, bytes) /\ Place(r, x, c)
    BY <2>1 DEF TakeCross
  <2>3. x \in Extent /\ Within(r, x)
    BY <1>2, <2>2, CrossSound
  <2>4. c \in [Region -> SUBSET Nat]
    BY <1>2, RequestCacheType
  <2>5. \A q \in Region : Exact(c, blocks, q)
    BY RequestCacheExact DEF CacheInv, CacheExact, Exact
  <2> HIDE DEF c
  <2> QED
    BY <1>2, <2>2, <2>3, <2>4, <2>5, CachePlace
<1> QED
  BY <1>1, <1>3, <1>4

LEMMA CacheStep == CacheInv /\ [Next]_arenaVars => CacheInv'
<1> SUFFICES ASSUME CacheInv, [Next]_arenaVars PROVE CacheInv'
  OBVIOUS
<1>0. Inv /\ Inv' /\ Requests \subseteq Nat \ {0} /\ blocks \subseteq Extent
  BY StepInv, OptionAssumption DEF CacheInv, Inv, TypeOK
<1>1. CASE \E bytes \in Requests : \E x \in Answers(bytes) : Take(bytes, x)
  BY <1>0, <1>1, CacheTake DEF CacheInv
<1>2. CASE \E bytes \in Requests : \E own \in Region : Refuse(own, bytes)
  <2>1. PICK bytes \in Requests, own \in Region : Refuse(own, bytes)
    BY <1>2
  <2>2. blocks' = blocks /\ total' = total
    BY <2>1 DEF Refuse
  <2>3. ASSUME NEW q \in Region
        PROVE  cache'[q] # {} => cache'[q] = LargestGap(blocks, RegStart[q], RegEnd(q))
    BY <2>1, RequestCacheExact DEF Refuse, CacheInv, CacheExact
  <2>4. CacheExact'
    BY <2>2, <2>3 DEF CacheExact, RegEnd
  <2> QED
    BY <1>0, <2>4 DEF CacheInv
<1>3. CASE \E b \in blocks : Release(b)
  BY <1>0, <1>3, CacheRelease DEF CacheInv
<1>4. CASE \E b \in blocks : \E bytes \in Requests : Shrink(b, bytes)
  <2>1. PICK b \in blocks, bytes \in Requests : Shrink(b, bytes)
    BY <1>4
  <2>2. blocks' = Resized(b, bytes) /\ total' = total /\ bytes \in Nat
    BY <1>0, <2>1 DEF Shrink
  <2>3. \E r \in Region : InRegion(r, b.off) /\ cache' = [cache EXCEPT ![r] = {}]
    BY <2>1 DEF Shrink
  <2> QED
    BY <1>0, <2>2, <2>3, CacheResize DEF CacheInv
<1>5. CASE \E b \in blocks : \E bytes \in Requests : Extend(b, bytes)
  <2>1. PICK b \in blocks, bytes \in Requests : Extend(b, bytes)
    BY <1>5
  <2>2. PICK r \in Region : \E g \in RoomBehind(r, b, bytes) :
          /\ InRegion(r, b.off) /\ cache' = [cache EXCEPT ![r] = {}]
          /\ blocks' = Resized(b, CutLen(b.len + g.len, bytes, RegMax[r]))
    BY <2>1 DEF Extend
  <2>3. PICK g \in RoomBehind(r, b, bytes) :
          /\ InRegion(r, b.off) /\ cache' = [cache EXCEPT ![r] = {}]
          /\ blocks' = Resized(b, CutLen(b.len + g.len, bytes, RegMax[r]))
    BY <2>2
  <2>4. g \in Extent
    BY <1>0, RegionFacts, GapSound DEF RoomBehind, Inv
  <2>5. CutLen(b.len + g.len, bytes, RegMax[r]) \in Nat /\ total' = total
    BY <1>0, <2>1, <2>4 DEF CutLen, Extent, Extend
  <2> QED
    BY <1>0, <2>3, <2>5, CacheResize DEF CacheInv
<1>6. CASE \E b \in blocks : Overrun(b)
  BY <1>0, <1>6 DEF Overrun, CacheInv, CacheExact, RegEnd
<1>7. CASE UNCHANGED arenaVars
  BY <1>0, <1>7 DEF arenaVars, CacheInv, CacheExact, RegEnd
<1>8. CASE \E R \in SUBSET Region : Inspect(R)
  <2>1. PICK R \in SUBSET Region : Inspect(R)
    BY <1>8
  <2>2. ASSUME NEW q \in Region
        PROVE  cache'[q] # {} => cache'[q] = LargestGap(blocks, RegStart[q], RegEnd(q))
    BY <2>1 DEF Inspect, CacheInv, CacheExact
  <2>3. blocks' = blocks /\ total' = total
    BY <2>1 DEF Inspect
  <2>4. CacheExact'
    BY <2>2, <2>3 DEF CacheExact, RegEnd
  <2> QED
    BY <1>0, <2>4 DEF CacheInv
<1> QED
  BY <1>1, <1>2, <1>3, <1>4, <1>5, <1>6, <1>7, <1>8 DEF Next

LEMMA CacheInit == Init => CacheInv
<1> SUFFICES ASSUME Init PROVE CacheExact
  BY InitInv DEF CacheInv
<1>1. SUFFICES ASSUME NEW r \in Region
               PROVE  cache[r] = LargestGap(blocks, RegStart[r], RegEnd(r))
  BY DEF CacheExact
<1>2. blocks = {} /\ cache[r] = {total[r]}
  BY DEF Init
<1>3. RegStart[r] \in Nat /\ total[r] \in Nat
  BY InitInv, RegionFacts DEF Inv
<1>4. RegEnd(r) = RegStart[r] + total[r] /\ RegEnd(r) \in Nat /\ RegStart[r] <= RegEnd(r)
      /\ RegEnd(r) - RegStart[r] = total[r]
  BY <1>3 DEF RegEnd
<1>5. LargestGap({}, RegStart[r], RegEnd(r)) = {RegEnd(r) - RegStart[r]}
  BY <1>3, <1>4, LargestGapNone
<1> QED
  BY <1>2, <1>4, <1>5

(* A valid largest-gap cache is exact in every reachable state: a request   *)
(* is never turned away, and a status query never answered, by a stale one. *)
THEOREM CacheAlwaysExact == Spec => []CacheExact
<1>1. CacheInv => CacheExact
  BY DEF CacheInv
<1> QED
  BY <1>1, CacheInit, CacheStep, PTL DEF Spec

-----------------------------------------------------------------------------
(* Class bounds. *)

LEMMA RegionUnique ==
  ASSUME Inv, NEW r \in Region, NEW q \in Region, NEW off \in Nat,
         InRegion(r, off), InRegion(q, off)
  PROVE  r = q
<1> DEFINE y == [off |-> off, len |-> 1]
<1>1. TypeOK /\ ArenaTiled /\ y \in Extent
  BY DEF Inv, Extent
<1>2. Within(r, y) /\ Within(q, y)
  BY <1>1, RegionFacts DEF InRegion, Within, EndOf
<1>3. ~Disjoint(y, y)
  BY <1>1 DEF Disjoint, EndOf, Extent
<1> QED
  BY <1>1, <1>2, <1>3, RegionsApart

(* The regions with a class bound are not the last: their ends stay. *)
LEMMA BoundedRegionsStay ==
  ASSUME Inv, Inv', NEW r \in Region, RegMax[r] # Unlimited
  PROVE  \A off : InRegion(r, off)' <=> InRegion(r, off)
<1>1. r # Last
  BY LayoutAssumption
<1>2. RegEnd(r) = RegStart[r + 1] /\ RegEnd(r)' = RegStart[r + 1]
  BY <1>1 DEF Inv, ArenaTiled
<1> QED
  BY <1>2 DEF InRegion

(* One new or resized block within the bound leaves the bound intact. *)
LEMMA BoundKept ==
  ASSUME Inv, Inv', ClassBound, GuardNum > 0, NEW x \in Extent,
         NEW r \in Region, InRegion(r, x.off),
         RegMax[r] # Unlimited => x.len <= RegMax[r],
         blocks' \subseteq blocks \cup {x}
  PROVE  ClassBound'
<1> SUFFICES ASSUME NEW b \in blocks', NEW q \in Region,
                    InRegion(q, b.off)', RegMax[q] # Unlimited
             PROVE  b.len <= RegMax[q]
  BY DEF ClassBound
<1>1. InRegion(q, b.off)
  BY BoundedRegionsStay
<1>2. CASE b \in blocks
  BY <1>1, <1>2 DEF ClassBound
<1>3. CASE b = x
  <2>1. q = r
    BY <1>1, <1>3, RegionUnique DEF Extent
  <2> QED
    BY <1>3, <2>1
<1> QED
  BY <1>2, <1>3

LEMMA CutBound ==
  ASSUME NEW g \in Extent, NEW bytes \in Nat, NEW max \in Nat,
         max # Unlimited => bytes <= max
  PROVE  max # Unlimited => Cut(g, bytes, max).len <= max
BY DEF Cut, CutLen, Extent, Unlimited

LEMMA BoundTake ==
  ASSUME Inv, Inv', ClassBound, GuardNum > 0, NEW bytes \in Nat \ {0}, NEW x, Take(bytes, x)
  PROVE  ClassBound'
<1>1. PICK own \in Region : \/ TakeOwn(own, bytes, x)
                            \/ \E r \in Region : TakeCross(own, r, bytes, x)
  BY DEF Take
<1>2. \E r \in Region :
        /\ x \in Extent /\ x.len > 0 /\ Within(r, x) /\ blocks' = blocks \cup {x}
        /\ \E g \in Extent : x = Cut(g, bytes, RegMax[r])
        /\ RegMax[r] # Unlimited => bytes <= RegMax[r]
  <2>1. CASE TakeOwn(own, bytes, x)
    <3>1. x \in OwnFinds(own, bytes) /\ blocks' = blocks \cup {x} /\ SizeOk(own, bytes)
      BY <2>1 DEF TakeOwn, Place, IsOwn
    <3> QED
      BY <3>1, OwnSound DEF SizeOk, Extent
  <2>2. CASE \E r \in Region : TakeCross(own, r, bytes, x)
    <3>1. PICK r \in Region : TakeCross(own, r, bytes, x)
      BY <2>2
    <3>2. x \in CrossFinds(r, bytes) /\ blocks' = blocks \cup {x} /\ CrossAllowed(r, bytes)
      BY <3>1 DEF TakeCross, Place, CrossFinds
    <3>3. RegMax[r] \in Nat
      BY RegionFacts DEF Inv
    <3>4. (RegMax[r] * GuardNum) \div GuardDen <= RegMax[r]
      BY <3>3, ShareBound, OptionAssumption
    <3>5. (RegMax[r] * GuardNum) \div GuardDen \in Int
      BY <3>3, OptionAssumption
    <3>6. RegMax[r] # Unlimited => bytes <= (RegMax[r] * GuardNum) \div GuardDen
      BY <3>2 DEF CrossAllowed
    <3>7. RegMax[r] # Unlimited => bytes <= RegMax[r]
      BY <3>3, <3>4, <3>5, <3>6
    <3> QED
      BY <3>2, <3>7, CrossSound DEF Extent
  <2> QED
    BY <1>1, <2>1, <2>2
<1>3. PICK r \in Region :
        /\ x \in Extent /\ x.len > 0 /\ Within(r, x) /\ blocks' = blocks \cup {x}
        /\ \E g \in Extent : x = Cut(g, bytes, RegMax[r])
        /\ RegMax[r] # Unlimited => bytes <= RegMax[r]
  BY <1>2
<1>4. RegMax[r] # Unlimited => x.len <= RegMax[r]
  BY <1>3, CutBound, RegionFacts DEF Inv
<1>5. InRegion(r, x.off)
  BY <1>3, RegionFacts DEF Inv, InRegion, Within, EndOf, Extent
<1>6. x \in Extent /\ blocks' \subseteq blocks \cup {x}
  BY <1>3
<1> QED
  BY <1>4, <1>5, <1>6, BoundKept

LEMMA BoundStill ==
  ASSUME Inv, Inv', ClassBound, blocks' \subseteq blocks
  PROVE  ClassBound'
BY BoundedRegionsStay DEF ClassBound

LEMMA BoundStep == Inv /\ ClassBound /\ [Next]_arenaVars => ClassBound'
<1> SUFFICES ASSUME Inv, ClassBound, [Next]_arenaVars PROVE ClassBound'
  OBVIOUS
<1>0. Inv' /\ Requests \subseteq Nat \ {0} /\ blocks \subseteq Extent
  BY StepInv, OptionAssumption DEF Inv, TypeOK
<1>n. SUFFICES ASSUME GuardNum > 0 PROVE ClassBound'
  <2>1. ~(GuardNum > 0) => ClassBound'
    BY DEF ClassBound
  <2> QED
    BY <2>1
<1>1. CASE \E bytes \in Requests : \E x \in Answers(bytes) : Take(bytes, x)
  <2>1. PICK bytes \in Requests : \E x \in Answers(bytes) : Take(bytes, x)
    BY <1>1
  <2> QED
    BY <1>0, <1>n, <2>1, BoundTake
<1>2. CASE \E bytes \in Requests : \E own \in Region : Refuse(own, bytes)
  BY <1>0, <1>2, BoundStill DEF Refuse
<1>3. CASE \E b \in blocks : Release(b)
  BY <1>0, <1>3, BoundStill DEF Release
<1>4. CASE \E b \in blocks : \E bytes \in Requests : Shrink(b, bytes)
  <2>1. PICK b \in blocks, bytes \in Requests : Shrink(b, bytes)
    BY <1>4
  <2>2. PICK r \in Region : InRegion(r, b.off) /\ SizeOk(r, bytes)
    BY <2>1 DEF Shrink
  <2> DEFINE x == [off |-> b.off, len |-> bytes]
  <2>3. x \in Extent /\ x.off = b.off /\ x.len = bytes /\ blocks' \subseteq blocks \cup {x}
    BY <1>0, <2>1 DEF Shrink, Resized, Extent
  <2>4. RegMax[r] # Unlimited => x.len <= RegMax[r]
    BY <2>2, <2>3 DEF SizeOk
  <2> HIDE DEF x
  <2>5. InRegion(r, x.off)
    BY <2>2, <2>3
  <2> QED
    BY <1>0, <1>n, <2>3, <2>4, <2>5, BoundKept
<1>5. CASE \E b \in blocks : \E bytes \in Requests : Extend(b, bytes)
  <2>1. PICK b \in blocks, bytes \in Requests : Extend(b, bytes)
    BY <1>5
  <2>2. PICK r \in Region : \E g \in RoomBehind(r, b, bytes) :
          InRegion(r, b.off) /\ blocks' = Resized(b, CutLen(b.len + g.len, bytes, RegMax[r]))
    BY <2>1 DEF Extend
  <2>3. PICK g \in RoomBehind(r, b, bytes) :
          InRegion(r, b.off) /\ blocks' = Resized(b, CutLen(b.len + g.len, bytes, RegMax[r]))
    BY <2>2
  <2> DEFINE gap == [off |-> b.off, len |-> b.len + g.len]
             x   == Cut(gap, bytes, RegMax[r])
  <2>4. g \in Extent /\ SizeOk(r, bytes) /\ RegMax[r] \in Nat
    BY <1>0, RegionFacts, GapSound DEF RoomBehind, Inv
  <2>5. gap \in Extent /\ bytes \in Nat
    BY <1>0, <2>4 DEF Extent
  <2>6. x = [off |-> b.off, len |-> CutLen(b.len + g.len, bytes, RegMax[r])]
    BY DEF Cut
  <2>7. RegMax[r] # Unlimited => x.len <= RegMax[r]
    BY <2>4, <2>5, CutBound DEF SizeOk
  <2>8. x \in Extent /\ x.off = b.off
    BY <1>0, <2>4, <2>5, <2>6 DEF CutLen, Extent
  <2>9. blocks' \subseteq blocks \cup {x}
    BY <2>3, <2>6 DEF Resized
  <2> HIDE DEF x
  <2>10. InRegion(r, x.off)
    BY <2>3, <2>8
  <2> QED
    BY <1>0, <1>n, <2>7, <2>8, <2>9, <2>10, BoundKept
<1>6. CASE \E b \in blocks : Overrun(b)
  BY <1>0, <1>6, BoundStill DEF Overrun
<1>7. CASE UNCHANGED arenaVars
  BY <1>0, <1>7, BoundStill DEF arenaVars
<1>8. CASE \E R \in SUBSET Region : Inspect(R)
  BY <1>0, <1>8, BoundStill DEF Inspect
<1> QED
  BY <1>1, <1>2, <1>3, <1>4, <1>5, <1>6, <1>7, <1>8 DEF Next

(* With any guard preset but "All", no block outgrows the class bound of    *)
(* the region it lies in: not by crossing over from another class, nor over *)
(* a sliver, nor by growing in place.                                       *)
THEOREM ClassesBounded == Spec => []ClassBound
<1>1. Init => ClassBound
  BY DEF Init, ClassBound
<1> QED
  BY <1>1, InitInv, StepInv, BoundStep, PTL DEF Spec

-----------------------------------------------------------------------------
(* Counted bytes. *)

(* The bytes of region q that the blocks of B leave free. *)
Count(B, q) == Cardinality(FreeBytes(B, RegStart[q], RegEnd(q)))

FreeInv == Inv /\ FreeExact

LEMMA CountBounds ==
  ASSUME Inv, NEW B \in SUBSET Extent, NEW q \in Region
  PROVE  Count(B, q) \in Nat /\ Count(B, q) <= total[q]
<1>1. RegStart[q] \in Nat /\ RegEnd(q) \in Nat /\ total[q] \in Nat
  BY RegionFacts DEF Inv
<1>2. RegEnd(q) - RegStart[q] = total[q] /\ RegStart[q] <= RegEnd(q)
  BY <1>1 DEF RegEnd
<1> QED
  BY <1>1, <1>2, FreeBytesCard DEF Count

(* A block that is added to region r takes its length there and nothing in *)
(* any other region.                                                        *)
LEMMA CountTaken ==
  ASSUME Inv, NEW B \in SUBSET Extent, NEW r \in Region, NEW x \in Extent,
         Within(r, x), IsFree(B, x)
  PROVE  /\ Count(B, r) = Count(B \cup {x}, r) + x.len
         /\ \A q \in Region : q # r => Count(B \cup {x}, q) = Count(B, q)
<1>1. ASSUME NEW q \in Region PROVE RegStart[q] \in Nat /\ RegEnd(q) \in Nat
  BY RegionFacts DEF Inv
<1>2. Count(B, r) = Count(B \cup {x}, r) + x.len
  BY <1>1, FreeBytesTaken DEF Count, Within
<1>3. ASSUME NEW q \in Region, q # r PROVE Count(B \cup {x}, q) = Count(B, q)
  <2>1. TypeOK /\ ArenaTiled /\ Within(q, [off |-> RegStart[q], len |-> 0])
        /\ [off |-> RegStart[q], len |-> 0] \in Extent
    BY <1>1, RegionFacts DEF Inv, Within, EndOf, Extent, RegEnd
  <2>2. EndOf(x) <= RegStart[q] \/ RegEnd(q) <= x.off
    BY <1>3, <2>1, RegionsApart
  <2> QED
    BY <1>1, <2>2, FreeBytesFrame DEF Count
<1> QED
  BY <1>2, <1>3

(* A live block lies in no other block's way. *)
LEMMA BlockApart ==
  ASSUME Inv, NEW b \in blocks
  PROVE  /\ b \in Extent /\ (blocks \ {b}) \in SUBSET Extent
         /\ (blocks \ {b}) \cup {b} = blocks /\ IsFree(blocks \ {b}, b)
BY DEF Inv, TypeOK, BlocksSeparate, IsFree

(* Every block ends where the arena does or before. *)
LEMMA BlocksInArena ==
  ASSUME Inv, NEW b \in blocks
  PROVE  EndOf(b) <= RegEnd(Last)
<1>1. TypeOK /\ ArenaTiled /\ b \in Extent /\ Last \in Region /\ b.len > 0
  BY RegionFacts DEF Inv, TypeOK, BlocksSeparate
<1>2. PICK r \in Region : Within(r, b)
  BY DEF Inv, BlocksSeparate
<1>3. CASE r = Last
  BY <1>2, <1>3 DEF Within
<1>4. CASE r # Last
  <2>1. RegEnd(r) = RegStart[r + 1] /\ r + 1 \in Region /\ r + 1 <= Last
    BY <1>1, <1>4, LayoutAssumption DEF ArenaTiled, Region, Last
  <2>2. RegStart[r + 1] <= RegStart[Last]
    <3>1. r + 1 = Last \/ r + 1 < Last
      BY <1>1, <2>1 DEF Region, Last
    <3> QED
      BY <1>1, <2>1, <3>1, LayoutAssumption
  <2>3. RegStart[Last] <= RegEnd(Last) /\ RegStart[Last] \in Nat /\ RegEnd(Last) \in Nat
        /\ RegEnd(r) \in Nat /\ EndOf(b) \in Nat
    BY <1>1, RegionFacts DEF RegEnd, EndOf, Extent
  <2> QED
    BY <1>2, <2>1, <2>2, <2>3 DEF Within
<1> QED
  BY <1>3, <1>4

-----------------------------------------------------------------------------
(* A block is placed. *)
LEMMA FreePlace ==
  ASSUME FreeInv, NEW r \in Region, NEW x \in Extent, x.len > 0, Within(r, x),
         IsFree(blocks, x), TableTakes(x), NEW c, Place(r, x, c)
  PROVE  FreeExact'
<1> DEFINE T == IF TableFull THEN [total EXCEPT ![Last] = @ - Delta] ELSE total
           F == IF TableFull THEN [free EXCEPT ![Last] = Less(@, Delta)] ELSE free
<1>1. /\ blocks' = blocks \cup {x} /\ blocks \in SUBSET Extent /\ total' = T
      /\ free' = [F EXCEPT ![r] = Less(@, x.len)]
      /\ total \in [Region -> Nat] /\ free \in [Region -> Nat] /\ Last \in Region
      /\ Inv /\ TypeOK /\ ArenaTiled
  BY RegionFacts DEF Place, FreeInv, Inv, TypeOK
<1>2. ASSUME NEW q \in Region
      PROVE  /\ RegStart[q] \in Nat /\ RegStart[q] + T[q] \in Nat /\ F[q] \in Nat
             /\ RegStart[q] + T[q] <= RegEnd(q)
             /\ F[q] = Cardinality(FreeBytes(blocks, RegStart[q], RegStart[q] + T[q]))
  <2>0. /\ RegStart[q] \in Nat /\ total[q] \in Nat /\ RegEnd(q) \in Nat /\ free[q] \in Nat
        /\ free[q] = Count(blocks, q) /\ RegEnd(q) = RegStart[q] + total[q]
    BY <1>1, RegionFacts DEF FreeInv, FreeExact, Count, RegEnd
  <2>1. CASE TableFull /\ q = Last
    <3>1. /\ Delta \in Nat /\ Delta <= total[Last]
          /\ \A b \in blocks : EndOf(b) <= arenaEnd - Delta
      BY <2>1, DeltaType DEF TableTakes, CanGrowFor
    <3>2. RegEnd(q) = arenaEnd
      BY <2>1, <1>1 DEF ArenaTiled
    <3>3. PICK hi \in Nat : hi = RegStart[q] + (total[q] - Delta)
      BY <2>0, <2>1, <3>1
    <3>4. hi + Delta = RegEnd(q) /\ RegStart[q] <= hi /\ \A b \in blocks : EndOf(b) <= hi
      <4>1. hi = arenaEnd - Delta
        BY <2>0, <3>1, <3>2, <3>3
      <4> QED
        BY <2>0, <2>1, <3>1, <3>3, <4>1
    <3>5. Count(blocks, q) = Cardinality(FreeBytes(blocks, RegStart[q], hi)) + Delta
      BY <1>1, <2>0, <3>1, <3>4, FreeBytesTail DEF Count
    <3>6. Cardinality(FreeBytes(blocks, RegStart[q], hi)) \in Nat
      BY <1>1, <2>0, FreeBytesCard
    <3>7. T[q] = total[q] - Delta /\ F[q] = Less(free[q], Delta)
      BY <1>1, <2>1
    <3>8. F[q] = Cardinality(FreeBytes(blocks, RegStart[q], hi))
      BY <2>0, <3>1, <3>5, <3>6, <3>7 DEF Less
    <3>9. RegStart[q] + T[q] = hi /\ hi <= RegEnd(q)
      BY <2>0, <3>1, <3>3, <3>4, <3>7
    <3> QED
      BY <2>0, <3>6, <3>8, <3>9
  <2>2. CASE ~(TableFull /\ q = Last)
    <3>1. T[q] = total[q] /\ F[q] = free[q]
      BY <1>1, <2>2
    <3> QED
      BY <2>0, <3>1 DEF Count
  <2> QED
    BY <2>1, <2>2
<1>3. EndOf(x) <= RegStart[r] + T[r] /\ RegStart[r] <= x.off
  <2>1. CASE TableFull /\ r = Last
    <3>1. EndOf(x) <= arenaEnd - Delta
      BY <2>1 DEF TableTakes, CanGrowFor
    <3>2. RegEnd(r) = arenaEnd /\ RegEnd(r) = RegStart[r] + total[r] /\ T[r] = total[r] - Delta
      BY <1>1, <2>1 DEF ArenaTiled, RegEnd
    <3>3. RegStart[r] \in Nat /\ total[r] \in Nat /\ Delta \in Nat
      BY <1>1, RegionFacts, DeltaType
    <3> QED
      BY <3>1, <3>2, <3>3 DEF Within
  <2>2. CASE ~(TableFull /\ r = Last)
    BY <1>1, <2>2 DEF Within, RegEnd
  <2> QED
    BY <2>1, <2>2
<1>4. ASSUME NEW q \in Region
      PROVE  free'[q] = Cardinality(FreeBytes(blocks', RegStart[q], RegStart[q] + T[q]))
  <2>1. F \in [Region -> Nat]
    BY <1>1, DeltaType DEF Less
  <2>2. PICK hi \in Nat : hi = RegStart[q] + T[q]
    BY <1>2
  <2>3. RegStart[q] \in Nat /\ F[q] \in Nat /\ F[q] = Cardinality(FreeBytes(blocks, RegStart[q], hi))
    BY <1>2, <2>2
  <2>4. CASE q = r
    <3>0. EndOf(x) <= hi /\ RegStart[q] <= x.off
      BY <1>3, <2>2, <2>4
    <3>a. Cardinality(FreeBytes(blocks, RegStart[q], hi))
            = Cardinality(FreeBytes(blocks \cup {x}, RegStart[q], hi)) + x.len
      <4>1. blocks \in SUBSET Extent /\ x \in Extent /\ IsFree(blocks, x)
        BY <1>1
      <4>2. RegStart[q] \in Nat /\ hi \in Nat
        BY <2>3
      <4> QED
        BY <3>0, <4>1, <4>2, FreeBytesTaken
    <3>1. F[q] = Cardinality(FreeBytes(blocks \cup {x}, RegStart[q], hi)) + x.len
      BY <2>3, <3>a
    <3>2. Cardinality(FreeBytes(blocks \cup {x}, RegStart[q], hi)) \in Nat /\ x.len \in Nat
      BY <1>1, <2>3, FreeBytesCard DEF Extent
    <3>3. free'[q] = Less(F[q], x.len)
      BY <1>1, <2>1, <2>4
    <3> QED
      BY <1>1, <2>2, <2>3, <3>1, <3>2, <3>3 DEF Less
  <2>5. CASE q # r
    <3>1. Within(q, [off |-> RegStart[q], len |-> 0])
          /\ [off |-> RegStart[q], len |-> 0] \in Extent
      BY <1>1, RegionFacts DEF Within, EndOf, Extent, RegEnd
    <3>2. EndOf(x) <= RegStart[q] \/ RegEnd(q) <= x.off
      BY <1>1, <2>5, <3>1, RegionsApart
    <3>3. RegEnd(q) \in Nat /\ x.off \in Nat /\ hi <= RegEnd(q)
      BY <1>1, <1>2, <2>2, RegionFacts DEF Extent
    <3>4. EndOf(x) <= RegStart[q] \/ hi <= x.off
      BY <3>2, <3>3
    <3>5. FreeBytes(blocks \cup {x}, RegStart[q], hi) = FreeBytes(blocks, RegStart[q], hi)
      BY <1>1, <2>3, <3>4, FreeBytesFrame
    <3>6. free'[q] = F[q]
      BY <1>1, <2>1, <2>5
    <3> QED
      BY <1>1, <2>2, <2>3, <3>5, <3>6
  <2> QED
    BY <2>4, <2>5
<1> QED
  BY <1>1, <1>4 DEF FreeExact, RegEnd

-----------------------------------------------------------------------------
(* A block is released. *)
LEMMA FreeRelease ==
  ASSUME FreeInv, NEW b \in blocks, Release(b)
  PROVE  FreeExact'
<1> DEFINE rest == blocks \ {b}
<1>1. PICK r \in Region : \E g \in Gaps(rest, RegStart[r], RegEnd(r)) :
         LET free1  == [free EXCEPT ![r] = Capped(@ + b.len, total[r])]
             cache1 == [cache EXCEPT ![r] = {}]
             hints1 == [hints EXCEPT ![r] = HintStore(@, g, total[r])]
         IN /\ InRegion(r, b.off)
            /\ IF TableSlack(rest)
               THEN GiveBackChunk(rest, free1, cache1, hints1)
               ELSE /\ free' = free1 /\ cache' = cache1 /\ hints' = hints1
                    /\ UNCHANGED <<arenaEnd, cap, total>>
  BY DEF Release
<1> DEFINE free1 == [free EXCEPT ![r] = Capped(@ + b.len, total[r])]
<1>2. /\ InRegion(r, b.off) /\ blocks' = rest
      /\ \/ free' = free1 /\ total' = total
         \/ /\ free' = [free1 EXCEPT ![Last] = Capped(@ + Delta, total[Last] + Delta)]
            /\ total' = [total EXCEPT ![Last] = @ + Delta]
  BY <1>1 DEF GiveBackChunk, Release
<1>3. /\ total \in [Region -> Nat] /\ free \in [Region -> Nat] /\ Last \in Region
      /\ Inv /\ TypeOK /\ rest \in SUBSET Extent /\ IsFree(rest, b) /\ rest \cup {b} = blocks
      /\ b \in Extent /\ Within(r, b) /\ Delta \in Nat
  BY <1>2, RegionFacts, BlockApart, RegionOfBlock, DeltaType DEF FreeInv, Inv, TypeOK
<1>4. ASSUME NEW q \in Region
      PROVE  free[q] = Count(blocks, q) /\ free[q] \in Nat /\ total[q] \in Nat
  BY <1>3 DEF FreeInv, FreeExact, Count
<1> HIDE DEF rest
<1>5. ASSUME NEW q \in Region PROVE free1[q] = Count(rest, q) /\ free1[q] \in Nat
  <2>1. Count(rest, q) \in Nat /\ Count(rest, q) <= total[q]
    BY <1>3, CountBounds
  <2>2. CASE q = r
    <3>1. Count(rest, q) = Count(blocks, q) + b.len
      BY <1>3, <2>2, CountTaken
    <3>2. free1[q] = Capped(free[q] + b.len, total[q])
      BY <1>3, <2>2
    <3> QED
      BY <1>4, <2>1, <3>1, <3>2 DEF Capped
  <2>3. CASE q # r
    <3>1. Count(blocks, q) = Count(rest, q)
      <4>1. Inv /\ rest \in SUBSET Extent /\ b \in Extent /\ Within(r, b) /\ IsFree(rest, b)
        BY <1>3
      <4>2. Count(rest \cup {b}, q) = Count(rest, q)
        BY <2>3, <4>1, CountTaken
      <4> QED
        BY <1>3, <4>2
    <3> QED
      BY <1>3, <1>4, <2>1, <2>3, <3>1
  <2> QED
    BY <2>2, <2>3
<1>6. CASE free' = free1 /\ total' = total
  BY <1>2, <1>5, <1>6 DEF FreeExact, Count, RegEnd
<1>7. CASE /\ free' = [free1 EXCEPT ![Last] = Capped(@ + Delta, total[Last] + Delta)]
           /\ total' = [total EXCEPT ![Last] = @ + Delta]
  <2>1. free1 \in [Region -> Nat]
    BY <1>3, <1>5
  <2> HIDE DEF free1
  <2>2. ASSUME NEW q \in Region
        PROVE  free'[q] = Cardinality(FreeBytes(rest, RegStart[q], RegStart[q] + total'[q]))
    <3>1. CASE q = Last
      <4>1. RegStart[q] \in Nat /\ RegEnd(q) \in Nat /\ RegEnd(q) = RegStart[q] + total[q]
            /\ RegStart[q] <= RegEnd(q)
        BY <1>3, <1>4, RegionFacts DEF RegEnd
      <4>2. \A c \in rest : EndOf(c) <= RegEnd(q)
        BY <1>3, <3>1, BlocksInArena
      <4>3. Cardinality(FreeBytes(rest, RegStart[q], RegEnd(q) + Delta)) = Count(rest, q) + Delta
        BY <1>3, <4>1, <4>2, FreeBytesTail DEF Count
      <4>4. total'[q] = total[q] + Delta /\ free'[q] = Capped(free1[q] + Delta, total[q] + Delta)
        BY <1>3, <1>7, <2>1, <3>1
      <4>5. Count(rest, q) <= total[q] /\ free1[q] = Count(rest, q) /\ free1[q] \in Nat
        BY <1>3, <1>5, CountBounds
      <4>6. RegStart[q] + total'[q] = RegEnd(q) + Delta
        BY <1>3, <1>4, <4>1, <4>4
      <4> QED
        BY <1>3, <1>4, <4>3, <4>4, <4>5, <4>6 DEF Capped
    <3>2. CASE q # Last
      <4>1. free'[q] = free1[q] /\ total'[q] = total[q]
        BY <1>3, <1>7, <2>1, <3>2
      <4> QED
        BY <1>5, <4>1 DEF Count, RegEnd
    <3> QED
      BY <3>1, <3>2
  <2> QED
    BY <1>2, <2>2 DEF FreeExact, RegEnd
<1> QED
  BY <1>2, <1>6, <1>7

-----------------------------------------------------------------------------
(* A block is resized in place. *)
LEMMA ResizedWithin ==
  ASSUME Inv, Inv', NEW b \in blocks, NEW len \in Nat, NEW r \in Region,
         InRegion(r, b.off), blocks' = Resized(b, len), total' = total
  PROVE  LET x == [off |-> b.off, len |-> len] IN
         x \in Extent /\ Within(r, x) /\ IsFree(blocks \ {b}, x)
<1> DEFINE x == [off |-> b.off, len |-> len]
<1>1. b \in Extent /\ x \in Extent /\ x.off = b.off /\ x.len = len /\ TypeOK /\ ArenaTiled
  BY DEF Inv, TypeOK, Extent
<1>2. blocks' = (blocks \ {b}) \cup {x}
  BY DEF Resized
<1>3. ASSUME NEW c \in blocks \ {b} PROVE Disjoint(c, x)
  <2>1. c # x
    BY <1>1, OffsetIsKey
  <2> QED
    BY <1>2, <2>1 DEF Inv, BlocksSeparate
<1> HIDE DEF x
<1>4. PICK q \in Region : Within(q, x)
  <2>1. PICK q \in Region : RegStart[q] <= x.off /\ EndOf(x) <= RegEnd(q)'
    BY <1>2 DEF Inv, BlocksSeparate, Within
  <2> QED
    BY <2>1 DEF Within, RegEnd
<1>5. x.len > 0
  BY <1>2 DEF Inv, BlocksSeparate
<1>6. Within(r, x)
  <2>1. CASE q = r
    BY <1>4, <2>1
  <2>2. CASE q # r
    <3> DEFINE y == [off |-> b.off, len |-> 1]
    <3>1. y \in Extent /\ Within(r, y)
      BY <1>1, RegionFacts DEF InRegion, Within, EndOf, Extent
    <3>2. Disjoint(x, y)
      BY <1>1, <1>4, <2>2, <3>1, RegionsApart
    <3> QED
      BY <1>1, <1>5, <3>2 DEF Disjoint, EndOf, Extent
  <2> QED
    BY <2>1, <2>2
<1> QED
  BY <1>1, <1>3, <1>6 DEF IsFree, x

LEMMA FreeResize ==
  ASSUME FreeInv, Inv', NEW b \in blocks, NEW len \in Nat, NEW r \in Region,
         InRegion(r, b.off), blocks' = Resized(b, len), total' = total,
         NEW n \in Nat, free' = [free EXCEPT ![r] = n],
         free[r] + b.len <= total[r] => n + len = free[r] + b.len
  PROVE  FreeExact'
<1> DEFINE x    == [off |-> b.off, len |-> len]
           rest == blocks \ {b}
<1>1. x \in Extent /\ Within(r, x) /\ IsFree(rest, x) /\ x.len = len
  BY ResizedWithin DEF FreeInv
<1>2. /\ Inv /\ free \in [Region -> Nat] /\ total \in [Region -> Nat] /\ blocks' = rest \cup {x}
      /\ b \in Extent /\ rest \in SUBSET Extent /\ rest \cup {b} = blocks /\ IsFree(rest, b)
      /\ Within(r, b)
  BY BlockApart, RegionOfBlock DEF FreeInv, Inv, TypeOK, Resized
<1> HIDE DEF x, rest
<1>3. ASSUME NEW q \in Region
      PROVE  free[q] = Count(blocks, q) /\ free[q] \in Nat /\ total[q] \in Nat
  BY <1>2 DEF FreeInv, FreeExact, Count
<1>4. Count(rest, r) = Count(blocks, r) + b.len /\ Count(rest, r) = Count(rest \cup {x}, r) + len
  BY <1>1, <1>2, CountTaken
<1>5. Count(rest, r) <= total[r] /\ Count(rest \cup {x}, r) \in Nat
  BY <1>1, <1>2, CountBounds
<1>6. n = Count(rest \cup {x}, r)
  BY <1>2, <1>3, <1>4, <1>5 DEF Extent
<1>7. ASSUME NEW q \in Region, q # r PROVE Count(rest \cup {x}, q) = free[q]
  <2>1. Count(rest \cup {x}, q) = Count(rest, q)
    <3>1. Inv /\ rest \in SUBSET Extent /\ x \in Extent /\ Within(r, x) /\ IsFree(rest, x)
      BY <1>1, <1>2
    <3> QED
      BY <1>7, <3>1, CountTaken
  <2>2. Count(blocks, q) = Count(rest, q)
    <3>0. Inv /\ rest \in SUBSET Extent /\ b \in Extent /\ Within(r, b) /\ IsFree(rest, b)
      BY <1>2
    <3>1. Count(rest \cup {b}, q) = Count(rest, q)
      BY <1>7, <3>0, CountTaken
    <3> QED
      BY <1>2, <3>1
  <2> QED
    BY <1>3, <2>1, <2>2
<1>8. ASSUME NEW q \in Region PROVE free'[q] = Count(rest \cup {x}, q)
  <2>1. CASE q = r
    BY <1>2, <1>6, <2>1
  <2>2. CASE q # r
    <3>1. free'[q] = free[q]
      BY <1>2, <2>2
    <3> QED
      BY <1>7, <2>2, <3>1
  <2> QED
    BY <2>1, <2>2
<1> QED
  BY <1>2, <1>8 DEF FreeExact, Count, RegEnd

LEMMA FreeShrink ==
  ASSUME FreeInv, Inv', NEW b \in blocks, NEW bytes \in Nat \ {0}, Shrink(b, bytes)
  PROVE  FreeExact'
<1>1. PICK r \in Region :
        InRegion(r, b.off) /\ free' = [free EXCEPT ![r] = Capped(@ + (b.len - bytes), total[r])]
  BY DEF Shrink
<1>2. blocks' = Resized(b, bytes) /\ total' = total /\ bytes < b.len
  BY DEF Shrink
<1>3. /\ free \in [Region -> Nat] /\ free[r] \in Nat /\ total[r] \in Nat /\ b.len \in Nat
  BY DEF FreeInv, Inv, TypeOK, Extent
<1>4. PICK n \in Nat : n = Capped(free[r] + (b.len - bytes), total[r])
  BY <1>2, <1>3 DEF Capped
<1>5. free' = [free EXCEPT ![r] = n]
  BY <1>1, <1>4
<1>6. free[r] + b.len <= total[r] => n + bytes = free[r] + b.len
  BY <1>2, <1>3, <1>4 DEF Capped
<1> QED
  BY <1>1, <1>2, <1>5, <1>6, FreeResize

LEMMA FreeExtend ==
  ASSUME FreeInv, Inv', NEW b \in blocks, NEW bytes \in Nat \ {0}, Extend(b, bytes)
  PROVE  FreeExact'
<1>1. PICK r \in Region : \E g \in RoomBehind(r, b, bytes) :
        LET len == CutLen(b.len + g.len, bytes, RegMax[r])
            add == [off |-> EndOf(b), len |-> len - b.len]
        IN /\ InRegion(r, b.off) /\ blocks' = Resized(b, len)
           /\ free' = [free EXCEPT ![r] = Less(@, add.len)]
  BY DEF Extend
<1>2. PICK g \in RoomBehind(r, b, bytes) :
        LET len == CutLen(b.len + g.len, bytes, RegMax[r])
            add == [off |-> EndOf(b), len |-> len - b.len]
        IN /\ InRegion(r, b.off) /\ blocks' = Resized(b, len)
           /\ free' = [free EXCEPT ![r] = Less(@, add.len)]
  BY <1>1
<1>3. /\ free \in [Region -> Nat] /\ free[r] \in Nat /\ total[r] \in Nat /\ b \in Extent
      /\ blocks \in SUBSET Extent /\ b.len \in Nat /\ b.len < bytes /\ total' = total /\ Inv
  BY DEF FreeInv, Inv, TypeOK, Extent, Extend
<1>4. g \in Gaps(blocks, RegStart[r], RegEnd(r)) /\ b.len + g.len >= bytes
      /\ g.off = EndOf(b)
  BY DEF RoomBehind
<1>5. /\ RegStart[r] \in Nat /\ RegEnd(r) \in Nat
      /\ g \in Extent /\ g.len \in Nat /\ IsFree(blocks, g) /\ EndOf(g) <= RegEnd(r)
      /\ RegStart[r] <= g.off
  <2>1. RegStart[r] \in Nat /\ RegEnd(r) \in Nat
    BY <1>3, RegionFacts DEF Inv
  <2> QED
    BY <1>3, <1>4, <2>1, GapSound DEF Extent
<1>6. PICK len \in Nat : len = CutLen(b.len + g.len, bytes, RegMax[r])
  BY <1>3, <1>5 DEF CutLen
<1>7. bytes <= len /\ len <= b.len + g.len
  BY <1>3, <1>4, <1>5, <1>6 DEF CutLen
<1>8. InRegion(r, b.off) /\ blocks' = Resized(b, len)
      /\ free' = [free EXCEPT ![r] = Less(@, len - b.len)]
  BY <1>2, <1>6
<1>9. g.len <= free[r]
  <2>1. g.len <= Count(blocks, r)
    BY <1>3, <1>5, FreeRangeFits DEF Count
  <2> QED
    BY <2>1 DEF FreeInv, FreeExact, Count
<1>10. PICK n \in Nat : n = Less(free[r], len - b.len)
  BY <1>3, <1>7 DEF Less
<1>11. n + len = free[r] + b.len
  BY <1>3, <1>5, <1>7, <1>9, <1>10 DEF Less
<1>12. free' = [free EXCEPT ![r] = n]
  BY <1>8, <1>10
<1> QED
  BY <1>3, <1>8, <1>11, <1>12, FreeResize

-----------------------------------------------------------------------------
LEMMA FreeStill ==
  ASSUME FreeInv, UNCHANGED <<blocks, total, free>>
  PROVE  FreeExact'
BY DEF FreeInv, FreeExact, RegEnd

LEMMA FreeStep == FreeInv /\ [Next]_arenaVars => FreeInv'
<1> SUFFICES ASSUME FreeInv, [Next]_arenaVars PROVE FreeExact'
  BY StepInv DEF FreeInv
<1>0. Inv /\ Inv' /\ Requests \subseteq Nat \ {0} /\ blocks \subseteq Extent
  BY StepInv, OptionAssumption DEF FreeInv, Inv, TypeOK
<1>1. CASE \E bytes \in Requests : \E x \in Answers(bytes) : Take(bytes, x)
  BY <1>0, <1>1, TakeIsPlace, FreePlace
<1>2. CASE \E bytes \in Requests : \E own \in Region : Refuse(own, bytes)
  BY <1>2, FreeStill DEF Refuse
<1>3. CASE \E b \in blocks : Release(b)
  BY <1>3, FreeRelease
<1>4. CASE \E b \in blocks : \E bytes \in Requests : Shrink(b, bytes)
  BY <1>0, <1>4, FreeShrink
<1>5. CASE \E b \in blocks : \E bytes \in Requests : Extend(b, bytes)
  BY <1>0, <1>5, FreeExtend
<1>6. CASE \E b \in blocks : Overrun(b)
  BY <1>6, FreeStill DEF Overrun
<1>7. CASE \E R \in SUBSET Region : Inspect(R)
  BY <1>7, FreeStill DEF Inspect
<1>8. CASE UNCHANGED arenaVars
  BY <1>8, FreeStill DEF arenaVars
<1> QED
  BY <1>1, <1>2, <1>3, <1>4, <1>5, <1>6, <1>7, <1>8 DEF Next

LEMMA FreeInit == Init => FreeInv
<1> SUFFICES ASSUME Init PROVE FreeExact
  BY InitInv DEF FreeInv
<1>1. SUFFICES ASSUME NEW r \in Region
               PROVE  total[r] = Cardinality(FreeBytes({}, RegStart[r], RegEnd(r)))
  BY DEF FreeExact, Init
<1>2. RegStart[r] \in Nat /\ total[r] \in Nat /\ RegEnd(r) \in Nat
      /\ RegEnd(r) = RegStart[r] + total[r]
  BY InitInv, RegionFacts DEF Inv, RegEnd
<1>3. Cardinality(FreeBytes({}, RegStart[r], RegEnd(r))) = RegEnd(r) - RegStart[r]
  BY <1>2, FreeBytesNone
<1> QED
  BY <1>2, <1>3

(* The free bytes of every region, kept by saturating additions and         *)
(* subtractions, are exactly those that no block takes: placing, releasing, *)
(* resizing and moving the table never loses or invents one.                *)
THEOREM FreeBytesExact == Spec => []FreeExact
<1>1. FreeInv => FreeExact
  BY DEF FreeInv
<1> QED
  BY <1>1, FreeInit, FreeStep, PTL DEF Spec

-----------------------------------------------------------------------------
(* The shortcuts of a search. *)

(* A request of its own class finds room whenever there is some: neither    *)
(* the free bytes nor the cached largest gap turn it away.                  *)
LEMMA RequestServed ==
  ASSUME FreeInv, CacheExact, NEW bytes \in Nat \ {0}, NEW r \in Region,
         NEW a \in RegStart[r] .. (RegEnd(r) - bytes),
         IsFree(blocks, [off |-> a, len |-> bytes])
  PROVE  OwnFinds(r, bytes) # {}
<1> DEFINE x == [off |-> a, len |-> bytes]
<1>1. /\ Inv /\ blocks \in SUBSET Extent
      /\ RegStart[r] \in Nat /\ RegEnd(r) \in Nat /\ free[r] \in Nat
  BY RegionFacts DEF FreeInv, Inv, TypeOK
<1>2. x \in Extent /\ x.len = bytes /\ x.off = a /\ RegStart[r] <= x.off /\ EndOf(x) <= RegEnd(r)
  BY <1>1 DEF Extent, EndOf
<1> HIDE DEF x
<1>3. IsFree(blocks, x)
  BY DEF x
<1>4. bytes <= free[r]
  <2>1. x.len <= Cardinality(FreeBytes(blocks, RegStart[r], RegEnd(r)))
    BY <1>1, <1>2, <1>3, FreeRangeFits
  <2> QED
    BY <1>2, <2>1 DEF FreeInv, FreeExact
<1>5. PICK g \in Gaps(blocks, RegStart[r], RegEnd(r)) : g.off <= x.off /\ EndOf(x) <= EndOf(g)
  BY <1>1, <1>2, <1>3, GapAround
<1>6. g \in Extent
  BY <1>1, GapSound
<1>7. bytes <= g.len
  BY <1>2, <1>5, <1>6 DEF EndOf, Extent
<1>8. \A n \in cache[r] : n >= bytes
  <2>1. SUFFICES ASSUME NEW n \in cache[r] PROVE n >= bytes
    OBVIOUS
  <2>2. n \in LargestGap(blocks, RegStart[r], RegEnd(r))
    BY DEF CacheExact
  <2>3. g.len <= n
    BY <2>2, LargestGapBounds
  <2>4. n \in Nat
    BY <1>1 DEF Inv, TypeOK
  <2> QED
    BY <1>6, <1>7, <2>3, <2>4 DEF Extent
<1>9. Eligible(r, bytes)
  BY <1>1, <1>4, <1>8 DEF Eligible
<1>10. Fitting(blocks, RegStart[r], RegEnd(r), bytes) # {}
  BY <1>6, <1>7 DEF Fitting, Extent
<1>11. BestGap(blocks, RegStart[r], RegEnd(r), bytes) # {}
  BY <1>1, <1>10, BestGapFound
<1>12. Find(r, bytes) # {}
  BY <1>11 DEF Find, FindBestFree
<1> QED
  BY <1>9, <1>12 DEF OwnFinds

(* With a free table slot no request is turned away while its region has    *)
(* that many free bytes in a row, whatever ran before: the shortcuts before *)
(* the scan never err.                                                      *)
THEOREM RequestsNeverTurnedAway == Spec => []NoFalseRefusal
<1>1. FreeInv /\ CacheInv => NoFalseRefusal
  <2> SUFFICES ASSUME FreeInv, CacheExact, NEW bytes \in Requests, NEW r \in Region,
                      NEW a \in RegStart[r] .. (RegEnd(r) - bytes),
                      IsFree(blocks, [off |-> a, len |-> bytes])
               PROVE  OwnFinds(r, bytes) # {}
    BY DEF NoFalseRefusal, CacheInv
  <2>1. bytes \in Nat \ {0}
    BY OptionAssumption
  <2> QED
    BY <2>1, RequestServed
<1> QED
  BY <1>1, FreeInit, FreeStep, CacheInit, CacheStep, PTL DEF Spec

-----------------------------------------------------------------------------
(* The arena under the modules that call it: its locked sections, for       *)
(* lengths of blocks that need not be in Requests.                          *)

ArenaStep ==
  \/ \E bytes \in Nat \ {0} : \E x : Take(bytes, x)
  \/ \E bytes \in Nat \ {0} : \E own \in Region : Refuse(own, bytes)
  \/ \E b \in blocks : Release(b)
  \/ \E b \in blocks : \E bytes \in Nat \ {0} : Shrink(b, bytes) \/ Extend(b, bytes)
  \/ \E b \in blocks : Overrun(b)
  \/ \E R \in SUBSET Region : Inspect(R)
  \/ UNCHANGED arenaVars

(* Every byte of the arena is one of the raw memory's. *)
ArenaFits == arenaEnd <= RawEnd

LEMMA NextIsArenaStep ==
  ASSUME [Next]_arenaVars
  PROVE  ArenaStep
<1>1. Requests \subseteq Nat \ {0}
  BY OptionAssumption
<1>2. ASSUME NEW bytes \in Requests, NEW x \in Answers(bytes), Take(bytes, x)
      PROVE  ArenaStep
  BY <1>1, <1>2 DEF ArenaStep
<1>3. CASE \E bytes \in Requests : \E own \in Region : Refuse(own, bytes)
  BY <1>1, <1>3 DEF ArenaStep
<1>4. CASE \E b \in blocks : \E bytes \in Requests : Shrink(b, bytes) \/ Extend(b, bytes)
  BY <1>1, <1>4 DEF ArenaStep
<1> QED
  BY <1>2, <1>3, <1>4 DEF Next, ArenaStep

LEMMA ArenaStepInv ==
  ASSUME Inv, ArenaStep
  PROVE  Inv'
<1>0. TypeOK
  BY DEF Inv
<1>1. CASE \E bytes \in Nat \ {0} : \E x : Take(bytes, x)
  BY <1>1, TakeSafe
<1>2. CASE \E bytes \in Nat \ {0} : \E own \in Region : Refuse(own, bytes)
  <2>1. PICK bytes \in Nat \ {0}, own \in Region : Refuse(own, bytes)
    BY <1>2
  <2>2. cache' \in [Region -> SUBSET Nat]
    BY <1>0, <2>1, RefuseCache
  <2> QED
    BY <1>0, <2>1, <2>2, QuietSafe DEF Refuse, TypeOK
<1>3. CASE \E b \in blocks : Release(b)
  BY <1>3, ReleaseSafe
<1>4. CASE \E b \in blocks : \E bytes \in Nat \ {0} : Shrink(b, bytes) \/ Extend(b, bytes)
  BY <1>4, ShrinkSafe, ExtendSafe
<1>5. CASE \E b \in blocks : Overrun(b)
  <2>1. PICK b \in blocks : Overrun(b)
    BY <1>5
  <2>2. broken' \subseteq Nat /\ cache' \in [Region -> SUBSET Nat]
    BY <1>0, <2>1 DEF Overrun, TypeOK, Extent
  <2> QED
    BY <2>1, <2>2, QuietSafe DEF Overrun
<1>6. CASE \E R \in SUBSET Region : Inspect(R)
  <2>1. \A r \in Region : LargestGap(blocks, RegStart[r], RegEnd(r)) \in SUBSET Nat
    BY <1>0, RegionFacts, LargestGapType DEF TypeOK
  <2>2. cache' \in [Region -> SUBSET Nat] /\ broken' \subseteq Nat
    BY <1>0, <1>6, <2>1 DEF Inspect, TypeOK
  <2> QED
    BY <1>6, <2>2, QuietSafe DEF Inspect
<1>7. CASE UNCHANGED arenaVars
  BY <1>0, <1>7, QuietSafe DEF arenaVars, TypeOK
<1> QED
  BY <1>1, <1>2, <1>3, <1>4, <1>5, <1>6, <1>7 DEF ArenaStep

(* A fixed table never moves the arena's end; a dynamic one starts there. *)
LEMMA ArenaFitsInit ==
  ASSUME Init
  PROVE  ArenaFits
<1>1. InitCap \in Nat /\ ArenaInit \in Nat /\ arenaEnd = ArenaInit
  BY DeltaType, LayoutAssumption DEF Init
<1> QED
  BY <1>1 DEF ArenaFits, RawEnd, DescSize

LEMMA ArenaFitsStep ==
  ASSUME Inv, ArenaFits, ArenaStep
  PROVE  ArenaFits'
<1>1. Inv'
  BY ArenaStepInv
<1>2. InitCap \in Nat /\ ArenaInit \in Nat
  BY DeltaType, LayoutAssumption
<1>3. CASE Dynamic
  <2>1. arenaEnd' \in Nat /\ cap' \in Nat /\ arenaEnd' + cap' * DescSize = RawEnd
    BY <1>1, <1>3 DEF Inv, TypeOK, ArenaTiled
  <2> QED
    BY <1>2, <2>1 DEF ArenaFits, DescSize
<1>4. CASE ~Dynamic
  <2>1. CASE \E bytes \in Nat \ {0} : \E x : Take(bytes, x)
    <3>1. PICK x : TableTakes(x) /\ \E r \in Region : \E c : Place(r, x, c)
      BY <2>1, TakeIsPlace
    <3>2. ~TableFull
      BY <1>4, <3>1 DEF TableTakes, CanGrowFor
    <3> QED
      BY <3>1, <3>2 DEF Place, ArenaFits
  <2>2. CASE \E bytes \in Nat \ {0} : \E own \in Region : Refuse(own, bytes)
    BY <2>2 DEF Refuse, ArenaFits
  <2>3. CASE \E b \in blocks : Release(b)
    BY <1>4, <2>3 DEF Release, TableSlack, ArenaFits
  <2>4. CASE \E b \in blocks : \E bytes \in Nat \ {0} : Shrink(b, bytes) \/ Extend(b, bytes)
    BY <2>4 DEF Shrink, Extend, ArenaFits
  <2>5. CASE \/ \E b \in blocks : Overrun(b)
             \/ \E R \in SUBSET Region : Inspect(R)
             \/ UNCHANGED arenaVars
    BY <2>5 DEF Overrun, Inspect, arenaVars, ArenaFits
  <2> QED
    BY <2>1, <2>2, <2>3, <2>4, <2>5 DEF ArenaStep
<1> QED
  BY <1>3, <1>4

(* A live block is a stretch of the raw memory, apart from all others. *)
Placed(x) ==
  /\ x \in [off : 0 .. RawEnd, len : 0 .. RawEnd] /\ x.len > 0
  /\ \A c \in blocks \ {x} : Disjoint(c, x)

LEMMA BlockPlaced ==
  ASSUME Inv, ArenaFits, NEW x \in blocks
  PROVE  Placed(x)
<1>1. x \in Extent /\ x.len > 0 /\ \A c \in blocks \ {x} : Disjoint(c, x)
  BY DEF Inv, TypeOK, BlocksSeparate
<1>2. EndOf(x) <= arenaEnd /\ arenaEnd \in Nat
  <2>1. EndOf(x) <= RegEnd(Last) /\ Last \in Region
    BY BlocksInArena, LayoutAssumption DEF Region, Last
  <2>2. RegEnd(Last) = arenaEnd /\ arenaEnd \in Nat
    BY <2>1 DEF Inv, TypeOK, ArenaTiled
  <2> QED
    BY <2>1, <2>2
<1>3. RawEnd \in Nat
  BY DeltaType, LayoutAssumption DEF RawEnd, DescSize
<1>4. x.off \in 0 .. RawEnd /\ x.len \in 0 .. RawEnd
  BY <1>1, <1>2, <1>3 DEF EndOf, Extent, ArenaFits
<1>5. x = [off |-> x.off, len |-> x.len]
  BY <1>1 DEF Extent
<1> QED
  BY <1>1, <1>4, <1>5 DEF Placed

(* What the locked sections do to the set of blocks. *)
LEMMA TakeBlocks ==
  ASSUME Inv, NEW bytes \in Nat \ {0}, NEW x, Take(bytes, x)
  PROVE  x \in Extent /\ x.len > 0 /\ x \notin blocks /\ blocks' = blocks \cup {x}
<1>1. /\ x \in Extent /\ x.len > 0 /\ IsFree(blocks, x)
      /\ \E r \in Region : \E c : Place(r, x, c)
  BY TakeIsPlace
<1>2. x \notin blocks
  BY <1>1 DEF IsFree, Disjoint, EndOf, Extent
<1> QED
  BY <1>1, <1>2 DEF Place

(* A block resized in place starts where it did. *)
LEMMA ResizeBlocksDram ==
  ASSUME Inv, NEW b, NEW bytes \in Nat \ {0}, Shrink(b, bytes) \/ Extend(b, bytes)
  PROVE  b \in blocks /\ \E x : x.off = b.off /\ blocks' = (blocks \ {b}) \cup {x}
<1>1. b \in blocks
  BY DEF Shrink, Extend, Intact
<1>2. CASE Shrink(b, bytes)
  BY <1>1, <1>2 DEF Shrink, Resized
<1>3. CASE Extend(b, bytes)
  BY <1>1, <1>3 DEF Extend, Resized
<1> QED
  BY <1>2, <1>3

-----------------------------------------------------------------------------
(* Alignment.  The start leaves aligned borders behind, and requests are    *)
(* rounded up before they get here: then every block, every recorded gap    *)
(* and the end of the arena stay aligned.                                   *)

AlignedLayout ==
  /\ Aligned(ArenaInit) /\ Aligned(Delta)
  /\ \A r \in Region : Aligned(RegStart[r])
  /\ \A bytes \in Requests : Aligned(bytes)

AlignedSlots(h) == \A k \in Slot : AlignedPiece(h[k])

BlocksAligned == Aligned(arenaEnd) /\ \A b \in blocks : AlignedPiece(b)
HintsAligned  == \A r \in Region : AlignedSlots(hints[r])

AlignedInv == Inv /\ AlignedLayout /\ BlocksAligned /\ HintsAligned

LEMMA BordersAligned ==
  ASSUME AlignedInv, NEW r \in Region
  PROVE  Aligned(RegStart[r]) /\ Aligned(RegEnd(r))
<1>1. r # Last => r + 1 \in Region
  BY LayoutAssumption DEF Region, Last
<1> QED
  BY <1>1 DEF AlignedInv, Inv, ArenaTiled, AlignedLayout, BlocksAligned

LEMMA LessAligned ==
  ASSUME NEW n, NEW m, Aligned(n), Aligned(m)
  PROVE  Aligned(Less(n, m))
BY AlignedSum, AlignedZero DEF Less

LEMMA CarveAligned ==
  ASSUME NEW h, NEW x, NEW tot, AlignedSlots(h), AlignedPiece(x)
  PROVE  AlignedSlots(HintCarve(h, x, tot))
<1> SUFFICES ASSUME NEW k \in Slot
             PROVE  AlignedPiece(HintCarve(h, x, tot)[k])
  BY DEF AlignedSlots
<1>1. AlignedPiece(h[k]) /\ AlignedPiece(NoHint)
  BY AlignedZero DEF AlignedSlots, AlignedPiece, NoHint
<1>2. AlignedPiece(Remainder(h[k], x))
  <2>1. Aligned(EndOf(x)) /\ Aligned(EndOf(h[k]))
    BY <1>1, AlignedSum DEF AlignedPiece, EndOf
  <2>2. Aligned(Less(x.off, h[k].off)) /\ Aligned(Less(EndOf(h[k]), EndOf(x)))
    BY <1>1, <2>1, LessAligned DEF AlignedPiece
  <2> QED
    BY <1>1, <2>1, <2>2 DEF Remainder, AlignedPiece
<1>3. HintCarve(h, x, tot)[k] \in {h[k], NoHint, Remainder(h[k], x)}
  BY DEF HintCarve, Recorded
<1> QED
  BY <1>1, <1>2, <1>3

LEMMA StoreAligned ==
  ASSUME NEW h, NEW g, NEW tot, AlignedSlots(h), AlignedPiece(g)
  PROVE  AlignedSlots(HintStore(h, g, tot))
<1>1. \A k \in Slot : HintStore(h, g, tot)[k] \in {NoHint, g, h[k]}
  BY DEF HintStore, Recorded
<1>2. AlignedPiece(NoHint)
  BY AlignedZero DEF AlignedPiece, NoHint
<1> QED
  BY <1>1, <1>2 DEF AlignedSlots

LEMMA FoundAligned ==
  ASSUME AlignedInv, NEW r \in Region, NEW bytes \in Nat \ {0}, Aligned(bytes),
         NEW x \in OwnFinds(r, bytes) \cup CrossFinds(r, bytes)
  PROVE  AlignedPiece(x)
<1>1. /\ blocks \in SUBSET Extent /\ RegStart[r] \in Nat /\ RegEnd(r) \in Nat
      /\ Aligned(RegStart[r]) /\ Aligned(RegEnd(r))
      /\ \A b \in blocks : AlignedPiece(b)
  BY RegionFacts, BordersAligned DEF AlignedInv, Inv, TypeOK, BlocksAligned
<1>2. CASE x \in Find(r, bytes)
  BY <1>1, <1>2, FindAligned DEF Find
<1>3. CASE x \in HintCut(r, bytes)
  <2>1. PICK k \in Slot : x = Cut(hints[r][k], bytes, RegMax[r])
    BY <1>3 DEF HintCut, HintSlots
  <2>2. AlignedPiece(hints[r][k])
    BY DEF AlignedInv, HintsAligned, AlignedSlots
  <2> QED
    BY <2>1, <2>2, CutLenAligned DEF Cut, AlignedPiece
<1> QED
  BY <1>2, <1>3 DEF OwnFinds, CrossFinds

LEMMA PlaceAligned ==
  ASSUME AlignedInv, NEW r \in Region, NEW x, AlignedPiece(x), NEW c, Place(r, x, c)
  PROVE  BlocksAligned' /\ HintsAligned'
<1> DEFINE eaten  == [off |-> arenaEnd - Delta, len |-> Delta]
           total1 == IF TableFull THEN [total EXCEPT ![Last] = @ - Delta] ELSE total
           hints1 == IF TableFull
                     THEN [hints EXCEPT ![Last] = HintCarve(@, eaten, total1[Last])] ELSE hints
<1>1. /\ blocks' = blocks \cup {x}
      /\ arenaEnd' = IF TableFull THEN arenaEnd - Delta ELSE arenaEnd
      /\ hints' = [hints1 EXCEPT ![r] = HintCarve(@, x, total1[r])]
  BY DEF Place
<1>2. Aligned(arenaEnd) /\ Aligned(Delta) /\ \A b \in blocks : AlignedPiece(b)
  BY DEF AlignedInv, BlocksAligned, AlignedLayout
<1>3. Aligned(arenaEnd - Delta)
  BY <1>2, AlignedSum
<1>4. AlignedPiece(eaten)
  BY <1>2, <1>3 DEF AlignedPiece
<1>5. hints \in [Region -> [Slot -> Extent]] /\ \A q \in Region : AlignedSlots(hints[q])
  BY DEF AlignedInv, Inv, TypeOK, HintsAligned
<1> HIDE DEF eaten, total1
<1>6. DOMAIN hints1 = Region /\ \A q \in Region : AlignedSlots(hints1[q])
  BY <1>4, <1>5, CarveAligned
<1> HIDE DEF hints1
<1>7. \A q \in Region : AlignedSlots(hints'[q])
  BY <1>1, <1>6, CarveAligned
<1> QED
  BY <1>1, <1>2, <1>3, <1>7 DEF BlocksAligned, HintsAligned, AlignedSlots

(* The gap that a free or a shrink records. *)
LEMMA RecordAligned ==
  ASSUME AlignedInv, NEW C \in SUBSET Extent, \A c \in C : AlignedPiece(c),
         NEW r \in Region, NEW g \in Gaps(C, RegStart[r], RegEnd(r))
  PROVE  LET new == [hints EXCEPT ![r] = HintStore(@, g, total[r])] IN
         DOMAIN new = Region /\ \A q \in Region : AlignedSlots(new[q])
<1>1. /\ RegStart[r] \in Nat /\ RegEnd(r) \in Nat
      /\ Aligned(RegStart[r]) /\ Aligned(RegEnd(r))
  BY RegionFacts, BordersAligned DEF AlignedInv, Inv
<1>2. AlignedPiece(g)
  BY <1>1, GapAligned
<1>3. hints \in [Region -> [Slot -> Extent]] /\ \A q \in Region : AlignedSlots(hints[q])
  BY DEF AlignedInv, Inv, TypeOK, HintsAligned
<1>4. AlignedSlots(HintStore(hints[r], g, total[r]))
  BY <1>2, <1>3, StoreAligned
<1> QED
  BY <1>3, <1>4

LEMMA ReleaseAligned ==
  ASSUME AlignedInv, NEW b \in blocks, Release(b)
  PROVE  BlocksAligned' /\ HintsAligned'
<1> DEFINE rest == blocks \ {b}
<1>1. PICK r \in Region : \E g \in Gaps(rest, RegStart[r], RegEnd(r)) :
         LET free1  == [free EXCEPT ![r] = Capped(@ + b.len, total[r])]
             cache1 == [cache EXCEPT ![r] = {}]
             hints1 == [hints EXCEPT ![r] = HintStore(@, g, total[r])]
         IN IF TableSlack(rest)
            THEN GiveBackChunk(rest, free1, cache1, hints1)
            ELSE hints' = hints1 /\ UNCHANGED arenaEnd
  BY DEF Release
<1>2. PICK g \in Gaps(rest, RegStart[r], RegEnd(r)) :
         LET free1  == [free EXCEPT ![r] = Capped(@ + b.len, total[r])]
             cache1 == [cache EXCEPT ![r] = {}]
             hints1 == [hints EXCEPT ![r] = HintStore(@, g, total[r])]
         IN IF TableSlack(rest)
            THEN GiveBackChunk(rest, free1, cache1, hints1)
            ELSE hints' = hints1 /\ UNCHANGED arenaEnd
  BY <1>1
<1> DEFINE hints1 == [hints EXCEPT ![r] = HintStore(@, g, total[r])]
<1>3. /\ rest \in SUBSET Extent /\ \A c \in rest : AlignedPiece(c)
      /\ Aligned(arenaEnd) /\ Aligned(Delta)
  BY DEF AlignedInv, Inv, TypeOK, BlocksAligned, AlignedLayout
<1>4. blocks' = rest
  BY DEF Release
<1> HIDE DEF rest
<1>5. DOMAIN hints1 = Region /\ \A q \in Region : AlignedSlots(hints1[q])
  BY <1>3, RecordAligned
<1>6. CASE ~TableSlack(rest)
  <2>1. hints' = hints1 /\ arenaEnd' = arenaEnd
    BY <1>2, <1>6
  <2> QED
    BY <1>3, <1>4, <1>5, <2>1 DEF BlocksAligned, HintsAligned, AlignedSlots
<1>7. CASE TableSlack(rest)
  <2> HIDE DEF hints1
  <2>1. PICK h \in Gaps(rest, RegStart[Last], RegEnd(Last) + Delta) :
          /\ arenaEnd' = arenaEnd + Delta
          /\ hints' = [hints1 EXCEPT ![Last] = HintStore(@, h, total[Last] + Delta)]
    BY <1>2, <1>7 DEF GiveBackChunk, hints1
  <2>2. /\ RegStart[Last] \in Nat /\ RegEnd(Last) \in Nat /\ Last \in Region
        /\ Aligned(RegStart[Last]) /\ Aligned(RegEnd(Last))
    BY RegionFacts, BordersAligned DEF AlignedInv, Inv
  <2>3. RegEnd(Last) + Delta \in Nat /\ Aligned(RegEnd(Last) + Delta) /\ Aligned(arenaEnd + Delta)
    BY <1>3, <2>2, DeltaType, AlignedSum
  <2>4. AlignedPiece(h)
    BY <1>3, <2>2, <2>3, GapAligned
  <2>5. AlignedSlots(HintStore(hints1[Last], h, total[Last] + Delta))
    BY <1>5, <2>2, <2>4, StoreAligned
  <2>6. \A q \in Region : AlignedSlots(hints'[q])
    BY <1>5, <2>1, <2>5
  <2> QED
    BY <1>3, <1>4, <2>1, <2>3, <2>6 DEF BlocksAligned, HintsAligned, AlignedSlots
<1> QED
  BY <1>6, <1>7

LEMMA ShrinkAligned ==
  ASSUME AlignedInv, NEW b \in blocks, NEW bytes \in Nat \ {0}, Aligned(bytes), Shrink(b, bytes)
  PROVE  BlocksAligned' /\ HintsAligned'
<1>1. PICK r \in Region : \E g \in Gaps(Resized(b, bytes), RegStart[r], RegEnd(r)) :
        hints' = [hints EXCEPT ![r] = HintStore(@, g, total[r])]
  BY DEF Shrink
<1>2. PICK g \in Gaps(Resized(b, bytes), RegStart[r], RegEnd(r)) :
        hints' = [hints EXCEPT ![r] = HintStore(@, g, total[r])]
  BY <1>1
<1>3. /\ Resized(b, bytes) \in SUBSET Extent
      /\ \A c \in Resized(b, bytes) : AlignedPiece(c)
  BY DEF Resized, AlignedInv, Inv, TypeOK, BlocksAligned, AlignedPiece, Extent
<1>4. \A q \in Region : AlignedSlots(hints'[q])
  BY <1>2, <1>3, RecordAligned
<1>5. blocks' = Resized(b, bytes) /\ arenaEnd' = arenaEnd
  BY DEF Shrink
<1> QED
  BY <1>3, <1>4, <1>5 DEF AlignedInv, BlocksAligned, HintsAligned, AlignedSlots

LEMMA ExtendAligned ==
  ASSUME AlignedInv, NEW b \in blocks, NEW bytes \in Nat \ {0}, Aligned(bytes), Extend(b, bytes)
  PROVE  BlocksAligned' /\ HintsAligned'
<1>1. PICK r \in Region : \E g \in RoomBehind(r, b, bytes) :
        LET len == CutLen(b.len + g.len, bytes, RegMax[r])
            add == [off |-> EndOf(b), len |-> len - b.len]
        IN /\ blocks' = Resized(b, len)
           /\ hints' = [hints EXCEPT ![r] = HintCarve(@, add, total[r])]
  BY DEF Extend
<1>2. PICK g \in RoomBehind(r, b, bytes) :
        LET len == CutLen(b.len + g.len, bytes, RegMax[r])
            add == [off |-> EndOf(b), len |-> len - b.len]
        IN /\ blocks' = Resized(b, len)
           /\ hints' = [hints EXCEPT ![r] = HintCarve(@, add, total[r])]
  BY <1>1
<1> DEFINE len == CutLen(b.len + g.len, bytes, RegMax[r])
           add == [off |-> EndOf(b), len |-> len - b.len]
<1>3. AlignedPiece(b) /\ \A c \in blocks : AlignedPiece(c)
  BY DEF AlignedInv, BlocksAligned
<1>4. AlignedPiece(g)
  <2>1. g \in Gaps(blocks, RegStart[r], RegEnd(r)) /\ blocks \in SUBSET Extent
    BY DEF RoomBehind, AlignedInv, Inv, TypeOK
  <2> QED
    BY <1>3, <2>1, RegionFacts, BordersAligned, GapAligned DEF AlignedInv, Inv
<1>5. Aligned(len)
  BY <1>3, <1>4, AlignedSum, CutLenAligned DEF AlignedPiece
<1> HIDE DEF len
<1>6. AlignedPiece(add)
  BY <1>3, <1>5, AlignedSum DEF AlignedPiece, EndOf
<1>7. hints \in [Region -> [Slot -> Extent]] /\ \A q \in Region : AlignedSlots(hints[q])
  BY DEF AlignedInv, Inv, TypeOK, HintsAligned
<1>8. blocks' = Resized(b, len) /\ hints' = [hints EXCEPT ![r] = HintCarve(@, add, total[r])]
  BY <1>2 DEF len
<1> HIDE DEF add
<1>9. \A q \in Region : AlignedSlots(hints'[q])
  BY <1>6, <1>7, <1>8, CarveAligned
<1>10. \A c \in blocks' : AlignedPiece(c)
  BY <1>3, <1>5, <1>8 DEF Resized, AlignedPiece
<1>11. arenaEnd' = arenaEnd
  BY DEF Extend
<1> QED
  BY <1>9, <1>10, <1>11 DEF AlignedInv, BlocksAligned, HintsAligned, AlignedSlots

LEMMA AlignedStep == AlignedInv /\ [Next]_arenaVars => AlignedInv'
<1> SUFFICES ASSUME AlignedInv, [Next]_arenaVars PROVE BlocksAligned' /\ HintsAligned'
  BY StepInv DEF AlignedInv, AlignedLayout
<1>0. \A bytes \in Requests : bytes \in Nat \ {0} /\ Aligned(bytes)
  BY OptionAssumption DEF AlignedInv, AlignedLayout
<1>1. ASSUME NEW bytes \in Requests, NEW x, Take(bytes, x)
      PROVE  BlocksAligned' /\ HintsAligned'
  <2>1. PICK r \in Region : x \in OwnFinds(r, bytes) \cup CrossFinds(r, bytes)
                            /\ \E c : Place(r, x, c)
    BY <1>1 DEF Take, TakeOwn, TakeCross
  <2>2. AlignedPiece(x)
    BY <1>0, <2>1, FoundAligned
  <2> QED
    BY <2>1, <2>2, PlaceAligned
<1>2. CASE UNCHANGED <<blocks, arenaEnd, hints>>
  BY <1>2 DEF AlignedInv, BlocksAligned, HintsAligned, AlignedSlots
<1>3. CASE \E b \in blocks : Release(b)
  BY <1>3, ReleaseAligned
<1>4. CASE \E b \in blocks : \E bytes \in Requests : Shrink(b, bytes)
  BY <1>0, <1>4, ShrinkAligned
<1>5. CASE \E b \in blocks : \E bytes \in Requests : Extend(b, bytes)
  BY <1>0, <1>5, ExtendAligned
<1>6. CASE \/ \E bytes \in Requests : \E own \in Region : Refuse(own, bytes)
           \/ \E b \in blocks : Overrun(b)
           \/ \E R \in SUBSET Region : Inspect(R)
           \/ UNCHANGED arenaVars
  <2>1. UNCHANGED <<blocks, arenaEnd, hints>>
    BY <1>6 DEF Refuse, Overrun, Inspect, arenaVars
  <2> QED
    BY <1>2, <2>1
<1> QED
  BY <1>1, <1>3, <1>4, <1>5, <1>6 DEF Next

LEMMA AlignedStart == AlignedLayout /\ Init => AlignedInv
<1> SUFFICES ASSUME AlignedLayout, Init PROVE AlignedInv
  OBVIOUS
<1>1. Inv /\ BlocksAligned
  BY InitInv DEF Init, BlocksAligned, AlignedLayout
<1>2. HintsAligned
  BY AlignedZero DEF Init, HintsAligned, AlignedSlots, AlignedPiece, NoHint
<1> QED
  BY <1>1, <1>2 DEF AlignedInv

(* From aligned borders and requests on, every block that is ever handed    *)
(* out, expanded over a sliver, shrunk or grown starts and ends aligned,    *)
(* and so does the table: words in it can be read without an exception.     *)
THEOREM BlocksStayAligned == AlignedLayout /\ Spec => []BlocksAligned
<1>1. AlignedInv => BlocksAligned
  BY DEF AlignedInv
<1> QED
  BY <1>1, AlignedStart, AlignedStep, PTL DEF Spec

-----------------------------------------------------------------------------
(* With a free slot in the table a request is served when, and only when,   *)
(* some region that its class or the guards of the crossing admit has a gap *)
(* that long.                                                               *)

HasRoom(r, bytes) == \E g \in Gaps(blocks, RegStart[r], RegEnd(r)) : bytes <= g.len

CrossGuards(r, bytes) ==
  /\ GuardNum = 0 \/ RegMax[r] = Unlimited \/ bytes <= (RegMax[r] * GuardNum) \div GuardDen
  /\ MinDiv = 0 \/ bytes >= RegMin[r] \div MinDiv

Fits(bytes) ==
  \E r \in Region : HasRoom(r, bytes) /\ (SizeOk(r, bytes) \/ (CrossEnabled /\ CrossGuards(r, bytes)))

ServedDram(bytes) ==
  \E own \in Region : /\ IsOwn(own, bytes)
                      /\ \/ ~OwnFails(own, bytes)
                         \/ CrossEnabled /\ \E q \in Region \ {own} : ~CrossFails(q, bytes)

(* Every size from the smallest class on has one class of its own. *)
LEMMA OwnClass ==
  ASSUME NEW bytes \in Nat, NEW r \in Region
  PROVE  /\ SizeOk(r, bytes) => IsOwn(r, bytes)
         /\ RegMin[0] <= bytes => \E own \in Region : IsOwn(own, bytes)
<1>1. /\ NRegions \in Nat \ {0}
      /\ RegMin \in [0 .. (NRegions - 1) -> Nat] /\ RegMax \in [0 .. (NRegions - 1) -> Nat]
      /\ \A q \in 0 .. (NRegions - 1) : RegMax[q] = Unlimited <=> q = NRegions - 1
      /\ \A q \in (0 .. (NRegions - 1)) \ {NRegions - 1} :
           RegMin[q] <= RegMax[q] /\ RegMin[q + 1] = RegMax[q] + 1
  BY LayoutAssumption DEF Region, Last
<1>2. /\ \A q, p \in Region : q < p => RegMax[q] < RegMin[p] /\ RegMax[q] # Unlimited
      /\ \A n \in Nat : RegMin[0] <= n =>
           \E p \in Region : RegMin[p] <= n /\ (RegMax[p] = Unlimited \/ n <= RegMax[p])
  BY <1>1, Classes DEF Region
<1>3. \A p \in Region : RegMin[p] \in Nat /\ RegMax[p] \in Nat
  BY <1>1 DEF Region
<1>4. ASSUME NEW p \in Region, SizeOk(p, bytes) PROVE IsOwn(p, bytes)
  <2>1. SUFFICES ASSUME NEW q \in Region, q < p, SizeOk(q, bytes) PROVE FALSE
    BY <1>4 DEF IsOwn
  <2>2. RegMax[q] < RegMin[p] /\ RegMax[q] # Unlimited
    BY <1>2, <2>1
  <2>3. RegMin[p] <= bytes /\ bytes <= RegMax[q]
    BY <1>4, <2>1, <2>2 DEF SizeOk
  <2> QED
    BY <1>3, <2>2, <2>3
<1>5. ASSUME RegMin[0] <= bytes PROVE \E own \in Region : IsOwn(own, bytes)
  <2>1. \E p \in Region : SizeOk(p, bytes)
    BY <1>2, <1>5 DEF SizeOk
  <2> QED
    BY <1>4, <2>1
<1> QED
  BY <1>4, <1>5

LEMMA RoomIsFound ==
  ASSUME FreeInv, CacheExact, NEW r \in Region, NEW bytes \in Nat \ {0}, HasRoom(r, bytes)
  PROVE  /\ OwnFinds(r, bytes) # {}
         /\ CrossGuards(r, bytes) => CrossFinds(r, bytes) # {}
<1>1. PICK g \in Gaps(blocks, RegStart[r], RegEnd(r)) : bytes <= g.len
  BY DEF HasRoom
<1>2. blocks \in SUBSET Extent /\ RegStart[r] \in Nat /\ RegEnd(r) \in Nat
  BY RegionFacts DEF FreeInv, Inv, TypeOK
<1>3. g \in Extent /\ IsFree(blocks, g) /\ RegStart[r] <= g.off /\ EndOf(g) <= RegEnd(r)
  BY <1>2, GapSound
<1>4. g.off \in Nat /\ g.len \in Nat /\ EndOf(g) = g.off + g.len
  BY <1>3 DEF Extent, EndOf
<1> DEFINE x == [off |-> g.off, len |-> bytes]
<1>5. x \in Extent /\ x.off = g.off /\ EndOf(x) = g.off + bytes
  BY <1>4 DEF Extent, EndOf
<1>6. IsFree(blocks, x)
  <2>1. g.off <= x.off /\ EndOf(x) <= EndOf(g)
    BY <1>1, <1>4, <1>5
  <2> QED
    BY <1>2, <1>3, <1>5, <2>1, PartFree
<1>7. g.off \in RegStart[r] .. (RegEnd(r) - bytes)
  BY <1>1, <1>2, <1>3, <1>4
<1>8. OwnFinds(r, bytes) # {}
  BY <1>6, <1>7, RequestServed
<1>9. Eligible(r, bytes)
  BY <1>8 DEF OwnFinds
<1>10. Find(r, bytes) # {}
  <2>1. Fitting(blocks, RegStart[r], RegEnd(r), bytes) # {}
    BY <1>1, <1>4 DEF Fitting
  <2>2. BestGap(blocks, RegStart[r], RegEnd(r), bytes) # {}
    BY <1>2, <2>1, BestGapFound
  <2> QED
    BY <2>2 DEF Find, FindBestFree
<1> QED
  BY <1>8, <1>9, <1>10 DEF CrossFinds, CrossAllowed, CrossGuards

LEMMA FoundHasRoom ==
  ASSUME Inv, NEW r \in Region, NEW bytes \in Nat \ {0},
         NEW x \in OwnFinds(r, bytes) \cup CrossFinds(r, bytes)
  PROVE  HasRoom(r, bytes)
<1>1. x \in Extent /\ bytes <= x.len /\ Within(r, x) /\ IsFree(blocks, x)
  BY OwnSound, CrossSound
<1>2. /\ blocks \in SUBSET Extent /\ RegStart[r] \in Nat /\ RegEnd(r) \in Nat
      /\ x.len > 0 /\ RegStart[r] <= x.off /\ EndOf(x) <= RegEnd(r)
  BY <1>1, RegionFacts DEF Inv, TypeOK, Within, Extent
<1>3. PICK g \in Gaps(blocks, RegStart[r], RegEnd(r)) : g.off <= x.off /\ EndOf(x) <= EndOf(g)
  BY <1>1, <1>2, GapAround
<1>4. g \in Extent
  BY <1>2, GapSound
<1>5. bytes <= g.len
  BY <1>1, <1>3, <1>4 DEF EndOf, Extent
<1> QED
  BY <1>5 DEF HasRoom

LEMMA FoundLands ==
  ASSUME Inv, ~TableFull, NEW r \in Region, NEW bytes \in Nat \ {0},
         NEW x \in OwnFinds(r, bytes) \cup CrossFinds(r, bytes)
  PROVE  Lands(x)
<1>1. x \in Extent /\ bytes <= x.len /\ Within(r, x) /\ IsFree(blocks, x)
  BY OwnSound, CrossSound
<1>2. RegEnd(r) <= arenaEnd /\ RegEnd(r) \in Nat /\ arenaEnd \in Nat
  BY RegionInArena, RegionFacts DEF Inv
<1>3. x.len > 0 /\ EndOf(x) <= arenaEnd
  BY <1>1, <1>2 DEF Within, EndOf, Extent
<1> QED
  BY <1>1, <1>3 DEF Lands, InsertOk, TableTakes

LEMMA ServedIffFits ==
  ASSUME FreeInv, CacheExact, ~TableFull, NEW bytes \in Nat \ {0}, RegMin[0] <= bytes
  PROVE  ServedDram(bytes) <=> Fits(bytes)
<1>0. Inv
  BY DEF FreeInv
<1>1. ASSUME NEW r \in Region, HasRoom(r, bytes) PROVE ~OwnFails(r, bytes)
  BY <1>0, <1>1, RoomIsFound, FoundLands DEF OwnFails
<1>2. ASSUME NEW r \in Region, HasRoom(r, bytes), CrossGuards(r, bytes)
      PROVE  ~CrossFails(r, bytes)
  BY <1>0, <1>2, RoomIsFound, FoundLands DEF CrossFails
<1>3. ASSUME Fits(bytes) PROVE ServedDram(bytes)
  <2>1. PICK r \in Region : /\ HasRoom(r, bytes)
                            /\ SizeOk(r, bytes) \/ (CrossEnabled /\ CrossGuards(r, bytes))
    BY <1>3 DEF Fits
  <2>2. PICK own \in Region : IsOwn(own, bytes) /\ (SizeOk(r, bytes) => own = r)
    BY OwnClass
  <2>3. CASE own = r
    BY <1>1, <2>1, <2>2, <2>3 DEF ServedDram
  <2>4. CASE own # r
    BY <1>2, <2>1, <2>2, <2>4 DEF ServedDram
  <2> QED
    BY <2>3, <2>4
<1>4. ASSUME ServedDram(bytes) PROVE Fits(bytes)
  <2>1. PICK own \in Region :
          /\ IsOwn(own, bytes)
          /\ \/ ~OwnFails(own, bytes)
             \/ CrossEnabled /\ \E q \in Region : ~CrossFails(q, bytes)
    <3>1. PICK own \in Region :
            /\ IsOwn(own, bytes)
            /\ \/ ~OwnFails(own, bytes)
               \/ CrossEnabled /\ \E q \in Region \ {own} : ~CrossFails(q, bytes)
      BY <1>4 DEF ServedDram
    <3> QED
      BY <3>1
  <2>2. CASE ~OwnFails(own, bytes)
    <3>1. PICK x \in OwnFinds(own, bytes) : TRUE
      BY <2>2 DEF OwnFails
    <3>2. HasRoom(own, bytes)
      BY <1>0, <3>1, FoundHasRoom
    <3>3. SizeOk(own, bytes)
      BY <2>1 DEF IsOwn
    <3> QED
      BY <3>2, <3>3 DEF Fits
  <2>3. CASE CrossEnabled /\ \E q \in Region : ~CrossFails(q, bytes)
    <3>1. PICK q \in Region : CrossFinds(q, bytes) # {}
      BY <2>3 DEF CrossFails
    <3>2. HasRoom(q, bytes) /\ CrossGuards(q, bytes)
      BY <1>0, <3>1, FoundHasRoom DEF CrossFinds, CrossAllowed, CrossGuards
    <3> QED
      BY <2>3, <3>2 DEF Fits
  <2> QED
    BY <2>1, <2>2, <2>3
<1> QED
  BY <1>3, <1>4

ServedExactly ==
  ~TableFull => \A bytes \in Nat \ {0} : RegMin[0] <= bytes => (ServedDram(bytes) <=> Fits(bytes))

(* Records, caches, free-byte counters, early exits, crossings and their    *)
(* order decide where a block goes, never whether there is one: with a free *)
(* slot a request is served if and only if there is room for it.            *)
THEOREM RequestsServedExactly == Spec => []ServedExactly
<1>1. FreeInv /\ CacheInv => ServedExactly
  BY ServedIffFits DEF ServedExactly, CacheInv
<1> QED
  BY <1>1, FreeInit, FreeStep, CacheInit, CacheStep, PTL DEF Spec

=============================================================================
