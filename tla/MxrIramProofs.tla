---------------------------- MODULE MxrIramProofs ----------------------------
(***************************************************************************)
(* Proofs about the IRAM arena, for every layout of its zones, every table *)
(* and every build option.                                                 *)
(***************************************************************************)
EXTENDS MxrIram, MxrGapsProofs

-----------------------------------------------------------------------------
(* The inductive invariant: types, zones and regions that tile the arena,  *)
(* and blocks that keep to their zones.                                     *)

IInv == TypeOK /\ IramTiled /\ ZonesApart

FbWithin(r, x) == FbStart[r] <= x.off /\ EndOf(x) <= FbEnd(r)

LEMMA DeltaFacts ==
  /\ IDelta \in Nat /\ IDelta > 0 /\ IInitCap \in Nat /\ IInitCap <= IMaxDesc
  /\ DescChunk \in Nat /\ DescChunk > 0 /\ IDelta = DescChunk * 8 /\ IMaxDesc \in Nat
BY IramTableAssumption DEF IDelta, IInitCap

LEMMA UsedFacts ==
  ASSUME TypeOK
  PROVE  /\ Used \in SUBSET Extent /\ IsFiniteSet(Used) /\ Cardinality(Used) \in Nat
<1>1. Used \in SUBSET Extent /\ IsFiniteSet(execs) /\ IsFiniteSet(fbs)
  BY DEF TypeOK, Used
<1>2. IsFiniteSet(Used)
  BY <1>1, FS_Union DEF Used
<1> QED
  BY <1>1, <1>2, FS_CardinalityType

LEMMA FbFacts ==
  ASSUME TypeOK, NEW r \in Fb
  PROVE  /\ FbStart[r] \in Nat /\ FbEnd(r) \in Nat /\ FbEnd(r) = FbStart[r] + fbTotal[r]
         /\ FbStart[r] <= FbEnd(r) /\ Reserve <= FbStart[r] /\ Reserve \in Nat
         /\ fbTotal[r] \in Nat /\ fbFree[r] \in Nat /\ fbCache[r] \in SUBSET Nat
         /\ FbMax[r] \in Nat /\ FbMin[r] \in Nat
         /\ NFb > 0 /\ FbLast \in Fb /\ r \in Nat
<1>1. /\ FbStart[r] \in Nat /\ fbTotal[r] \in Nat /\ fbFree[r] \in Nat /\ fbCache[r] \in SUBSET Nat
      /\ FbMax[r] \in Nat /\ FbMin[r] \in Nat /\ Reserve \in Nat
  BY IramLayoutAssumption DEF TypeOK
<1>2. NFb \in Nat /\ NFb > 0 /\ FbLast \in Fb /\ r \in Nat /\ 0 \in Fb
  BY IramLayoutAssumption DEF Fb, FbLast
<1>3. Reserve <= FbStart[r]
  <2>1. CASE r = 0
    BY <1>1, <1>2, <2>1, IramLayoutAssumption
  <2>2. CASE 0 < r
    BY <1>2, <2>2, IramLayoutAssumption
  <2> QED
    BY <1>2, <2>1, <2>2
<1> QED
  BY <1>1, <1>2, <1>3 DEF FbEnd

(* Regions lie in address order with nothing between them. *)
LEMMA FbOrder ==
  ASSUME TypeOK, IramTiled, NEW r \in Fb, NEW q \in Fb, r < q
  PROVE  FbEnd(r) <= FbStart[q]
<1>1. r # FbLast /\ r + 1 \in Fb /\ (r + 1 = q \/ r + 1 < q)
  BY IramLayoutAssumption DEF Fb, FbLast
<1>2. FbEnd(r) = FbStart[r + 1]
  BY <1>1 DEF IramTiled
<1>3. FbStart[r + 1] \in Nat /\ FbStart[q] \in Nat
  BY <1>1, FbFacts
<1>4. FbStart[r + 1] <= FbStart[q]
  BY <1>1, <1>3, IramLayoutAssumption
<1> QED
  BY <1>2, <1>4

(* What lies in one region lies outside of every other. *)
LEMMA FbApart ==
  ASSUME TypeOK, IramTiled, NEW r \in Fb, NEW q \in Fb, r # q,
         NEW x \in Extent, FbWithin(r, x)
  PROVE  EndOf(x) <= FbStart[q] \/ FbEnd(q) <= x.off
<1>1. r < q \/ q < r
  BY DEF Fb
<1>2. FbEnd(r) <= FbStart[q] \/ FbEnd(q) <= FbStart[r]
  BY <1>1, FbOrder
<1>3. /\ FbStart[r] \in Nat /\ FbStart[q] \in Nat /\ FbEnd(r) \in Nat /\ FbEnd(q) \in Nat
      /\ x.off \in Nat /\ x.len \in Nat
  BY FbFacts DEF Extent
<1> QED
  BY <1>2, <1>3 DEF FbWithin, EndOf

(* Every region ends within the arena. *)
LEMMA FbInArena ==
  ASSUME TypeOK, IramTiled, NEW r \in Fb
  PROVE  FbEnd(r) <= iramEnd /\ iramEnd \in Nat /\ Reserve <= iramEnd
<1>1. FbLast \in Fb /\ FbEnd(FbLast) = iramEnd
  BY FbFacts DEF IramTiled
<1>2. FbEnd(r) <= iramEnd
  <2>1. CASE r = FbLast
    BY <1>1, <2>1, FbFacts
  <2>2. CASE r # FbLast
    <3>1. r < FbLast
      BY <2>2, IramLayoutAssumption DEF Fb, FbLast
    <3>2. FbEnd(r) <= FbStart[FbLast]
      BY <1>1, <3>1, FbOrder
    <3>3. FbStart[FbLast] \in Nat /\ FbEnd(FbLast) \in Nat /\ FbEnd(r) \in Nat
          /\ FbStart[FbLast] <= FbEnd(FbLast)
      BY <1>1, FbFacts
    <3> QED
      BY <1>1, <3>2, <3>3
  <2> QED
    BY <2>1, <2>2
<1> QED
  BY <1>2, FbFacts DEF TypeOK

LEMMA BlockFacts ==
  ASSUME IInv, NEW b \in Used
  PROVE  /\ b \in Extent /\ b.off \in Nat /\ b.len \in Nat /\ b.len > 0
         /\ EndOf(b) \in Nat /\ EndOf(b) = b.off + b.len
         /\ Used \ {b} \in SUBSET Extent /\ (Used \ {b}) \cup {b} = Used
         /\ IsFree(Used \ {b}, b)
BY DEF IInv, TypeOK, ZonesApart, Used, Extent, EndOf, IsFree

(* No block is of both kinds. *)
LEMMA KindsApart ==
  ASSUME IInv, NEW b \in execs
  PROVE  b \notin fbs
<1> SUFFICES ASSUME b \in fbs PROVE FALSE
  OBVIOUS
<1>1. PICK r \in Fb : FbWithin(r, b)
  BY DEF IInv, ZonesApart, FbWithin
<1>2. Reserve <= FbStart[r] /\ FbStart[r] \in Nat /\ Reserve \in Nat
  BY FbFacts DEF IInv
<1>3. b \in Used
  BY DEF Used
<1>4. b.off \in Nat /\ b.len > 0 /\ b.len \in Nat /\ EndOf(b) = b.off + b.len
  BY <1>3, BlockFacts
<1>5. EndOf(b) <= Reserve
  BY DEF IInv, ZonesApart
<1> QED
  BY <1>1, <1>2, <1>4, <1>5 DEF FbWithin

(* A block is found by its offset. *)
LEMMA IOffsetIsKey ==
  ASSUME IInv, NEW b \in Used, NEW c \in Used, b.off = c.off
  PROVE  b = c
<1>1. b.off \in Nat /\ b.len \in Nat /\ b.len > 0 /\ c.len \in Nat /\ c.len > 0
  BY BlockFacts
<1>2. ~Disjoint(b, c)
  BY <1>1 DEF Disjoint, EndOf
<1> QED
  BY <1>2 DEF IInv, ZonesApart

-----------------------------------------------------------------------------
(* Searches return free room of their own zone. *)
LEMMA ExecSound ==
  ASSUME IInv, NEW bytes \in Nat \ {0}, NEW x \in ExecFinds(bytes)
  PROVE  x \in Extent /\ x.len = bytes /\ EndOf(x) <= Reserve /\ IsFree(Used, x)
<1>1. PICK g \in Gaps(Used, 0, Reserve) : g.len >= bytes /\ x = [off |-> g.off, len |-> bytes]
  BY DEF ExecFinds
<1>2. Used \in SUBSET Extent /\ Reserve \in Nat
  BY UsedFacts, IramLayoutAssumption DEF IInv
<1>3. g \in Extent /\ IsFree(Used, g) /\ EndOf(g) <= Reserve
  BY <1>2, GapSound
<1>4. x \in Extent /\ x.off = g.off /\ x.len = bytes
  BY <1>1, <1>3 DEF Extent
<1>5. EndOf(x) <= EndOf(g) /\ EndOf(x) <= Reserve
  BY <1>1, <1>2, <1>3, <1>4 DEF EndOf, Extent
<1>6. IsFree(Used, x)
  <2>1. g.off <= x.off
    BY <1>3, <1>4 DEF Extent
  <2> QED
    BY <1>2, <1>3, <1>4, <1>5, <2>1, PartFree
<1> QED
  BY <1>4, <1>5, <1>6

LEMMA FbCutSound ==
  ASSUME IInv, NEW r \in Fb, NEW bytes \in Nat \ {0},
         NEW g \in FbFitting(r, bytes), NEW x, x = FbCut(r, g, bytes)
  PROVE  /\ g \in Extent /\ g \in Gaps(Used, FbStart[r], FbEnd(r))
         /\ x \in Extent /\ bytes <= x.len /\ FbWithin(r, x) /\ IsFree(Used, x)
         /\ g.off <= x.off /\ EndOf(x) <= EndOf(g)
         /\ x.len = bytes \/ x.len = CutLen(g.len, bytes, FbLimit(r))
<1>1. Used \in SUBSET Extent /\ FbStart[r] \in Nat /\ FbEnd(r) \in Nat
  BY UsedFacts, FbFacts DEF IInv
<1>2. g \in Gaps(Used, FbStart[r], FbEnd(r)) /\ bytes <= g.len
  BY DEF FbFitting, Fitting
<1>3. g \in Extent /\ IsFree(Used, g) /\ FbStart[r] <= g.off /\ EndOf(g) <= FbEnd(r)
  BY <1>1, <1>2, GapSound
<1>4. PICK len \in Nat : len = CutLen(g.len, bytes, FbLimit(r)) /\ bytes <= len /\ len <= g.len
  BY <1>2, <1>3 DEF CutLen, Extent
<1>5. g.off \in Nat /\ g.len \in Nat /\ EndOf(g) = g.off + g.len
  BY <1>3 DEF Extent, EndOf
<1>6. \/ x = [off |-> g.off, len |-> bytes]
      \/ x = [off |-> EndOf(g) - len, len |-> len]
  BY <1>4 DEF FbCut
<1>7. /\ x \in Extent /\ bytes <= x.len /\ g.off <= x.off /\ EndOf(x) <= EndOf(g)
      /\ x.len = bytes \/ x.len = len
  <2>1. CASE x = [off |-> g.off, len |-> bytes]
    <3>1. x.off = g.off /\ x.len = bytes
      BY <2>1
    <3>2. x \in Extent
      BY <1>5, <2>1 DEF Extent
    <3>3. EndOf(x) = g.off + bytes
      BY <3>1 DEF EndOf
    <3> QED
      BY <1>2, <1>5, <3>1, <3>2, <3>3
  <2>2. CASE x = [off |-> EndOf(g) - len, len |-> len]
    <3>1. x.off = EndOf(g) - len /\ x.len = len
      BY <2>2
    <3>2. EndOf(g) - len \in Nat
      BY <1>4, <1>5
    <3>3. x \in Extent
      BY <2>2, <3>2 DEF Extent
    <3>4. EndOf(x) = EndOf(g) - len + len
      BY <3>1 DEF EndOf
    <3> QED
      BY <1>4, <1>5, <3>1, <3>3, <3>4
  <2> QED
    BY <1>6, <2>1, <2>2
<1>8. IsFree(Used, x)
  BY <1>1, <1>3, <1>7, PartFree
<1>9. FbWithin(r, x)
  BY <1>1, <1>3, <1>5, <1>7 DEF FbWithin, EndOf, Extent
<1> QED
  BY <1>2, <1>3, <1>4, <1>7, <1>8, <1>9

(* Where an answer for fallback data comes from. *)
LEMMA FbFindsCut ==
  ASSUME NEW r, NEW bytes, NEW x \in FbOwnFinds(r, bytes) \cup FbCrossFinds(r, bytes)
  PROVE  \E g \in FbFitting(r, bytes) : x = FbCut(r, g, bytes)
<1>1. \E g \in FbBest(r, bytes) \cup FbSmallest(r, bytes) : x = FbCut(r, g, bytes)
  BY DEF FbOwnFinds, FbCrossFinds
<1>2. FbBest(r, bytes) \cup FbSmallest(r, bytes) \subseteq FbFitting(r, bytes)
  BY DEF FbBest, FbSmallest, FbEarly, EarlyGaps, FbFitting
<1> QED
  BY <1>1, <1>2

(* A request for fallback data takes a free range of one region. *)
LEMMA FbTakeIsPlace ==
  ASSUME IInv, NEW bytes \in Nat \ {0}, NEW x, FbTake(bytes, x)
  PROVE  \E own \in Fb, r \in Fb : \E g \in FbFitting(r, bytes) :
           /\ x = FbCut(r, g, bytes) /\ ILands(x) /\ FbAdmits(bytes)
           /\ \/ r = own /\ FbSizeOk(r, bytes) /\ IPlace(x, FALSE, fbCache)
              \/ FbCrossAllowed(r, bytes) /\ IPlace(x, FALSE, FbSearched(own, bytes))
<1>1. PICK own \in Fb : \/ FbTakeOwn(own, bytes, x)
                        \/ \E r \in Fb : FbTakeCross(own, r, bytes, x)
  BY DEF FbTake
<1>2. CASE FbTakeOwn(own, bytes, x)
  <2>1. /\ FbAdmits(bytes) /\ FbSizeOk(own, bytes) /\ x \in FbOwnFinds(own, bytes) /\ ILands(x)
        /\ IPlace(x, FALSE, fbCache)
    BY <1>2 DEF FbTakeOwn, FbIsOwn
  <2>2. PICK g \in FbFitting(own, bytes) : x = FbCut(own, g, bytes)
    BY <2>1, FbFindsCut
  <2> QED
    BY <2>1, <2>2
<1>3. CASE \E r \in Fb : FbTakeCross(own, r, bytes, x)
  <2>1. PICK r \in Fb : FbTakeCross(own, r, bytes, x)
    BY <1>3
  <2>2. /\ FbAdmits(bytes) /\ x \in FbCrossFinds(r, bytes) /\ ILands(x)
        /\ IPlace(x, FALSE, FbSearched(own, bytes))
    BY <2>1 DEF FbTakeCross
  <2>3. FbCrossAllowed(r, bytes)
    BY <2>2 DEF FbCrossFinds
  <2>4. PICK g \in FbFitting(r, bytes) : x = FbCut(r, g, bytes)
    BY <2>2, FbFindsCut
  <2> QED
    BY <2>2, <2>3, <2>4
<1> QED
  BY <1>1, <1>2, <1>3

-----------------------------------------------------------------------------
(* Every step keeps the invariant. *)

LEMMA IPlaceSafe ==
  ASSUME IInv, NEW x \in Extent, NEW isExec \in BOOLEAN, ILands(x),
         isExec => EndOf(x) <= Reserve, ~isExec => \E r \in Fb : FbWithin(r, x),
         NEW c \in [Fb -> SUBSET Nat], IPlace(x, isExec, c)
  PROVE  IInv'
<1>1. /\ TypeOK /\ IramTiled /\ ZonesApart
      /\ x.off \in Nat /\ x.len \in Nat /\ x.len > 0 /\ IsFree(Used, x)
      /\ EndOf(x) = x.off + x.len /\ EndOf(x) \in Nat
  BY DEF IInv, ILands, Extent, EndOf
<1>2. PICK e \in Nat : e = Eaten
  BY DeltaFacts DEF Eaten
<1>3. ITableFull => /\ e = IDelta /\ IDynamic /\ NFb > 0
                    /\ IDelta <= fbTotal[FbLast] /\ IDelta <= zoneTotal /\ IDelta <= iramEnd
                    /\ (\A b \in Used : EndOf(b) <= iramEnd - IDelta)
                    /\ EndOf(x) <= iramEnd - IDelta
  BY <1>2 DEF Eaten, ILands, ICanGrowFor
<1>4. ~ITableFull => e = 0
  BY <1>2 DEF Eaten
<1>5. /\ execs' = IF isExec THEN execs \cup {x} ELSE execs
      /\ fbs' = IF isExec THEN fbs ELSE fbs \cup {x}
      /\ iramEnd' = iramEnd - e
      /\ icap' = IF ITableFull THEN icap + DescChunk ELSE icap
      /\ zoneTotal' = zoneTotal - e
      /\ fbTotal' = [r \in Fb |-> fbTotal[r] - AtTail(r, e)]
      /\ ibroken' = ibroken
  BY <1>2 DEF IPlace
<1>6. ASSUME NEW r \in Fb
      PROVE  /\ fbTotal'[r] = fbTotal[r] - (IF r = FbLast THEN e ELSE 0) /\ fbTotal'[r] \in Nat
             /\ r = FbLast => e <= fbTotal[r]
  <2>1. fbTotal[r] \in Nat /\ fbTotal'[r] = fbTotal[r] - AtTail(r, e)
    BY <1>1, <1>5, FbFacts
  <2>2. r = FbLast => e <= fbTotal[r]
    BY <1>3, <1>4, <2>1
  <2> QED
    BY <2>1, <2>2 DEF AtTail
<1>7. TypeOK'
  <2>1. IsFiniteSet(execs') /\ IsFiniteSet(fbs')
    BY <1>1, <1>5, FS_AddElement DEF TypeOK
  <2>2. execs' \subseteq Extent /\ fbs' \subseteq Extent /\ ibroken' \subseteq Nat
    BY <1>1, <1>5 DEF TypeOK
  <2>3. iramEnd' \in Nat /\ icap' \in Nat /\ zoneTotal' \in Nat
    BY <1>1, <1>3, <1>4, <1>5, DeltaFacts DEF TypeOK
  <2>4. fbTotal' \in [Fb -> Nat]
    BY <1>5, <1>6
  <2>5. fbFree' \in [Fb -> Nat]
    <3>1. ASSUME NEW n \in Nat, NEW m \in Nat PROVE Less(n, m) \in Nat
      BY <3>1 DEF Less
    <3> DEFINE share(r) == IF ~isExec /\ InFb(r, x.off) THEN x.len ELSE 0
    <3>2. fbFree' = [r \in Fb |-> Less(Less(fbFree[r], AtTail(r, Eaten)), share(r))]
      BY DEF IPlace
    <3>3. ASSUME NEW r \in Fb PROVE Less(Less(fbFree[r], AtTail(r, Eaten)), share(r)) \in Nat
      <4>1. fbFree[r] \in Nat /\ AtTail(r, Eaten) \in Nat /\ share(r) \in Nat
        BY <1>1, <1>2, FbFacts DEF AtTail
      <4> QED
        BY <3>1, <4>1
    <3> QED
      BY <3>2, <3>3
  <2>6. fbCache' \in [Fb -> SUBSET Nat]
    BY DEF IPlace
  <2>7. execFree' \in Nat /\ iramFree' \in Nat /\ zoneFree' \in Nat
    BY <1>1, <1>2 DEF IPlace, Less, TypeOK
  <2> QED
    BY <2>1, <2>2, <2>3, <2>4, <2>5, <2>6, <2>7 DEF TypeOK
<1>8. IramTiled'
  <2>1. zoneTotal' = iramEnd' - Reserve
    BY <1>1, <1>5, IramLayoutAssumption DEF TypeOK, IramTiled
  <2>2. ASSUME NEW r \in Fb
        PROVE  FbStart[r] + fbTotal'[r] = IF r = FbLast THEN iramEnd' ELSE FbStart[r + 1]
    <3>1. FbEnd(r) = FbStart[r] + fbTotal[r] /\ FbStart[r] \in Nat /\ fbTotal[r] \in Nat
          /\ FbEnd(r) = IF r = FbLast THEN iramEnd ELSE FbStart[r + 1]
      BY <1>1, FbFacts DEF IramTiled
    <3> QED
      BY <1>1, <1>5, <1>6, <3>1 DEF TypeOK
  <2>3. IDynamic => iramEnd' + icap' * 8 = IramInit + IInitCap * 8
    <3>1. IDynamic => iramEnd + icap * 8 = IramInit + IInitCap * 8
      BY <1>1 DEF IramTiled
    <3>2. iramEnd' + icap' * 8 = iramEnd + icap * 8
      BY <1>1, <1>3, <1>4, <1>5, DeltaFacts DEF TypeOK
    <3> QED
      BY <3>1, <3>2
  <2> QED
    BY <2>1, <2>2, <2>3 DEF IramTiled, FbEnd
<1>9. ZonesApart'
  <2>1. Used' = Used \cup {x}
    BY <1>5 DEF Used
  <2>2. \A b, y \in Used' : b # y => Disjoint(b, y)
    BY <1>1, <2>1 DEF ZonesApart, IsFree, Disjoint
  <2>3. \A b \in Used' : b.len > 0
    BY <1>1, <2>1 DEF ZonesApart
  <2>4. \A b \in execs' : EndOf(b) <= Reserve
    BY <1>1, <1>5 DEF ZonesApart
  <2>5. ASSUME NEW b \in fbs'
        PROVE  \E r \in Fb : FbStart[r] <= b.off /\ EndOf(b) <= FbStart[r] + fbTotal'[r]
    <3>1. PICK r \in Fb : FbWithin(r, b)
      BY <1>1, <1>5 DEF ZonesApart, FbWithin
    <3>2. b \in Used \cup {x} /\ EndOf(b) \in Nat
      <4>1. b \in Used \cup {x}
        BY <1>5 DEF Used
      <4> QED
        BY <1>1, <4>1, BlockFacts
    <3>3. FbEnd(r) = FbStart[r] + fbTotal[r] /\ FbStart[r] \in Nat /\ fbTotal[r] \in Nat
          /\ FbEnd(r) = IF r = FbLast THEN iramEnd ELSE FbStart[r + 1]
      BY <1>1, FbFacts DEF IramTiled
    <3>4. EndOf(b) <= FbStart[r] + fbTotal'[r]
      <4>1. CASE ITableFull /\ r = FbLast
        <5>1. EndOf(b) <= iramEnd - e
          BY <1>3, <3>2, <4>1
        <5> QED
          BY <1>6, <3>2, <3>3, <4>1, <5>1
      <4>2. CASE ~(ITableFull /\ r = FbLast)
        <5>1. fbTotal'[r] = fbTotal[r]
          BY <1>4, <1>6, <3>3, <4>2
        <5> QED
          BY <3>1, <3>3, <5>1 DEF FbWithin
      <4> QED
        BY <4>1, <4>2
    <3> QED
      BY <3>1, <3>4 DEF FbWithin
  <2> QED
    BY <2>2, <2>3, <2>4, <2>5 DEF ZonesApart, FbEnd
<1> QED
  BY <1>7, <1>8, <1>9 DEF IInv

LEMMA CappedType ==
  ASSUME NEW n \in Nat, NEW m \in Nat
  PROVE  Capped(n, m) \in Nat /\ Less(n, m) \in Nat
BY DEF Capped, Less

LEMMA IReleaseSafe ==
  ASSUME IInv, NEW b \in Used, IRelease(b)
  PROVE  IInv'
<1> DEFINE given == IF ITableSlack(Used \ {b}) THEN IDelta ELSE 0
<1>0. PICK d \in Nat : d = given
  BY DeltaFacts
<1>1. /\ TypeOK /\ IramTiled /\ ZonesApart
      /\ b.off \in Nat /\ b.len \in Nat /\ b \in Extent
  BY BlockFacts DEF IInv
<1>2. /\ execs' = execs \ {b} /\ fbs' = fbs \ {b} /\ ibroken' = ibroken
      /\ iramEnd' = iramEnd + d /\ zoneTotal' = zoneTotal + d
      /\ icap' = IF d > 0 THEN icap - DescChunk ELSE icap
      /\ fbTotal' = [r \in Fb |-> fbTotal[r] + AtTail(r, d)]
      /\ fbFree' = [r \in Fb |-> Capped(Capped(fbFree[r] + BackToFb(b, b.len, r), fbTotal[r])
                                          + AtTail(r, d), fbTotal[r] + AtTail(r, d))]
      /\ fbCache' = [r \in Fb |-> IF BackToFb(b, b.len, r) + AtTail(r, d) > 0
                                   THEN {} ELSE fbCache[r]]
      /\ execFree' = BackToExec(b, b.len)
      /\ iramFree' = Capped(Capped(iramFree + b.len, iramEnd) + d, iramEnd + d)
      /\ zoneFree' = BackToZone(b, b.len)
  BY <1>0 DEF IRelease
<1>3. d > 0 => d = DescChunk * 8 /\ DescChunk <= icap /\ NFb > 0 /\ IDynamic
  <2>1. SUFFICES ASSUME d > 0
                 PROVE  d = DescChunk * 8 /\ DescChunk <= icap /\ NFb > 0 /\ IDynamic
    OBVIOUS
  <2>2. ITableSlack(Used \ {b}) /\ d = IDelta
    BY <1>0, <2>1
  <2>3. Cardinality(Used \ {b}) \in Nat
    BY <1>1, UsedFacts, FS_RemoveElement, FS_CardinalityType
  <2> QED
    BY <1>1, <2>2, <2>3, DeltaFacts DEF ITableSlack, TypeOK
<1> HIDE DEF given
<1>4. ASSUME NEW r \in Fb
      PROVE  /\ AtTail(r, d) \in Nat /\ BackToFb(b, b.len, r) \in Nat
             /\ AtTail(r, d) = IF r = FbLast THEN d ELSE 0
             /\ fbTotal[r] \in Nat /\ fbFree[r] \in Nat
             /\ fbTotal'[r] = fbTotal[r] + AtTail(r, d)
  BY <1>1, <1>2, FbFacts DEF AtTail, BackToFb
<1>5. TypeOK'
  <2>1. IsFiniteSet(execs') /\ IsFiniteSet(fbs')
    BY <1>1, <1>2, FS_RemoveElement DEF TypeOK
  <2>2. execs' \subseteq Extent /\ fbs' \subseteq Extent /\ ibroken' \subseteq Nat
    BY <1>1, <1>2 DEF TypeOK
  <2>3. iramEnd' \in Nat /\ icap' \in Nat /\ zoneTotal' \in Nat
    BY <1>1, <1>2, <1>3, DeltaFacts DEF TypeOK
  <2>4. fbTotal' \in [Fb -> Nat]
    BY <1>2, <1>4
  <2>5. fbFree' \in [Fb -> Nat]
    <3>1. ASSUME NEW r \in Fb
          PROVE  Capped(Capped(fbFree[r] + BackToFb(b, b.len, r), fbTotal[r])
                        + AtTail(r, d), fbTotal[r] + AtTail(r, d)) \in Nat
      <4>1. Capped(fbFree[r] + BackToFb(b, b.len, r), fbTotal[r]) \in Nat
        BY <1>4 DEF Capped
      <4> QED
        BY <1>4, <4>1 DEF Capped
    <3> QED
      BY <1>2, <3>1
  <2>6. fbCache' \in [Fb -> SUBSET Nat]
    BY <1>1, <1>2 DEF TypeOK
  <2>7. execFree' \in Nat
    BY <1>1, <1>2, IramLayoutAssumption DEF TypeOK, BackToExec, Capped
  <2>8. iramFree' \in Nat /\ zoneFree' \in Nat
    BY <1>1, <1>2 DEF TypeOK, BackToZone, Capped
  <2> QED
    BY <2>1, <2>2, <2>3, <2>4, <2>5, <2>6, <2>7, <2>8 DEF TypeOK
<1>6. IramTiled'
  <2>1. zoneTotal' = iramEnd' - Reserve
    BY <1>1, <1>2, IramLayoutAssumption DEF TypeOK, IramTiled
  <2>2. ASSUME NEW r \in Fb
        PROVE  FbStart[r] + fbTotal'[r] = IF r = FbLast THEN iramEnd' ELSE FbStart[r + 1]
    <3>1. FbEnd(r) = FbStart[r] + fbTotal[r] /\ FbStart[r] \in Nat
          /\ FbEnd(r) = IF r = FbLast THEN iramEnd ELSE FbStart[r + 1]
      BY <1>1, FbFacts DEF IramTiled
    <3> QED
      BY <1>1, <1>2, <1>4, <3>1 DEF TypeOK
  <2>3. IDynamic => iramEnd' + icap' * 8 = IramInit + IInitCap * 8
    <3>1. IDynamic => iramEnd + icap * 8 = IramInit + IInitCap * 8
      BY <1>1 DEF IramTiled
    <3>2. iramEnd' + icap' * 8 = iramEnd + icap * 8
      BY <1>1, <1>2, <1>3, DeltaFacts DEF TypeOK
    <3> QED
      BY <3>1, <3>2
  <2> QED
    BY <2>1, <2>2, <2>3 DEF IramTiled, FbEnd
<1>7. ZonesApart'
  <2>1. Used' \subseteq Used /\ execs' \subseteq execs /\ fbs' \subseteq fbs
    BY <1>2 DEF Used
  <2>2. ASSUME NEW c \in fbs'
        PROVE  \E r \in Fb : FbStart[r] <= c.off /\ EndOf(c) <= FbStart[r] + fbTotal'[r]
    <3>1. PICK r \in Fb : FbStart[r] <= c.off /\ EndOf(c) <= FbEnd(r)
      BY <1>1, <2>1 DEF ZonesApart
    <3>2. EndOf(c) \in Nat
      <4>1. c \in Used
        BY <2>1 DEF Used
      <4> QED
        BY <4>1, BlockFacts
    <3>3. FbEnd(r) = FbStart[r] + fbTotal[r] /\ FbStart[r] \in Nat
      BY <1>1, FbFacts
    <3>4. FbStart[r] + fbTotal[r] <= FbStart[r] + fbTotal'[r] /\ fbTotal'[r] \in Nat
      BY <1>4, <3>3
    <3>5. EndOf(c) <= FbStart[r] + fbTotal'[r]
      BY <1>4, <3>1, <3>2, <3>3, <3>4
    <3> QED
      BY <3>1, <3>5
  <2> QED
    BY <1>1, <2>1, <2>2 DEF ZonesApart, FbEnd
<1> QED
  BY <1>5, <1>6, <1>7 DEF IInv

(* A block that is resized keeps to its zone when its new extent does. *)
LEMMA IResizeSafe ==
  ASSUME IInv, NEW b \in Used, NEW len \in Nat \ {0},
         NEW x, x = [off |-> b.off, len |-> len], IsFree(Used \ {b}, x),
         b \in execs => EndOf(x) <= Reserve,
         b \in fbs => \E r \in Fb : FbWithin(r, x),
         execs' = Cutoff(execs, b, len), fbs' = Cutoff(fbs, b, len),
         UNCHANGED <<ibroken, iramEnd, icap, zoneTotal, fbTotal>>,
         fbFree' \in [Fb -> Nat], fbCache' \in [Fb -> SUBSET Nat],
         execFree' \in Nat, iramFree' \in Nat, zoneFree' \in Nat
  PROVE  /\ IInv' /\ x \in Extent /\ Used' = (Used \ {b}) \cup {x}
         /\ execs' = IF b \in execs THEN (execs \ {b}) \cup {x} ELSE execs
         /\ fbs' = IF b \in fbs THEN (fbs \ {b}) \cup {x} ELSE fbs
<1>0. b.off \in Nat
  BY BlockFacts
<1>1. /\ TypeOK /\ IramTiled /\ ZonesApart /\ x \in Extent /\ x.len > 0
  BY <1>0 DEF IInv, Extent
<1>2. /\ execs' = IF b \in execs THEN (execs \ {b}) \cup {x} ELSE execs
      /\ fbs' = IF b \in fbs THEN (fbs \ {b}) \cup {x} ELSE fbs
  BY DEF Cutoff
<1>3. Used' = (Used \ {b}) \cup {x}
  BY <1>2, KindsApart DEF Used
<1>4. TypeOK'
  <2>1. IsFiniteSet(execs') /\ IsFiniteSet(fbs')
    <3>1. IsFiniteSet(execs \ {b}) /\ IsFiniteSet(fbs \ {b}) /\ IsFiniteSet(execs) /\ IsFiniteSet(fbs)
      BY <1>1, FS_RemoveElement DEF TypeOK
    <3>2. IsFiniteSet((execs \ {b}) \cup {x}) /\ IsFiniteSet((fbs \ {b}) \cup {x})
      BY <3>1, FS_AddElement
    <3> QED
      BY <1>2, <3>1, <3>2
  <2> QED
    BY <1>1, <1>2, <2>1 DEF TypeOK
<1>5. IramTiled'
  BY <1>1 DEF IramTiled, FbEnd
<1>6. ZonesApart'
  <2>1. \A c, d \in Used' : c # d => Disjoint(c, d)
    BY <1>1, <1>3 DEF ZonesApart, IsFree, Disjoint
  <2>2. \A c \in Used' : c.len > 0
    BY <1>1, <1>3 DEF ZonesApart
  <2>3. \A c \in execs' : EndOf(c) <= Reserve
    BY <1>1, <1>2 DEF ZonesApart
  <2>4. \A c \in fbs' : \E r \in Fb : FbStart[r] <= c.off /\ EndOf(c) <= FbStart[r] + fbTotal[r]
    BY <1>1, <1>2 DEF ZonesApart, FbWithin, FbEnd
  <2> QED
    BY <2>1, <2>2, <2>3, <2>4 DEF ZonesApart, FbEnd
<1> QED
  BY <1>1, <1>2, <1>3, <1>4, <1>5, <1>6 DEF IInv

(* The region of a fallback block holds all of it. *)
LEMMA FbOfBlock ==
  ASSUME IInv, NEW b \in fbs, NEW r \in Fb, InFb(r, b.off)
  PROVE  FbWithin(r, b)
<1>1. TypeOK /\ IramTiled /\ b \in Used
  BY DEF IInv, Used
<1>2. b \in Extent /\ b.off \in Nat /\ b.len \in Nat /\ b.len > 0 /\ EndOf(b) = b.off + b.len
  BY <1>1, BlockFacts
<1>3. PICK q \in Fb : FbWithin(q, b)
  BY DEF IInv, ZonesApart, FbWithin
<1>4. CASE q = r
  BY <1>3, <1>4
<1>5. CASE q # r
  <2>1. EndOf(b) <= FbStart[r] \/ FbEnd(r) <= b.off
    BY <1>1, <1>2, <1>3, <1>5, FbApart
  <2>2. FbStart[r] \in Nat /\ FbEnd(r) \in Nat
    BY <1>1, FbFacts
  <2> QED
    BY <1>2, <2>1, <2>2 DEF InFb
<1> QED
  BY <1>4, <1>5

LEMMA IShrinkSafe ==
  ASSUME IInv, NEW b \in Used, NEW bytes \in Nat \ {0}, IShrink(b, bytes)
  PROVE  IInv'
<1> DEFINE x == [off |-> b.off, len |-> bytes]
<1>1. TypeOK /\ b \in Extent /\ b.off \in Nat /\ b.len \in Nat /\ IsFree(Used \ {b}, b)
      /\ Used \ {b} \in SUBSET Extent /\ bytes < b.len /\ EndOf(b) = b.off + b.len
  BY BlockFacts DEF IInv, IShrink
<1>2. x \in Extent /\ x.off = b.off /\ x.len = bytes /\ EndOf(x) = b.off + bytes
  BY <1>1 DEF Extent, EndOf
<1> HIDE DEF x
<1>3. EndOf(x) <= EndOf(b) /\ EndOf(x) \in Nat /\ EndOf(b) \in Nat
  BY <1>1, <1>2
<1>4. IsFree(Used \ {b}, x)
  <2>1. b.off <= x.off
    BY <1>1, <1>2
  <2> QED
    BY <1>1, <1>2, <1>3, <2>1, PartFree
<1>5. b \in execs => EndOf(x) <= Reserve
  BY <1>3, IramLayoutAssumption DEF IInv, ZonesApart
<1>6. b \in fbs => \E r \in Fb : FbWithin(r, x)
  <2>1. SUFFICES ASSUME b \in fbs PROVE \E r \in Fb : FbWithin(r, x)
    OBVIOUS
  <2>2. PICK r \in Fb : FbWithin(r, b)
    BY <2>1 DEF IInv, ZonesApart, FbWithin
  <2>3. FbEnd(r) \in Nat
    BY <1>1, FbFacts
  <2> QED
    BY <1>2, <1>3, <2>2, <2>3 DEF FbWithin
<1>7. PICK n \in Nat : n = b.len - bytes
  BY <1>1
<1>8. fbFree' \in [Fb -> Nat] /\ fbCache' \in [Fb -> SUBSET Nat]
  <2>1. ASSUME NEW r \in Fb
        PROVE  Capped(fbFree[r] + BackToFb(b, n, r), fbTotal[r]) \in Nat
    <3>1. fbFree[r] \in Nat /\ fbTotal[r] \in Nat /\ BackToFb(b, n, r) \in Nat
      BY <1>1, FbFacts DEF BackToFb
    <3> QED
      BY <3>1 DEF Capped
  <2>2. fbFree' = [r \in Fb |-> Capped(fbFree[r] + BackToFb(b, n, r), fbTotal[r])]
    BY <1>7 DEF IShrink
  <2>3. fbCache' = [r \in Fb |-> IF BackToFb(b, n, r) > 0 THEN {} ELSE fbCache[r]]
    BY <1>7 DEF IShrink
  <2> QED
    BY <1>1, <2>1, <2>2, <2>3 DEF TypeOK
<1>9. execFree' \in Nat /\ iramFree' \in Nat /\ zoneFree' \in Nat
  <2>1. execFree' = BackToExec(b, n) /\ iramFree' = Capped(iramFree + n, iramEnd)
        /\ zoneFree' = BackToZone(b, n)
    BY <1>7 DEF IShrink
  <2> QED
    BY <1>1, <2>1, IramLayoutAssumption DEF TypeOK, BackToExec, BackToZone, Capped
<1>10. /\ execs' = Cutoff(execs, b, bytes) /\ fbs' = Cutoff(fbs, b, bytes)
       /\ UNCHANGED <<ibroken, iramEnd, icap, zoneTotal, fbTotal>>
  BY DEF IShrink
<1>11. x = [off |-> b.off, len |-> bytes]
  BY DEF x
<1> QED
  BY <1>4, <1>5, <1>6, <1>8, <1>9, <1>10, <1>11, IResizeSafe

(* Where a block grows to: over a free range right behind it, in its zone. *)
LEMMA IRoomFacts ==
  ASSUME IInv, NEW b \in Used, NEW bytes \in Nat \ {0}, b.len < bytes,
         NEW m \in IRoomBehind(b, bytes),
         NEW len, len = CutLen(b.len + m.gap.len, bytes, m.max),
         NEW x, x = [off |-> b.off, len |-> len]
  PROVE  /\ len \in Nat \ {0} /\ bytes <= len /\ x \in Extent
         /\ EndOf(x) = b.off + len /\ IsFree(Used \ {b}, x)
         /\ b \in execs => EndOf(x) <= Reserve
         /\ b \in fbs => \E r \in Fb : /\ InFb(r, b.off) /\ FbSizeOk(r, bytes)
                                       /\ FbWithin(r, x) /\ m.max = FbLimit(r)
                                       /\ FbMaxBytes = 0 \/ bytes <= FbMaxBytes
<1>1. /\ TypeOK /\ b \in Extent /\ b.off \in Nat /\ b.len \in Nat /\ b.len > 0
      /\ IsFree(Used \ {b}, b) /\ Used \in SUBSET Extent /\ EndOf(b) = b.off + b.len
  BY BlockFacts, UsedFacts DEF IInv
<1>2. /\ m.gap.off = EndOf(b) /\ bytes <= b.len + m.gap.len
      /\ b \in fbs => FbMaxBytes = 0 \/ bytes <= FbMaxBytes
      /\ \/ b \in execs /\ m.gap \in Gaps(Used, 0, Reserve)
         \/ \E r \in Fb : /\ b \in fbs /\ InFb(r, b.off) /\ FbSizeOk(r, bytes)
                          /\ m.max = FbLimit(r) /\ m.gap \in Gaps(Used, FbStart[r], FbEnd(r))
  <2>1. /\ m.gap.off = EndOf(b) /\ b.len + m.gap.len >= bytes
        /\ b \in fbs => FbMaxBytes = 0 \/ bytes <= FbMaxBytes
        /\ m \in {[gap |-> g, max |-> Unlimited] :
                     g \in IF b \in execs THEN Gaps(Used, 0, Reserve) ELSE {}}
               \cup UNION {{[gap |-> g, max |-> FbLimit(r)] : g \in Gaps(Used, FbStart[r], FbEnd(r))} :
                           r \in {q \in Fb : b \in fbs /\ InFb(q, b.off) /\ FbSizeOk(q, bytes)}}
    BY DEF IRoomBehind
  <2>2. CASE m \in {[gap |-> g, max |-> Unlimited] :
                      g \in IF b \in execs THEN Gaps(Used, 0, Reserve) ELSE {}}
    BY <2>1, <2>2
  <2>3. CASE m \in UNION {{[gap |-> g, max |-> FbLimit(r)] : g \in Gaps(Used, FbStart[r], FbEnd(r))} :
                           r \in {q \in Fb : b \in fbs /\ InFb(q, b.off) /\ FbSizeOk(q, bytes)}}
    BY <2>1, <2>3
  <2> QED
    BY <2>1, <2>2, <2>3
<1> DEFINE g == m.gap
<1>3. PICK lo \in Nat, hi \in Nat :
        /\ g \in Gaps(Used, lo, hi) /\ lo <= b.off
        /\ \/ b \in execs /\ hi = Reserve
           \/ \E r \in Fb : /\ b \in fbs /\ InFb(r, b.off) /\ FbSizeOk(r, bytes)
                            /\ m.max = FbLimit(r) /\ lo = FbStart[r] /\ hi = FbEnd(r)
  <2>1. CASE b \in execs /\ m.gap \in Gaps(Used, 0, Reserve)
    BY <1>1, <2>1, IramLayoutAssumption
  <2>2. CASE \E r \in Fb : /\ b \in fbs /\ InFb(r, b.off) /\ FbSizeOk(r, bytes)
                           /\ m.max = FbLimit(r) /\ m.gap \in Gaps(Used, FbStart[r], FbEnd(r))
    BY <1>1, <2>2, FbFacts DEF InFb
  <2> QED
    BY <1>2, <2>1, <2>2
<1>4. g \in Extent /\ IsFree(Used, g) /\ EndOf(g) <= hi
  BY <1>1, <1>3, GapSound
<1> HIDE DEF g
<1>5. g.off = EndOf(b) /\ g.len \in Nat /\ bytes <= b.len + g.len
      /\ len = CutLen(b.len + g.len, bytes, m.max)
  BY <1>2, <1>4 DEF g, Extent
<1>6. len \in Nat \ {0} /\ bytes <= len /\ len <= b.len + g.len
  BY <1>1, <1>5 DEF CutLen
<1>7. x.off = b.off /\ x.len = len /\ x \in Extent /\ EndOf(x) = b.off + len
  BY <1>1, <1>6 DEF Extent, EndOf
<1>8. EndOf(g) = b.off + b.len + g.len /\ EndOf(x) <= EndOf(g) /\ EndOf(x) <= hi
  BY <1>1, <1>4, <1>5, <1>6, <1>7 DEF EndOf
<1>9. IsFree(Used \ {b}, x)
  <2>1. ASSUME NEW c \in Used \ {b} PROVE Disjoint(c, x)
    <3>1. Disjoint(c, b) /\ Disjoint(c, g) /\ c.off \in Nat /\ c.len \in Nat /\ c.len > 0
      BY <1>1, <1>4, BlockFacts DEF IsFree
    <3> QED
      BY <1>1, <1>5, <1>6, <1>7, <1>8, <3>1 DEF Disjoint, EndOf
  <2> QED
    BY <2>1 DEF IsFree
<1>10. b \in execs => EndOf(x) <= Reserve
  BY <1>3, <1>8, KindsApart
<1>11. b \in fbs => \E r \in Fb : /\ InFb(r, b.off) /\ FbSizeOk(r, bytes)
                                  /\ FbWithin(r, x) /\ m.max = FbLimit(r)
                                  /\ FbMaxBytes = 0 \/ bytes <= FbMaxBytes
  BY <1>2, <1>3, <1>7, <1>8, KindsApart DEF FbWithin
<1> QED
  BY <1>6, <1>7, <1>9, <1>10, <1>11

LEMMA IRoomLen ==
  ASSUME IInv, NEW b, NEW bytes, NEW m \in IRoomBehind(b, bytes)
  PROVE  m.gap.len \in Nat
<1>1. \/ m.gap \in Gaps(Used, 0, Reserve)
      \/ \E r \in Fb : m.gap \in Gaps(Used, FbStart[r], FbEnd(r))
  <2>1. m \in {[gap |-> g, max |-> Unlimited] :
                 g \in IF b \in execs THEN Gaps(Used, 0, Reserve) ELSE {}}
           \cup UNION {{[gap |-> g, max |-> FbLimit(r)] : g \in Gaps(Used, FbStart[r], FbEnd(r))} :
                       r \in {q \in Fb : b \in fbs /\ InFb(q, b.off) /\ FbSizeOk(q, bytes)}}
    BY DEF IRoomBehind
  <2> QED
    BY <2>1
<1>2. Used \in SUBSET Extent /\ TypeOK
  BY UsedFacts DEF IInv
<1>3. m.gap \in Extent
  BY <1>1, <1>2, FbFacts, GapSound, IramLayoutAssumption
<1> QED
  BY <1>3 DEF Extent

LEMMA IExtendSafe ==
  ASSUME IInv, NEW b \in Used, NEW bytes \in Nat \ {0}, IExtend(b, bytes)
  PROVE  IInv'
<1>1. PICK m \in IRoomBehind(b, bytes) :
       LET len == CutLen(b.len + m.gap.len, bytes, m.max)
           taken(r) == BackToFb(b, len - b.len, r)
       IN /\ execs' = Cutoff(execs, b, len) /\ fbs' = Cutoff(fbs, b, len)
          /\ fbFree' = [r \in Fb |-> Less(fbFree[r], taken(r))]
          /\ fbCache' = [r \in Fb |-> IF taken(r) > 0 THEN {} ELSE fbCache[r]]
          /\ execFree' = IF b \in execs THEN Less(execFree, len - b.len) ELSE execFree
          /\ iramFree' = Less(iramFree, len - b.len)
          /\ zoneFree' = IF b \in fbs THEN Less(zoneFree, len - b.len) ELSE zoneFree
  BY DEF IExtend
<1>a. PICK len : len = CutLen(b.len + m.gap.len, bytes, m.max)
  OBVIOUS
<1>b. PICK x : x = [off |-> b.off, len |-> len]
  OBVIOUS
<1>2. b.len < bytes /\ UNCHANGED <<ibroken, iramEnd, icap, zoneTotal, fbTotal>>
  BY DEF IExtend
<1>3. /\ len \in Nat \ {0} /\ bytes <= len /\ IsFree(Used \ {b}, x)
      /\ b \in execs => EndOf(x) <= Reserve
      /\ b \in fbs => \E r \in Fb : FbWithin(r, x)
  <2>1. /\ len \in Nat \ {0} /\ bytes <= len /\ IsFree(Used \ {b}, x)
        /\ b \in execs => EndOf(x) <= Reserve
        /\ b \in fbs => \E r \in Fb : /\ InFb(r, b.off) /\ FbSizeOk(r, bytes)
                                      /\ FbWithin(r, x) /\ m.max = FbLimit(r)
                                      /\ FbMaxBytes = 0 \/ bytes <= FbMaxBytes
    BY <1>a, <1>b, <1>2, IRoomFacts
  <2>2. b \in fbs => \E r \in Fb : FbWithin(r, x)
    BY <2>1, Zenon
  <2> QED
    BY <2>1, <2>2, Zenon
<1>4. PICK n \in Nat : n = len - b.len
  <2>1. b.len \in Nat
    BY BlockFacts
  <2>2. len - b.len \in Nat
    BY <1>2, <1>3, <2>1
  <2> QED
    BY <2>2
<1>5. /\ execs' = Cutoff(execs, b, len) /\ fbs' = Cutoff(fbs, b, len)
      /\ fbFree' = [r \in Fb |-> Less(fbFree[r], BackToFb(b, n, r))]
      /\ fbCache' = [r \in Fb |-> IF BackToFb(b, n, r) > 0 THEN {} ELSE fbCache[r]]
      /\ execFree' = IF b \in execs THEN Less(execFree, n) ELSE execFree
      /\ iramFree' = Less(iramFree, n)
      /\ zoneFree' = IF b \in fbs THEN Less(zoneFree, n) ELSE zoneFree
  BY <1>a, <1>1, <1>4
<1>6. TypeOK
  BY DEF IInv
<1>7. fbFree' \in [Fb -> Nat]
  <2>1. ASSUME NEW r \in Fb PROVE Less(fbFree[r], BackToFb(b, n, r)) \in Nat
    BY <1>6, FbFacts, CappedType DEF BackToFb
  <2> QED
    BY <1>5, <2>1
<1>8. fbCache' \in [Fb -> SUBSET Nat]
  BY <1>5, <1>6 DEF TypeOK
<1>9. execFree' \in Nat /\ iramFree' \in Nat /\ zoneFree' \in Nat
  BY <1>5, <1>6, CappedType DEF TypeOK
<1> QED
  BY <1>b, <1>2, <1>3, <1>5, <1>7, <1>8, <1>9, IResizeSafe

(* What a search or a query leaves in a cache is a set of numbers. *)
LEMMA LearntType ==
  ASSUME TypeOK, NEW r \in Fb, NEW bytes
  PROVE  /\ LargestGap(Used, FbStart[r], FbEnd(r)) \in SUBSET Nat
         /\ FbOwnCache(r, bytes) \in SUBSET Nat
<1>1. LargestGap(Used, FbStart[r], FbEnd(r)) \in SUBSET Nat
  BY UsedFacts, FbFacts, LargestGapType
<1> QED
  BY <1>1, FbFacts DEF FbOwnCache, LearntLargest

LEMMA SearchedType ==
  ASSUME TypeOK, NEW own, NEW bytes
  PROVE  FbSearched(own, bytes) \in [Fb -> SUBSET Nat]
<1>1. ASSUME NEW r \in Fb
      PROVE  (IF r = own THEN FbOwnCache(r, bytes)
              ELSE IF FbReached(own, r, bytes) /\ FbCrossAllowed(r, bytes)
                   THEN LargestGap(Used, FbStart[r], FbEnd(r))
              ELSE fbCache[r]) \in SUBSET Nat
  BY LearntType, FbFacts
<1> QED
  BY <1>1 DEF FbSearched

LEMMA FbTakeSafe ==
  ASSUME IInv, NEW bytes \in Nat \ {0}, NEW x, FbTake(bytes, x)
  PROVE  IInv'
<1>1. PICK own \in Fb, r \in Fb : \E g \in FbFitting(r, bytes) :
           /\ x = FbCut(r, g, bytes) /\ ILands(x) /\ FbAdmits(bytes)
           /\ \/ r = own /\ FbSizeOk(r, bytes) /\ IPlace(x, FALSE, fbCache)
              \/ FbCrossAllowed(r, bytes) /\ IPlace(x, FALSE, FbSearched(own, bytes))
  BY FbTakeIsPlace
<1>2. PICK g \in FbFitting(r, bytes) :
           /\ x = FbCut(r, g, bytes) /\ ILands(x)
           /\ \/ IPlace(x, FALSE, fbCache)
              \/ IPlace(x, FALSE, FbSearched(own, bytes))
  BY <1>1
<1>3. x \in Extent /\ FbWithin(r, x)
  BY <1>2, FbCutSound
<1>4. fbCache \in [Fb -> SUBSET Nat] /\ FbSearched(own, bytes) \in [Fb -> SUBSET Nat]
  BY SearchedType DEF IInv, TypeOK
<1>5. PICK c \in [Fb -> SUBSET Nat] : IPlace(x, FALSE, c)
  BY <1>2, <1>4
<1> QED
  BY <1>2, <1>3, <1>5, IPlaceSafe

LEMMA TakeExecSafe ==
  ASSUME IInv, NEW bytes \in Nat \ {0}, NEW x, TakeExec(bytes, x)
  PROVE  IInv'
<1>1. x \in ExecFinds(bytes) /\ ILands(x) /\ IPlace(x, TRUE, fbCache)
  BY DEF TakeExec
<1>2. x \in Extent /\ EndOf(x) <= Reserve
  BY <1>1, ExecSound
<1>3. fbCache \in [Fb -> SUBSET Nat]
  BY DEF IInv, TypeOK
<1> QED
  BY <1>1, <1>2, <1>3, IPlaceSafe

(* A step that moves no block and no border. *)
LEMMA IQuietSafe ==
  ASSUME IInv, UNCHANGED <<execs, fbs, iramEnd, icap, zoneTotal, fbTotal, fbFree,
                           execFree, iramFree, zoneFree>>,
         ibroken' \subseteq Nat, fbCache' \in [Fb -> SUBSET Nat]
  PROVE  IInv'
<1>1. Used' = Used
  BY DEF Used
<1> QED
  BY <1>1 DEF IInv, TypeOK, IramTiled, ZonesApart, FbEnd

LEMMA IStepInv == IInv /\ [Next]_iramVars => IInv'
<1> SUFFICES ASSUME IInv, [Next]_iramVars PROVE IInv'
  OBVIOUS
<1>0. TypeOK /\ Requests \subseteq Nat \ {0}
  BY IramTableAssumption DEF IInv
<1>1. CASE \E bytes \in Requests : \E x \in ExecFinds(bytes) : TakeExec(bytes, x)
  BY <1>0, <1>1, TakeExecSafe
<1>2. CASE \E bytes \in Requests : \E x \in IAnswers(bytes) : FbTake(bytes, x)
  BY <1>0, <1>2, FbTakeSafe
<1>3. CASE \E bytes \in Requests : \E own \in Fb : FbRefuse(own, bytes)
  <2>1. PICK bytes \in Requests, own \in Fb : FbRefuse(own, bytes)
    BY <1>3
  <2>2. /\ fbCache' = FbSearched(own, bytes)
        /\ UNCHANGED <<execs, fbs, ibroken, iramEnd, icap, zoneTotal, fbTotal, fbFree,
                       execFree, iramFree, zoneFree>>
    BY <2>1 DEF FbRefuse
  <2>3. fbCache' \in [Fb -> SUBSET Nat] /\ ibroken' \subseteq Nat
    BY <1>0, <2>2, SearchedType DEF TypeOK
  <2> QED
    BY <2>2, <2>3, IQuietSafe
<1>4. CASE \E b \in Used : IRelease(b)
  BY <1>4, IReleaseSafe
<1>5. CASE \E b \in Used : \E bytes \in Requests : IShrink(b, bytes)
  BY <1>0, <1>5, IShrinkSafe
<1>6. CASE \E b \in Used : \E bytes \in Requests : IExtend(b, bytes)
  BY <1>0, <1>6, IExtendSafe
<1>7. CASE \E b \in Used : IOverrun(b)
  <2>1. PICK b \in Used : IOverrun(b)
    BY <1>7
  <2>2. b.off \in Nat
    BY BlockFacts
  <2>3. ibroken' \subseteq Nat /\ fbCache' \in [Fb -> SUBSET Nat]
    BY <1>0, <2>1, <2>2 DEF IOverrun, TypeOK
  <2> QED
    BY <2>1, <2>3, IQuietSafe DEF IOverrun
<1>8. CASE \E R \in SUBSET Fb : IInspect(R)
  <2>1. PICK R \in SUBSET Fb : IInspect(R)
    BY <1>8
  <2>2. ASSUME NEW r \in Fb
        PROVE  (IF r \in R /\ fbCache[r] = {}
                THEN LargestGap(Used, FbStart[r], FbEnd(r)) ELSE fbCache[r]) \in SUBSET Nat
    BY <1>0, LearntType, FbFacts
  <2>3. ibroken' \subseteq Nat /\ fbCache' \in [Fb -> SUBSET Nat]
    BY <1>0, <2>1, <2>2 DEF IInspect, TypeOK
  <2> QED
    BY <2>1, <2>3, IQuietSafe DEF IInspect
<1>9. CASE UNCHANGED iramVars
  BY <1>0, <1>9, IQuietSafe DEF iramVars, TypeOK
<1> QED
  BY <1>1, <1>2, <1>3, <1>4, <1>5, <1>6, <1>7, <1>8, <1>9 DEF Next

LEMMA IInitInv == Init => IInv
<1> SUFFICES ASSUME Init PROVE IInv
  OBVIOUS
<1>1. /\ Reserve \in Nat /\ NFb \in Nat /\ IramInit \in Nat /\ Reserve <= IramInit
      /\ IInitCap \in Nat /\ IramInit - Reserve \in Nat
  <2>1. Reserve \in Nat /\ NFb \in Nat /\ IramInit \in Nat /\ Reserve <= IramInit
    BY IramLayoutAssumption
  <2> QED
    BY <2>1, DeltaFacts
<1>2. ASSUME NEW r \in Fb
      PROVE  /\ fbTotal[r] = (IF r = FbLast THEN IramInit ELSE FbStart[r + 1]) - FbStart[r]
             /\ fbTotal[r] \in Nat /\ FbStart[r] \in Nat
             /\ (IF r = FbLast THEN IramInit ELSE FbStart[r + 1]) \in Nat
  <2>1. FbStart[r] \in Nat /\ FbStart[r] <= IramInit
    BY IramLayoutAssumption
  <2>2. fbTotal[r] = (IF r = FbLast THEN IramInit ELSE FbStart[r + 1]) - FbStart[r]
    BY DEF Init
  <2>3. r # FbLast => FbStart[r + 1] \in Nat /\ FbStart[r] <= FbStart[r + 1]
    <3>1. r # FbLast => r + 1 \in Fb /\ r < r + 1
      BY <1>1 DEF Fb, FbLast
    <3> QED
      BY <3>1, IramLayoutAssumption
  <2> QED
    BY <1>1, <2>1, <2>2, <2>3
<1>3. TypeOK
  <2>1. fbTotal \in [Fb -> Nat]
    BY <1>2 DEF Init
  <2>2. fbCache \in [Fb -> SUBSET Nat]
    BY <1>2 DEF Init
  <2> QED
    BY <1>1, <2>1, <2>2, FS_EmptySet DEF Init, TypeOK
<1>4. IramTiled
  <2>1. ASSUME NEW r \in Fb PROVE FbEnd(r) = IF r = FbLast THEN iramEnd ELSE FbStart[r + 1]
    BY <1>1, <1>2 DEF Init, FbEnd
  <2> QED
    BY <2>1 DEF Init, IramTiled
<1>5. ZonesApart
  BY DEF Init, ZonesApart, Used
<1> QED
  BY <1>3, <1>4, <1>5 DEF IInv

THEOREM IramSafety == Spec => []IInv
BY IInitInv, IStepInv, PTL DEF Spec

(* Types, for every layout of the zones and every table: no counter, zone   *)
(* or region goes below zero when the table takes bytes of the last region. *)
THEOREM IramTypeCorrect == Spec => []TypeOK
<1>1. IInv => TypeOK
  BY DEF IInv
<1> QED
  BY <1>1, IramSafety, PTL

(* Whatever the table takes and gives back, the zones tile the arena and    *)
(* the regions the fallback zone, and a dynamic table fills the rest.       *)
THEOREM IramZonesTile == Spec => []IramTiled
<1>1. IInv => IramTiled
  BY DEF IInv
<1> QED
  BY <1>1, IramSafety, PTL

(* No EXEC block leaves its zone, no fallback block enters it, crosses a    *)
(* region's border or reaches into the table, and no two blocks share a     *)
(* byte, however requests, frees and in-place resizing alternate.           *)
THEOREM IramBlocksApart == Spec => []ZonesApart
<1>1. IInv => ZonesApart
  BY DEF IInv
<1> QED
  BY <1>1, IramSafety, PTL

-----------------------------------------------------------------------------
(* The occupancy of the table. *)

(* Only a dynamic table next to fallback regions leaves its first capacity, *)
(* and only by whole chunks.                                                *)
IChunks == \E k \in Nat : /\ icap = IInitCap + k * DescChunk
                          /\ k > 0 => IDynamic /\ NFb > 0

ITableInv == IInv /\ ITableFits /\ IChunks

LEMMA CardFacts ==
  ASSUME IInv, NEW b \in Used
  PROVE  /\ Cardinality(Used) \in Nat /\ Cardinality(Used \ {b}) \in Nat
         /\ Cardinality(Used \ {b}) = Cardinality(Used) - 1
         /\ \A x : x \notin Used \ {b} => Cardinality((Used \ {b}) \cup {x}) = Cardinality(Used)
<1>1. IsFiniteSet(Used) /\ Cardinality(Used) \in Nat
  BY UsedFacts DEF IInv
<1>2. IsFiniteSet(Used \ {b}) /\ Cardinality(Used \ {b}) = Cardinality(Used) - 1
  BY <1>1, FS_RemoveElement
<1>3. Cardinality(Used \ {b}) \in Nat
  BY <1>2, FS_CardinalityType
<1>4. ASSUME NEW x, x \notin Used \ {b}
      PROVE  Cardinality((Used \ {b}) \cup {x}) = Cardinality(Used)
  <2>1. Cardinality((Used \ {b}) \cup {x}) = Cardinality(Used \ {b}) + 1
    BY <1>2, <1>4, FS_AddElement
  <2> QED
    BY <1>1, <1>2, <1>3, <2>1
<1> QED
  BY <1>1, <1>2, <1>3, <1>4

LEMMA ITableStill ==
  ASSUME ITableInv, IInv', icap' = icap, Cardinality(Used') = Cardinality(Used)
  PROVE  ITableInv'
BY DEF ITableInv, ITableFits, IChunks

LEMMA ITablePlace ==
  ASSUME ITableInv, IInv', NEW x \in Extent, ILands(x), NEW isExec \in BOOLEAN, NEW c,
         IPlace(x, isExec, c)
  PROVE  ITableInv'
<1>1. x \notin Used
  BY DEF ILands, IsFree, Disjoint, EndOf, Extent
<1>2. Used' = Used \cup {x}
  BY DEF IPlace, Used
<1>3. /\ icap \in Nat /\ Cardinality(Used) \in Nat /\ IsFiniteSet(Used)
      /\ IInitCap \in Nat /\ DescChunk \in Nat /\ DescChunk > 0 /\ IMaxDesc \in Nat
  BY UsedFacts, DeltaFacts DEF ITableInv, IInv, TypeOK
<1>4. Cardinality(Used') = Cardinality(Used) + 1
  BY <1>1, <1>2, <1>3, FS_AddElement
<1>5. /\ Cardinality(Used) <= icap /\ icap <= IMaxDesc
      /\ icap = IInitCap \/ icap - Cardinality(Used) < 2 * DescChunk
  BY DEF ITableInv, ITableFits
<1>6. PICK k \in Nat : icap = IInitCap + k * DescChunk /\ (k > 0 => IDynamic /\ NFb > 0)
  BY DEF ITableInv, IChunks
<1>7. CASE ITableFull
  <2>1. icap' = icap + DescChunk /\ icap + DescChunk <= IMaxDesc /\ IDynamic /\ NFb > 0
    BY <1>7 DEF IPlace, ILands, ICanGrowFor
  <2>2. Cardinality(Used) = icap
    BY <1>3, <1>5, <1>7 DEF ITableFull
  <2>3. ITableFits'
    BY <1>3, <1>4, <2>1, <2>2 DEF ITableFits
  <2>4. (k + 1) * DescChunk = k * DescChunk + DescChunk
    BY <1>3
  <2>5. icap' = IInitCap + (k + 1) * DescChunk /\ k + 1 \in Nat
    BY <1>3, <1>6, <2>1, <2>4
  <2>6. IChunks'
    BY <2>1, <2>5 DEF IChunks
  <2> QED
    BY <2>3, <2>6 DEF ITableInv
<1>8. CASE ~ITableFull
  <2>1. icap' = icap /\ Cardinality(Used) < icap
    BY <1>3, <1>8 DEF IPlace, ITableFull
  <2>2. ITableFits'
    BY <1>3, <1>4, <1>5, <2>1 DEF ITableFits
  <2> QED
    BY <2>1, <2>2 DEF ITableInv, IChunks
<1> QED
  BY <1>7, <1>8

LEMMA ITableRelease ==
  ASSUME ITableInv, IInv', NEW b \in Used, IRelease(b)
  PROVE  ITableInv'
<1>1. Used' = Used \ {b}
  BY DEF IRelease, Used
<1>2. /\ icap \in Nat /\ Cardinality(Used) \in Nat /\ Cardinality(Used') \in Nat
      /\ Cardinality(Used') = Cardinality(Used) - 1
      /\ IInitCap \in Nat /\ DescChunk \in Nat /\ DescChunk > 0 /\ IMaxDesc \in Nat
  BY <1>1, CardFacts, DeltaFacts DEF ITableInv, IInv, TypeOK
<1>3. /\ Cardinality(Used) <= icap /\ icap <= IMaxDesc
      /\ icap = IInitCap \/ icap - Cardinality(Used) < 2 * DescChunk
  BY DEF ITableInv, ITableFits
<1>4. PICK k \in Nat : icap = IInitCap + k * DescChunk /\ (k > 0 => IDynamic /\ NFb > 0)
  BY DEF ITableInv, IChunks
<1>5. CASE ITableSlack(Used \ {b})
  <2>1. /\ icap' = icap - DescChunk /\ icap > IInitCap /\ IDynamic /\ NFb > 0
        /\ icap - Cardinality(Used') >= 2 * DescChunk
    BY <1>1, <1>5, DeltaFacts DEF IRelease, ITableSlack
  <2>2. ITableFits'
    BY <1>2, <1>3, <2>1 DEF ITableFits
  <2>3. k # 0
    BY <1>2, <1>4, <2>1
  <2>4. PICK j \in Nat : j = k - 1
    BY <2>3
  <2>5. k * DescChunk = j * DescChunk + DescChunk /\ j * DescChunk \in Nat
    <3>1. k = j + 1
      BY <2>4
    <3>2. (j + 1) * DescChunk = j * DescChunk + DescChunk /\ j * DescChunk \in Nat
      BY <1>2
    <3> QED
      BY <3>1, <3>2
  <2>6. icap' = IInitCap + j * DescChunk
    BY <1>2, <1>4, <2>1, <2>5
  <2>7. IChunks'
    BY <2>1, <2>6 DEF IChunks
  <2> QED
    BY <2>2, <2>7 DEF ITableInv
<1>6. CASE ~ITableSlack(Used \ {b})
  <2>1. icap' = icap
    BY <1>6 DEF IRelease
  <2>2. icap # IInitCap => /\ icap > IInitCap /\ IDynamic /\ NFb > 0
    <3>1. SUFFICES ASSUME icap # IInitCap PROVE icap > IInitCap /\ IDynamic /\ NFb > 0
      OBVIOUS
    <3>2. k * DescChunk \in Nat /\ k * DescChunk # 0
      BY <1>2, <1>4, <3>1
    <3>3. k # 0
      BY <1>2, <3>2
    <3> QED
      BY <1>2, <1>4, <3>2, <3>3
  <2>3. ITableFits'
    BY <1>1, <1>2, <1>3, <1>6, <2>1, <2>2 DEF ITableFits, ITableSlack
  <2> QED
    BY <2>1, <2>3 DEF ITableInv, IChunks
<1> QED
  BY <1>5, <1>6

(* What a resize in place does: b becomes x, which starts where b did; a    *)
(* growth takes n bytes of the gap behind b.                                *)
ResizedTo(b, x) ==
  /\ IInv' /\ x \in Extent /\ x.off = b.off
  /\ Used' = (Used \ {b}) \cup {x}
  /\ x \notin Used \ {b} /\ IsFree(Used \ {b}, x)
  /\ execs' = IF b \in execs THEN (execs \ {b}) \cup {x} ELSE execs
  /\ fbs' = IF b \in fbs THEN (fbs \ {b}) \cup {x} ELSE fbs

GrownTo(b, bytes, m, x, n) ==
  /\ m \in IRoomBehind(b, bytes)
  /\ b.len < bytes /\ x.len = CutLen(b.len + m.gap.len, bytes, m.max)
  /\ n \in Nat \ {0} /\ n = x.len - b.len
  /\ fbFree' = [r \in Fb |-> Less(fbFree[r], BackToFb(b, n, r))]
  /\ fbCache' = [r \in Fb |-> IF BackToFb(b, n, r) > 0 THEN {} ELSE fbCache[r]]
  /\ execFree' = IF b \in execs THEN Less(execFree, n) ELSE execFree
  /\ iramFree' = Less(iramFree, n)
  /\ UNCHANGED <<ibroken, iramEnd, icap, zoneTotal, fbTotal>>

LEMMA IShrinkIsResize ==
  ASSUME IInv, NEW b \in Used, NEW bytes \in Nat \ {0}, IShrink(b, bytes),
         NEW x, x = [off |-> b.off, len |-> bytes]
  PROVE  ResizedTo(b, x)
<1>1. IInv'
  BY IShrinkSafe
<1>2. b \in Extent /\ b.off \in Nat
  BY BlockFacts
<1>3. x \in Extent /\ x.off = b.off
  BY <1>2 DEF Extent
<1>4. /\ execs' = IF b \in execs THEN (execs \ {b}) \cup {x} ELSE execs
      /\ fbs' = IF b \in fbs THEN (fbs \ {b}) \cup {x} ELSE fbs
  BY DEF IShrink, Cutoff
<1>5. Used' = (Used \ {b}) \cup {x}
  BY <1>4, KindsApart DEF Used
<1>6. x \notin Used \ {b}
  BY <1>3, IOffsetIsKey
<1>7. IsFree(Used \ {b}, x)
  BY <1>1, <1>5, <1>6 DEF IInv, ZonesApart, IsFree
<1> QED
  BY <1>1, <1>3, <1>4, <1>5, <1>6, <1>7 DEF ResizedTo

LEMMA IExtendIsResize ==
  ASSUME IInv, NEW b \in Used, NEW bytes \in Nat \ {0}, IExtend(b, bytes)
  PROVE  \E m, x, n : ResizedTo(b, x) /\ GrownTo(b, bytes, m, x, n)
<1>1. PICK m \in IRoomBehind(b, bytes) :
       LET len == CutLen(b.len + m.gap.len, bytes, m.max)
           taken(r) == BackToFb(b, len - b.len, r)
       IN /\ execs' = Cutoff(execs, b, len) /\ fbs' = Cutoff(fbs, b, len)
          /\ fbFree' = [r \in Fb |-> Less(fbFree[r], taken(r))]
          /\ fbCache' = [r \in Fb |-> IF taken(r) > 0 THEN {} ELSE fbCache[r]]
          /\ execFree' = IF b \in execs THEN Less(execFree, len - b.len) ELSE execFree
          /\ iramFree' = Less(iramFree, len - b.len)
  BY DEF IExtend
<1>2. b.len < bytes /\ UNCHANGED <<ibroken, iramEnd, icap, zoneTotal, fbTotal>>
  BY DEF IExtend
<1>3. PICK len : len = CutLen(b.len + m.gap.len, bytes, m.max)
  OBVIOUS
<1>4. PICK x : x = [off |-> b.off, len |-> len]
  OBVIOUS
<1>5. len \in Nat \ {0} /\ bytes <= len /\ x \in Extent /\ IsFree(Used \ {b}, x)
  BY <1>2, <1>3, <1>4, IRoomFacts
<1>6. PICK n \in Nat : n = len - b.len /\ n > 0
  <2>1. b.len \in Nat
    BY BlockFacts
  <2>2. len - b.len \in Nat /\ len - b.len > 0
    BY <1>2, <1>5, <2>1
  <2> QED
    BY <2>2
<1>7. /\ execs' = IF b \in execs THEN (execs \ {b}) \cup {x} ELSE execs
      /\ fbs' = IF b \in fbs THEN (fbs \ {b}) \cup {x} ELSE fbs
  BY <1>1, <1>3, <1>4 DEF Cutoff
<1>8. Used' = (Used \ {b}) \cup {x}
  BY <1>7, KindsApart DEF Used
<1>9. x \notin Used \ {b}
  BY <1>4, IOffsetIsKey
<1>10. IInv'
  BY IExtendSafe
<1>11. /\ fbFree' = [r \in Fb |-> Less(fbFree[r], BackToFb(b, n, r))]
       /\ fbCache' = [r \in Fb |-> IF BackToFb(b, n, r) > 0 THEN {} ELSE fbCache[r]]
       /\ execFree' = IF b \in execs THEN Less(execFree, n) ELSE execFree
       /\ iramFree' = Less(iramFree, n)
  BY <1>1, <1>3, <1>6
<1>12. ResizedTo(b, x)
  BY <1>4, <1>5, <1>7, <1>8, <1>9, <1>10 DEF ResizedTo
<1>13. x.len = len
  BY <1>4
<1>14. GrownTo(b, bytes, m, x, n)
  BY <1>1, <1>2, <1>3, <1>6, <1>11, <1>13 DEF GrownTo
<1> QED
  BY <1>12, <1>14

LEMMA ITableStep == ITableInv /\ [Next]_iramVars => ITableInv'
<1> SUFFICES ASSUME ITableInv, [Next]_iramVars PROVE ITableInv'
  OBVIOUS
<1>0. IInv /\ IInv' /\ Requests \subseteq Nat \ {0}
  BY IStepInv, IramTableAssumption DEF ITableInv
<1>1. CASE \E bytes \in Requests : \E x \in ExecFinds(bytes) : TakeExec(bytes, x)
  <2>0. PICK bytes \in Requests : \E x \in ExecFinds(bytes) : TakeExec(bytes, x)
    BY <1>1
  <2>1. PICK x \in ExecFinds(bytes) : TakeExec(bytes, x)
    BY <2>0
  <2>2. x \in Extent /\ ILands(x) /\ IPlace(x, TRUE, fbCache)
    BY <1>0, <2>1, ExecSound DEF TakeExec
  <2> QED
    BY <1>0, <2>2, ITablePlace
<1>2. CASE \E bytes \in Requests : \E x \in IAnswers(bytes) : FbTake(bytes, x)
  <2>0. PICK bytes \in Requests : \E x \in IAnswers(bytes) : FbTake(bytes, x)
    BY <1>2
  <2>1. PICK x \in IAnswers(bytes) : FbTake(bytes, x)
    BY <2>0
  <2>2. PICK own \in Fb, r \in Fb : \E g \in FbFitting(r, bytes) :
           /\ x = FbCut(r, g, bytes) /\ ILands(x)
           /\ \/ IPlace(x, FALSE, fbCache)
              \/ IPlace(x, FALSE, FbSearched(own, bytes))
    BY <1>0, <2>1, FbTakeIsPlace
  <2>3. x \in Extent
    BY <1>0, <2>2, FbCutSound
  <2> QED
    BY <1>0, <2>2, <2>3, ITablePlace
<1>3. CASE \E bytes \in Requests : \E own \in Fb : FbRefuse(own, bytes)
  BY <1>0, <1>3, ITableStill DEF FbRefuse, Used
<1>4. CASE \E b \in Used : IRelease(b)
  BY <1>0, <1>4, ITableRelease
<1>5. CASE \E b \in Used : \E bytes \in Requests : IShrink(b, bytes)
  <2>1. PICK b \in Used, bytes \in Requests : IShrink(b, bytes)
    BY <1>5
  <2>2. PICK x : x = [off |-> b.off, len |-> bytes]
    OBVIOUS
  <2>a. bytes \in Nat \ {0}
    BY <1>0
  <2>3. Used' = (Used \ {b}) \cup {x} /\ x \notin Used \ {b}
    <3>1. ResizedTo(b, x)
      BY <1>0, <2>a, <2>1, <2>2, IShrinkIsResize
    <3> QED
      BY <3>1 DEF ResizedTo
  <2>4. icap' = icap
    BY <2>1 DEF IShrink
  <2> QED
    BY <1>0, <2>3, <2>4, CardFacts, ITableStill
<1>6. CASE \E b \in Used : \E bytes \in Requests : IExtend(b, bytes)
  <2>1. PICK b \in Used, bytes \in Requests : IExtend(b, bytes)
    BY <1>6
  <2>a. bytes \in Nat \ {0} /\ IInv
    BY <1>0
  <2>2. PICK m, x, n : ResizedTo(b, x) /\ GrownTo(b, bytes, m, x, n)
    BY <2>a, <2>1, IExtendIsResize
  <2>3. Used' = (Used \ {b}) \cup {x} /\ x \notin Used \ {b} /\ icap' = icap
    BY <2>2 DEF ResizedTo, GrownTo
  <2> QED
    BY <1>0, <2>3, CardFacts, ITableStill
<1>7. CASE \E b \in Used : IOverrun(b)
  BY <1>0, <1>7, ITableStill DEF IOverrun, Used
<1>8. CASE \E R \in SUBSET Fb : IInspect(R)
  BY <1>0, <1>8, ITableStill DEF IInspect, Used
<1>9. CASE UNCHANGED iramVars
  BY <1>0, <1>9, ITableStill DEF iramVars, Used
<1> QED
  BY <1>1, <1>2, <1>3, <1>4, <1>5, <1>6, <1>7, <1>8, <1>9 DEF Next

LEMMA ITableInit == Init => ITableInv
<1> SUFFICES ASSUME Init PROVE ITableInv
  OBVIOUS
<1>1. IInv /\ icap = IInitCap /\ Used = {}
  BY IInitInv DEF Init, Used
<1>2. Cardinality(Used) = 0
  BY <1>1, FS_EmptySet
<1>3. ITableFits
  BY <1>1, <1>2, DeltaFacts DEF ITableFits
<1>4. IChunks
  <2>1. 0 * DescChunk = 0
    BY DeltaFacts
  <2>2. icap = IInitCap + 0 * DescChunk
    BY <1>1, <2>1, DeltaFacts
  <2> QED
    BY <2>2 DEF IChunks
<1> QED
  BY <1>1, <1>3, <1>4 DEF ITableInv

(* The table of the IRAM arena never holds more blocks than slots and never *)
(* outgrows its limit; once grown it keeps less than two spare chunks.      *)
THEOREM IramTableNeverOverflows == Spec => []ITableFits
<1>1. ITableInv => ITableFits
  BY DEF ITableInv
<1> QED
  BY <1>1, ITableInit, ITableStep, PTL DEF Spec

-----------------------------------------------------------------------------
(* The limits on fallback blocks. *)

LEMMA FbUnique ==
  ASSUME IInv, NEW r \in Fb, NEW q \in Fb, NEW off \in Nat, InFb(r, off), InFb(q, off)
  PROVE  r = q
<1> SUFFICES ASSUME r # q PROVE FALSE
  OBVIOUS
<1> DEFINE y == [off |-> off, len |-> 1]
<1>1. y \in Extent /\ y.off = off /\ EndOf(y) = off + 1
  BY DEF Extent, EndOf
<1> HIDE DEF y
<1>2. TypeOK /\ IramTiled /\ FbEnd(r) \in Nat /\ FbEnd(q) \in Nat /\ FbStart[q] \in Nat
  BY FbFacts DEF IInv
<1>3. FbWithin(r, y)
  BY <1>1, <1>2 DEF InFb, FbWithin
<1>4. EndOf(y) <= FbStart[q] \/ FbEnd(q) <= y.off
  BY <1>1, <1>2, <1>3, FbApart
<1> QED
  BY <1>1, <1>2, <1>4 DEF InFb

(* The regions with a class bound are not the last: their ends stay. *)
LEMMA FbBoundedStay ==
  ASSUME IInv, IInv', NEW r \in Fb, FbMax[r] # Unlimited
  PROVE  \A off : InFb(r, off)' <=> InFb(r, off)
<1>1. r # FbLast
  BY IramLayoutAssumption
<1>2. FbEnd(r) = FbStart[r + 1] /\ FbEnd(r)' = FbStart[r + 1]
  BY <1>1 DEF IInv, IramTiled
<1> QED
  BY <1>2 DEF InFb

(* An expansion over a sliver stays within both limits. *)
LEMMA FbLimitBound ==
  ASSUME NEW r \in Fb, NEW gap \in Nat, NEW bytes \in Nat,
         NEW len, len = bytes \/ len = CutLen(gap, bytes, FbLimit(r)),
         FbMaxBytes = 0 \/ bytes <= FbMaxBytes
  PROVE  /\ FbMaxBytes # 0 => len <= FbMaxBytes
         /\ FbMax[r] # Unlimited /\ bytes <= FbMax[r] => len <= FbMax[r]
<1>1. FbMax[r] \in Nat /\ FbMaxBytes \in Nat
  BY IramLayoutAssumption, IramTableAssumption
<1> QED
  BY <1>1 DEF CutLen, FbLimit, Unlimited

(* One new or resized block within the limits leaves them intact. *)
LEMMA LimitKept ==
  ASSUME IInv, IInv', FbLimitKept, NEW x \in Extent, NEW r \in Fb, InFb(r, x.off),
         FbMaxBytes # 0 => x.len <= FbMaxBytes,
         IGuardNum > 0 /\ FbMax[r] # Unlimited => x.len <= FbMax[r],
         fbs' \subseteq fbs \cup {x}
  PROVE  FbLimitKept'
<1> SUFFICES ASSUME NEW b \in fbs'
             PROVE  /\ FbMaxBytes # 0 => b.len <= FbMaxBytes
                    /\ \A q \in Fb : IGuardNum > 0 /\ InFb(q, b.off)' /\ FbMax[q] # Unlimited
                                       => b.len <= FbMax[q]
  BY DEF FbLimitKept
<1>1. CASE b \in fbs
  BY <1>1, FbBoundedStay DEF FbLimitKept
<1>2. CASE b = x
  <2>1. ASSUME NEW q \in Fb, IGuardNum > 0, InFb(q, b.off)', FbMax[q] # Unlimited
        PROVE  b.len <= FbMax[q]
    <3>1. InFb(q, b.off)
      BY <2>1, FbBoundedStay
    <3>2. q = r
      BY <1>2, <3>1, FbUnique DEF Extent
    <3> QED
      BY <1>2, <2>1, <3>2
  <2> QED
    BY <1>2, <2>1
<1> QED
  BY <1>1, <1>2

LEMMA LimitStill ==
  ASSUME IInv, IInv', FbLimitKept, fbs' \subseteq fbs
  PROVE  FbLimitKept'
<1> SUFFICES ASSUME NEW b \in fbs'
             PROVE  /\ FbMaxBytes # 0 => b.len <= FbMaxBytes
                    /\ \A q \in Fb : IGuardNum > 0 /\ InFb(q, b.off)' /\ FbMax[q] # Unlimited
                                       => b.len <= FbMax[q]
  BY DEF FbLimitKept
<1> QED
  BY FbBoundedStay DEF FbLimitKept

LEMMA LimitTake ==
  ASSUME IInv, IInv', FbLimitKept, NEW bytes \in Nat \ {0}, NEW x, FbTake(bytes, x)
  PROVE  FbLimitKept'
<1>1. PICK own \in Fb, r \in Fb : \E g \in FbFitting(r, bytes) :
           /\ x = FbCut(r, g, bytes) /\ ILands(x) /\ FbAdmits(bytes)
           /\ \/ r = own /\ FbSizeOk(r, bytes) /\ IPlace(x, FALSE, fbCache)
              \/ FbCrossAllowed(r, bytes) /\ IPlace(x, FALSE, FbSearched(own, bytes))
  BY FbTakeIsPlace
<1>2. PICK g \in FbFitting(r, bytes) :
           /\ x = FbCut(r, g, bytes) /\ ILands(x) /\ FbAdmits(bytes)
           /\ FbSizeOk(r, bytes) \/ FbCrossAllowed(r, bytes)
           /\ fbs' = fbs \cup {x}
  BY <1>1 DEF IPlace
<1>3. /\ x \in Extent /\ FbWithin(r, x) /\ x.len > 0 /\ g \in Extent
      /\ x.len = bytes \/ x.len = CutLen(g.len, bytes, FbLimit(r))
  BY <1>2, FbCutSound DEF ILands
<1>4. FbMax[r] \in Nat /\ FbStart[r] \in Nat /\ FbEnd(r) \in Nat
  BY FbFacts DEF IInv
<1>5. InFb(r, x.off)
  BY <1>3, <1>4 DEF InFb, FbWithin, EndOf, Extent
<1>6. IGuardNum > 0 /\ FbMax[r] # Unlimited => bytes <= FbMax[r]
  <2>1. CASE FbSizeOk(r, bytes)
    BY <2>1 DEF FbSizeOk
  <2>2. CASE FbCrossAllowed(r, bytes)
    <3>1. (FbMax[r] * IGuardNum) \div IGuardDen <= FbMax[r]
          /\ (FbMax[r] * IGuardNum) \div IGuardDen \in Int
      BY <1>4, ShareBound, IramTableAssumption
    <3>2. IGuardNum > 0 /\ FbMax[r] # Unlimited
            => bytes <= (FbMax[r] * IGuardNum) \div IGuardDen
      BY <2>2, IramTableAssumption DEF FbCrossAllowed
    <3> QED
      BY <1>4, <3>1, <3>2
  <2> QED
    BY <1>2, <2>1, <2>2
<1>7. FbMaxBytes = 0 \/ bytes <= FbMaxBytes
  BY <1>2 DEF FbAdmits
<1>8. /\ FbMaxBytes # 0 => x.len <= FbMaxBytes
      /\ FbMax[r] # Unlimited /\ bytes <= FbMax[r] => x.len <= FbMax[r]
  <2>1. g.len \in Nat
    BY <1>3 DEF Extent
  <2> QED
    BY <1>3, <1>7, <2>1, FbLimitBound
<1> QED
  BY <1>2, <1>3, <1>5, <1>6, <1>8, LimitKept

LEMMA LimitShrink ==
  ASSUME IInv, IInv', FbLimitKept, NEW b \in Used, NEW bytes \in Nat \ {0}, IShrink(b, bytes)
  PROVE  FbLimitKept'
<1>1. PICK x : x = [off |-> b.off, len |-> bytes]
  OBVIOUS
<1>5. ResizedTo(b, x)
  BY <1>1, IShrinkIsResize
<1>2. x \in Extent /\ fbs' = IF b \in fbs THEN (fbs \ {b}) \cup {x} ELSE fbs
  BY <1>5 DEF ResizedTo
<1>3. CASE b \notin fbs
  BY <1>2, <1>3, LimitStill
<1>4. CASE b \in fbs
  <2>1. PICK r \in Fb : InFb(r, b.off) /\ FbSizeOk(r, bytes)
    BY <1>4 DEF IShrink, FbInPlace
  <2>2. x.off = b.off /\ x.len = bytes /\ bytes < b.len /\ b.len \in Nat
    BY <1>1, BlockFacts DEF IShrink
  <2>3. FbMaxBytes # 0 => x.len <= FbMaxBytes
    <3>1. FbMaxBytes # 0 => b.len <= FbMaxBytes
      BY <1>4 DEF FbLimitKept
    <3>2. FbMaxBytes \in Nat
      BY IramTableAssumption
    <3> QED
      BY <2>2, <3>1, <3>2
  <2>4. FbMax[r] # Unlimited => x.len <= FbMax[r]
    BY <2>1, <2>2 DEF FbSizeOk
  <2>5. fbs' \subseteq fbs \cup {x} /\ InFb(r, x.off)
    BY <1>2, <2>1, <2>2
  <2> QED
    BY <1>2, <2>3, <2>4, <2>5, LimitKept
<1> QED
  BY <1>3, <1>4

LEMMA LimitExtend ==
  ASSUME IInv, IInv', FbLimitKept, NEW b \in Used, NEW bytes \in Nat \ {0}, IExtend(b, bytes)
  PROVE  FbLimitKept'
<1>4. PICK m, x, n : ResizedTo(b, x) /\ GrownTo(b, bytes, m, x, n)
  BY IExtendIsResize
<1>1. /\ m \in IRoomBehind(b, bytes)
      /\ b.len < bytes /\ x.len = CutLen(b.len + m.gap.len, bytes, m.max)
      /\ x \in Extent /\ x.off = b.off
      /\ fbs' = IF b \in fbs THEN (fbs \ {b}) \cup {x} ELSE fbs
  BY <1>4 DEF ResizedTo, GrownTo
<1>2. CASE b \notin fbs
  BY <1>1, <1>2, LimitStill
<1>3. CASE b \in fbs
  <2>1. PICK r \in Fb : /\ InFb(r, b.off) /\ FbSizeOk(r, bytes) /\ m.max = FbLimit(r)
                        /\ FbMaxBytes = 0 \/ bytes <= FbMaxBytes
    BY <1>1, <1>3, IRoomFacts
  <2>2. PICK gap \in Nat : gap = b.len + m.gap.len
    <3>1. b.len \in Nat
      BY BlockFacts
    <3>2. m.gap.len \in Nat
      BY <1>1, IRoomLen
    <3> QED
      BY <3>1, <3>2
  <2>3. /\ FbMaxBytes # 0 => x.len <= FbMaxBytes
        /\ FbMax[r] # Unlimited /\ bytes <= FbMax[r] => x.len <= FbMax[r]
    BY <1>1, <2>1, <2>2, FbLimitBound
  <2>4. x.off = b.off /\ fbs' \subseteq fbs \cup {x}
    BY <1>1
  <2>5. FbMax[r] # Unlimited => bytes <= FbMax[r]
    BY <2>1 DEF FbSizeOk
  <2> QED
    BY <1>1, <2>1, <2>3, <2>4, <2>5, LimitKept
<1> QED
  BY <1>2, <1>3

LEMMA LimitStep == IInv /\ FbLimitKept /\ [Next]_iramVars => FbLimitKept'
<1> SUFFICES ASSUME IInv, FbLimitKept, [Next]_iramVars PROVE FbLimitKept'
  OBVIOUS
<1>0. IInv' /\ Requests \subseteq Nat \ {0}
  BY IStepInv, IramTableAssumption
<1>1. CASE \E bytes \in Requests : \E x \in ExecFinds(bytes) : TakeExec(bytes, x)
  BY <1>0, <1>1, LimitStill DEF TakeExec, IPlace
<1>2. CASE \E bytes \in Requests : \E x \in IAnswers(bytes) : FbTake(bytes, x)
  BY <1>0, <1>2, LimitTake
<1>3. CASE \E bytes \in Requests : \E own \in Fb : FbRefuse(own, bytes)
  BY <1>0, <1>3, LimitStill DEF FbRefuse
<1>4. CASE \E b \in Used : IRelease(b)
  BY <1>0, <1>4, LimitStill DEF IRelease
<1>5. CASE \E b \in Used : \E bytes \in Requests : IShrink(b, bytes)
  BY <1>0, <1>5, LimitShrink
<1>6. CASE \E b \in Used : \E bytes \in Requests : IExtend(b, bytes)
  BY <1>0, <1>6, LimitExtend
<1>7. CASE \E b \in Used : IOverrun(b)
  BY <1>0, <1>7, LimitStill DEF IOverrun
<1>8. CASE \E R \in SUBSET Fb : IInspect(R)
  BY <1>0, <1>8, LimitStill DEF IInspect
<1>9. CASE UNCHANGED iramVars
  BY <1>0, <1>9, LimitStill DEF iramVars
<1> QED
  BY <1>1, <1>2, <1>3, <1>4, <1>5, <1>6, <1>7, <1>8, <1>9 DEF Next

(* No fallback block outgrows the limit on fallback blocks, nor, with any   *)
(* guard, the class bound of its region: not by crossing over, not over a   *)
(* sliver, not by growing in place.                                         *)
THEOREM FbLimitsRespected == Spec => []FbLimitKept
<1>1. Init => FbLimitKept
  BY DEF Init, FbLimitKept
<1> QED
  BY <1>1, IInitInv, IStepInv, LimitStep, PTL DEF Spec

-----------------------------------------------------------------------------
(* The largest-gap caches of the regions. *)

Outside(q, x) == EndOf(x) <= FbStart[q] \/ FbEnd(q) <= x.off

(* A range of the EXEC zone or of one region lies in region q or outside.   *)
LEMMA InsideOrOutside ==
  ASSUME IInv, NEW x \in Extent, x.len > 0, NEW q \in Fb, NEW isExec \in BOOLEAN,
         isExec => EndOf(x) <= Reserve, ~isExec => \E r \in Fb : FbWithin(r, x)
  PROVE  \/ ~isExec /\ InFb(q, x.off) /\ FbWithin(q, x)
         \/ (isExec \/ ~InFb(q, x.off)) /\ Outside(q, x)
<1>1. /\ TypeOK /\ IramTiled /\ FbStart[q] \in Nat /\ FbEnd(q) \in Nat
      /\ Reserve <= FbStart[q] /\ Reserve \in Nat
      /\ x.off \in Nat /\ x.len \in Nat /\ EndOf(x) = x.off + x.len
  BY FbFacts DEF IInv, Extent, EndOf
<1>2. CASE isExec
  <2>1. EndOf(x) <= Reserve
    BY <1>2
  <2>2. EndOf(x) <= FbStart[q]
    BY <1>1, <2>1
  <2> QED
    BY <1>2, <2>2 DEF Outside
<1>3. CASE ~isExec
  <2>1. PICK r \in Fb : FbWithin(r, x)
    BY <1>3
  <2>2. CASE r = q
    BY <1>1, <1>3, <2>1, <2>2 DEF FbWithin, InFb
  <2>3. CASE r # q
    <3>1. EndOf(x) <= FbStart[q] \/ FbEnd(q) <= x.off
      BY <1>1, <2>1, <2>3, FbApart
    <3> QED
      BY <1>1, <3>1 DEF Outside, InFb
  <2> QED
    BY <2>2, <2>3
<1> QED
  BY <1>2, <1>3

LEMMA BlockInOrOut ==
  ASSUME IInv, NEW b \in Used, NEW q \in Fb
  PROVE  \/ b \in fbs /\ InFb(q, b.off) /\ FbWithin(q, b)
         \/ ~(b \in fbs /\ InFb(q, b.off)) /\ Outside(q, b)
<1>1. b \in Extent /\ b.len > 0
  BY BlockFacts
<1>2. b \in execs => b \notin fbs
  BY KindsApart
<1>3. b \in execs \/ b \in fbs
  BY DEF Used
<1>4. b \in execs => EndOf(b) <= Reserve
  BY DEF IInv, ZonesApart
<1>5. b \notin execs => \E r \in Fb : FbWithin(r, b)
  BY <1>3 DEF IInv, ZonesApart, FbWithin
<1>6. (b \in execs) \in BOOLEAN
  OBVIOUS
<1>7. PICK e \in BOOLEAN : e <=> b \in execs
  BY <1>6
<1>8. \/ ~e /\ InFb(q, b.off) /\ FbWithin(q, b)
      \/ (e \/ ~InFb(q, b.off)) /\ Outside(q, b)
  BY <1>1, <1>4, <1>5, <1>7, InsideOrOutside
<1> QED
  BY <1>2, <1>3, <1>7, <1>8

(* A block resized in place stays on the same side of every border. *)
LEMMA ResizedInOrOut ==
  ASSUME IInv, IInv', NEW b \in Used, NEW x \in Extent, x.off = b.off, x.len > 0,
         execs' = IF b \in execs THEN (execs \ {b}) \cup {x} ELSE execs,
         fbs' = IF b \in fbs THEN (fbs \ {b}) \cup {x} ELSE fbs,
         fbTotal' = fbTotal, NEW q \in Fb
  PROVE  \/ b \in fbs /\ InFb(q, b.off) /\ FbWithin(q, b) /\ FbWithin(q, x)
         \/ ~(b \in fbs /\ InFb(q, b.off)) /\ Outside(q, b) /\ Outside(q, x)
<1>1. b \in execs \/ b \in fbs
  BY DEF Used
<1>2. b \in execs => b \notin fbs
  BY KindsApart
<1>3. b \in execs => EndOf(x) <= Reserve
  <2>1. b \in execs => x \in execs'
    OBVIOUS
  <2> QED
    BY <2>1 DEF IInv, ZonesApart
<1>4. b \notin execs => \E r \in Fb : FbWithin(r, x)
  <2>1. SUFFICES ASSUME b \in fbs PROVE \E r \in Fb : FbWithin(r, x)
    BY <1>1
  <2>2. x \in fbs'
    BY <2>1
  <2>3. PICK r \in Fb : FbStart[r] <= x.off /\ EndOf(x) <= FbEnd(r)'
    BY <2>2 DEF IInv, ZonesApart
  <2> QED
    BY <2>3 DEF FbWithin, FbEnd
<1>5. PICK e \in BOOLEAN : e <=> b \in execs
  <2>1. (b \in execs) \in BOOLEAN
    OBVIOUS
  <2> QED
    BY <2>1
<1>6. \/ ~e /\ InFb(q, x.off) /\ FbWithin(q, x)
      \/ (e \/ ~InFb(q, x.off)) /\ Outside(q, x)
  BY <1>3, <1>4, <1>5, InsideOrOutside
<1>7. \/ b \in fbs /\ InFb(q, b.off) /\ FbWithin(q, b)
      \/ ~(b \in fbs /\ InFb(q, b.off)) /\ Outside(q, b)
  BY BlockInOrOut
<1> QED
  BY <1>1, <1>2, <1>5, <1>6, <1>7

LEMMA GapOutside ==
  ASSUME IInv, NEW B \in SUBSET Extent, NEW x \in Extent, NEW q \in Fb, Outside(q, x)
  PROVE  LargestGap(B \cup {x}, FbStart[q], FbEnd(q)) = LargestGap(B, FbStart[q], FbEnd(q))
<1>1. FbStart[q] \in Nat /\ FbEnd(q) \in Nat
  BY FbFacts DEF IInv
<1> QED
  BY <1>1, LargestGapFrame DEF Outside

FbExact(c, q) == c[q] # {} => c[q] = LargestGap(Used, FbStart[q], FbEnd(q))

LEMMA FbCachePlace ==
  ASSUME IInv, NEW x \in Extent, NEW isExec \in BOOLEAN, ILands(x),
         isExec => EndOf(x) <= Reserve, ~isExec => \E r \in Fb : FbWithin(r, x),
         NEW c, \A q \in Fb : FbExact(c, q), IPlace(x, isExec, c)
  PROVE  FbCacheExact'
<1> SUFFICES ASSUME NEW q \in Fb, fbCache'[q] # {}
             PROVE  fbCache'[q] = LargestGap(Used', FbStart[q], FbEnd(q)')
  BY DEF FbCacheExact
<1> DEFINE share == IF ~isExec /\ InFb(q, x.off) THEN x.len ELSE 0
<1>1. /\ fbCache'[q] = IF AtTail(q, Eaten) + share > 0 THEN {} ELSE c[q]
      /\ fbTotal'[q] = fbTotal[q] - AtTail(q, Eaten) /\ Used' = Used \cup {x}
  BY DEF IPlace, Used
<1>2. x.len \in Nat /\ x.len > 0 /\ Used \in SUBSET Extent /\ fbTotal[q] \in Nat
  BY UsedFacts, FbFacts DEF ILands, Extent, IInv
<1>3. AtTail(q, Eaten) \in Nat
  BY DeltaFacts DEF AtTail, Eaten
<1>4. fbCache'[q] = c[q] /\ AtTail(q, Eaten) = 0 /\ share = 0
  BY <1>1, <1>2, <1>3
<1>5. Outside(q, x)
  BY <1>2, <1>4, InsideOrOutside
<1>6. FbEnd(q)' = FbEnd(q)
  BY <1>1, <1>2, <1>4 DEF FbEnd
<1>7. c[q] = LargestGap(Used, FbStart[q], FbEnd(q))
  BY <1>4 DEF FbExact
<1>8. LargestGap(Used \cup {x}, FbStart[q], FbEnd(q)) = LargestGap(Used, FbStart[q], FbEnd(q))
  BY <1>2, <1>5, GapOutside
<1> QED
  BY <1>1, <1>4, <1>6, <1>7, <1>8

LEMMA FbCacheRelease ==
  ASSUME IInv, FbCacheExact, NEW b \in Used, IRelease(b)
  PROVE  FbCacheExact'
<1> SUFFICES ASSUME NEW q \in Fb, fbCache'[q] # {}
             PROVE  fbCache'[q] = LargestGap(Used', FbStart[q], FbEnd(q)')
  BY DEF FbCacheExact
<1>1. PICK d \in Nat : d = IF ITableSlack(Used \ {b}) THEN IDelta ELSE 0
  BY DeltaFacts
<1>2. /\ fbCache'[q] = IF BackToFb(b, b.len, q) + AtTail(q, d) > 0 THEN {} ELSE fbCache[q]
      /\ fbTotal'[q] = fbTotal[q] + AtTail(q, d) /\ Used' = Used \ {b}
  BY <1>1 DEF IRelease, Used
<1>3. /\ b \in Extent /\ b.len \in Nat /\ b.len > 0 /\ Used \ {b} \in SUBSET Extent
      /\ (Used \ {b}) \cup {b} = Used /\ fbTotal[q] \in Nat
  BY BlockFacts, FbFacts DEF IInv
<1>4. AtTail(q, d) \in Nat /\ BackToFb(b, b.len, q) \in Nat
  BY <1>3 DEF AtTail, BackToFb
<1>5. fbCache'[q] = fbCache[q] /\ AtTail(q, d) = 0 /\ BackToFb(b, b.len, q) = 0
  BY <1>2, <1>4
<1>6. Outside(q, b)
  BY <1>3, <1>5, BlockInOrOut DEF BackToFb
<1>7. FbEnd(q)' = FbEnd(q)
  BY <1>2, <1>3, <1>5 DEF FbEnd
<1>8. LargestGap((Used \ {b}) \cup {b}, FbStart[q], FbEnd(q))
        = LargestGap(Used \ {b}, FbStart[q], FbEnd(q))
  BY <1>3, <1>6, GapOutside
<1>9. fbCache[q] = LargestGap(Used, FbStart[q], FbEnd(q))
  BY <1>5 DEF FbCacheExact
<1> QED
  BY <1>2, <1>3, <1>5, <1>7, <1>8, <1>9

LEMMA FbCacheResize ==
  ASSUME IInv, IInv', FbCacheExact, NEW b \in Used, NEW x \in Extent, x.off = b.off,
         Used' = (Used \ {b}) \cup {x},
         execs' = IF b \in execs THEN (execs \ {b}) \cup {x} ELSE execs,
         fbs' = IF b \in fbs THEN (fbs \ {b}) \cup {x} ELSE fbs,
         fbTotal' = fbTotal, NEW n \in Nat, n > 0,
         fbCache' = [r \in Fb |-> IF BackToFb(b, n, r) > 0 THEN {} ELSE fbCache[r]]
  PROVE  FbCacheExact'
<1> SUFFICES ASSUME NEW q \in Fb, fbCache'[q] # {}
             PROVE  fbCache'[q] = LargestGap(Used', FbStart[q], FbEnd(q)')
  BY DEF FbCacheExact
<1>1. x.len > 0
  BY DEF IInv, ZonesApart
<1>2. /\ b \in Extent /\ Used \ {b} \in SUBSET Extent /\ (Used \ {b}) \cup {b} = Used
  BY BlockFacts
<1>3. fbCache'[q] = fbCache[q] /\ ~(b \in fbs /\ InFb(q, b.off))
  BY DEF BackToFb
<1>4. Outside(q, b) /\ Outside(q, x)
  BY <1>1, <1>3, ResizedInOrOut
<1>5. FbEnd(q)' = FbEnd(q)
  BY DEF FbEnd
<1>6. LargestGap((Used \ {b}) \cup {b}, FbStart[q], FbEnd(q))
        = LargestGap(Used \ {b}, FbStart[q], FbEnd(q))
  BY <1>2, <1>4, GapOutside
<1>7. LargestGap((Used \ {b}) \cup {x}, FbStart[q], FbEnd(q))
        = LargestGap(Used \ {b}, FbStart[q], FbEnd(q))
  BY <1>2, <1>4, GapOutside
<1>8. fbCache[q] = LargestGap(Used, FbStart[q], FbEnd(q))
  BY <1>3 DEF FbCacheExact
<1> QED
  BY <1>2, <1>3, <1>5, <1>6, <1>7, <1>8

LEMMA SearchedExact ==
  ASSUME FbCacheExact, NEW own, NEW bytes, NEW q \in Fb
  PROVE  FbExact(FbSearched(own, bytes), q) /\ FbExact(fbCache, q)
BY DEF FbCacheExact, FbExact, FbSearched, FbOwnCache, LearntLargest

LEMMA FbCacheStep == IInv /\ FbCacheExact /\ [Next]_iramVars => FbCacheExact'
<1> SUFFICES ASSUME IInv, FbCacheExact, [Next]_iramVars PROVE FbCacheExact'
  OBVIOUS
<1>0. IInv' /\ Requests \subseteq Nat \ {0}
  BY IStepInv, IramTableAssumption
<1>1. CASE \E bytes \in Requests : \E x \in ExecFinds(bytes) : TakeExec(bytes, x)
  <2>1. PICK bytes \in Requests : \E x \in ExecFinds(bytes) : TakeExec(bytes, x)
    BY <1>1
  <2>2. PICK x \in ExecFinds(bytes) : TakeExec(bytes, x)
    BY <2>1
  <2>3. x \in Extent /\ EndOf(x) <= Reserve /\ ILands(x) /\ IPlace(x, TRUE, fbCache)
    BY <1>0, <2>2, ExecSound DEF TakeExec
  <2>4. \A q \in Fb : FbExact(fbCache, q)
    BY SearchedExact
  <2> QED
    BY <2>3, <2>4, FbCachePlace
<1>2. CASE \E bytes \in Requests : \E x \in IAnswers(bytes) : FbTake(bytes, x)
  <2>1. PICK bytes \in Requests : \E x \in IAnswers(bytes) : FbTake(bytes, x)
    BY <1>2
  <2>2. PICK x \in IAnswers(bytes) : FbTake(bytes, x)
    BY <2>1
  <2>3. PICK own \in Fb, r \in Fb : \E g \in FbFitting(r, bytes) :
           /\ x = FbCut(r, g, bytes) /\ ILands(x)
           /\ \/ IPlace(x, FALSE, fbCache)
              \/ IPlace(x, FALSE, FbSearched(own, bytes))
    BY <1>0, <2>2, FbTakeIsPlace
  <2>4. x \in Extent /\ FbWithin(r, x) /\ ILands(x)
    BY <1>0, <2>3, FbCutSound
  <2>5. PICK c : IPlace(x, FALSE, c) /\ \A q \in Fb : FbExact(c, q)
    <3>1. \A q \in Fb : FbExact(FbSearched(own, bytes), q) /\ FbExact(fbCache, q)
      BY SearchedExact
    <3> QED
      BY <2>3, <3>1
  <2> QED
    BY <2>4, <2>5, FbCachePlace
<1>3. CASE \E bytes \in Requests : \E own \in Fb : FbRefuse(own, bytes)
  <2>1. PICK bytes \in Requests, own \in Fb : FbRefuse(own, bytes)
    BY <1>3
  <2>2. fbCache' = FbSearched(own, bytes) /\ Used' = Used /\ fbTotal' = fbTotal
    BY <2>1 DEF FbRefuse, Used
  <2> QED
    BY <2>2, SearchedExact DEF FbCacheExact, FbExact, FbEnd
<1>4. CASE \E b \in Used : IRelease(b)
  BY <1>4, FbCacheRelease
<1>5. CASE \E b \in Used : \E bytes \in Requests : IShrink(b, bytes)
  <2>1. PICK b \in Used, bytes \in Requests : IShrink(b, bytes)
    BY <1>5
  <2>2. PICK x : x = [off |-> b.off, len |-> bytes]
    OBVIOUS
  <2>3. bytes \in Nat \ {0} /\ x.off = b.off /\ IInv
    BY <1>0, <2>2
  <2>7. ResizedTo(b, x)
    BY <2>1, <2>2, <2>3, IShrinkIsResize
  <2>4. /\ IInv' /\ x \in Extent /\ Used' = (Used \ {b}) \cup {x}
        /\ execs' = IF b \in execs THEN (execs \ {b}) \cup {x} ELSE execs
        /\ fbs' = IF b \in fbs THEN (fbs \ {b}) \cup {x} ELSE fbs
    BY <2>7 DEF ResizedTo
  <2>5. PICK n \in Nat : n = b.len - bytes /\ n > 0
    <3>1. b.len \in Nat /\ bytes < b.len
      BY <2>1, BlockFacts DEF IShrink
    <3>2. b.len - bytes \in Nat /\ b.len - bytes > 0
      BY <2>3, <3>1
    <3> QED
      BY <3>2
  <2>6. fbTotal' = fbTotal
        /\ fbCache' = [r \in Fb |-> IF BackToFb(b, n, r) > 0 THEN {} ELSE fbCache[r]]
    BY <2>1, <2>5 DEF IShrink
  <2> QED
    BY <2>3, <2>4, <2>5, <2>6, FbCacheResize
<1>6. CASE \E b \in Used : \E bytes \in Requests : IExtend(b, bytes)
  <2>1. PICK b \in Used, bytes \in Requests : IExtend(b, bytes)
    BY <1>6
  <2>2. bytes \in Nat \ {0} /\ IInv
    BY <1>0
  <2>4. PICK m, x, n : ResizedTo(b, x) /\ GrownTo(b, bytes, m, x, n)
    BY <2>1, <2>2, IExtendIsResize
  <2>5. /\ IInv' /\ x \in Extent /\ x.off = b.off /\ Used' = (Used \ {b}) \cup {x}
        /\ execs' = IF b \in execs THEN (execs \ {b}) \cup {x} ELSE execs
        /\ fbs' = IF b \in fbs THEN (fbs \ {b}) \cup {x} ELSE fbs
    BY <2>4 DEF ResizedTo
  <2>6. /\ n \in Nat \ {0} /\ fbTotal' = fbTotal
        /\ fbCache' = [r \in Fb |-> IF BackToFb(b, n, r) > 0 THEN {} ELSE fbCache[r]]
    BY <2>4 DEF GrownTo
  <2> QED
    BY <2>5, <2>6, FbCacheResize
<1>7. CASE \E b \in Used : IOverrun(b)
  BY <1>7 DEF IOverrun, FbCacheExact, FbEnd, Used
<1>8. CASE \E R \in SUBSET Fb : IInspect(R)
  <2>1. PICK R \in SUBSET Fb : IInspect(R)
    BY <1>8
  <2>2. ASSUME NEW q \in Fb
        PROVE  fbCache'[q] # {} => fbCache'[q] = LargestGap(Used, FbStart[q], FbEnd(q))
    BY <2>1 DEF IInspect, FbCacheExact
  <2>3. Used' = Used /\ fbTotal' = fbTotal
    BY <2>1 DEF IInspect, Used
  <2> QED
    BY <2>2, <2>3 DEF FbCacheExact, FbEnd
<1>9. CASE UNCHANGED iramVars
  BY <1>9 DEF iramVars, FbCacheExact, FbEnd, Used
<1> QED
  BY <1>1, <1>2, <1>3, <1>4, <1>5, <1>6, <1>7, <1>8, <1>9 DEF Next

LEMMA FbCacheInit == Init => FbCacheExact
<1> SUFFICES ASSUME Init, NEW q \in Fb
             PROVE  fbCache[q] = LargestGap(Used, FbStart[q], FbEnd(q))
  BY DEF FbCacheExact
<1>1. Used = {} /\ fbCache[q] = {fbTotal[q]}
  BY DEF Init, Used
<1>2. FbStart[q] \in Nat /\ FbEnd(q) \in Nat /\ FbEnd(q) = FbStart[q] + fbTotal[q]
      /\ FbStart[q] <= FbEnd(q) /\ fbTotal[q] \in Nat
  BY IInitInv, FbFacts DEF IInv
<1>3. LargestGap({}, FbStart[q], FbEnd(q)) = {FbEnd(q) - FbStart[q]}
  BY <1>2, LargestGapNone
<1>4. FbEnd(q) - FbStart[q] = fbTotal[q]
  BY <1>2
<1> QED
  BY <1>1, <1>3, <1>4

(* A valid largest-gap cache of a fallback region is exact: whatever the    *)
(* searches, placements, frees and moves of the table since it was filled.  *)
THEOREM FbCacheAlwaysExact == Spec => []FbCacheExact
BY IInitInv, IStepInv, FbCacheInit, FbCacheStep, PTL DEF Spec

-----------------------------------------------------------------------------
(* Counted bytes.  A counter watches a window [lo, hi) of the arena; a      *)
(* block lies in the window with all its bytes or with none.                *)

FreeIn(B, lo, hi) == Cardinality(FreeBytes(B, lo, hi))

(* s is what x takes of the window. *)
Takes(x, lo, hi, s) ==
  \/ lo <= x.off /\ EndOf(x) <= hi /\ s = x.len
  \/ (EndOf(x) <= lo \/ hi <= x.off) /\ s = 0

LEMMA WindowType ==
  ASSUME NEW B \in SUBSET Extent, NEW lo \in Nat, NEW hi \in Nat, lo <= hi
  PROVE  FreeIn(B, lo, hi) \in Nat /\ FreeIn(B, lo, hi) <= hi - lo
BY FreeBytesCard DEF FreeIn

LEMMA WindowTaken ==
  ASSUME NEW B \in SUBSET Extent, NEW lo \in Nat, NEW hi \in Nat, lo <= hi,
         NEW x \in Extent, IsFree(B, x), NEW s \in Nat, Takes(x, lo, hi, s)
  PROVE  FreeIn(B, lo, hi) = FreeIn(B \cup {x}, lo, hi) + s
<1>1. CASE lo <= x.off /\ EndOf(x) <= hi /\ s = x.len
  BY <1>1, FreeBytesTaken DEF FreeIn, Extent
<1>2. CASE (EndOf(x) <= lo \/ hi <= x.off) /\ s = 0
  <2>1. FreeIn(B \cup {x}, lo, hi) = FreeIn(B, lo, hi)
    BY <1>2, FreeBytesFrame DEF FreeIn
  <2> QED
    BY <1>2, <2>1, WindowType
<1> QED
  BY <1>1, <1>2 DEF Takes

LEMMA WindowTail ==
  ASSUME NEW B \in SUBSET Extent, NEW lo \in Nat, NEW hi \in Nat, lo <= hi,
         NEW d \in Nat, d = 0 \/ \A b \in B : EndOf(b) <= hi
  PROVE  FreeIn(B, lo, hi + d) = FreeIn(B, lo, hi) + d
<1>1. CASE d = 0
  <2>1. hi + d = hi /\ FreeIn(B, lo, hi) \in Nat
    BY <1>1, WindowType
  <2> QED
    BY <1>1, <2>1
<1>2. CASE \A b \in B : EndOf(b) <= hi
  BY <1>2, FreeBytesTail DEF FreeIn
<1> QED
  BY <1>1, <1>2

(* A block takes s bytes of a window that has just lost its last d.         *)
LEMMA WindowPlace ==
  ASSUME NEW B \in SUBSET Extent, NEW lo \in Nat, NEW hi \in Nat, lo <= hi,
         NEW d \in Nat, d = 0 \/ \A b \in B : EndOf(b) <= hi,
         NEW x \in Extent, IsFree(B, x), NEW s \in Nat, Takes(x, lo, hi, s)
  PROVE  Less(Less(FreeIn(B, lo, hi + d), d), s) = FreeIn(B \cup {x}, lo, hi)
<1>1. FreeIn(B, lo, hi + d) = FreeIn(B, lo, hi) + d
  BY WindowTail
<1>2. FreeIn(B, lo, hi) = FreeIn(B \cup {x}, lo, hi) + s
  BY WindowTaken
<1>3. FreeIn(B, lo, hi) \in Nat /\ FreeIn(B \cup {x}, lo, hi) \in Nat
  BY WindowType
<1>4. Less(FreeIn(B, lo, hi + d), d) = FreeIn(B, lo, hi)
  BY <1>1, <1>3 DEF Less
<1> QED
  BY <1>2, <1>3, <1>4 DEF Less

(* A counter that cannot exceed its window is not cut when bytes come back. *)
LEMMA CappedTwice ==
  ASSUME NEW n \in Nat, NEW s \in Nat, NEW d \in Nat, NEW m \in Nat, n + s <= m
  PROVE  /\ Capped(n + s, m) = n + s
         /\ Capped(Capped(n + s, m) + d, m + d) = (n + s) + d
BY DEF Capped

(* A block that took s bytes of a window takes t of them. *)
LEMMA WindowResize ==
  ASSUME NEW B \in SUBSET Extent, NEW lo \in Nat, NEW hi \in Nat, lo <= hi,
         NEW b \in Extent, IsFree(B, b), NEW s \in Nat, Takes(b, lo, hi, s),
         NEW x \in Extent, IsFree(B, x), NEW t \in Nat, Takes(x, lo, hi, t)
  PROVE  /\ FreeIn(B \cup {b}, lo, hi) + s = FreeIn(B \cup {x}, lo, hi) + t
         /\ FreeIn(B \cup {b}, lo, hi) + s <= hi - lo
         /\ FreeIn(B \cup {b}, lo, hi) \in Nat /\ FreeIn(B \cup {x}, lo, hi) \in Nat
<1>1. ASSUME NEW y \in Extent, IsFree(B, y), NEW v \in Nat, Takes(y, lo, hi, v)
      PROVE  FreeIn(B, lo, hi) = FreeIn(B \cup {y}, lo, hi) + v
  BY <1>1, WindowTaken
<1>2. FreeIn(B, lo, hi) = FreeIn(B \cup {b}, lo, hi) + s
  BY <1>1
<1>3. FreeIn(B, lo, hi) = FreeIn(B \cup {x}, lo, hi) + t
  BY <1>1
<1>4. FreeIn(B, lo, hi) <= hi - lo
  BY WindowType
<1>5. FreeIn(B \cup {b}, lo, hi) \in Nat /\ FreeIn(B \cup {x}, lo, hi) \in Nat
  <2>1. B \cup {b} \in SUBSET Extent /\ B \cup {x} \in SUBSET Extent
    OBVIOUS
  <2> QED
    BY <2>1, WindowType
<1> QED
  BY <1>2, <1>3, <1>4, <1>5

-----------------------------------------------------------------------------
(* The windows of the arena's counters. *)

LEMMA ArenaFacts ==
  ASSUME IInv
  PROVE  /\ iramEnd \in Nat /\ Reserve \in Nat /\ Reserve <= iramEnd
         /\ execFree \in Nat /\ iramFree \in Nat
BY IramLayoutAssumption DEF IInv, TypeOK, IramTiled

LEMMA BlockInArena ==
  ASSUME IInv, NEW b \in Used
  PROVE  /\ EndOf(b) <= iramEnd
         /\ b \in execs => EndOf(b) <= Reserve
         /\ b \in execs \/ Reserve <= b.off
         /\ b \in execs \/ b \in fbs
<1>1. TypeOK /\ IramTiled /\ EndOf(b) \in Nat /\ b.off \in Nat
  BY BlockFacts DEF IInv
<1>2. CASE b \in execs
  BY <1>1, <1>2, ArenaFacts DEF IInv, ZonesApart
<1>3. CASE b \in fbs
  <2>1. PICK r \in Fb : FbStart[r] <= b.off /\ EndOf(b) <= FbEnd(r)
    BY <1>3 DEF IInv, ZonesApart
  <2>2. FbEnd(r) <= iramEnd /\ iramEnd \in Nat /\ FbEnd(r) \in Nat
        /\ Reserve <= FbStart[r] /\ FbStart[r] \in Nat /\ Reserve \in Nat
    BY <1>1, FbInArena, FbFacts
  <2>3. b \notin execs
    BY <1>3, KindsApart
  <2> QED
    BY <1>1, <1>3, <2>1, <2>2, <2>3
<1> QED
  BY <1>2, <1>3 DEF Used

(* What a block of the EXEC zone or of a region takes of the two outer      *)
(* windows.                                                                 *)
LEMMA ZoneTakes ==
  ASSUME IInv, NEW x \in Extent, NEW isExec \in BOOLEAN,
         isExec => EndOf(x) <= Reserve, ~isExec => \E r \in Fb : FbWithin(r, x)
  PROVE  /\ Takes(x, 0, Reserve, IF isExec THEN x.len ELSE 0)
         /\ Takes(x, 0, iramEnd, x.len)
<1>1. /\ TypeOK /\ IramTiled /\ x.off \in Nat /\ x.len \in Nat /\ EndOf(x) \in Nat
      /\ iramEnd \in Nat /\ Reserve \in Nat /\ Reserve <= iramEnd
  BY ArenaFacts DEF IInv, Extent, EndOf
<1>2. CASE isExec
  BY <1>1, <1>2 DEF Takes
<1>3. CASE ~isExec
  <2>1. PICK r \in Fb : FbWithin(r, x)
    BY <1>3
  <2>2. FbEnd(r) <= iramEnd /\ FbEnd(r) \in Nat /\ Reserve <= FbStart[r] /\ FbStart[r] \in Nat
    BY <1>1, FbInArena, FbFacts
  <2> QED
    BY <1>1, <1>3, <2>1, <2>2 DEF Takes, FbWithin
<1> QED
  BY <1>2, <1>3

LEMMA BlockTakes ==
  ASSUME IInv, NEW b \in Used
  PROVE  /\ Takes(b, 0, Reserve, IF b \in execs THEN b.len ELSE 0)
         /\ Takes(b, 0, iramEnd, b.len)
         /\ \A q \in Fb : Takes(b, FbStart[q], FbEnd(q), BackToFb(b, b.len, q))
<1>1. b \in Extent
  BY BlockFacts
<1>2. b \in execs => EndOf(b) <= Reserve
  BY BlockInArena
<1>3. b \notin execs => \E r \in Fb : FbWithin(r, b)
  BY DEF IInv, ZonesApart, Used, FbWithin
<1>5. /\ Takes(b, 0, Reserve, IF b \in execs THEN b.len ELSE 0)
      /\ Takes(b, 0, iramEnd, b.len)
  <2>1. CASE b \in execs
    <3>1. TRUE \in BOOLEAN /\ (TRUE => EndOf(b) <= Reserve)
          /\ (~TRUE => \E r \in Fb : FbWithin(r, b))
      BY <1>2, <2>1
    <3>2. Takes(b, 0, Reserve, IF TRUE THEN b.len ELSE 0) /\ Takes(b, 0, iramEnd, b.len)
      BY <1>1, <3>1, ZoneTakes
    <3> QED
      BY <2>1, <3>2
  <2>2. CASE b \notin execs
    <3>1. FALSE \in BOOLEAN /\ (FALSE => EndOf(b) <= Reserve)
          /\ (~FALSE => \E r \in Fb : FbWithin(r, b))
      BY <1>3, <2>2
    <3>2. Takes(b, 0, Reserve, IF FALSE THEN b.len ELSE 0) /\ Takes(b, 0, iramEnd, b.len)
      BY <1>1, <3>1, ZoneTakes
    <3> QED
      BY <2>2, <3>2
  <2> QED
    BY <2>1, <2>2
<1>4. ASSUME NEW q \in Fb PROVE Takes(b, FbStart[q], FbEnd(q), BackToFb(b, b.len, q))
  BY BlockInOrOut DEF BackToFb, Takes, FbWithin, Outside
<1> QED
  BY <1>4, <1>5

LEMMA CountersPlace ==
  ASSUME IInv, CountersAgree, NEW x \in Extent, NEW isExec \in BOOLEAN, ILands(x),
         isExec => EndOf(x) <= Reserve, ~isExec => \E r \in Fb : FbWithin(r, x),
         NEW c, IPlace(x, isExec, c)
  PROVE  CountersAgree'
<1>1. PICK d \in Nat : d = Eaten
  BY DeltaFacts DEF Eaten
<1>2. /\ Used' = Used \cup {x} /\ iramEnd' = iramEnd - d
      /\ fbTotal' = [r \in Fb |-> fbTotal[r] - AtTail(r, d)]
      /\ iramFree' = Less(Less(iramFree, d), x.len)
      /\ execFree' = IF isExec THEN Less(execFree, x.len) ELSE execFree
  BY <1>1 DEF IPlace, Used
<1>3. /\ Used \in SUBSET Extent /\ x.len \in Nat /\ x.len > 0 /\ x.off \in Nat
      /\ EndOf(x) \in Nat /\ IsFree(Used, x) /\ EndOf(x) <= iramEnd
  BY UsedFacts DEF ILands, Extent, IInv, EndOf
<1>4. d # 0 => /\ EndOf(x) <= iramEnd - d /\ \A b \in Used : EndOf(b) <= iramEnd - d
               /\ d <= fbTotal[FbLast] /\ d <= iramEnd /\ NFb > 0
  BY <1>1 DEF Eaten, ILands, ICanGrowFor
<1>5. iramEnd \in Nat /\ Reserve \in Nat /\ Reserve <= iramEnd
  BY ArenaFacts
<1>6. iramFree' = FreeIn(Used \cup {x}, 0, iramEnd - d)
  <2>1. PICK hi \in Nat : hi = iramEnd - d
    BY <1>4, <1>5
  <2>2. hi + d = iramEnd /\ 0 \in Nat /\ 0 <= hi
    BY <1>5, <2>1
  <2>3. Takes(x, 0, hi, x.len)
    BY <1>3, <1>4, <2>1, <1>5 DEF Takes
  <2>4. d = 0 \/ \A b \in Used : EndOf(b) <= hi
    BY <1>4, <2>1
  <2>5. iramFree = FreeIn(Used, 0, hi + d)
    BY <2>2 DEF CountersAgree, FreeIn
  <2>6. Less(Less(FreeIn(Used, 0, hi + d), d), x.len) = FreeIn(Used \cup {x}, 0, hi)
    BY <1>3, <2>2, <2>3, <2>4, WindowPlace
  <2> QED
    BY <1>2, <2>1, <2>5, <2>6
<1>7. execFree' = FreeIn(Used \cup {x}, 0, Reserve)
  <2>1. Takes(x, 0, Reserve, IF isExec THEN x.len ELSE 0)
    BY ZoneTakes
  <2>2. PICK s \in Nat : s = IF isExec THEN x.len ELSE 0
    BY <1>3
  <2>3. execFree = FreeIn(Used, 0, Reserve) /\ 0 \in Nat /\ 0 <= Reserve
    BY <1>5 DEF CountersAgree, FreeIn
  <2>a. Takes(x, 0, Reserve, s)
    BY <2>1, <2>2
  <2>4. FreeIn(Used, 0, Reserve) = FreeIn(Used \cup {x}, 0, Reserve) + s
    BY <1>3, <1>5, <2>a, <2>3, WindowTaken
  <2>5. FreeIn(Used \cup {x}, 0, Reserve) \in Nat
    BY <1>3, <1>5, <2>3, WindowType
  <2>6. execFree' = Less(execFree, s)
    BY <1>2, <2>2, ArenaFacts DEF Less
  <2> QED
    BY <2>2, <2>3, <2>4, <2>5, <2>6 DEF Less
<1>8. ASSUME NEW q \in Fb
      PROVE  fbFree'[q] = FreeIn(Used \cup {x}, FbStart[q], FbStart[q] + fbTotal'[q])
  <2>1. PICK e \in Nat : e = AtTail(q, d)
    BY DEF AtTail
  <2>2. PICK s \in Nat : s = IF ~isExec /\ InFb(q, x.off) THEN x.len ELSE 0
    BY <1>3
  <2>3. fbFree'[q] = Less(Less(fbFree[q], e), s) /\ fbTotal'[q] = fbTotal[q] - e
    BY <1>1, <1>2, <2>1, <2>2 DEF IPlace
  <2>4. /\ TypeOK /\ IramTiled /\ FbStart[q] \in Nat /\ FbEnd(q) \in Nat /\ fbTotal[q] \in Nat
        /\ FbEnd(q) = FbStart[q] + fbTotal[q]
    BY FbFacts DEF IInv
  <2>5. e = 0 \/ (e = d /\ q = FbLast /\ FbEnd(q) = iramEnd /\ d <= fbTotal[q])
    BY <1>4, <2>1, <2>4 DEF AtTail, IramTiled
  <2>6. PICK hi \in Nat : hi = FbStart[q] + (fbTotal[q] - e)
    BY <2>4, <2>5
  <2>7. FbStart[q] <= hi /\ hi + e = FbEnd(q) /\ hi <= FbEnd(q)
    BY <2>4, <2>5, <2>6
  <2>8. e = 0 \/ \A b \in Used : EndOf(b) <= hi
    BY <1>4, <2>4, <2>5, <2>6
  <2>9. Takes(x, FbStart[q], hi, s)
    <3>1. CASE ~isExec /\ InFb(q, x.off) /\ FbWithin(q, x)
      <4>1. EndOf(x) <= hi
        BY <1>3, <1>4, <2>4, <2>5, <2>6, <3>1 DEF FbWithin
      <4> QED
        BY <2>2, <3>1, <4>1 DEF Takes, FbWithin
    <3>2. CASE (isExec \/ ~InFb(q, x.off)) /\ Outside(q, x)
      BY <1>3, <2>2, <2>4, <2>7, <3>2 DEF Takes, Outside
    <3> QED
      BY <1>3, <3>1, <3>2, InsideOrOutside
  <2>10. fbFree[q] = FreeIn(Used, FbStart[q], hi + e)
    BY <2>7 DEF CountersAgree, FreeIn
  <2>11. Less(Less(FreeIn(Used, FbStart[q], hi + e), e), s)
           = FreeIn(Used \cup {x}, FbStart[q], hi)
    <3>1. FbStart[q] \in Nat /\ FbStart[q] <= hi
      BY <2>4, <2>7
    <3>2. Used \in SUBSET Extent /\ x \in Extent /\ IsFree(Used, x)
      BY <1>3
    <3> QED
      BY <2>8, <2>9, <3>1, <3>2, WindowPlace
  <2>12. hi = FbStart[q] + fbTotal'[q]
    BY <2>3, <2>6
  <2> QED
    BY <2>3, <2>10, <2>11, <2>12
<1> QED
  BY <1>2, <1>6, <1>7, <1>8 DEF CountersAgree, FreeIn, FbEnd

LEMMA CountersRelease ==
  ASSUME IInv, CountersAgree, NEW b \in Used, IRelease(b)
  PROVE  CountersAgree'
<1> DEFINE B == Used \ {b}
<1>1. PICK d \in Nat : /\ d = IF ITableSlack(B) THEN IDelta ELSE 0
                       /\ d # 0 => NFb > 0
  BY DeltaFacts DEF ITableSlack
<1>2. /\ Used' = B /\ iramEnd' = iramEnd + d
      /\ fbTotal' = [r \in Fb |-> fbTotal[r] + AtTail(r, d)]
      /\ iramFree' = Capped(Capped(iramFree + b.len, iramEnd) + d, iramEnd + d)
      /\ execFree' = BackToExec(b, b.len)
  BY <1>1 DEF IRelease, Used
<1>3. /\ b \in Extent /\ b.len \in Nat /\ B \in SUBSET Extent /\ B \cup {b} = Used
      /\ IsFree(B, b)
  BY BlockFacts
<1>4. iramEnd \in Nat /\ Reserve \in Nat /\ Reserve <= iramEnd /\ execFree \in Nat
  BY ArenaFacts
<1>5. \A a \in B : EndOf(a) <= iramEnd
  BY BlockInArena
<1> HIDE DEF B
<1>6. iramFree' = FreeIn(B, 0, iramEnd + d)
  <2>1. Takes(b, 0, iramEnd, b.len)
    BY BlockTakes
  <2>2. iramFree = FreeIn(B \cup {b}, 0, iramEnd) /\ iramFree \in Nat
    BY <1>3, ArenaFacts DEF CountersAgree, FreeIn
  <2>3. 0 \in Nat /\ 0 <= iramEnd
    BY <1>4
  <2>4. FreeIn(B, 0, iramEnd) = FreeIn(B \cup {b}, 0, iramEnd) + b.len
    BY <1>3, <1>4, <2>1, <2>3, WindowTaken
  <2>5. FreeIn(B, 0, iramEnd + d) = FreeIn(B, 0, iramEnd) + d
    BY <1>3, <1>4, <1>5, <2>3, WindowTail
  <2>6. FreeIn(B, 0, iramEnd) <= iramEnd
    BY <1>3, <1>4, <2>3, WindowType
  <2>7. iramFree + b.len <= iramEnd
    BY <2>2, <2>4, <2>6
  <2>8. iramFree' = (iramFree + b.len) + d
    BY <1>2, <1>3, <1>4, <2>2, <2>7, CappedTwice
  <2> QED
    BY <2>2, <2>4, <2>5, <2>8
<1>7. execFree' = FreeIn(B, 0, Reserve)
  <2>1. PICK s \in Nat : s = IF b \in execs THEN b.len ELSE 0
    BY <1>3
  <2>2. Takes(b, 0, Reserve, s)
    BY <2>1, BlockTakes
  <2>3. execFree = FreeIn(B \cup {b}, 0, Reserve) /\ 0 \in Nat /\ 0 <= Reserve
    BY <1>3, <1>4 DEF CountersAgree, FreeIn
  <2>4. FreeIn(B, 0, Reserve) = FreeIn(B \cup {b}, 0, Reserve) + s
    BY <1>3, <1>4, <2>2, <2>3, WindowTaken
  <2>5. FreeIn(B, 0, Reserve) \in Nat /\ FreeIn(B, 0, Reserve) <= Reserve
    BY <1>3, <1>4, <2>3, WindowType
  <2>6. execFree' = Capped(execFree + s, Reserve)
    <3>1. execFree <= Reserve
      BY <1>4, <2>1, <2>3, <2>4, <2>5
    <3> QED
      BY <1>2, <1>4, <2>1, <3>1 DEF BackToExec, Capped
  <2>7. execFree + s <= Reserve
    BY <2>3, <2>4, <2>5
  <2>8. execFree' = execFree + s
    BY <1>4, <2>1, <2>6, <2>7, CappedTwice
  <2> QED
    BY <2>3, <2>4, <2>8
<1>8. ASSUME NEW q \in Fb
      PROVE  fbFree'[q] = FreeIn(B, FbStart[q], FbStart[q] + fbTotal'[q])
  <2>1. PICK e \in Nat : e = AtTail(q, d)
    BY DEF AtTail
  <2>2. PICK s \in Nat : s = BackToFb(b, b.len, q)
    BY <1>3 DEF BackToFb
  <2>3. /\ fbFree'[q] = Capped(Capped(fbFree[q] + s, fbTotal[q]) + e, fbTotal[q] + e)
        /\ fbTotal'[q] = fbTotal[q] + e
    BY <1>1, <1>2, <2>1, <2>2 DEF IRelease, B
  <2>4. /\ TypeOK /\ IramTiled /\ FbStart[q] \in Nat /\ FbEnd(q) \in Nat /\ fbTotal[q] \in Nat
        /\ FbEnd(q) = FbStart[q] + fbTotal[q] /\ FbStart[q] <= FbEnd(q)
    BY FbFacts DEF IInv
  <2>5. e = 0 \/ \A a \in B : EndOf(a) <= FbEnd(q)
    BY <1>5, <2>1, <2>4 DEF AtTail, IramTiled
  <2>6. Takes(b, FbStart[q], FbEnd(q), s)
    BY <2>2, BlockTakes
  <2>7. fbFree[q] = FreeIn(B \cup {b}, FbStart[q], FbEnd(q)) /\ fbFree[q] \in Nat
    <3>1. fbFree[q] \in Nat
      BY <2>4, FbFacts
    <3> QED
      BY <1>3, <3>1 DEF CountersAgree, FreeIn
  <2>10. FreeIn(B, FbStart[q], FbEnd(q)) = FreeIn(B \cup {b}, FbStart[q], FbEnd(q)) + s
    BY <1>3, <2>4, <2>6, WindowTaken
  <2>11. FreeIn(B, FbStart[q], FbEnd(q) + e) = FreeIn(B, FbStart[q], FbEnd(q)) + e
    BY <1>3, <2>4, <2>5, WindowTail
  <2>12. FreeIn(B, FbStart[q], FbEnd(q)) <= FbEnd(q) - FbStart[q]
    BY <1>3, <2>4, WindowType
  <2>13. fbFree[q] + s <= fbTotal[q]
    BY <2>4, <2>7, <2>10, <2>12
  <2>14. fbFree'[q] = (fbFree[q] + s) + e
    <3>1. PICK n \in Nat, m \in Nat : n = fbFree[q] /\ m = fbTotal[q]
      BY <2>4, <2>7
    <3>2. n + s <= m
      BY <2>13, <3>1
    <3>3. Capped(Capped(n + s, m) + e, m + e) = (n + s) + e
      BY <3>2 DEF Capped
    <3> QED
      BY <2>3, <3>1, <3>3
  <2>8. fbFree'[q] = FreeIn(B, FbStart[q], FbEnd(q) + e)
    BY <2>7, <2>10, <2>11, <2>14
  <2>9. FbEnd(q) + e = FbStart[q] + fbTotal'[q]
    BY <2>3, <2>4
  <2> QED
    BY <2>8, <2>9
<1> QED
  BY <1>2, <1>6, <1>7, <1>8 DEF CountersAgree, FreeIn, FbEnd

(* A block is resized in place: it takes k bytes fewer or k bytes more. *)
Shrunk(b, x, k) ==
  /\ b.len = x.len + k
  /\ iramFree' = Capped(iramFree + k, iramEnd)
  /\ execFree' = BackToExec(b, k)
  /\ fbFree' = [q \in Fb |-> Capped(fbFree[q] + BackToFb(b, k, q), fbTotal[q])]

Grown(b, x, k) ==
  /\ x.len = b.len + k
  /\ iramFree' = Less(iramFree, k)
  /\ execFree' = IF b \in execs THEN Less(execFree, k) ELSE execFree
  /\ fbFree' = [q \in Fb |-> Less(fbFree[q], BackToFb(b, k, q))]

LEMMA CountersResize ==
  ASSUME IInv, IInv', CountersAgree, NEW b \in Used, NEW x, ResizedTo(b, x),
         fbTotal' = fbTotal, iramEnd' = iramEnd, NEW k \in Nat,
         Shrunk(b, x, k) \/ Grown(b, x, k)
  PROVE  CountersAgree'
<1> DEFINE B == Used \ {b}
<1>1. /\ Used' = B \cup {x} /\ x \in Extent /\ IsFree(B, x) /\ x.off = b.off
      /\ execs' = IF b \in execs THEN (execs \ {b}) \cup {x} ELSE execs
      /\ fbs' = IF b \in fbs THEN (fbs \ {b}) \cup {x} ELSE fbs
  BY DEF ResizedTo
<1>2. /\ b \in Extent /\ b.len \in Nat /\ B \in SUBSET Extent /\ B \cup {b} = Used
      /\ IsFree(B, b) /\ x.len \in Nat
  BY <1>1, BlockFacts DEF Extent
<1>3. /\ iramEnd \in Nat /\ Reserve \in Nat /\ Reserve <= iramEnd
      /\ execFree \in Nat /\ iramFree \in Nat /\ 0 \in Nat /\ 0 <= iramEnd /\ 0 <= Reserve
  BY ArenaFacts
<1>4. x.len > 0
  BY <1>1 DEF IInv, ZonesApart
<1> HIDE DEF B
<1>5. /\ b \in execs => EndOf(x) <= Reserve
      /\ b \notin execs => \E r \in Fb : FbWithin(r, x)
  <2>1. CASE b \in execs
    BY <1>1, <2>1 DEF IInv, ZonesApart
  <2>2. CASE b \notin execs
    <3>1. x \in fbs'
      BY <1>1, <2>2 DEF Used
    <3>2. PICK r \in Fb : FbStart[r] <= x.off /\ EndOf(x) <= FbEnd(r)'
      BY <3>1 DEF IInv, ZonesApart
    <3> QED
      BY <2>2, <3>2 DEF FbWithin, FbEnd
  <2> QED
    BY <2>1, <2>2
<1>6. /\ Takes(x, 0, Reserve, IF b \in execs THEN x.len ELSE 0)
      /\ Takes(x, 0, iramEnd, x.len)
  <2>1. PICK e \in BOOLEAN : e <=> b \in execs
    <3>1. (b \in execs) \in BOOLEAN
      OBVIOUS
    <3> QED
      BY <3>1
  <2>2. Takes(x, 0, Reserve, IF e THEN x.len ELSE 0) /\ Takes(x, 0, iramEnd, x.len)
    BY <1>1, <1>5, <2>1, ZoneTakes
  <2> QED
    BY <2>1, <2>2
<1>7. iramFree' = FreeIn(B \cup {x}, 0, iramEnd)
  <2>1. Takes(b, 0, iramEnd, b.len)
    BY BlockTakes
  <2>2. /\ FreeIn(B \cup {b}, 0, iramEnd) + b.len = FreeIn(B \cup {x}, 0, iramEnd) + x.len
        /\ FreeIn(B \cup {b}, 0, iramEnd) + b.len <= iramEnd - 0
        /\ FreeIn(B \cup {b}, 0, iramEnd) \in Nat /\ FreeIn(B \cup {x}, 0, iramEnd) \in Nat
    BY <1>1, <1>2, <1>3, <1>6, <2>1, WindowResize
  <2>3. iramFree = FreeIn(B \cup {b}, 0, iramEnd)
    BY <1>2 DEF CountersAgree, FreeIn
  <2>4. PICK f \in Nat : f = FreeIn(B \cup {x}, 0, iramEnd)
    BY <2>2
  <2>5. iramFree + b.len = f + x.len /\ iramFree + b.len <= iramEnd
    BY <1>3, <2>2, <2>3, <2>4
  <2>a. /\ b.len = x.len + k => Capped(iramFree + k, iramEnd) = f
        /\ x.len = b.len + k => Less(iramFree, k) = f
    BY <1>2, <1>3, <2>5 DEF Capped, Less
  <2>6. CASE Shrunk(b, x, k)
    BY <2>4, <2>6, <2>a DEF Shrunk
  <2>7. CASE Grown(b, x, k)
    BY <2>4, <2>7, <2>a DEF Grown
  <2> QED
    BY <2>6, <2>7
<1>8. execFree' = FreeIn(B \cup {x}, 0, Reserve)
  <2>1. PICK s \in Nat, t \in Nat : /\ s = (IF b \in execs THEN b.len ELSE 0)
                                   /\ t = (IF b \in execs THEN x.len ELSE 0)
    BY <1>2
  <2>2. Takes(b, 0, Reserve, s) /\ Takes(x, 0, Reserve, t)
    BY <1>6, <2>1, BlockTakes
  <2>3. /\ FreeIn(B \cup {b}, 0, Reserve) + s = FreeIn(B \cup {x}, 0, Reserve) + t
        /\ FreeIn(B \cup {b}, 0, Reserve) + s <= Reserve - 0
        /\ FreeIn(B \cup {b}, 0, Reserve) \in Nat /\ FreeIn(B \cup {x}, 0, Reserve) \in Nat
    BY <1>1, <1>2, <1>3, <2>2, WindowResize
  <2>4. execFree = FreeIn(B \cup {b}, 0, Reserve)
    BY <1>2 DEF CountersAgree, FreeIn
  <2>5. PICK f \in Nat : f = FreeIn(B \cup {x}, 0, Reserve)
    BY <2>3
  <2>6. execFree + s = f + t /\ execFree + s <= Reserve
    BY <1>3, <2>3, <2>4, <2>5
  <2>7. CASE b \in execs
    <3>1. s = b.len /\ t = x.len
      BY <2>1, <2>7
    <3>a. /\ s = t + k => Capped(execFree + k, Reserve) = f
          /\ t = s + k => Less(execFree, k) = f
      BY <1>3, <2>6 DEF Capped, Less
    <3>2. CASE Shrunk(b, x, k)
      BY <2>5, <2>7, <3>1, <3>2, <3>a DEF Shrunk, BackToExec
    <3>3. CASE Grown(b, x, k)
      BY <2>5, <2>7, <3>1, <3>3, <3>a DEF Grown
    <3> QED
      BY <3>2, <3>3
  <2>8. CASE b \notin execs
    <3>1. execFree' = execFree
      BY <2>8 DEF Shrunk, Grown, BackToExec
    <3>2. s = 0 /\ t = 0
      BY <2>1, <2>8
    <3> QED
      BY <1>3, <2>5, <2>6, <3>1, <3>2
  <2> QED
    BY <2>7, <2>8
<1>9. ASSUME NEW q \in Fb
      PROVE  fbFree'[q] = FreeIn(B \cup {x}, FbStart[q], FbEnd(q))
  <2>1. /\ FbStart[q] \in Nat /\ FbEnd(q) \in Nat /\ fbTotal[q] \in Nat /\ fbFree[q] \in Nat
        /\ FbEnd(q) = FbStart[q] + fbTotal[q] /\ FbStart[q] <= FbEnd(q)
    BY FbFacts DEF IInv
  <2>2. PICK s \in Nat, t \in Nat, j \in Nat :
          /\ Takes(b, FbStart[q], FbEnd(q), s) /\ Takes(x, FbStart[q], FbEnd(q), t)
          /\ j = BackToFb(b, k, q)
          /\ b.len = x.len + k => s = t + j
          /\ x.len = b.len + k => t = s + j
    <3>1. CASE b \in fbs /\ InFb(q, b.off) /\ FbWithin(q, b) /\ FbWithin(q, x)
      <4>1. Takes(b, FbStart[q], FbEnd(q), b.len) /\ Takes(x, FbStart[q], FbEnd(q), x.len)
        BY <3>1 DEF Takes, FbWithin
      <4>2. BackToFb(b, k, q) = k
        BY <3>1 DEF BackToFb
      <4> QED
        BY <1>2, <4>1, <4>2
    <3>2. CASE ~(b \in fbs /\ InFb(q, b.off)) /\ Outside(q, b) /\ Outside(q, x)
      <4>1. Takes(b, FbStart[q], FbEnd(q), 0) /\ Takes(x, FbStart[q], FbEnd(q), 0)
        BY <3>2 DEF Takes, Outside
      <4>2. BackToFb(b, k, q) = 0
        BY <3>2 DEF BackToFb
      <4> QED
        BY <4>1, <4>2
    <3> QED
      BY <1>1, <1>4, <3>1, <3>2, ResizedInOrOut
  <2>3. /\ FreeIn(B \cup {b}, FbStart[q], FbEnd(q)) + s = FreeIn(B \cup {x}, FbStart[q], FbEnd(q)) + t
        /\ FreeIn(B \cup {b}, FbStart[q], FbEnd(q)) + s <= FbEnd(q) - FbStart[q]
        /\ FreeIn(B \cup {b}, FbStart[q], FbEnd(q)) \in Nat
        /\ FreeIn(B \cup {x}, FbStart[q], FbEnd(q)) \in Nat
    BY <1>1, <1>2, <2>1, <2>2, WindowResize
  <2>4. fbFree[q] = FreeIn(B \cup {b}, FbStart[q], FbEnd(q))
    BY <1>2 DEF CountersAgree, FreeIn
  <2>5. PICK f \in Nat, n \in Nat, m \in Nat :
          /\ f = FreeIn(B \cup {x}, FbStart[q], FbEnd(q))
          /\ n = fbFree[q] /\ m = fbTotal[q]
    BY <2>1, <2>3
  <2>6. n + s = f + t /\ n + s <= m
    BY <2>1, <2>3, <2>4, <2>5
  <2>a. /\ s = t + j => Capped(n + j, m) = f
        /\ t = s + j => Less(n, j) = f
    BY <2>6 DEF Capped, Less
  <2>7. CASE Shrunk(b, x, k)
    <3>1. fbFree'[q] = Capped(n + j, m) /\ s = t + j
      BY <2>2, <2>5, <2>7 DEF Shrunk
    <3> QED
      BY <2>5, <2>a, <3>1
  <2>8. CASE Grown(b, x, k)
    <3>1. fbFree'[q] = Less(n, j) /\ t = s + j
      BY <2>2, <2>5, <2>8 DEF Grown
    <3> QED
      BY <2>5, <2>a, <3>1
  <2> QED
    BY <2>7, <2>8
<1> QED
  BY <1>1, <1>7, <1>8, <1>9 DEF CountersAgree, FreeIn, FbEnd

LEMMA CountersStep == IInv /\ CountersAgree /\ [Next]_iramVars => CountersAgree'
<1> SUFFICES ASSUME IInv, CountersAgree, [Next]_iramVars PROVE CountersAgree'
  OBVIOUS
<1>0. IInv' /\ Requests \subseteq Nat \ {0}
  BY IStepInv, IramTableAssumption
<1>1. CASE \E bytes \in Requests : \E x \in ExecFinds(bytes) : TakeExec(bytes, x)
  <2>1. PICK bytes \in Requests : \E x \in ExecFinds(bytes) : TakeExec(bytes, x)
    BY <1>1
  <2>2. PICK x \in ExecFinds(bytes) : TakeExec(bytes, x)
    BY <2>1
  <2>3. x \in Extent /\ EndOf(x) <= Reserve /\ ILands(x) /\ IPlace(x, TRUE, fbCache)
    BY <1>0, <2>2, ExecSound DEF TakeExec
  <2> QED
    BY <2>3, CountersPlace
<1>2. CASE \E bytes \in Requests : \E x \in IAnswers(bytes) : FbTake(bytes, x)
  <2>1. PICK bytes \in Requests : \E x \in IAnswers(bytes) : FbTake(bytes, x)
    BY <1>2
  <2>2. PICK x \in IAnswers(bytes) : FbTake(bytes, x)
    BY <2>1
  <2>3. PICK own \in Fb, r \in Fb : \E g \in FbFitting(r, bytes) :
           /\ x = FbCut(r, g, bytes) /\ ILands(x)
           /\ \/ IPlace(x, FALSE, fbCache)
              \/ IPlace(x, FALSE, FbSearched(own, bytes))
    BY <1>0, <2>2, FbTakeIsPlace
  <2>4. x \in Extent /\ FbWithin(r, x) /\ ILands(x)
    BY <1>0, <2>3, FbCutSound
  <2>5. PICK c : IPlace(x, FALSE, c)
    BY <2>3
  <2> QED
    BY <2>4, <2>5, CountersPlace
<1>3. CASE \E bytes \in Requests : \E own \in Fb : FbRefuse(own, bytes)
  BY <1>3 DEF FbRefuse, CountersAgree, Used, FbEnd
<1>4. CASE \E b \in Used : IRelease(b)
  BY <1>4, CountersRelease
<1>5. CASE \E b \in Used : \E bytes \in Requests : IShrink(b, bytes)
  <2>1. PICK b \in Used, bytes \in Requests : IShrink(b, bytes)
    BY <1>5
  <2>2. PICK x : x = [off |-> b.off, len |-> bytes]
    OBVIOUS
  <2>3. bytes \in Nat \ {0} /\ IInv /\ IInv' /\ x.len = bytes
    BY <1>0, <2>2
  <2>4. ResizedTo(b, x)
    BY <2>1, <2>2, <2>3, IShrinkIsResize
  <2>5. PICK k \in Nat : k = b.len - bytes /\ b.len = bytes + k
    <3>1. b.len \in Nat /\ bytes < b.len
      BY <2>1, BlockFacts DEF IShrink
    <3>2. b.len - bytes \in Nat /\ b.len = bytes + (b.len - bytes)
      BY <2>3, <3>1
    <3> QED
      BY <3>2
  <2>6. Shrunk(b, x, k) /\ fbTotal' = fbTotal /\ iramEnd' = iramEnd
    BY <2>1, <2>3, <2>5 DEF IShrink, Shrunk
  <2> QED
    BY <2>3, <2>4, <2>6, CountersResize
<1>6. CASE \E b \in Used : \E bytes \in Requests : IExtend(b, bytes)
  <2>1. PICK b \in Used, bytes \in Requests : IExtend(b, bytes)
    BY <1>6
  <2>2. bytes \in Nat \ {0} /\ IInv /\ IInv'
    BY <1>0
  <2>3. PICK m, x, k : ResizedTo(b, x) /\ GrownTo(b, bytes, m, x, k)
    BY <2>1, <2>2, IExtendIsResize
  <2>4. k \in Nat /\ x.len = b.len + k
    <3>1. k \in Nat \ {0} /\ k = x.len - b.len
      BY <2>3 DEF GrownTo
    <3>2. x.len \in Nat /\ b.len \in Nat
      BY <2>3, BlockFacts DEF ResizedTo, Extent
    <3> QED
      BY <3>1, <3>2
  <2>5. Grown(b, x, k) /\ fbTotal' = fbTotal /\ iramEnd' = iramEnd
    BY <2>3, <2>4 DEF GrownTo, Grown
  <2> QED
    BY <2>2, <2>3, <2>4, <2>5, CountersResize
<1>7. CASE \E b \in Used : IOverrun(b)
  BY <1>7 DEF IOverrun, CountersAgree, Used, FbEnd
<1>8. CASE \E R \in SUBSET Fb : IInspect(R)
  BY <1>8 DEF IInspect, CountersAgree, Used, FbEnd
<1>9. CASE UNCHANGED iramVars
  BY <1>9 DEF iramVars, CountersAgree, Used, FbEnd
<1> QED
  BY <1>1, <1>2, <1>3, <1>4, <1>5, <1>6, <1>7, <1>8, <1>9 DEF Next

LEMMA CountersInit == Init => CountersAgree
<1> SUFFICES ASSUME Init PROVE CountersAgree
  OBVIOUS
<1>1. IInv /\ Used = {} /\ iramFree = iramEnd /\ execFree = Reserve /\ fbFree = fbTotal
  BY IInitInv DEF Init, Used
<1>2. iramEnd \in Nat /\ Reserve \in Nat /\ 0 \in Nat /\ 0 <= iramEnd /\ 0 <= Reserve
  BY <1>1, ArenaFacts
<1>3. /\ Cardinality(FreeBytes({}, 0, iramEnd)) = iramEnd - 0
      /\ Cardinality(FreeBytes({}, 0, Reserve)) = Reserve - 0
  BY <1>2, FreeBytesNone
<1>4. ASSUME NEW q \in Fb
      PROVE  fbFree[q] = Cardinality(FreeBytes({}, FbStart[q], FbEnd(q)))
  <2>1. /\ FbStart[q] \in Nat /\ FbEnd(q) \in Nat /\ fbTotal[q] \in Nat
        /\ FbEnd(q) = FbStart[q] + fbTotal[q] /\ FbStart[q] <= FbEnd(q)
    BY <1>1, FbFacts DEF IInv
  <2>2. Cardinality(FreeBytes({}, FbStart[q], FbEnd(q))) = FbEnd(q) - FbStart[q]
    BY <2>1, FreeBytesNone
  <2> QED
    BY <1>1, <2>1, <2>2
<1> QED
  BY <1>1, <1>2, <1>3, <1>4 DEF CountersAgree

(* However blocks come and go, are resized, and the table takes bytes from  *)
(* the last region or gives them back, the counters of the arena, of its    *)
(* EXEC zone and of every fallback region state exactly the free bytes      *)
(* there (mxr_iram_allocated, mxr_iram_released).                           *)
THEOREM IramCountersExact == Spec => []CountersAgree
<1>1. Init => IInv /\ CountersAgree
  BY IInitInv, CountersInit
<1>2. (IInv /\ CountersAgree) /\ [Next]_iramVars => (IInv /\ CountersAgree)'
  BY IStepInv, CountersStep
<1> QED
  BY <1>1, <1>2, PTL DEF Spec

-----------------------------------------------------------------------------
(* The tail of the arena and the table's room to grow. *)

(* With a fixed arena end, a block that ends low enough keeps the room. *)
LEMMA RoomKept ==
  ASSUME IInv, NEW x \in Extent, TailGrowable, iramEnd' = iramEnd, icap' = icap,
         Used' = Used \cup {x}, EndOf(x) <= iramEnd - IDelta
  PROVE  TailGrowable'
<1>1. \A b \in Used : EndOf(b) <= iramEnd - IDelta
  BY DEF TailGrowable, ICanGrowFor
<1>2. \A b \in Used' : EndOf(b) <= iramEnd' - IDelta
  BY <1>1
<1>3. Used' # {}
  OBVIOUS
<1> QED
  BY <1>2, <1>3 DEF TailGrowable, ICanGrowFor

LEMMA FbTakeKeepsRoom ==
  ASSUME IInv, NEW bytes \in Nat \ {0}, NEW r \in Fb, NEW h \in FbFitting(r, bytes),
         NEW x, x = FbCut(r, h, bytes), NEW c, IPlace(x, FALSE, c),
         TailGrowable, iramEnd' = iramEnd,
         NEW g \in Gaps(Used, FbStart[FbLast], iramEnd),
         g.off <= x.off, EndOf(x) <= EndOf(g), g.len >= x.len + IDelta
  PROVE  TailGrowable'
<1>1. /\ h \in Gaps(Used, FbStart[r], FbEnd(r)) /\ h \in Extent
      /\ x \in Extent /\ x.len > 0 /\ FbWithin(r, x)
      /\ h.off <= x.off /\ EndOf(x) <= EndOf(h)
  <2>1. /\ h \in Gaps(Used, FbStart[r], FbEnd(r)) /\ h \in Extent
        /\ x \in Extent /\ bytes <= x.len /\ FbWithin(r, x)
        /\ h.off <= x.off /\ EndOf(x) <= EndOf(h)
    BY FbCutSound
  <2> QED
    BY <2>1 DEF Extent
<1>2. /\ TypeOK /\ IramTiled /\ Used \in SUBSET Extent /\ FbLast \in Fb
      /\ FbStart[FbLast] \in Nat /\ FbEnd(FbLast) = iramEnd /\ iramEnd \in Nat
      /\ IDelta \in Nat /\ IDelta > 0
  BY UsedFacts, FbFacts, ArenaFacts, DeltaFacts DEF IInv, IramTiled
<1>3. g \in Extent /\ FbStart[FbLast] <= g.off /\ EndOf(g) <= iramEnd
  BY <1>2, GapSound
<1>4. r = FbLast
  <2>1. SUFFICES ASSUME r # FbLast PROVE FALSE
    OBVIOUS
  <2>2. EndOf(x) <= FbStart[FbLast] \/ FbEnd(FbLast) <= x.off
    BY <1>1, <1>2, <2>1, FbApart
  <2> QED
    BY <1>1, <1>2, <1>3, <2>2 DEF EndOf, Extent
<1>5. h = g
  BY <1>1, <1>2, <1>4, GapUnique
<1>6. Used' = Used \cup {x} /\ icap' = icap
  BY <1>2 DEF IPlace, Eaten, Used
<1>7. EndOf(x) <= iramEnd - IDelta
  <2>1. CASE KeepsTail(r, h)
    <3>1. x = [off |-> h.off, len |-> bytes]
      BY <2>1 DEF FbCut
    <3>2. x.off = g.off
      BY <1>5, <3>1
    <3> QED
      BY <1>1, <1>2, <1>3, <3>2 DEF EndOf, Extent
  <2>2. CASE ~KeepsTail(r, h)
    <3>1. EndOf(h) # iramEnd
      BY <1>2, <1>4, <2>2 DEF KeepsTail
    <3>2. PICK b \in Used : b.off = EndOf(h)
      BY <1>1, <1>2, <1>4, <3>1, GapBorders
    <3>3. EndOf(b) <= iramEnd - IDelta
      BY DEF TailGrowable, ICanGrowFor
    <3>4. b \in Extent
      BY <1>2
    <3> QED
      BY <1>1, <1>2, <3>2, <3>3, <3>4 DEF EndOf, Extent
  <2> QED
    BY <2>1, <2>2
<1> QED
  BY <1>1, <1>6, <1>7, RoomKept

(* A resized block is no block from a gap: the gap held none of its bytes. *)
LEMMA ResizedNotInGap ==
  ASSUME IInv, NEW b \in Used, NEW x \in Extent, x.off = b.off, x.len > 0,
         NEW lo \in Nat, NEW hi \in Nat, NEW g \in Gaps(Used, lo, hi)
  PROVE  ~(g.off <= x.off /\ EndOf(x) <= EndOf(g))
<1>1. Used \in SUBSET Extent /\ b \in Extent /\ b.len > 0
  BY UsedFacts, BlockFacts DEF IInv
<1>2. g \in Extent /\ g.len > 0 /\ Disjoint(b, g)
  BY <1>1, GapSound DEF IsFree
<1> QED
  BY <1>1, <1>2 DEF Disjoint, EndOf, Extent

RoomStep ==
  \A x \in fbs' \ fbs : \A g \in Gaps(Used, FbStart[FbLast], iramEnd) :
       /\ TailGrowable /\ iramEnd' = iramEnd
       /\ g.off <= x.off /\ EndOf(x) <= EndOf(g)
       /\ g.len >= x.len + IDelta
       => TailGrowable'

LEMMA RoomStepHolds == IInv /\ [Next]_iramVars => [RoomStep]_iramVars
<1> SUFFICES ASSUME IInv, Next,
                    NEW x \in fbs' \ fbs, NEW g \in Gaps(Used, FbStart[FbLast], iramEnd),
                    TailGrowable, iramEnd' = iramEnd,
                    g.off <= x.off, EndOf(x) <= EndOf(g), g.len >= x.len + IDelta
             PROVE  TailGrowable'
  BY DEF RoomStep
<1>0. IInv' /\ Requests \subseteq Nat \ {0}
  BY IStepInv, IramTableAssumption
<1>1. CASE \E bytes \in Requests : \E y \in ExecFinds(bytes) : TakeExec(bytes, y)
  BY <1>1 DEF TakeExec, IPlace
<1>2. CASE \E bytes \in Requests : \E y \in IAnswers(bytes) : FbTake(bytes, y)
  <2>1. PICK bytes \in Requests : \E y \in IAnswers(bytes) : FbTake(bytes, y)
    BY <1>2
  <2>2. PICK y \in IAnswers(bytes) : FbTake(bytes, y)
    BY <2>1
  <2>3. PICK own \in Fb, r \in Fb : \E h \in FbFitting(r, bytes) :
           /\ y = FbCut(r, h, bytes) /\ ILands(y)
           /\ \/ IPlace(y, FALSE, fbCache)
              \/ IPlace(y, FALSE, FbSearched(own, bytes))
    BY <1>0, <2>2, FbTakeIsPlace
  <2>4. PICK c : IPlace(y, FALSE, c)
    BY <2>3
  <2>5. x = y
    BY <2>4 DEF IPlace
  <2> QED
    BY <1>0, <2>3, <2>4, <2>5, FbTakeKeepsRoom
<1>3. CASE \E bytes \in Requests : \E own \in Fb : FbRefuse(own, bytes)
  BY <1>3 DEF FbRefuse
<1>4. CASE \E b \in Used : IRelease(b)
  BY <1>4 DEF IRelease
<1>a. ASSUME NEW b \in Used, NEW y, ResizedTo(b, y) PROVE FALSE
  <2>1. x = y /\ y \in Extent /\ y.off = b.off /\ y \in Used'
    BY <1>a DEF ResizedTo
  <2>2. y.len > 0
    BY <1>0, <2>1 DEF IInv, ZonesApart
  <2>3. FbLast \in Fb
    <3>1. NFb > 0 /\ NFb \in Nat
      BY IramLayoutAssumption DEF TailGrowable, ICanGrowFor
    <3> QED
      BY <3>1 DEF Fb, FbLast
  <2>4. FbStart[FbLast] \in Nat /\ iramEnd \in Nat
    BY <2>3, FbFacts, ArenaFacts DEF IInv
  <2> QED
    BY <2>1, <2>2, <2>4, ResizedNotInGap
<1>5. CASE \E b \in Used : \E bytes \in Requests : IShrink(b, bytes)
  <2>1. PICK b \in Used, bytes \in Requests : IShrink(b, bytes)
    BY <1>5
  <2>2. PICK y : y = [off |-> b.off, len |-> bytes]
    OBVIOUS
  <2>3. bytes \in Nat \ {0}
    BY <1>0
  <2>4. ResizedTo(b, y)
    BY <2>1, <2>2, <2>3, IShrinkIsResize
  <2> QED
    BY <1>a, <2>4
<1>6. CASE \E b \in Used : \E bytes \in Requests : IExtend(b, bytes)
  <2>1. PICK b \in Used, bytes \in Requests : IExtend(b, bytes)
    BY <1>6
  <2>2. bytes \in Nat \ {0}
    BY <1>0
  <2>3. PICK m, y, n : ResizedTo(b, y) /\ GrownTo(b, bytes, m, y, n)
    BY <2>1, <2>2, IExtendIsResize
  <2> QED
    BY <1>a, <2>3
<1>7. CASE \E b \in Used : IOverrun(b)
  BY <1>7 DEF IOverrun
<1>8. CASE \E R \in SUBSET Fb : IInspect(R)
  BY <1>8 DEF IInspect
<1> QED
  BY <1>1, <1>2, <1>3, <1>4, <1>5, <1>6, <1>7, <1>8 DEF Next

(* A fallback block that a search cuts from the tail of the arena leaves    *)
(* the dynamic table its room to grow, whenever that tail is long enough    *)
(* for both: it is cut from the lower edge there, and from the upper edge   *)
(* only of gaps that another block closes (mxr_iram_fb_find_free_in_region). *)
THEOREM IramTailKept == Spec => TailKept
<1>1. Spec => []IInv
  BY IramSafety
<1>2. IInv /\ [Next]_iramVars => [RoomStep]_iramVars
  BY RoomStepHolds
<1>3. TailKept <=> [][RoomStep]_iramVars
  BY DEF TailKept, RoomStep
<1> QED
  BY <1>1, <1>2, <1>3, PTL DEF Spec

-----------------------------------------------------------------------------
(* What the locked sections do to the two sets of blocks, for the modules   *)
(* that instantiate this one.                                               *)

LEMMA TakeExecBlocks ==
  ASSUME IInv, NEW bytes \in Nat \ {0}, NEW x, TakeExec(bytes, x)
  PROVE  x \notin Used /\ execs' = execs \cup {x} /\ fbs' = fbs
<1>1. x \in Extent /\ x.len = bytes /\ IsFree(Used, x)
  BY ExecSound DEF TakeExec
<1>2. x \notin Used
  BY <1>1 DEF IsFree, Disjoint, EndOf, Extent
<1> QED
  BY <1>2 DEF TakeExec, IPlace

LEMMA FbTakeBlocks ==
  ASSUME IInv, NEW bytes \in Nat \ {0}, NEW x, FbTake(bytes, x)
  PROVE  x \notin Used /\ fbs' = fbs \cup {x} /\ execs' = execs
<1>1. PICK r \in Fb : \E g \in FbFitting(r, bytes) :
        x = FbCut(r, g, bytes) /\ \E c : IPlace(x, FALSE, c)
  BY FbTakeIsPlace
<1>2. x \in Extent /\ bytes <= x.len /\ IsFree(Used, x)
  BY <1>1, FbCutSound
<1>3. x \notin Used
  BY <1>2 DEF IsFree, Disjoint, EndOf, Extent
<1> QED
  BY <1>1, <1>3 DEF IPlace

(* A block resized in place starts where it did and stays of its kind. *)
LEMMA ResizeBlocks ==
  ASSUME IInv, NEW b \in Used, NEW bytes \in Nat \ {0},
         IShrink(b, bytes) \/ IExtend(b, bytes)
  PROVE  \E x \in Extent :
           /\ x.off = b.off /\ x \notin Used \ {b}
           /\ Used' = (Used \ {b}) \cup {x}
           /\ execs' = IF b \in execs THEN (execs \ {b}) \cup {x} ELSE execs
           /\ fbs' = IF b \in fbs THEN (fbs \ {b}) \cup {x} ELSE fbs
<1>1. \E x : ResizedTo(b, x)
  BY IShrinkIsResize, IExtendIsResize
<1> QED
  BY <1>1 DEF ResizedTo

(* The table never moves the arena's end beyond where the start left it. *)
IramFits == iramEnd <= IramInit

LEMMA IramFitsInit == Init => IramFits
BY IramLayoutAssumption DEF Init, IramFits

LEMMA IramFitsStep ==
  ASSUME ITableInv, ITableInv', IramFits, [Next]_iramVars
  PROVE  IramFits'
<1>0. Requests \subseteq Nat \ {0} /\ iramEnd \in Nat
  BY IramTableAssumption DEF ITableInv, IInv, TypeOK
<1>1. CASE IDynamic
  <2>1. /\ iramEnd' \in Nat /\ icap' \in Nat /\ IInitCap \in Nat /\ IramInit \in Nat
        /\ IInitCap <= icap' /\ iramEnd' + icap' * 8 = IramInit + IInitCap * 8
    <3>1. iramEnd' \in Nat /\ icap' \in Nat /\ iramEnd' + icap' * 8 = IramInit + IInitCap * 8
      BY <1>1 DEF ITableInv, IInv, TypeOK, IramTiled
    <3>2. IInitCap \in Nat /\ IramInit \in Nat
      BY DeltaFacts, IramLayoutAssumption
    <3>3. IInitCap <= icap'
      <4>1. PICK k \in Nat : icap' = IInitCap + k * DescChunk
        BY DEF ITableInv, IChunks
      <4>2. k * DescChunk \in Nat
        BY DeltaFacts
      <4> QED
        BY <3>2, <4>1, <4>2
    <3> QED
      BY <3>1, <3>2, <3>3
  <2>2. ASSUME NEW e \in Nat, NEW c \in Nat, NEW i \in Nat, NEW d \in Nat,
               d <= c, e + c * 8 = i + d * 8
        PROVE  e <= i
    BY <2>2
  <2>3. iramEnd' <= IramInit
    BY <2>1, <2>2
  <2> QED
    BY <2>3 DEF IramFits
<1>2. CASE ~IDynamic
  <2>1. CASE \E bytes \in Requests : \E x \in ExecFinds(bytes) : TakeExec(bytes, x)
    BY <1>0, <1>2, <2>1 DEF TakeExec, ILands, ICanGrowFor, IPlace, Eaten, IramFits
  <2>2. CASE \E bytes \in Requests : \E x \in IAnswers(bytes) : FbTake(bytes, x)
    <3>1. PICK bytes \in Requests : \E x : FbTake(bytes, x)
      BY <2>2
    <3>2. PICK x : ILands(x) /\ \E c : IPlace(x, FALSE, c)
      BY <1>0, <3>1, FbTakeIsPlace DEF ITableInv
    <3>3. ~ITableFull
      BY <1>2, <3>2 DEF ILands, ICanGrowFor
    <3> QED
      BY <1>0, <3>2, <3>3 DEF IPlace, Eaten, IramFits
  <2>3. CASE \E bytes \in Requests : \E own \in Fb : FbRefuse(own, bytes)
    BY <2>3 DEF FbRefuse, IramFits
  <2>4. CASE \E b \in Used : IRelease(b)
    BY <1>0, <1>2, <2>4 DEF IRelease, ITableSlack, IramFits
  <2>5. CASE \E b \in Used : \E bytes \in Requests : IShrink(b, bytes) \/ IExtend(b, bytes)
    BY <2>5 DEF IShrink, IExtend, IramFits
  <2>6. CASE \/ \E b \in Used : IOverrun(b)
             \/ \E R \in SUBSET Fb : IInspect(R)
             \/ UNCHANGED iramVars
    BY <2>6 DEF IOverrun, IInspect, iramVars, IramFits
  <2> QED
    BY <2>1, <2>2, <2>3, <2>4, <2>5, <2>6 DEF Next
<1> QED
  BY <1>1, <1>2

-----------------------------------------------------------------------------
(* Alignment, as in the DRAM arena: from aligned borders and requests on,   *)
(* every block and the end of the arena stay aligned.                       *)

IAlignedLayout ==
  /\ Aligned(Reserve) /\ Aligned(IramInit) /\ Aligned(IDelta)
  /\ \A r \in Fb : Aligned(FbStart[r])
  /\ \A bytes \in Requests : Aligned(bytes)

UsedAligned == Aligned(iramEnd) /\ \A b \in Used : AlignedPiece(b)

IAlignedInv == IInv /\ IAlignedLayout /\ UsedAligned

LEMMA FbBordersAligned ==
  ASSUME IAlignedInv, NEW r \in Fb
  PROVE  Aligned(FbStart[r]) /\ Aligned(FbEnd(r))
<1>1. r # FbLast => r + 1 \in Fb
  BY IramLayoutAssumption DEF Fb, FbLast
<1> QED
  BY <1>1 DEF IAlignedInv, IInv, IramTiled, IAlignedLayout, UsedAligned

LEMMA ExecAligned ==
  ASSUME IAlignedInv, NEW bytes, Aligned(bytes), NEW x \in ExecFinds(bytes)
  PROVE  AlignedPiece(x)
<1>1. PICK g \in Gaps(Used, 0, Reserve) : x = [off |-> g.off, len |-> bytes]
  BY DEF ExecFinds
<1>2. /\ Used \in SUBSET Extent /\ 0 \in Nat /\ Reserve \in Nat /\ Aligned(Reserve)
      /\ \A b \in Used : AlignedPiece(b)
  BY UsedFacts, IramLayoutAssumption DEF IAlignedInv, IInv, IAlignedLayout, UsedAligned
<1>3. AlignedPiece(g)
  BY <1>2, AlignedZero, GapAligned
<1> QED
  BY <1>1, <1>3 DEF AlignedPiece

LEMMA FbCutAligned ==
  ASSUME IAlignedInv, NEW r \in Fb, NEW bytes, Aligned(bytes),
         NEW g \in Gaps(Used, FbStart[r], FbEnd(r))
  PROVE  AlignedPiece(FbCut(r, g, bytes))
<1>1. /\ Used \in SUBSET Extent /\ FbStart[r] \in Nat /\ FbEnd(r) \in Nat
      /\ \A b \in Used : AlignedPiece(b)
  BY UsedFacts, FbFacts DEF IAlignedInv, IInv, UsedAligned
<1>2. AlignedPiece(g) /\ Aligned(EndOf(g))
  BY <1>1, FbBordersAligned, GapAligned
<1>3. PICK len : len = CutLen(g.len, bytes, FbLimit(r)) /\ Aligned(len)
  BY <1>2, CutLenAligned DEF AlignedPiece
<1>4. Aligned(EndOf(g) - len)
  BY <1>2, <1>3, AlignedSum
<1> QED
  BY <1>2, <1>3, <1>4 DEF FbCut, AlignedPiece

LEMMA IPlaceAligned ==
  ASSUME IAlignedInv, NEW x, AlignedPiece(x), NEW isExec \in BOOLEAN, NEW c,
         IPlace(x, isExec, c)
  PROVE  UsedAligned'
<1>1. Used' = Used \cup {x}
  BY DEF IPlace, Used
<1>2. Aligned(iramEnd) /\ Aligned(Eaten)
  BY AlignedZero DEF IAlignedInv, UsedAligned, IAlignedLayout, Eaten
<1>3. iramEnd' = iramEnd - Eaten
  BY DEF IPlace
<1>4. Aligned(iramEnd')
  BY <1>2, <1>3, AlignedSum
<1> QED
  BY <1>1, <1>4 DEF IAlignedInv, UsedAligned

LEMMA IReleaseAligned ==
  ASSUME IAlignedInv, NEW b \in Used, IRelease(b)
  PROVE  UsedAligned'
<1>1. PICK given \in {0, IDelta} : iramEnd' = iramEnd + given
  BY DEF IRelease
<1>2. Aligned(iramEnd')
  BY <1>1, AlignedZero, AlignedSum DEF IAlignedInv, UsedAligned, IAlignedLayout
<1>3. Used' \subseteq Used
  BY DEF IRelease, Used
<1> QED
  BY <1>2, <1>3 DEF IAlignedInv, UsedAligned

LEMMA IResizeAligned ==
  ASSUME IAlignedInv, NEW b \in Used, NEW x, ResizedTo(b, x), Aligned(x.len),
         iramEnd' = iramEnd
  PROVE  UsedAligned'
BY DEF IAlignedInv, UsedAligned, AlignedPiece, ResizedTo

LEMMA RoomAligned ==
  ASSUME IAlignedInv, NEW b \in Used, NEW bytes, NEW m \in IRoomBehind(b, bytes)
  PROVE  Aligned(m.gap.len)
<1>1. /\ Used \in SUBSET Extent /\ \A c \in Used : AlignedPiece(c)
      /\ 0 \in Nat /\ Aligned(0) /\ Reserve \in Nat /\ Aligned(Reserve)
  BY UsedFacts, IramLayoutAssumption, AlignedZero
     DEF IAlignedInv, IInv, IAlignedLayout, UsedAligned
<1>2. CASE m.gap \in Gaps(Used, 0, Reserve)
  BY <1>1, <1>2, GapAligned DEF AlignedPiece
<1>3. CASE \E r \in Fb : m.gap \in Gaps(Used, FbStart[r], FbEnd(r))
  <2>1. PICK r \in Fb : m.gap \in Gaps(Used, FbStart[r], FbEnd(r))
    BY <1>3
  <2>2. FbStart[r] \in Nat /\ FbEnd(r) \in Nat /\ Aligned(FbStart[r]) /\ Aligned(FbEnd(r))
    BY FbFacts, FbBordersAligned DEF IAlignedInv, IInv
  <2> QED
    BY <1>1, <2>1, <2>2, GapAligned DEF AlignedPiece
<1>4. m \in {[gap |-> g, max |-> Unlimited] :
               g \in IF b \in execs THEN Gaps(Used, 0, Reserve) ELSE {}}
         \cup UNION {{[gap |-> g, max |-> FbLimit(r)] : g \in Gaps(Used, FbStart[r], FbEnd(r))} :
                       r \in {q \in Fb : b \in fbs /\ InFb(q, b.off) /\ FbSizeOk(q, bytes)}}
  BY DEF IRoomBehind
<1>5. CASE m \in {[gap |-> g, max |-> Unlimited] :
                    g \in IF b \in execs THEN Gaps(Used, 0, Reserve) ELSE {}}
  <2>1. m.gap \in Gaps(Used, 0, Reserve)
    BY <1>5
  <2> QED
    BY <1>2, <2>1
<1>6. CASE m \in UNION {{[gap |-> g, max |-> FbLimit(r)] : g \in Gaps(Used, FbStart[r], FbEnd(r))} :
                          r \in {q \in Fb : b \in fbs /\ InFb(q, b.off) /\ FbSizeOk(q, bytes)}}
  <2>1. \E r \in Fb : m.gap \in Gaps(Used, FbStart[r], FbEnd(r))
    BY <1>6
  <2> QED
    BY <1>3, <2>1
<1> QED
  BY <1>4, <1>5, <1>6

LEMMA IAlignedStep == IAlignedInv /\ [Next]_iramVars => IAlignedInv'
<1> SUFFICES ASSUME IAlignedInv, [Next]_iramVars PROVE UsedAligned'
  BY IStepInv DEF IAlignedInv, IAlignedLayout
<1>0. IInv /\ \A bytes \in Requests : bytes \in Nat \ {0} /\ Aligned(bytes)
  BY IramTableAssumption DEF IAlignedInv, IAlignedLayout
<1>1. ASSUME NEW bytes \in Requests, NEW x \in ExecFinds(bytes), TakeExec(bytes, x)
      PROVE  UsedAligned'
  BY <1>0, <1>1, ExecAligned, IPlaceAligned DEF TakeExec
<1>2. ASSUME NEW bytes \in Requests, NEW x, FbTake(bytes, x)
      PROVE  UsedAligned'
  <2>1. PICK r \in Fb : \E g \in FbFitting(r, bytes) :
          x = FbCut(r, g, bytes) /\ \E c : IPlace(x, FALSE, c)
    BY <1>0, <1>2, FbTakeIsPlace
  <2>2. AlignedPiece(x)
    BY <1>0, <2>1, FbCutAligned DEF FbFitting, Fitting
  <2> QED
    BY <2>1, <2>2, IPlaceAligned
<1>3. CASE \E b \in Used : IRelease(b)
  BY <1>3, IReleaseAligned
<1>4. ASSUME NEW b \in Used, NEW bytes \in Requests, IShrink(b, bytes)
      PROVE  UsedAligned'
  <2>1. ResizedTo(b, [off |-> b.off, len |-> bytes])
    BY <1>0, <1>4, IShrinkIsResize
  <2>2. iramEnd' = iramEnd
    BY <1>4 DEF IShrink
  <2> QED
    BY <1>0, <2>1, <2>2, IResizeAligned
<1>5. ASSUME NEW b \in Used, NEW bytes \in Requests, IExtend(b, bytes)
      PROVE  UsedAligned'
  <2>1. PICK m, x, n : ResizedTo(b, x) /\ GrownTo(b, bytes, m, x, n)
    BY <1>0, <1>5, IExtendIsResize
  <2>2. /\ m \in IRoomBehind(b, bytes) /\ x.len = CutLen(b.len + m.gap.len, bytes, m.max)
        /\ iramEnd' = iramEnd
    BY <2>1 DEF GrownTo
  <2>3. Aligned(b.len) /\ Aligned(m.gap.len)
    BY <2>2, RoomAligned DEF IAlignedInv, UsedAligned, AlignedPiece
  <2>4. Aligned(x.len)
    BY <1>0, <2>2, <2>3, AlignedSum, CutLenAligned
  <2> QED
    BY <2>1, <2>2, <2>4, IResizeAligned
<1>6. CASE \/ \E bytes \in Requests : \E own \in Fb : FbRefuse(own, bytes)
           \/ \E b \in Used : IOverrun(b)
           \/ \E R \in SUBSET Fb : IInspect(R)
           \/ UNCHANGED iramVars
  <2>1. UNCHANGED <<execs, fbs, iramEnd>>
    BY <1>6 DEF FbRefuse, IOverrun, IInspect, iramVars
  <2> QED
    BY <2>1 DEF IAlignedInv, UsedAligned, Used
<1> QED
  BY <1>1, <1>2, <1>3, <1>4, <1>5, <1>6 DEF Next

LEMMA IAlignedStart == IAlignedLayout /\ Init => IAlignedInv
BY IInitInv DEF IAlignedInv, IAlignedLayout, UsedAligned, Init, Used

(* From aligned borders and requests on, every block of the EXEC zone and   *)
(* of the fallback zone starts and ends aligned, cut from either edge of    *)
(* its gap, expanded, shrunk or grown, and so does the table.               *)
THEOREM IramStaysAligned == IAlignedLayout /\ Spec => []UsedAligned
<1>1. IAlignedInv => UsedAligned
  BY DEF IAlignedInv
<1> QED
  BY <1>1, IAlignedStart, IAlignedStep, PTL DEF Spec

-----------------------------------------------------------------------------
(* With a free slot in the table a request is served when, and only when,   *)
(* there is room: a long enough gap of the EXEC zone, or one of a fallback  *)
(* region that its class or the guards of the crossing admit.               *)

FbHasRoom(r, bytes) == \E g \in Gaps(Used, FbStart[r], FbEnd(r)) : bytes <= g.len

FbGuards(r, bytes) ==
  /\ IGuardNum = 0 \/ FbMax[r] = Unlimited \/ bytes <= (FbMax[r] * IGuardNum) \div IGuardDen
  /\ IMinDiv = 0 \/ bytes >= FbMin[r] \div IMinDiv

FbFits(bytes) ==
  /\ FbMaxBytes = 0 \/ bytes <= FbMaxBytes
  /\ \E r \in Fb : FbHasRoom(r, bytes) /\ (FbSizeOk(r, bytes) \/ (ICrossEnabled /\ FbGuards(r, bytes)))

ServedFb(bytes) ==
  FbAdmits(bytes) /\ \E own \in Fb : FbIsOwn(own, bytes) /\ ~FbFails(own, bytes)

ExecFits(bytes) == \E g \in Gaps(Used, 0, Reserve) : bytes <= g.len

ServedExec(bytes) == \E x \in ExecFinds(bytes) : ILands(x)

RoomInv == IInv /\ ITableFits /\ FbCacheExact /\ CountersAgree

LEMMA FbOwnClass ==
  ASSUME NEW bytes \in Nat, NEW r \in Fb
  PROVE  /\ FbSizeOk(r, bytes) => FbIsOwn(r, bytes)
         /\ FbMin[0] <= bytes => \E own \in Fb : FbIsOwn(own, bytes)
<1>1. /\ NFb \in Nat \ {0}
      /\ FbMin \in [0 .. (NFb - 1) -> Nat] /\ FbMax \in [0 .. (NFb - 1) -> Nat]
      /\ \A q \in 0 .. (NFb - 1) : FbMax[q] = Unlimited <=> q = NFb - 1
      /\ \A q \in (0 .. (NFb - 1)) \ {NFb - 1} : FbMin[q] <= FbMax[q] /\ FbMin[q + 1] = FbMax[q] + 1
  BY IramLayoutAssumption DEF Fb, FbLast
<1>2. /\ \A q, p \in Fb : q < p => FbMax[q] < FbMin[p] /\ FbMax[q] # Unlimited
      /\ \A n \in Nat : FbMin[0] <= n =>
           \E p \in Fb : FbMin[p] <= n /\ (FbMax[p] = Unlimited \/ n <= FbMax[p])
  BY <1>1, Classes DEF Fb
<1>3. \A p \in Fb : FbMin[p] \in Nat /\ FbMax[p] \in Nat
  BY <1>1 DEF Fb
<1>4. ASSUME NEW p \in Fb, FbSizeOk(p, bytes) PROVE FbIsOwn(p, bytes)
  <2>1. SUFFICES ASSUME NEW q \in Fb, q < p, FbSizeOk(q, bytes) PROVE FALSE
    BY <1>4 DEF FbIsOwn
  <2>2. FbMax[q] < FbMin[p] /\ FbMax[q] # Unlimited
    BY <1>2, <2>1
  <2>3. FbMin[p] <= bytes /\ bytes <= FbMax[q]
    BY <1>4, <2>1, <2>2 DEF FbSizeOk
  <2> QED
    BY <1>3, <2>2, <2>3
<1>5. ASSUME FbMin[0] <= bytes PROVE \E own \in Fb : FbIsOwn(own, bytes)
  <2>1. \E p \in Fb : FbSizeOk(p, bytes)
    BY <1>2, <1>5 DEF FbSizeOk
  <2> QED
    BY <1>4, <2>1
<1> QED
  BY <1>4, <1>5

(* Of gaps that fit there is a lowest, and an uppermost of the shortest. *)
LEMMA FbBestFound ==
  ASSUME TypeOK, NEW r \in Fb, NEW bytes \in Nat, FbFitting(r, bytes) # {}
  PROVE  FbBest(r, bytes) # {} /\ FbSmallest(r, bytes) # {}
<1> DEFINE fit == FbFitting(r, bytes)
           early == FbEarly(r, bytes)
<1>1. Used \in SUBSET Extent /\ FbStart[r] \in Nat /\ FbEnd(r) \in Nat
  BY UsedFacts, FbFacts
<1>2. \A g \in fit : g.off \in Nat /\ g.len \in Nat /\ g.off <= FbEnd(r)
  <2>1. SUFFICES ASSUME NEW g \in fit PROVE g.off \in Nat /\ g.len \in Nat /\ g.off <= FbEnd(r)
    OBVIOUS
  <2>2. g \in Gaps(Used, FbStart[r], FbEnd(r))
    BY DEF FbFitting, Fitting
  <2>3. g \in Extent /\ EndOf(g) <= FbEnd(r)
    BY <1>1, <2>2, GapSound
  <2> QED
    BY <1>1, <2>3 DEF EndOf, Extent
<1>3. early \subseteq fit
  BY DEF FbEarly, EarlyGaps, FbFitting
<1> HIDE DEF fit, early
<1>4. ASSUME early # {} PROVE \E g \in early : \A h \in early : g.off <= h.off
  <2> DEFINE offs == {g.off : g \in early}
  <2>1. offs \in SUBSET Nat /\ offs # {}
    BY <1>2, <1>3, <1>4
  <2>2. PICK n \in offs : \A k \in offs : n <= k
    BY <2>1, NatMin
  <2> QED
    BY <2>2
<1>5. \E g \in fit : \A h \in fit : g.len < h.len \/ (g.len = h.len /\ h.off <= g.off)
  <2> DEFINE lens == {g.len : g \in fit}
  <2>1. lens \in SUBSET Nat /\ lens # {}
    BY <1>2 DEF fit
  <2>2. PICK n \in lens : \A k \in lens : n <= k
    BY <2>1, NatMin
  <2>3. n \in Nat /\ \A g \in fit : n <= g.len
    BY <2>1, <2>2
  <2> DEFINE offs == {g.off : g \in {h \in fit : h.len = n}}
  <2>4. offs \in SUBSET Nat /\ offs # {} /\ \A o \in offs : o <= FbEnd(r)
    BY <1>2, <2>2
  <2>5. PICK o \in offs : \A k \in offs : k <= o
    BY <1>1, <2>4, NatMax
  <2>6. PICK g \in fit : g.len = n /\ g.off = o
    BY <2>5
  <2>7. ASSUME NEW h \in fit PROVE g.len < h.len \/ (g.len = h.len /\ h.off <= g.off)
    <3>1. CASE h.len = n
      BY <2>5, <2>6, <3>1
    <3>2. CASE h.len # n
      <4>1. n <= h.len /\ h.len \in Nat
        BY <1>2, <2>3
      <4> QED
        BY <2>3, <2>6, <3>2, <4>1
    <3> QED
      BY <3>1, <3>2
  <2> QED
    BY <2>7
<1>6. FbSmallest(r, bytes) # {}
  BY <1>5 DEF FbSmallest, fit
<1> QED
  BY <1>4, <1>6 DEF FbBest, early

LEMMA FbRoomIsFound ==
  ASSUME RoomInv, NEW r \in Fb, NEW bytes \in Nat \ {0}, FbHasRoom(r, bytes)
  PROVE  /\ FbOwnFinds(r, bytes) # {}
         /\ FbGuards(r, bytes) => FbCrossFinds(r, bytes) # {}
<1>1. PICK g \in Gaps(Used, FbStart[r], FbEnd(r)) : bytes <= g.len
  BY DEF FbHasRoom
<1>2. /\ TypeOK /\ Used \in SUBSET Extent /\ FbStart[r] \in Nat /\ FbEnd(r) \in Nat
      /\ fbFree[r] \in Nat /\ fbCache[r] \in SUBSET Nat
  BY UsedFacts, FbFacts DEF RoomInv, IInv
<1>3. g \in Extent /\ g.len \in Nat /\ IsFree(Used, g) /\ FbStart[r] <= g.off /\ EndOf(g) <= FbEnd(r)
  BY <1>2, GapSound DEF Extent
<1>4. bytes <= fbFree[r]
  <2>1. g.len <= Cardinality(FreeBytes(Used, FbStart[r], FbEnd(r)))
    BY <1>2, <1>3, FreeRangeFits
  <2>2. fbFree[r] = Cardinality(FreeBytes(Used, FbStart[r], FbEnd(r)))
    BY DEF RoomInv, CountersAgree
  <2> QED
    BY <1>1, <1>2, <1>3, <2>1, <2>2
<1>5. ~FbPassed(r, bytes)
  <2>1. SUFFICES ASSUME NEW n \in fbCache[r] PROVE ~(n < bytes)
    BY DEF FbPassed
  <2>2. n \in LargestGap(Used, FbStart[r], FbEnd(r))
    BY DEF RoomInv, FbCacheExact
  <2>3. g.len <= n /\ n \in Nat
    BY <1>2, <2>2, LargestGapBounds
  <2> QED
    BY <1>1, <1>3, <2>3
<1>6. FbFitting(r, bytes) # {}
  BY <1>1, <1>3 DEF FbFitting, Fitting
<1>7. FbBest(r, bytes) # {} /\ FbSmallest(r, bytes) # {}
  BY <1>2, <1>6, FbBestFound
<1>8. FbOwnFinds(r, bytes) # {}
  BY <1>2, <1>4, <1>5, <1>7 DEF FbOwnFinds
<1>9. FbGuards(r, bytes) => FbCrossAllowed(r, bytes)
  BY <1>2, <1>4, <1>5 DEF FbGuards, FbCrossAllowed
<1> QED
  BY <1>7, <1>8, <1>9 DEF FbCrossFinds

LEMMA FbFoundHasRoom ==
  ASSUME NEW r \in Fb, NEW bytes \in Nat,
         NEW x \in FbOwnFinds(r, bytes) \cup FbCrossFinds(r, bytes), IInv
  PROVE  FbHasRoom(r, bytes)
<1>1. PICK g \in Gaps(Used, FbStart[r], FbEnd(r)) : g.len >= bytes
  BY FbFindsCut DEF FbFitting, Fitting
<1>2. g.len \in Nat
  BY UsedFacts, FbFacts, GapSound DEF IInv, Extent
<1> QED
  BY <1>1, <1>2 DEF FbHasRoom

LEMMA FbFoundLands ==
  ASSUME IInv, ~ITableFull, NEW r \in Fb, NEW bytes \in Nat \ {0},
         NEW x \in FbOwnFinds(r, bytes) \cup FbCrossFinds(r, bytes)
  PROVE  ILands(x)
<1>1. PICK g \in FbFitting(r, bytes) : x = FbCut(r, g, bytes)
  BY FbFindsCut
<1>2. x \in Extent /\ bytes <= x.len /\ FbWithin(r, x) /\ IsFree(Used, x)
  BY <1>1, FbCutSound
<1>3. FbEnd(r) <= iramEnd /\ FbEnd(r) \in Nat /\ iramEnd \in Nat
  BY FbInArena, FbFacts DEF IInv
<1>4. x.len > 0 /\ EndOf(x) <= iramEnd
  BY <1>2, <1>3 DEF FbWithin, EndOf, Extent
<1> QED
  BY <1>2, <1>4 DEF ILands

(* Crossing reaches the first region that has a place. *)
LEMMA FbFirstReached ==
  ASSUME ICrossEnabled, NEW bytes, NEW own \in Fb, NEW r \in Fb \ {own}, FbCrossFinds(r, bytes) # {}
  PROVE  \E q \in Fb : FbReached(own, q, bytes) /\ FbCrossFinds(q, bytes) # {}
<1> DEFINE rank(i) == IF own < NFb \div 2 THEN IF i > own THEN i ELSE NFb + own - i
                      ELSE IF i < own THEN own - i ELSE i
           found == {i \in Fb \ {own} : FbCrossFinds(i, bytes) # {}}
           ranks == {rank(i) : i \in found}
<1>1. NFb \in Nat /\ \A i \in Fb : i \in Nat /\ i < NFb
  BY IramLayoutAssumption DEF Fb
<1>2. \A i \in Fb \ {own} : rank(i) \in Nat
  BY <1>1
<1>3. ASSUME NEW i \in Fb \ {own}, NEW j \in Fb \ {own}, FbBefore(own, i, j)
      PROVE  rank(i) < rank(j)
  BY <1>1, <1>3 DEF FbBefore
<1> HIDE DEF rank
<1>4. ranks \in SUBSET Nat
  BY <1>2
<1>5. ranks # {}
  OBVIOUS
<1>6. PICK n \in ranks : \A k \in ranks : n <= k
  BY <1>4, <1>5, NatMin
<1>7. PICK q \in found : n = rank(q)
  BY <1>6
<1>8. ASSUME NEW i \in Fb \ {own}, FbBefore(own, i, q) PROVE FbCrossFinds(i, bytes) = {}
  <2>1. SUFFICES ASSUME FbCrossFinds(i, bytes) # {} PROVE FALSE
    OBVIOUS
  <2>2. rank(q) <= rank(i)
    BY <1>6, <1>7, <2>1
  <2>3. rank(i) < rank(q)
    BY <1>3, <1>7, <1>8
  <2>4. rank(i) \in Nat /\ rank(q) \in Nat
    BY <1>2, <1>7
  <2> QED
    BY <2>2, <2>3, <2>4
<1> QED
  BY <1>7, <1>8 DEF FbReached

LEMMA FbServedIffFits ==
  ASSUME RoomInv, ~ITableFull, NEW bytes \in Nat \ {0}, NFb > 0 => FbMin[0] <= bytes
  PROVE  ServedFb(bytes) <=> FbFits(bytes)
<1>0. IInv /\ TypeOK
  BY DEF RoomInv, IInv
<1>1. ASSUME NEW r \in Fb, FbHasRoom(r, bytes) PROVE ~FbOwnFails(r, bytes)
  BY <1>0, <1>1, FbRoomIsFound, FbFoundLands DEF FbOwnFails
<1>2. ASSUME FbFits(bytes) PROVE ServedFb(bytes)
  <2>1. PICK r \in Fb : /\ FbHasRoom(r, bytes)
                        /\ FbSizeOk(r, bytes) \/ (ICrossEnabled /\ FbGuards(r, bytes))
    BY <1>2 DEF FbFits
  <2>2. PICK own \in Fb : FbIsOwn(own, bytes) /\ (FbSizeOk(r, bytes) => own = r)
    <3>1. NFb > 0
      BY <1>0, FbFacts
    <3> QED
      BY <3>1, FbOwnClass
  <2>3. FbAdmits(bytes)
    <3>1. zoneTotal # 0
      <4>1. PICK g \in Gaps(Used, FbStart[r], FbEnd(r)) : bytes <= g.len
        BY <2>1 DEF FbHasRoom
      <4>2. /\ Used \in SUBSET Extent /\ FbStart[r] \in Nat /\ FbEnd(r) \in Nat
            /\ Reserve \in Nat /\ Reserve <= FbStart[r]
        BY <1>0, UsedFacts, FbFacts
      <4>3. g \in Extent /\ FbStart[r] <= g.off /\ EndOf(g) <= FbEnd(r)
        BY <4>1, <4>2, GapSound
      <4>4. FbStart[r] < FbEnd(r)
        BY <4>1, <4>2, <4>3 DEF EndOf, Extent
      <4>5. FbEnd(r) <= iramEnd /\ iramEnd \in Nat /\ zoneTotal = iramEnd - Reserve
        BY <1>0, FbInArena DEF IInv, IramTiled
      <4> QED
        BY <4>2, <4>4, <4>5
    <3>2. Cardinality(Used) < IMaxDesc
      <4>1. Cardinality(Used) \in Nat /\ icap \in Nat /\ IMaxDesc \in Nat /\ icap <= IMaxDesc
        BY <1>0, UsedFacts, DeltaFacts DEF TypeOK, RoomInv, ITableFits
      <4> QED
        BY <4>1 DEF ITableFull
    <3> QED
      BY <1>2, <3>1, <3>2 DEF FbAdmits, FbFits
  <2>4. CASE own = r
    BY <1>1, <2>1, <2>2, <2>3, <2>4 DEF ServedFb, FbFails
  <2>5. CASE own # r
    <3>1. ICrossEnabled /\ FbCrossFinds(r, bytes) # {}
      BY <1>0, <2>1, <2>2, <2>5, FbRoomIsFound
    <3>2. PICK q \in Fb : FbReached(own, q, bytes) /\ FbCrossFinds(q, bytes) # {}
      BY <2>5, <3>1, FbFirstReached
    <3>3. ~FbFails(own, bytes)
      BY <1>0, <3>2, FbFoundLands DEF FbFails
    <3> QED
      BY <2>2, <2>3, <3>3 DEF ServedFb
  <2> QED
    BY <2>4, <2>5
<1>3. ASSUME ServedFb(bytes) PROVE FbFits(bytes)
  <2>1. PICK own \in Fb : FbIsOwn(own, bytes) /\ ~FbFails(own, bytes)
    BY <1>3 DEF ServedFb
  <2>2. FbMaxBytes = 0 \/ bytes <= FbMaxBytes
    BY <1>3 DEF ServedFb, FbAdmits
  <2>3. CASE ~FbOwnFails(own, bytes)
    <3>1. PICK x \in FbOwnFinds(own, bytes) : TRUE
      BY <2>3 DEF FbOwnFails
    <3>2. FbHasRoom(own, bytes)
      BY <1>0, <3>1, FbFoundHasRoom
    <3> QED
      BY <2>1, <2>2, <3>2 DEF FbFits, FbIsOwn
  <2>4. CASE FbOwnFails(own, bytes)
    <3>1. PICK q \in Fb : FbReached(own, q, bytes) /\ FbCrossFinds(q, bytes) # {}
      BY <2>1, <2>4 DEF FbFails
    <3>2. FbHasRoom(q, bytes)
      BY <1>0, <3>1, FbFoundHasRoom
    <3>3. ICrossEnabled /\ FbGuards(q, bytes)
      BY <3>1 DEF FbReached, FbCrossFinds, FbCrossAllowed, FbGuards
    <3> QED
      BY <2>2, <3>2, <3>3 DEF FbFits
  <2> QED
    BY <2>3, <2>4
<1> QED
  BY <1>2, <1>3

LEMMA ExecServedIffFits ==
  ASSUME RoomInv, ~ITableFull, NEW bytes \in Nat \ {0}
  PROVE  ServedExec(bytes) <=> ExecFits(bytes)
<1>1. /\ IInv /\ TypeOK /\ Used \in SUBSET Extent /\ 0 \in Nat /\ Reserve \in Nat
      /\ iramEnd \in Nat /\ Reserve <= iramEnd
  BY UsedFacts, IramLayoutAssumption DEF RoomInv, IInv, TypeOK, IramTiled
<1>2. \A g \in Gaps(Used, 0, Reserve) :
        /\ g \in Extent /\ g.off \in Nat /\ g.len \in Nat /\ IsFree(Used, g)
        /\ 0 <= g.off /\ EndOf(g) <= Reserve
  BY <1>1, GapSound DEF Extent
<1>3. ASSUME ExecFits(bytes) PROVE ServedExec(bytes)
  <2> DEFINE fit == {g \in Gaps(Used, 0, Reserve) : g.len >= bytes}
             offs == {g.off : g \in fit}
  <2>1. PICK g \in Gaps(Used, 0, Reserve) : bytes <= g.len
    BY <1>3 DEF ExecFits
  <2>2. g \in fit
    BY <1>2, <2>1
  <2>3. offs \in SUBSET Nat /\ offs # {}
    BY <1>2, <2>2
  <2>4. PICK n \in offs : \A k \in offs : n <= k
    BY <2>3, NatMin
  <2>5. PICK h \in fit : \A k \in fit : h.off <= k.off
    BY <2>4
  <2>6. execFree >= bytes
    <3>1. g.len <= Cardinality(FreeBytes(Used, 0, Reserve))
      BY <1>1, <1>2, <2>1, FreeRangeFits
    <3>2. execFree = Cardinality(FreeBytes(Used, 0, Reserve)) /\ execFree \in Nat
      BY <1>1 DEF RoomInv, CountersAgree, TypeOK
    <3> QED
      BY <1>2, <2>1, <3>1, <3>2
  <2>7. PICK x \in ExecFinds(bytes) : TRUE
    BY <2>5, <2>6 DEF ExecFinds
  <2>8. x \in Extent /\ x.len = bytes /\ EndOf(x) <= Reserve /\ IsFree(Used, x)
    BY <1>1, ExecSound
  <2>9. EndOf(x) <= iramEnd /\ x.len > 0
    BY <1>1, <2>8 DEF EndOf, Extent
  <2> QED
    BY <2>7, <2>8, <2>9 DEF ServedExec, ILands
<1>4. ASSUME ServedExec(bytes) PROVE ExecFits(bytes)
  <2>1. PICK g \in Gaps(Used, 0, Reserve) : g.len >= bytes
    BY <1>4 DEF ServedExec, ExecFinds
  <2> QED
    BY <1>2, <2>1 DEF ExecFits
<1> QED
  BY <1>3, <1>4

LEMMA RoomStart == Init => RoomInv /\ IChunks
BY IInitInv, ITableInit, FbCacheInit, CountersInit DEF RoomInv, ITableInv

LEMMA RoomStays == RoomInv /\ IChunks /\ [Next]_iramVars => (RoomInv /\ IChunks)'
BY IStepInv, ITableStep, FbCacheStep, CountersStep DEF RoomInv, ITableInv

IServedExactly ==
  ~ITableFull =>
    \A bytes \in Nat \ {0} :
      /\ ServedExec(bytes) <=> ExecFits(bytes)
      /\ (NFb > 0 => FbMin[0] <= bytes) => (ServedFb(bytes) <=> FbFits(bytes))

(* Caches, counters, early exits and the order of the crossing decide where *)
(* a block goes, never whether there is one: with a free slot a request for *)
(* code or for fallback data is served if and only if there is room for it. *)
THEOREM IramServedExactly == Spec => []IServedExactly
<1>1. RoomInv => IServedExactly
  BY ExecServedIffFits, FbServedIffFits DEF IServedExactly
<1> QED
  BY <1>1, RoomStart, RoomStays, PTL DEF Spec

=============================================================================
