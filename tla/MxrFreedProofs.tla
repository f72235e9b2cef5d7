---------------------------- MODULE MxrFreedProofs ----------------------------
(***************************************************************************)
(* Proofs about the verdicts on freed pointers, for every ring size, every *)
(* set of blocks and pointers, and every pair of arenas.                   *)
(***************************************************************************)
EXTENDS MxrFreed, TLAPS

-----------------------------------------------------------------------------
(* The inductive invariant.  Slot i of the ring holds the address of the    *)
(* block that the history keeps at place Age(i).                            *)

Age(i) == IF i < pos THEN i - pos + count + 1 ELSE i - pos + 1

RingInv ==
  /\ pos \in Slots /\ count \in 0 .. RingSize
  /\ count < RingSize => pos = count
  /\ recent \in Seq(Blocks) /\ Len(recent) = count
  /\ DOMAIN ring = 0 .. (count - 1)
  /\ \A i \in 0 .. (count - 1) : ring[i] = AddrOf(recent[Age(i)])

(* The index of the ring goes around. *)
LEMMA NextPos ==
  ASSUME NEW p \in Slots
  PROVE  (p + 1) % RingSize = IF p + 1 = RingSize THEN 0 ELSE p + 1
<1>1. RingSize \in Nat /\ RingSize > 0 /\ p \in Nat /\ p < RingSize
  BY RingAssumption DEF Slots
<1> QED
  BY <1>1

(* Every place of the history is the age of one slot. *)
LEMMA AgeOnto ==
  ASSUME RingInv, NEW k \in 1 .. count
  PROVE  \E i \in 0 .. (count - 1) : Age(i) = k
<1>1. /\ RingSize \in Nat /\ pos \in Nat /\ pos < RingSize /\ count \in Nat
      /\ count <= RingSize /\ (count < RingSize => pos = count)
  BY RingAssumption DEF RingInv, Slots
<1>2. CASE k + pos <= count
  <2>1. k + pos - 1 \in 0 .. (count - 1) /\ ~(k + pos - 1 < pos)
    BY <1>1, <1>2
  <2>2. Age(k + pos - 1) = k
    BY <1>1, <2>1 DEF Age
  <2> QED
    BY <2>1, <2>2
<1>3. CASE k + pos > count
  <2>1. k + pos - 1 - count \in 0 .. (count - 1) /\ k + pos - 1 - count < pos
    BY <1>1, <1>3
  <2>2. Age(k + pos - 1 - count) = k
    BY <1>1, <2>1 DEF Age
  <2> QED
    BY <2>1, <2>2
<1> QED
  BY <1>1, <1>2, <1>3

LEMMA AgeInto ==
  ASSUME RingInv, NEW i \in 0 .. (count - 1)
  PROVE  Age(i) \in 1 .. count
<1>1. /\ RingSize \in Nat /\ pos \in Nat /\ pos < RingSize /\ count \in Nat
      /\ count <= RingSize /\ (count < RingSize => pos = count)
  BY RingAssumption DEF RingInv, Slots
<1> QED
  BY <1>1 DEF Age

-----------------------------------------------------------------------------

(* What a release leaves in the history. *)
LEMMA RecentAfter ==
  ASSUME RingInv, NEW b \in Blocks, Release(b)
  PROVE  /\ recent' \in Seq(Blocks)
         /\ count < RingSize => /\ Len(recent') = count + 1
                                /\ \A k \in 1 .. count : recent'[k] = recent[k]
                                /\ recent'[count + 1] = b
         /\ count = RingSize => /\ Len(recent') = count
                                /\ \A k \in 1 .. (count - 1) : recent'[k] = recent[k + 1]
                                /\ recent'[count] = b
<1> DEFINE all == Append(recent, b)
<1>1. recent \in Seq(Blocks) /\ Len(recent) = count /\ count \in Nat /\ RingSize \in Nat \ {0}
      /\ count <= RingSize
  BY RingAssumption DEF RingInv
<1>2. /\ all \in Seq(Blocks) /\ Len(all) = count + 1
      /\ \A k \in 1 .. count : all[k] = recent[k]
      /\ all[count + 1] = b
  BY <1>1
<1>3. recent' = IF Len(all) > RingSize THEN Tail(all) ELSE all
  BY DEF Release
<1> HIDE DEF all
<1>4. CASE count < RingSize
  BY <1>1, <1>2, <1>3, <1>4
<1>5. CASE count = RingSize
  <2>1. recent' = Tail(all) /\ all # <<>>
    BY <1>1, <1>2, <1>3, <1>5
  <2>2. /\ Tail(all) \in Seq(Blocks) /\ Len(Tail(all)) = count
        /\ \A k \in 1 .. count : Tail(all)[k] = all[k + 1]
    BY <1>1, <1>2, <2>1
  <2>3. \A k \in 1 .. (count - 1) : all[k + 1] = recent[k + 1]
    BY <1>1, <1>2
  <2> QED
    BY <1>1, <1>2, <1>5, <2>1, <2>2, <2>3
<1> QED
  BY <1>1, <1>4, <1>5

LEMMA ReleaseRing ==
  ASSUME RingInv, NEW b \in Blocks, Release(b)
  PROVE  RingInv'
<1>1. /\ RingSize \in Nat /\ RingSize > 0 /\ pos \in Nat /\ pos < RingSize /\ count \in Nat
      /\ count <= RingSize /\ (count < RingSize => pos = count)
      /\ DOMAIN ring = 0 .. (count - 1)
      /\ \A i \in 0 .. (count - 1) : ring[i] = AddrOf(recent[Age(i)])
  BY RingAssumption DEF RingInv, Slots
<1>2. /\ pos' = (IF pos + 1 = RingSize THEN 0 ELSE pos + 1)
      /\ count' = (IF count < RingSize THEN count + 1 ELSE count)
  BY NextPos DEF RingInv, Release, Push
<1>3. /\ DOMAIN ring' = DOMAIN ring \cup {pos}
      /\ ring'[pos] = AddrOf(b) /\ \A i \in DOMAIN ring : i # pos => ring'[i] = ring[i]
  BY DEF Release, Push
<1>4. CASE count < RingSize
  <2>1. /\ pos = count /\ count' = count + 1 /\ count' \in Nat
        /\ recent' \in Seq(Blocks) /\ Len(recent') = count + 1
        /\ \A k \in 1 .. count : recent'[k] = recent[k]
        /\ recent'[count + 1] = b
    BY <1>1, <1>2, <1>4, RecentAfter
  <2>2. DOMAIN ring' = 0 .. (count' - 1)
    BY <1>1, <1>3, <2>1
  <2>3. ASSUME NEW i \in 0 .. (count' - 1) PROVE ring'[i] = AddrOf(recent'[Age(i)'])
    <3>1. Age(i)' = i + 1
      BY <1>1, <1>2, <1>4, <2>1 DEF Age
    <3>2. CASE i = pos
      <4>1. recent'[Age(i)'] = b
        BY <2>1, <3>1, <3>2
      <4> QED
        BY <1>3, <3>2, <4>1
    <3>3. CASE i # pos
      <4>1. i \in 0 .. (count - 1) /\ i + 1 \in 1 .. count /\ i < pos /\ count \in Nat
        <5>1. i \in 0 .. count /\ i # count /\ count \in Nat
          BY <1>1, <2>1, <3>3
        <5> QED
          BY <2>1, <5>1
      <4>2. Age(i) = i + 1
        BY <2>1, <4>1 DEF Age
      <4> QED
        BY <1>1, <1>3, <2>1, <3>1, <3>3, <4>1, <4>2
    <3> QED
      BY <3>2, <3>3
  <2>4. pos' \in Slots /\ count' \in 0 .. RingSize /\ (count' < RingSize => pos' = count')
    BY <1>1, <1>2, <1>4 DEF Slots
  <2> QED
    BY <2>1, <2>2, <2>3, <2>4 DEF RingInv
<1>5. CASE count = RingSize
  <2>1. /\ count' = count
        /\ recent' \in Seq(Blocks) /\ Len(recent') = count
        /\ \A k \in 1 .. (count - 1) : recent'[k] = recent[k + 1]
        /\ recent'[count] = b
    BY <1>1, <1>2, <1>5, RecentAfter
  <2>2. DOMAIN ring' = 0 .. (count' - 1)
    BY <1>1, <1>3, <1>5, <2>1
  <2>3. ASSUME NEW i \in 0 .. (count' - 1) PROVE ring'[i] = AddrOf(recent'[Age(i)'])
    <3>1. CASE i = pos
      <4>1. Age(i)' = count
        BY <1>1, <1>2, <1>5, <2>1, <3>1 DEF Age
      <4> QED
        BY <1>3, <2>1, <3>1, <4>1
    <3>2. CASE i # pos
      <4>1. Age(i)' \in 1 .. (count - 1) /\ Age(i) = Age(i)' + 1
        BY <1>1, <1>2, <1>5, <2>1, <3>2 DEF Age
      <4> QED
        BY <1>1, <1>3, <2>1, <3>2, <4>1
    <3> QED
      BY <3>1, <3>2
  <2>4. pos' \in Slots /\ count' \in 0 .. RingSize /\ (count' < RingSize => pos' = count')
    BY <1>1, <1>2, <1>5 DEF Slots
  <2> QED
    BY <2>1, <2>2, <2>3, <2>4 DEF RingInv
<1> QED
  BY <1>1, <1>4, <1>5

LEMMA RingInit == Init => RingInv
<1> SUFFICES ASSUME Init PROVE RingInv
  OBVIOUS
<1>1. /\ pos = 0 /\ count = 0 /\ recent = <<>> /\ DOMAIN ring = {}
      /\ RingSize \in Nat /\ RingSize > 0
  BY RingAssumption DEF Init
<1>2. 0 .. (count - 1) = {}
  BY <1>1
<1>3. recent \in Seq(Blocks) /\ Len(recent) = 0
  BY <1>1
<1> QED
  BY <1>1, <1>2, <1>3 DEF RingInv, Slots

(* The ring knows the addresses of the released blocks in the history, no   *)
(* more and no fewer.                                                       *)
LEMMA RingKnows ==
  ASSUME RingInv, NEW p
  PROVE  InRing(p) <=> \E b \in Range(recent) : AddrOf(b) = p
<1>1. /\ DOMAIN recent = 1 .. count /\ count \in Nat /\ count <= RingSize /\ RingSize \in Nat
      /\ \A i \in 0 .. (count - 1) : ring[i] = AddrOf(recent[Age(i)])
  BY RingAssumption DEF RingInv
<1>2. ASSUME InRing(p) PROVE \E b \in Range(recent) : AddrOf(b) = p
  <2>1. PICK i \in Slots : i < count /\ ring[i] = p
    BY <1>2 DEF InRing
  <2>2. i \in 0 .. (count - 1)
    BY <1>1, <2>1 DEF Slots
  <2>3. Age(i) \in 1 .. count
    BY <2>2, AgeInto
  <2>4. AddrOf(recent[Age(i)]) = p /\ recent[Age(i)] \in Range(recent)
    BY <1>1, <2>1, <2>2, <2>3 DEF Range
  <2> QED
    BY <2>4
<1>3. ASSUME NEW b \in Range(recent), AddrOf(b) = p PROVE InRing(p)
  <2>1. PICK k \in 1 .. count : recent[k] = b
    BY <1>1 DEF Range
  <2>2. PICK i \in 0 .. (count - 1) : Age(i) = k
    BY AgeOnto
  <2>3. i \in Slots /\ i < count
    BY <1>1 DEF Slots
  <2> QED
    BY <1>1, <1>3, <2>1, <2>2, <2>3 DEF InRing
<1> QED
  BY <1>2, <1>3

-----------------------------------------------------------------------------
(* Live blocks end where the arena ends, wherever the table has moved that. *)

FitInv ==
  /\ live \subseteq Blocks /\ cap \in [Arenas -> Int]
  /\ \A b \in live : EndOf(b) <= ArenaEnd(b.arena)

FreedInv == RingInv /\ FitInv /\ JudgedByRecent

LEMMA BlockFacts ==
  ASSUME NEW b \in Blocks
  PROVE  /\ b.arena \in Arenas /\ b.off \in Nat /\ b.len \in Nat
         /\ b.len > HeadBytes /\ (b.off + HeadBytes) % Align = 0
BY BlockAssumption

LEMMA EndIsInt ==
  ASSUME cap \in [Arenas -> Int], NEW A \in Arenas
  PROVE  ArenaEnd(A) \in Int
BY ArenaAssumption DEF ArenaEnd

(* A block start is refused before the ring is read only when the table has *)
(* taken bytes of the block.                                                *)
LEMMA LocatedStart ==
  ASSUME FitInv, NEW b \in Blocks, EndOf(b) <= ArenaEnd(b.arena)
  PROVE  Located(AddrOf(b))
<1>1. /\ b.arena \in Arenas /\ b.off \in Nat /\ b.len \in Nat
      /\ b.len > HeadBytes /\ (b.off + HeadBytes) % Align = 0 /\ HeadBytes \in Nat
  BY BlockFacts, ArenaAssumption
<1>2. ArenaEnd(b.arena) \in Int
  BY <1>1, EndIsInt DEF FitInv
<1>3. AddrOf(b).arena = b.arena /\ AddrOf(b).off = b.off
  BY DEF AddrOf
<1>4. 0 <= b.off + HeadBytes /\ b.off + HeadBytes < ArenaEnd(b.arena)
  BY <1>1, <1>2 DEF EndOf
<1> QED
  BY <1>1, <1>3, <1>4 DEF Located

(* What a step may do to the live blocks and the table of each arena.       *)
LEMMA AllocateFits ==
  ASSUME FitInv, NEW b \in Blocks, Allocate(b)
  PROVE  FitInv'
<1>1. /\ live \subseteq Blocks /\ live' = live \cup {b} /\ cap \in [Arenas -> Int]
      /\ b.arena \in Arenas /\ Chunk \in Nat
  BY BlockFacts, ArenaAssumption DEF FitInv, Allocate
<1>2. CASE UNCHANGED cap
  <2>1. \A c \in live' : EndOf(c) <= ArenaEnd(c.arena)
    BY <1>1 DEF FitInv, Allocate
  <2> QED
    BY <1>1, <1>2, <2>1 DEF FitInv, ArenaEnd, EndOf
<1>3. CASE CanGrowFor(b) /\ cap' = [cap EXCEPT ![b.arena] = @ + Chunk]
  <2>1. cap' \in [Arenas -> Int]
    BY <1>1, <1>3
  <2>2. /\ ArenaEnd(b.arena)' = ArenaEnd(b.arena) - Delta
        /\ \A A \in Arenas : A # b.arena => ArenaEnd(A)' = ArenaEnd(A)
    <3>1. cap'[b.arena] = cap[b.arena] + Chunk
      BY <1>1, <1>3
    <3>2. \A A \in Arenas : A # b.arena => cap'[A] = cap[A]
      BY <1>1, <1>3
    <3>3. /\ cap[b.arena] \in Int /\ Chunk \in Int
          /\ ArenaBytes[b.arena] \in Int /\ DescInit[b.arena] \in Int
      BY <1>1, ArenaAssumption
    <3>4. ArenaEnd(b.arena)' = ArenaEnd(b.arena) - Delta
      BY <3>1, <3>3 DEF ArenaEnd, Delta
    <3> QED
      BY <3>2, <3>4 DEF ArenaEnd
  <2>3. ASSUME NEW c \in live' PROVE EndOf(c) <= ArenaEnd(c.arena)'
    <3>1. c \in Blocks /\ c.arena \in Arenas
      BY <1>1, BlockFacts
    <3>2. CASE c.arena = b.arena
      BY <1>1, <1>3, <2>2, <3>2 DEF CanGrowFor, Of
    <3>3. CASE c.arena # b.arena
      BY <1>1, <2>2, <3>1, <3>3 DEF FitInv
    <3> QED
      BY <3>2, <3>3
  <2> QED
    BY <1>1, <2>1, <2>3 DEF FitInv, ArenaEnd, EndOf
<1> QED
  BY <1>2, <1>3 DEF Allocate

LEMMA ReleaseFits ==
  ASSUME FitInv, NEW b \in Blocks, Release(b)
  PROVE  FitInv'
<1>1. /\ live \subseteq Blocks /\ live' \subseteq live /\ cap \in [Arenas -> Int]
      /\ b.arena \in Arenas /\ Chunk \in Nat
      /\ cap' = cap \/ cap' = [cap EXCEPT ![b.arena] = @ - Chunk]
  BY BlockFacts, ArenaAssumption DEF FitInv, Release
<1>2. /\ cap' \in [Arenas -> Int]
      /\ \A A \in Arenas : ArenaEnd(A) <= ArenaEnd(A)' /\ ArenaEnd(A) \in Int /\ ArenaEnd(A)' \in Int
  BY <1>1, ArenaAssumption DEF ArenaEnd
<1>3. ASSUME NEW c \in live' PROVE EndOf(c) <= ArenaEnd(c.arena)'
  <2>1. c \in Blocks /\ c.arena \in Arenas /\ EndOf(c) \in Int
    BY <1>1, BlockFacts DEF EndOf
  <2>2. EndOf(c) <= ArenaEnd(c.arena)
    BY <1>1 DEF FitInv
  <2> QED
    BY <1>2, <2>1, <2>2
<1> QED
  BY <1>1, <1>2, <1>3 DEF FitInv, ArenaEnd, EndOf

LEMMA ResizeFits ==
  ASSUME FitInv, NEW b \in Blocks, NEW c \in Blocks, Resize(b, c)
  PROVE  FitInv'
BY DEF FitInv, Resize, ArenaEnd, EndOf

-----------------------------------------------------------------------------
(* The verdicts, one lemma per way a free is refused. *)

LEMMA UnknownJudged ==
  ASSUME RingInv, NEW p \in Pointers, Unknown(p)
  PROVE  JudgedByRecent'
<1>1. /\ verdict' = {[of |-> p, as |-> IF InRing(p) THEN "double" ELSE "invalid"]}
      /\ NoBlockAt(p) /\ UNCHANGED <<live, cap, recent>>
  BY DEF Unknown, Judge
<1>2. InRing(p) <=> \E b \in Range(recent) : AddrOf(b) = p
  BY RingKnows
<1>3. NoBlockAt(p)'
  BY <1>1 DEF NoBlockAt, AddrOf
<1>4. CASE InRing(p)
  BY <1>1, <1>2, <1>3, <1>4 DEF JudgedByRecent
<1>5. CASE ~InRing(p)
  BY <1>1, <1>2, <1>3, <1>5 DEF JudgedByRecent
<1> QED
  BY <1>4, <1>5

LEMMA OutsideJudged ==
  ASSUME RingInv, FitInv, NEW p \in Pointers, Outside(p)
  PROVE  JudgedByRecent'
<1>1. /\ verdict' = {[of |-> p, as |-> "invalid"]} /\ ~Located(p)
      /\ UNCHANGED <<live, cap, recent>>
  BY DEF Outside, Judge
<1>2. ASSUME NEW b \in Blocks, AddrOf(b) = p PROVE EndOf(b) > ArenaEnd(b.arena)
  <2>1. EndOf(b) \in Int /\ ArenaEnd(b.arena) \in Int
    BY BlockFacts, EndIsInt DEF EndOf, FitInv
  <2>2. ~(EndOf(b) <= ArenaEnd(b.arena))
    BY <1>1, <1>2, LocatedStart
  <2> QED
    BY <2>1, <2>2
<1>3. NoBlockAt(p)
  <2>1. SUFFICES ASSUME NEW b \in live, AddrOf(b) = p PROVE FALSE
    BY DEF NoBlockAt
  <2>2. b \in Blocks /\ EndOf(b) <= ArenaEnd(b.arena)
    BY DEF FitInv
  <2> QED
    BY <1>1, <2>1, <2>2, LocatedStart
<1>4. Range(recent) \subseteq Blocks
  BY DEF RingInv, Range
<1>5. NoBlockAt(p)'
  BY <1>1, <1>3 DEF NoBlockAt, AddrOf
<1>6. \A b \in Range(recent') : AddrOf(b) = p => EndOf(b) > ArenaEnd(b.arena)'
  BY <1>1, <1>2, <1>4 DEF ArenaEnd
<1> QED
  BY <1>1, <1>5, <1>6 DEF JudgedByRecent

(* Every other step refuses nothing. *)
LEMMA OthersJudged ==
  ASSUME \A v \in verdict' : v.as \notin {"double", "invalid"}
  PROVE  JudgedByRecent'
BY DEF JudgedByRecent

-----------------------------------------------------------------------------

LEMMA FreedInit == Init => FreedInv
<1> SUFFICES ASSUME Init PROVE FreedInv
  OBVIOUS
<1>1. RingInv
  BY RingInit
<1>2. FitInv
  BY ArenaAssumption DEF Init, FitInv
<1>3. JudgedByRecent
  BY DEF Init, JudgedByRecent
<1> QED
  BY <1>1, <1>2, <1>3 DEF FreedInv

LEMMA FreedStep == FreedInv /\ [Next]_freedVars => FreedInv'
<1> SUFFICES ASSUME FreedInv, [Next]_freedVars PROVE FreedInv'
  OBVIOUS
<1> USE DEF FreedInv
<1>1. ASSUME UNCHANGED <<ring, pos, count, recent>> PROVE RingInv'
  BY <1>1 DEF RingInv, Age, AddrOf
<1>2. ASSUME UNCHANGED <<live, cap>> PROVE FitInv'
  BY <1>2 DEF FitInv, ArenaEnd, EndOf
<1>3. ASSUME NEW b \in Blocks, Allocate(b) PROVE FreedInv'
  BY <1>1, <1>3, AllocateFits, OthersJudged DEF Allocate
<1>4. ASSUME NEW b \in Blocks, NEW c \in Blocks, Resize(b, c) PROVE FreedInv'
  BY <1>1, <1>4, ResizeFits, OthersJudged DEF Resize
<1>5. ASSUME NEW b \in Blocks, Overrun(b) PROVE FreedInv'
  BY <1>1, <1>2, <1>5, OthersJudged DEF Overrun
<1>6. ASSUME NEW b \in Blocks, Release(b) PROVE FreedInv'
  <2>1. \A v \in verdict' : v.as \notin {"double", "invalid"}
    BY <1>6 DEF Release, Judge
  <2> QED
    BY <1>6, <2>1, ReleaseRing, ReleaseFits, OthersJudged
<1>7. ASSUME NEW b \in Blocks, Quarantined(b) PROVE FreedInv'
  BY <1>1, <1>2, <1>7, OthersJudged DEF Quarantined, Judge
<1>8. ASSUME NEW p \in Pointers, Unknown(p) PROVE FreedInv'
  BY <1>1, <1>2, <1>8, UnknownJudged DEF Unknown
<1>9. ASSUME NEW p \in Pointers, Outside(p) PROVE FreedInv'
  BY <1>1, <1>2, <1>9, OutsideJudged DEF Outside
<1>10. CASE UNCHANGED freedVars
  <2>1. JudgedByRecent'
    BY <1>10 DEF JudgedByRecent, freedVars, NoBlockAt, AddrOf, EndOf, ArenaEnd
  <2> QED
    BY <1>1, <1>2, <1>10, <2>1 DEF freedVars
<1> QED
  BY <1>3, <1>4, <1>5, <1>6, <1>7, <1>8, <1>9, <1>10 DEF Next

(* For every ring size, however often the ring has wrapped and wherever the *)
(* tables have moved the ends of the arenas: mxr_free_locked never refuses  *)
(* a live block, calls a free double only for one of the last RingSize      *)
(* releases, and invalid for one of those only when the table has taken     *)
(* bytes of the block.                                                      *)
THEOREM DoubleFreesJudged == Spec => []JudgedByRecent
<1>1. Init => FreedInv
  BY FreedInit
<1>2. FreedInv /\ [Next]_freedVars => FreedInv'
  BY FreedStep
<1>3. FreedInv => JudgedByRecent
  BY DEF FreedInv
<1> QED
  BY <1>1, <1>2, <1>3, PTL DEF Spec

=============================================================================
