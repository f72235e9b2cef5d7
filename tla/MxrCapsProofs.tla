----------------------------- MODULE MxrCapsProofs -----------------------------
(***************************************************************************)
(* Proofs about the whole heap, for every layout of both arenas, every     *)
(* order of fallback and every set of capabilities: each step of the whole *)
(* is a step of the DRAM arena, of the IRAM arena or of both, so that the  *)
(* theorems about the arenas hold of the composition; blocks lie where     *)
(* their capabilities ask; and the whole implements the abstract heap.     *)
(***************************************************************************)
EXTENDS MxrCaps, MxrDramProofs

-----------------------------------------------------------------------------
(* What the theorems about the IRAM arena assume is assumed here. *)
LEMMA IramAssumed == Iram!SearchAssumption /\ Iram!IramLayoutAssumption /\ Iram!IramTableAssumption
BY SearchAssumption, IramAssumption, TableAssumption, OptionAssumption
   DEF Iram!SearchAssumption, Iram!IramLayoutAssumption, Iram!IramTableAssumption,
       Unlimited, Iram!Unlimited

-----------------------------------------------------------------------------
(* Steps of the arenas. *)

DramStep == [Next]_arenaVars
IramStep == [Iram!Next]_iramVars

DramRests == UNCHANGED blocks
IramRests == UNCHANGED <<execs, fbs>>

(* A failed attempt leaves every block where it is. *)
LEMMA DramMissesStep ==
  ASSUME NEW caps, NEW bytes \in Requests, DramMisses(caps, bytes)
  PROVE  DramStep /\ DramRests
<1>1. CASE UNCHANGED arenaVars
  BY <1>1 DEF DramStep, DramRests, arenaVars
<1>2. CASE \E own \in Region : Refuse(own, bytes)
  <2>1. Next
    BY <1>2 DEF Next
  <2>2. blocks' = blocks
    BY <1>2 DEF Refuse
  <2> QED
    BY <2>1, <2>2 DEF DramStep, DramRests
<1> QED
  BY <1>1, <1>2 DEF DramMisses

LEMMA FbMissesStep ==
  ASSUME NEW caps, NEW bytes \in Requests, FbMisses(caps, bytes)
  PROVE  IramStep /\ IramRests
<1>1. CASE UNCHANGED iramVars
  BY <1>1 DEF IramStep, IramRests, iramVars
<1>2. CASE \E own \in Iram!Fb : Iram!FbRefuse(own, bytes)
  <2>1. Iram!Next
    BY <1>2 DEF Iram!Next
  <2>2. UNCHANGED <<execs, fbs>>
    BY <1>2 DEF Iram!FbRefuse
  <2> QED
    BY <2>1, <2>2 DEF IramStep, IramRests
<1> QED
  BY <1>1, <1>2 DEF FbMisses

LEMMA AllocFailsStep ==
  ASSUME NEW caps, NEW bytes \in Requests, AllocFails(caps, bytes)
  PROVE  DramStep /\ IramStep /\ DramRests /\ IramRests
BY DramMissesStep, FbMissesStep DEF AllocFails

(* A block is taken in one arena; the other one rests, or has refused. *)
LEMMA AllocDramStep ==
  ASSUME NEW caps, NEW bytes \in Requests, NEW x \in Answers(bytes), AllocDram(caps, bytes, x)
  PROVE  DramStep /\ IramStep /\ IramRests
<1>1. Next
  BY DEF AllocDram, Next
<1>2. IramStep /\ IramRests
  <2>1. CASE FbMisses(caps, bytes)
    BY <2>1, FbMissesStep
  <2>2. CASE UNCHANGED iramVars
    BY <2>2 DEF IramStep, IramRests, iramVars
  <2> QED
    BY <2>1, <2>2 DEF AllocDram
<1> QED
  BY <1>1, <1>2 DEF DramStep

LEMMA AllocExecStep ==
  ASSUME NEW caps, NEW bytes \in Requests, NEW x \in Iram!ExecFinds(bytes),
         AllocExec(caps, bytes, x)
  PROVE  DramStep /\ IramStep /\ DramRests
<1>1. Iram!Next
  BY DEF AllocExec, Iram!Next
<1>2. DramStep /\ DramRests
  BY DEF AllocExec, DramStep, DramRests, arenaVars
<1> QED
  BY <1>1, <1>2 DEF IramStep

LEMMA AllocFbStep ==
  ASSUME NEW caps, NEW bytes \in Requests, NEW x \in Iram!IAnswers(bytes),
         AllocFb(caps, bytes, x)
  PROVE  DramStep /\ IramStep /\ DramRests
<1>1. Iram!Next
  BY DEF AllocFb, Iram!Next
<1>2. DramStep /\ DramRests
  <2>1. CASE DramMisses(caps, bytes)
    BY <2>1, DramMissesStep
  <2>2. CASE UNCHANGED arenaVars
    BY <2>2 DEF DramStep, DramRests, arenaVars
  <2> QED
    BY <2>1, <2>2 DEF AllocFb
<1> QED
  BY <1>1, <1>2 DEF IramStep

LEMMA AllocStep ==
  ASSUME NEW caps, NEW bytes \in Requests, Alloc(caps, bytes)
  PROVE  DramStep /\ IramStep
BY AllocDramStep, AllocExecStep, AllocFbStep DEF Alloc

LEMMA ReleaseAnyStep ==
  ASSUME NEW x, ReleaseAny(x)
  PROVE  DramStep /\ IramStep
<1>1. CASE Release(x) /\ UNCHANGED iramVars
  <2>1. x \in blocks
    BY <1>1 DEF Release, Intact
  <2>2. Next
    BY <1>1, <2>1 DEF Next
  <2> QED
    BY <1>1, <2>2 DEF DramStep, IramStep
<1>2. CASE \E b \in Iram!Used : Iram!IRelease(b) /\ UNCHANGED arenaVars
  <2>1. Iram!Next
    BY <1>2 DEF Iram!Next
  <2> QED
    BY <1>2, <2>1 DEF DramStep, IramStep
<1> QED
  BY <1>1, <1>2 DEF ReleaseAny

LEMMA InPlaceStep ==
  ASSUME NEW caps, NEW x, NEW bytes \in Requests, ReallocInPlace(caps, x, bytes)
  PROVE  DramStep /\ IramStep
<1>1. CASE ResizeDram(x, bytes)
  <2>1. x \in blocks
    BY <1>1 DEF ResizeDram, Shrink, Extend, Intact
  <2>2. Next
    BY <1>1, <2>1 DEF ResizeDram, Next
  <2> QED
    BY <1>1, <2>2 DEF ResizeDram, DramStep, IramStep
<1>2. CASE ResizeIram(x, bytes)
  <2>1. Iram!Next
    BY <1>2 DEF ResizeIram, Iram!Next
  <2> QED
    BY <1>2, <2>1 DEF ResizeIram, DramStep, IramStep
<1>3. CASE UNCHANGED <<arenaVars, iramVars>>
  BY <1>3 DEF DramStep, IramStep
<1> QED
  BY <1>1, <1>2, <1>3 DEF ReallocInPlace

LEMMA QueryStep ==
  ASSUME NEW caps, QueryLargest(caps)
  PROVE  DramStep /\ IramStep /\ DramRests /\ IramRests
<1>1. Iram!Next
  <2>1. Iram!IInspect(Iram!Fb) /\ Iram!Fb \in SUBSET Iram!Fb
    BY DEF QueryLargest
  <2> QED
    BY <2>1 DEF Iram!Next
<1>2. UNCHANGED <<execs, fbs>>
  BY DEF QueryLargest, Iram!IInspect
<1> QED
  BY <1>1, <1>2 DEF QueryLargest, DramStep, IramStep, DramRests, IramRests, arenaVars

LEMMA StatusStep ==
  ASSUME Status
  PROVE  DramStep /\ IramStep /\ DramRests /\ IramRests
<1>1. Next /\ blocks' = blocks
  <2>1. Inspect(Region) /\ Region \in SUBSET Region
    BY DEF Status
  <2> QED
    BY <2>1 DEF Next, Inspect
<1>2. CASE UNCHANGED iramVars
  BY <1>1, <1>2 DEF DramStep, IramStep, DramRests, IramRests, iramVars
<1>3. CASE Iram!IInspect(Iram!Fb)
  <2>1. Iram!Next
    <3>1. Iram!Fb \in SUBSET Iram!Fb
      OBVIOUS
    <3> QED
      BY <1>3, <3>1 DEF Iram!Next
  <2>2. UNCHANGED <<execs, fbs>>
    BY <1>3 DEF Iram!IInspect
  <2> QED
    BY <1>1, <2>1, <2>2 DEF DramStep, IramStep, DramRests, IramRests
<1> QED
  BY <1>2, <1>3 DEF Status

LEMMA CapsStepArenas == [CapsNext]_capsVars => DramStep /\ IramStep
<1> SUFFICES ASSUME [CapsNext]_capsVars PROVE DramStep /\ IramStep
  OBVIOUS
<1>1. CASE \E caps \in Wanted : \E bytes \in Requests :
             Malloc(caps, bytes) \/ MallocFails(caps, bytes)
  BY <1>1, AllocStep, AllocFailsStep DEF Malloc, MallocFails
<1>2. CASE \E x \in Live : FreeCall(x)
  BY <1>2, ReleaseAnyStep DEF FreeCall
<1>3. CASE \E caps \in Wanted : \E x \in Live : \E bytes \in Requests :
             \/ ReallocInPlace(caps, x, bytes)
             \/ ReallocMove(caps, x, bytes)
             \/ ReallocFails(caps, x, bytes)
  BY <1>3, InPlaceStep, AllocStep, AllocFailsStep DEF ReallocMove, ReallocFails
<1>4. CASE ReallocEnd
  BY <1>4, ReleaseAnyStep DEF ReallocEnd
<1>5. CASE \E caps \in Wanted : QueryLargest(caps)
  BY <1>5, QueryStep
<1>6. CASE Status
  BY <1>6, StatusStep
<1>7. CASE UNCHANGED capsVars
  BY <1>7 DEF capsVars, DramStep, IramStep
<1> QED
  BY <1>1, <1>2, <1>3, <1>4, <1>5, <1>6, <1>7 DEF CapsNext

(* The whole heap implements each of its arenas: whatever is proved of an   *)
(* arena alone holds behind capabilities, fallbacks and moves between both. *)
THEOREM CapsImplementsArenas == CapsSpec => Spec /\ Iram!Spec
<1>1. CapsInit => Init /\ Iram!Init
  BY DEF CapsInit
<1>2. [CapsNext]_capsVars => [Next]_arenaVars
  BY CapsStepArenas DEF DramStep
<1>3. [CapsNext]_capsVars => [Iram!Next]_(Iram!iramVars)
  BY CapsStepArenas DEF IramStep, iramVars, Iram!iramVars
<1> QED
  BY <1>1, <1>2, <1>3, PTL DEF CapsSpec, Spec, Iram!Spec

-----------------------------------------------------------------------------
(* Both arenas in one address space. *)

ArenasInv == Inv /\ ArenaFits /\ Iram!ITableInv /\ Iram!IramFits

LEMMA ArenasInit == CapsInit => ArenasInv
BY InitInv, ArenaFitsInit, IramAssumed, Iram!ITableInit, Iram!IramFitsInit DEF CapsInit, ArenasInv

LEMMA ArenasStep ==
  ASSUME ArenasInv, DramStep, IramStep
  PROVE  ArenasInv'
<1>1. Inv' /\ ArenaFits'
  BY NextIsArenaStep, ArenaStepInv, ArenaFitsStep DEF ArenasInv, DramStep
<1>2. [Iram!Next]_(Iram!iramVars)
  BY DEF IramStep, iramVars, Iram!iramVars
<1>3. Iram!ITableInv'
  BY <1>2, IramAssumed, Iram!ITableStep DEF ArenasInv
<1>4. Iram!IramFits'
  BY <1>2, <1>3, IramAssumed, Iram!IramFitsStep DEF ArenasInv
<1> QED
  BY <1>1, <1>3, <1>4 DEF ArenasInv

Top == RawEnd + IramInit

LEMMA TopType == RawEnd \in Nat /\ IramInit \in Nat /\ Top \in Nat
<1>1. RawEnd \in Nat
  BY DeltaType, LayoutAssumption DEF RawEnd, DescSize
<1> QED
  BY <1>1, IramAssumption DEF Top

(* DRAM blocks lie below RawEnd and IRAM blocks above. *)
LEMMA DramBlock ==
  ASSUME ArenasInv, NEW x \in blocks
  PROVE  /\ x \in Extent /\ x.len > 0 /\ x.off + x.len <= RawEnd
         /\ \A c \in blocks : c # x => c.off + c.len <= x.off \/ x.off + x.len <= c.off
<1>1. Placed(x)
  BY BlockPlaced DEF ArenasInv
<1>2. x \in Extent /\ x.len > 0 /\ \A c \in blocks : c # x => Disjoint(c, x)
  BY DEF ArenasInv, Inv, TypeOK, BlocksSeparate
<1>3. EndOf(x) <= arenaEnd /\ arenaEnd \in Nat
  <2>1. EndOf(x) <= RegEnd(Last) /\ Last \in Region
    BY BlocksInArena, LayoutAssumption DEF ArenasInv, Region, Last
  <2> QED
    BY <2>1 DEF ArenasInv, Inv, TypeOK, ArenaTiled
<1> QED
  BY <1>2, <1>3, TopType DEF ArenasInv, ArenaFits, EndOf, Disjoint, Extent

LEMMA IramBlock ==
  ASSUME ArenasInv, NEW b \in Iram!Used
  PROVE  /\ b \in Extent /\ b.len > 0 /\ b.off + b.len <= IramInit
         /\ \A c \in Iram!Used : c # b => c.off + c.len <= b.off \/ b.off + b.len <= c.off
<1>1. Iram!IInv
  BY DEF ArenasInv, Iram!ITableInv
<1>2. b \in Iram!Extent /\ b.len > 0 /\ Iram!EndOf(b) <= iramEnd
  BY <1>1, IramAssumed, Iram!BlockFacts, Iram!BlockInArena
<1>3. \A c \in Iram!Used : c # b => Iram!Disjoint(c, b)
  BY <1>1 DEF Iram!IInv, Iram!ZonesApart
<1>4. iramEnd \in Nat
  BY <1>1 DEF Iram!IInv, Iram!TypeOK
<1> QED
  BY <1>2, <1>3, <1>4, TopType
     DEF ArenasInv, Iram!IramFits, Iram!EndOf, Iram!Disjoint, Iram!Extent, Extent

LEMMA MappedFacts ==
  ASSUME NEW b \in Extent
  PROVE  /\ Mapped(b).off = RawEnd + b.off /\ Mapped(b).len = b.len
         /\ \A c \in Extent : Mapped(c) = Mapped(b) => c = b
         /\ \A c \in Extent : Mapped(c).off = Mapped(b).off => c.off = b.off
BY TopType DEF Mapped, Extent

(* A live block has bytes, and shares none with another, of either arena. *)
Piece(x) == x \in Extent /\ x.len > 0 /\ x.off + x.len <= Top

LEMMA LivePieces ==
  ASSUME ArenasInv
  PROVE  /\ \A x \in Live : Piece(x)
         /\ \A x, y \in Live : x # y => x.off + x.len <= y.off \/ y.off + y.len <= x.off
<1>1. ASSUME NEW x \in blocks
      PROVE  Piece(x) /\ x.off + x.len <= RawEnd
  BY <1>1, DramBlock, TopType DEF Piece, Top, Extent
<1>2. ASSUME NEW b \in Iram!Used
      PROVE  Piece(Mapped(b)) /\ RawEnd <= Mapped(b).off /\ b \in Extent
  <2>1. b \in Extent /\ b.len > 0 /\ b.off + b.len <= IramInit
    BY IramBlock
  <2> QED
    BY <2>1, TopType DEF Mapped, Piece, Top, Extent
<1>3. \A x \in Live : Piece(x)
  BY <1>1, <1>2 DEF Live
<1>4. ASSUME NEW x \in Live, NEW y \in Live, x # y
      PROVE  x.off + x.len <= y.off \/ y.off + y.len <= x.off
  <2>1. CASE x \in blocks /\ y \in blocks
    BY <1>4, <2>1, DramBlock
  <2>2. ASSUME NEW b \in blocks, NEW c \in Iram!Used
        PROVE  b.off + b.len <= Mapped(c).off
    BY <1>1, <1>2, TopType DEF Piece, Extent
  <2>3. CASE \E b, c \in Iram!Used : x = Mapped(b) /\ y = Mapped(c)
    <3>1. PICK b \in Iram!Used, c \in Iram!Used : x = Mapped(b) /\ y = Mapped(c)
      BY <2>3
    <3>2. b # c
      BY <1>4, <3>1
    <3>3. b.off + b.len <= c.off \/ c.off + c.len <= b.off
      BY <3>2, IramBlock
    <3>4. b \in Extent /\ c \in Extent
      BY <1>2
    <3> QED
      BY <3>1, <3>3, <3>4, TopType DEF Mapped, Extent
  <2> QED
    BY <2>1, <2>2, <2>3 DEF Live
<1> QED
  BY <1>3, <1>4

(* No two live blocks start at the same place. *)
LEMMA LiveOffsetIsKey ==
  ASSUME ArenasInv, NEW x \in Live, NEW y \in Live, x.off = y.off
  PROVE  x = y
<1>1. x.len > 0 /\ y.len > 0 /\ x.off \in Nat /\ x.len \in Nat /\ y.len \in Nat
  BY LivePieces DEF Piece, Extent
<1> QED
  BY <1>1, LivePieces

(* The same, of the state after a step. *)
DramLow  == \A x \in blocks : x \in Extent /\ x.len > 0 /\ x.off + x.len <= RawEnd
IramLow  == \A b \in Iram!Used : b \in Extent
LiveApart ==
  /\ \A x \in Live : Piece(x)
  /\ \A x, y \in Live : x # y => x.off + x.len <= y.off \/ y.off + y.len <= x.off

LEMMA BlocksLow == ArenasInv => DramLow /\ IramLow /\ LiveApart
BY DramBlock, IramBlock, LivePieces DEF DramLow, IramLow, LiveApart

LEMMA BlocksLowNext == ArenasInv' => DramLow' /\ IramLow' /\ LiveApart'
BY BlocksLow, PTL

-----------------------------------------------------------------------------
(* What the steps do to the live blocks. *)

LEMMA MemberOfLive == \A x : x \in Live <=> x \in blocks \/ \E b \in Iram!Used : x = Mapped(b)
BY DEF Live

(* Memory that serves caps holds the block at off. *)
Suits(caps, off) ==
  \/ caps \subseteq DramCaps /\ \E b \in blocks : b.off = off
  \/ "EXEC" \in caps /\ \E b \in execs : Mapped(b).off = off
  \/ caps \cap {"EXEC", "DMA", "8BIT"} = {} /\ \E b \in fbs : Mapped(b).off = off

LEMMA PlacedIsSuits == PlacedAsAsked <=> \A a \in asked : Suits(a.caps, a.off)
BY DEF PlacedAsAsked, Suits

LEMMA StripTwice == \A caps : Strip(Strip(caps)) = Strip(caps)
BY DEF Strip

LEMMA SuitsServed ==
  ASSUME NEW caps, NEW off
  PROVE  /\ DramServes(caps) /\ (\E b \in blocks : b.off = off) => Suits(Strip(caps), off)
         /\ ExecServes(caps) /\ (\E b \in execs : Mapped(b).off = off) => Suits(Strip(caps), off)
         /\ FbServes(caps) /\ (\E b \in fbs : Mapped(b).off = off) => Suits(Strip(caps), off)
<1>1. DramServes(caps) => Strip(caps) \subseteq DramCaps
  BY DEF DramServes
<1>2. ExecServes(caps) => "EXEC" \in Strip(caps)
  BY DEF ExecServes, WantsExec, Strip
<1>3. FbServes(caps) => Strip(caps) \cap {"EXEC", "DMA", "8BIT"} = {}
  BY DEF FbServes, Strip
<1> QED
  BY <1>1, <1>2, <1>3 DEF Suits

(* Everything but the blocks at off stays where it is. *)
OthersStay(off) ==
  /\ \A b \in blocks : b.off # off => b \in blocks'
  /\ \A b \in execs : Mapped(b).off # off => b \in execs'
  /\ \A b \in fbs : Mapped(b).off # off => b \in fbs'

LEMMA SuitsStays ==
  ASSUME NEW off, OthersStay(off), NEW caps, NEW o, o # off, Suits(caps, o)
  PROVE  Suits(caps, o)'
<1>1. \A b : Mapped(b)' = Mapped(b)
  BY DEF Mapped
<1> QED
  BY <1>1 DEF Suits, OthersStay, Mapped

(* An allocation adds one block, in memory that serves the request. *)
Added(caps, y) ==
  /\ y \notin Live /\ Live' = Live \cup {y} /\ NewBlocks = {y}
  /\ blocks \subseteq blocks' /\ execs \subseteq execs' /\ fbs \subseteq fbs'
  /\ Suits(Strip(caps), y.off)'

LEMMA MappedLater == \A b : Mapped(b)' = Mapped(b)
BY DEF Mapped

LEMMA AddedDram ==
  ASSUME ArenasInv, ArenasInv', NEW caps, NEW bytes \in Requests, NEW x \in Answers(bytes),
         AllocDram(caps, bytes, x)
  PROVE  Added(caps, x)
<1>1. x \notin blocks /\ blocks' = blocks \cup {x}
  BY OptionAssumption, TakeBlocks DEF AllocDram, ArenasInv
<1>2. execs' = execs /\ fbs' = fbs
  BY AllocDramStep DEF IramRests
<1>3. (Iram!Used)' = Iram!Used
  BY <1>2 DEF Iram!Used
<1>4. ASSUME NEW b \in Iram!Used PROVE x # Mapped(b)
  <2>1. x.off + x.len <= RawEnd /\ x.len > 0 /\ x \in Extent
    BY <1>1, BlocksLowNext DEF DramLow
  <2>2. b \in Extent
    BY IramBlock
  <2> QED
    BY <2>1, <2>2, MappedFacts, TopType DEF Extent
<1>5. x \notin Live /\ Live' = Live \cup {x}
  BY <1>1, <1>3, <1>4, MappedLater DEF Live
<1>6. Suits(Strip(caps), x.off)'
  <2>1. Strip(caps) \subseteq DramCaps /\ x \in blocks'
    BY <1>1 DEF AllocDram, DramServes
  <2> QED
    BY <2>1 DEF Suits
<1> QED
  BY <1>1, <1>2, <1>5, <1>6 DEF Added, NewBlocks

LEMMA AddedIram ==
  ASSUME ArenasInv, ArenasInv', NEW caps, NEW x, x \notin Iram!Used, blocks' = blocks,
         (Iram!Used)' = Iram!Used \cup {x}, execs \subseteq execs', fbs \subseteq fbs',
         Suits(Strip(caps), Mapped(x).off)'
  PROVE  Added(caps, Mapped(x))
<1>1. x \in Extent /\ x.off \in Nat
  BY BlocksLowNext DEF IramLow, Extent
<1>2. Mapped(x) \notin blocks
  <2>1. ASSUME NEW b \in blocks PROVE b # Mapped(x)
    <3>1. b.off + b.len <= RawEnd /\ b.len > 0 /\ b \in Extent
      BY DramBlock
    <3> QED
      BY <1>1, <3>1, MappedFacts, TopType DEF Extent
  <2> QED
    BY <2>1
<1>3. ASSUME NEW b \in Iram!Used PROVE Mapped(x) # Mapped(b)
  <2>1. b \in Extent /\ b # x
    BY IramBlock
  <2> QED
    BY <1>1, <2>1, MappedFacts
<1>4. Mapped(x) \notin Live /\ Live' = Live \cup {Mapped(x)}
  BY <1>2, <1>3, MappedLater DEF Live
<1> QED
  BY <1>4 DEF Added, NewBlocks

LEMMA AddedExec ==
  ASSUME ArenasInv, ArenasInv', NEW caps, NEW bytes \in Requests, NEW x \in Iram!ExecFinds(bytes),
         AllocExec(caps, bytes, x)
  PROVE  Added(caps, Mapped(x))
<1>1. x \notin Iram!Used /\ execs' = execs \cup {x} /\ fbs' = fbs
  BY OptionAssumption, IramAssumed, Iram!TakeExecBlocks DEF AllocExec, ArenasInv, Iram!ITableInv
<1>2. blocks' = blocks
  BY AllocExecStep DEF DramRests
<1>3. (Iram!Used)' = Iram!Used \cup {x}
  BY <1>1 DEF Iram!Used
<1>4. Suits(Strip(caps), Mapped(x).off)'
  <2>1. "EXEC" \in Strip(caps) /\ x \in execs'
    BY <1>1 DEF AllocExec, ExecServes, WantsExec, Strip
  <2> QED
    BY <2>1, MappedLater DEF Suits
<1> QED
  BY <1>1, <1>2, <1>3, <1>4, AddedIram

LEMMA AddedFb ==
  ASSUME ArenasInv, ArenasInv', NEW caps, NEW bytes \in Requests, NEW x \in Iram!IAnswers(bytes),
         AllocFb(caps, bytes, x)
  PROVE  Added(caps, Mapped(x))
<1>1. x \notin Iram!Used /\ fbs' = fbs \cup {x} /\ execs' = execs
  BY OptionAssumption, IramAssumed, Iram!FbTakeBlocks DEF AllocFb, ArenasInv, Iram!ITableInv
<1>2. blocks' = blocks
  BY AllocFbStep DEF DramRests
<1>3. (Iram!Used)' = Iram!Used \cup {x}
  BY <1>1 DEF Iram!Used
<1>4. Suits(Strip(caps), Mapped(x).off)'
  <2>1. Strip(caps) \cap {"EXEC", "DMA", "8BIT"} = {} /\ x \in fbs'
    BY <1>1 DEF AllocFb, FbServes, Strip
  <2> QED
    BY <2>1, MappedLater DEF Suits
<1> QED
  BY <1>1, <1>2, <1>3, <1>4, AddedIram

LEMMA AllocAdds ==
  ASSUME ArenasInv, ArenasInv', NEW caps, NEW bytes \in Requests, Alloc(caps, bytes)
  PROVE  \E y : Added(caps, y)
BY AddedDram, AddedExec, AddedFb DEF Alloc

(* A release takes one block away and touches no other. *)
Removed(x) ==
  /\ x \in Live /\ Live' = Live \ {x}
  /\ OthersStay(x.off)

LEMMA ReleaseRemoves ==
  ASSUME ArenasInv, NEW x, ReleaseAny(x)
  PROVE  Removed(x)
<1>1. CASE Release(x) /\ UNCHANGED iramVars
  <2>1. x \in blocks /\ blocks' = blocks \ {x}
    BY <1>1 DEF Release, Intact
  <2>2. execs' = execs /\ fbs' = fbs /\ (Iram!Used)' = Iram!Used
    BY <1>1 DEF iramVars, Iram!Used
  <2>3. ASSUME NEW b \in Iram!Used PROVE x # Mapped(b)
    <3>1. x.off + x.len <= RawEnd /\ x.len > 0 /\ x \in Extent /\ b \in Extent
      BY <2>1, DramBlock, IramBlock
    <3> QED
      BY <3>1, MappedFacts, TopType DEF Extent
  <2>4. Live' = Live \ {x}
    BY <2>1, <2>2, <2>3, MappedLater DEF Live
  <2>5. OthersStay(x.off)
    BY <2>1, <2>2 DEF OthersStay
  <2> QED
    BY <2>1, <2>4, <2>5 DEF Removed, Live
<1>2. CASE \E b \in Iram!Used : x = Mapped(b) /\ Iram!IRelease(b) /\ UNCHANGED arenaVars
  <2>1. PICK b \in Iram!Used : x = Mapped(b) /\ Iram!IRelease(b) /\ UNCHANGED arenaVars
    BY <1>2
  <2>2. /\ execs' = execs \ {b} /\ fbs' = fbs \ {b} /\ (Iram!Used)' = Iram!Used \ {b}
        /\ blocks' = blocks
    BY <2>1 DEF Iram!IRelease, Iram!Used, arenaVars
  <2>3. ASSUME NEW c \in Iram!Used, Mapped(c) = Mapped(b) PROVE c = b
    BY <2>3, IramBlock, MappedFacts
  <2>4. ASSUME NEW c \in blocks PROVE c # Mapped(b)
    <3>1. c.off + c.len <= RawEnd /\ c.len > 0 /\ c \in Extent /\ b \in Extent
      BY DramBlock, IramBlock
    <3> QED
      BY <3>1, MappedFacts, TopType DEF Extent
  <2>5. Live' = Live \ {x}
    BY <2>1, <2>2, <2>3, <2>4, MappedLater DEF Live
  <2>6. OthersStay(x.off)
    BY <2>1, <2>2 DEF OthersStay
  <2> QED
    BY <2>1, <2>5, <2>6 DEF Removed, Live
<1> QED
  BY <1>1, <1>2 DEF ReleaseAny

(* A resize in place puts a block of the same place and memory instead of x. *)
Replaced(caps, x, y) ==
  /\ x \in Live /\ y.off = x.off /\ Live' = (Live \ {x}) \cup {y}
  /\ OthersStay(x.off)
  /\ Suits(Strip(caps), x.off)'

LEMMA InDramOrIram ==
  ASSUME ArenasInv, NEW x \in blocks, NEW b \in Iram!Used
  PROVE  Mapped(b) # x /\ Mapped(b).off # x.off
<1>1. x.off + x.len <= RawEnd /\ x.len > 0 /\ x \in Extent /\ b \in Extent
  BY DramBlock, IramBlock
<1> QED
  BY <1>1, MappedFacts, TopType DEF Extent

LEMMA ReplacedDram ==
  ASSUME ArenasInv, NEW caps, NEW bytes \in Requests, NEW x, StaysIn(caps, x),
         ResizeDram(x, bytes)
  PROVE  \E y : Replaced(caps, x, y)
<1>1. x \in blocks /\ \E y : y.off = x.off /\ blocks' = (blocks \ {x}) \cup {y}
  BY OptionAssumption, ResizeBlocksDram DEF ResizeDram, ArenasInv
<1>2. PICK y : y.off = x.off /\ blocks' = (blocks \ {x}) \cup {y}
  BY <1>1
<1>3. execs' = execs /\ fbs' = fbs /\ (Iram!Used)' = Iram!Used
  BY DEF ResizeDram, iramVars, Iram!Used
<1>4. DramServes(caps)
  BY <1>1, InDramOrIram DEF StaysIn, Iram!Used
<1>5. Live' = (Live \ {x}) \cup {y}
  BY <1>1, <1>2, <1>3, InDramOrIram, MappedLater DEF Live
<1>6. OthersStay(x.off)
  BY <1>2, <1>3 DEF OthersStay
<1>7. Suits(Strip(caps), x.off)'
  BY <1>2, <1>4 DEF Suits, DramServes
<1> QED
  BY <1>1, <1>2, <1>5, <1>6, <1>7 DEF Replaced, Live

(* The arena that a block stays in serves what is asked of it. *)
LEMMA StaysServed ==
  ASSUME ArenasInv, NEW caps, NEW b \in Iram!Used, StaysIn(caps, Mapped(b))
  PROVE  (b \in execs /\ ExecServes(caps)) \/ (b \in fbs /\ FbServes(caps))
<1>1. Mapped(b) \notin blocks
  BY InDramOrIram
<1>2. ASSUME NEW c \in Iram!Used, Mapped(b) = Mapped(c) PROVE c = b
  BY <1>2, IramBlock, MappedFacts
<1> QED
  BY <1>1, <1>2 DEF StaysIn, Iram!Used

LEMMA ReplacedIram ==
  ASSUME ArenasInv, NEW caps, NEW bytes \in Requests, NEW x, StaysIn(caps, x),
         ResizeIram(x, bytes)
  PROVE  \E y : Replaced(caps, x, y)
<1>1. PICK b \in Iram!Used :
        x = Mapped(b) /\ (Iram!IShrink(b, bytes) \/ Iram!IExtend(b, bytes)) /\ UNCHANGED arenaVars
  BY DEF ResizeIram
<1>2. PICK c \in Iram!Extent :
        /\ c.off = b.off /\ (Iram!Used)' = (Iram!Used \ {b}) \cup {c}
        /\ execs' = IF b \in execs THEN (execs \ {b}) \cup {c} ELSE execs
        /\ fbs' = IF b \in fbs THEN (fbs \ {b}) \cup {c} ELSE fbs
  BY <1>1, OptionAssumption, IramAssumed, Iram!ResizeBlocks DEF ArenasInv, Iram!ITableInv
<1>3. blocks' = blocks
  BY <1>1 DEF arenaVars
<1>4. Mapped(c).off = x.off
  BY <1>1, <1>2 DEF Mapped
<1>5. ASSUME NEW d \in Iram!Used, Mapped(d) = Mapped(b) PROVE d = b
  BY <1>5, IramBlock, MappedFacts
<1>6. Live' = (Live \ {x}) \cup {Mapped(c)}
  BY <1>1, <1>2, <1>3, <1>5, InDramOrIram, MappedLater DEF Live
<1>7. OthersStay(x.off)
  BY <1>1, <1>2, <1>3 DEF OthersStay
<1>8. Suits(Strip(caps), x.off)'
  <2>1. CASE b \in execs /\ ExecServes(caps)
    <3>1. "EXEC" \in Strip(caps) /\ c \in execs'
      BY <1>2, <2>1 DEF ExecServes, WantsExec, Strip
    <3> QED
      BY <1>4, <3>1, MappedLater DEF Suits
  <2>2. CASE b \in fbs /\ FbServes(caps)
    <3>1. Strip(caps) \cap {"EXEC", "DMA", "8BIT"} = {} /\ c \in fbs'
      BY <1>2, <2>2 DEF FbServes, Strip
    <3> QED
      BY <1>4, <3>1, MappedLater DEF Suits
  <2> QED
    BY <1>1, <2>1, <2>2, StaysServed
<1>9. x \in Live
  BY <1>1 DEF Live
<1> QED
  BY <1>4, <1>6, <1>7, <1>8, <1>9 DEF Replaced

LEMMA ReplacedSame ==
  ASSUME ArenasInv, NEW caps, NEW x, StaysIn(caps, x), UNCHANGED <<arenaVars, iramVars>>
  PROVE  Replaced(caps, x, x)
<1>1. blocks' = blocks /\ execs' = execs /\ fbs' = fbs /\ (Iram!Used)' = Iram!Used
  BY DEF arenaVars, iramVars, Iram!Used
<1>2. x \in Live /\ Live' = Live
  BY <1>1, MappedLater DEF StaysIn, Live, Iram!Used
<1>3. Suits(Strip(caps), x.off)
  BY SuitsServed DEF StaysIn
<1>4. Suits(Strip(caps), x.off)'
  BY <1>1, <1>3, MappedLater DEF Suits
<1> QED
  BY <1>1, <1>2, <1>4 DEF Replaced, OthersStay

LEMMA InPlaceReplaces ==
  ASSUME ArenasInv, NEW caps, NEW x, NEW bytes \in Requests, ReallocInPlace(caps, x, bytes)
  PROVE  \E y : Replaced(caps, x, y)
BY ReplacedDram, ReplacedIram, ReplacedSame DEF ReallocInPlace

-----------------------------------------------------------------------------
(* The calls, by what they do to the live blocks, the move under way and    *)
(* the history of requests.                                                 *)

NothingMoves ==
  /\ UNCHANGED <<blocks, execs, fbs, moving, asked>>
  /\ Live' = Live

BlockAdded(caps, y) ==
  /\ Added(caps, y)
  /\ asked' = asked \cup {[off |-> y.off, caps |-> Strip(caps)]}

BlockRemoved(x) ==
  /\ Removed(x)
  /\ asked' = {a \in asked : a.off # x.off}

BlockReplaced(caps, x, y) ==
  /\ Replaced(caps, x, y)
  /\ asked' = {a \in asked : a.off # x.off} \cup {[off |-> x.off, caps |-> Strip(caps)]}

MoveStarted(x, y) == x \in Live /\ moving = {} /\ moving' = {[from |-> x, to |-> y]}

Effect ==
  \/ NothingMoves
  \/ \E caps, y : BlockAdded(caps, y) /\ (moving' = moving \/ \E x : MoveStarted(x, y))
  \/ \E x : BlockRemoved(x) /\ Settled(x) /\ moving' = moving
  \/ \E caps, x, y : BlockReplaced(caps, x, y) /\ Settled(x) /\ moving' = moving
  \/ \E m \in moving : BlockRemoved(m.from) /\ moving' = {}

LEMMA RestsMoveNothing ==
  ASSUME DramRests, IramRests, UNCHANGED <<moving, asked>>
  PROVE  Effect
<1>1. (Iram!Used)' = Iram!Used
  BY DEF IramRests, Iram!Used
<1>2. Live' = Live
  BY <1>1, MappedLater DEF DramRests, Live
<1> QED
  BY <1>2 DEF DramRests, IramRests, NothingMoves, Effect

LEMMA MallocEffect ==
  ASSUME ArenasInv, ArenasInv', NEW caps, NEW bytes \in Requests, Malloc(caps, bytes)
  PROVE  Effect
<1>1. PICK y : Added(caps, y)
  BY AllocAdds DEF Malloc
<1>2. BlockAdded(caps, y)
  BY <1>1 DEF Malloc, AskedFor, Added, BlockAdded
<1> QED
  BY <1>2 DEF Malloc, Effect

LEMMA MoveEffect ==
  ASSUME ArenasInv, ArenasInv', NEW caps, NEW x, NEW bytes \in Requests,
         ReallocMove(caps, x, bytes)
  PROVE  Effect
<1>1. PICK y : Added(Strip(caps), y)
  BY AllocAdds DEF ReallocMove
<1>2. BlockAdded(Strip(caps), y)
  BY <1>1, StripTwice DEF ReallocMove, AskedFor, Added, BlockAdded
<1>3. MoveStarted(x, y)
  BY <1>1 DEF ReallocMove, MustMove, Added, MoveStarted
<1> QED
  BY <1>2, <1>3 DEF Effect

LEMMA FreeEffect ==
  ASSUME ArenasInv, NEW x, FreeCall(x)
  PROVE  Effect
<1>1. BlockRemoved(x)
  BY ReleaseRemoves DEF FreeCall, ReleaseAny, BlockRemoved
<1> QED
  BY <1>1 DEF FreeCall, Effect

LEMMA InPlaceEffect ==
  ASSUME ArenasInv, NEW caps, NEW x, NEW bytes \in Requests, ReallocInPlace(caps, x, bytes)
  PROVE  Effect
<1>1. PICK y : Replaced(caps, x, y)
  BY InPlaceReplaces
<1>2. BlockReplaced(caps, x, y)
  BY <1>1 DEF ReallocInPlace, BlockReplaced
<1> QED
  BY <1>2 DEF ReallocInPlace, Effect

LEMMA MoveEndEffect ==
  ASSUME ArenasInv, ReallocEnd
  PROVE  Effect
<1>1. PICK m \in moving : ReleaseAny(m.from) /\ moving' = {}
  BY DEF ReallocEnd
<1>2. BlockRemoved(m.from)
  BY <1>1, ReleaseRemoves DEF ReleaseAny, BlockRemoved
<1> QED
  BY <1>1, <1>2 DEF Effect

LEMMA StepEffect ==
  ASSUME ArenasInv, ArenasInv', [CapsNext]_capsVars
  PROVE  Effect
<1>1. CASE \E caps \in Wanted : \E bytes \in Requests :
             Malloc(caps, bytes) \/ MallocFails(caps, bytes)
  BY <1>1, MallocEffect, AllocFailsStep, RestsMoveNothing DEF MallocFails
<1>2. CASE \E x \in Live : FreeCall(x)
  BY <1>2, FreeEffect
<1>3. CASE \E caps \in Wanted : \E x \in Live : \E bytes \in Requests :
             \/ ReallocInPlace(caps, x, bytes)
             \/ ReallocMove(caps, x, bytes)
             \/ ReallocFails(caps, x, bytes)
  BY <1>3, InPlaceEffect, MoveEffect, AllocFailsStep, RestsMoveNothing DEF ReallocFails
<1>4. CASE ReallocEnd
  BY <1>4, MoveEndEffect
<1>5. CASE \E caps \in Wanted : QueryLargest(caps)
  BY <1>5, QueryStep, RestsMoveNothing DEF QueryLargest
<1>6. CASE Status
  BY <1>6, StatusStep, RestsMoveNothing DEF Status
<1>7. CASE UNCHANGED capsVars
  BY <1>7, RestsMoveNothing DEF capsVars, DramRests, IramRests, arenaVars, iramVars
<1> QED
  BY <1>1, <1>2, <1>3, <1>4, <1>5, <1>6, <1>7 DEF CapsNext

-----------------------------------------------------------------------------
(* The invariant of the whole heap. *)

(* The realloc between its two critical sections has two live blocks. *)
OneMove == \E u, v \in Live : u # v /\ moving = {[from |-> u, to |-> v]}
Moves   == moving = {} \/ OneMove

CapsInv == ArenasInv /\ Moves /\ PlacedAsAsked

LEMMA MovesLive ==
  ASSUME Moves, NEW L, \A m \in moving : m.from \in L /\ m.to \in L
  PROVE  moving = {} \/ \E u, v \in L : u # v /\ moving = {[from |-> u, to |-> v]}
BY DEF Moves, OneMove

LEMMA MovesStep ==
  ASSUME Moves, Effect
  PROVE  Moves'
<1>0. \A m \in moving : m.from \in Live /\ m.to \in Live
  BY DEF Moves, OneMove
<1>1. ASSUME moving' = moving, \A m \in moving : m.from \in Live' /\ m.to \in Live'
      PROVE  Moves'
  BY <1>1, MovesLive DEF Moves, OneMove
<1>2. CASE NothingMoves
  BY <1>0, <1>1, <1>2 DEF NothingMoves
<1>3. ASSUME NEW caps, NEW y, BlockAdded(caps, y), moving' = moving
      PROVE  Moves'
  BY <1>0, <1>1, <1>3 DEF BlockAdded, Added
<1>4. ASSUME NEW caps, NEW y, BlockAdded(caps, y), NEW x, MoveStarted(x, y)
      PROVE  Moves'
  <2>1. x \in Live' /\ y \in Live' /\ x # y /\ moving' = {[from |-> x, to |-> y]}
    BY <1>4 DEF BlockAdded, Added, MoveStarted
  <2> QED
    BY <2>1 DEF Moves, OneMove
<1>5. ASSUME NEW x, BlockRemoved(x), Settled(x), moving' = moving
      PROVE  Moves'
  BY <1>0, <1>1, <1>5 DEF BlockRemoved, Removed, Settled
<1>6. ASSUME NEW caps, NEW x, NEW y, BlockReplaced(caps, x, y), Settled(x), moving' = moving
      PROVE  Moves'
  BY <1>0, <1>1, <1>6 DEF BlockReplaced, Replaced, Settled
<1>7. CASE moving' = {}
  BY <1>7 DEF Moves
<1> QED
  BY <1>2, <1>3, <1>4, <1>5, <1>6, <1>7 DEF Effect

LEMMA PlacedNext ==
  ASSUME \A a \in asked' : Suits(a.caps, a.off)'
  PROVE  PlacedAsAsked'
BY MappedLater DEF PlacedAsAsked, Suits

LEMMA PlacedStep ==
  ASSUME PlacedAsAsked, Effect
  PROVE  PlacedAsAsked'
<1>0. \A a \in asked : Suits(a.caps, a.off)
  BY PlacedIsSuits
<1>1. CASE NothingMoves
  <2>1. asked' = asked /\ \A a \in asked : Suits(a.caps, a.off)'
    BY <1>0, <1>1, MappedLater DEF NothingMoves, Suits
  <2> QED
    BY <2>1, PlacedNext
<1>2. ASSUME NEW caps, NEW y, BlockAdded(caps, y)
      PROVE  PlacedAsAsked'
  <2>1. ASSUME NEW a \in asked PROVE Suits(a.caps, a.off)'
    BY <1>0, <1>2, MappedLater DEF BlockAdded, Added, Suits
  <2>2. Suits(Strip(caps), y.off)'
    BY <1>2 DEF BlockAdded, Added
  <2>3. ASSUME NEW a \in asked' PROVE Suits(a.caps, a.off)'
    <3>1. a \in asked \/ a = [off |-> y.off, caps |-> Strip(caps)]
      BY <1>2, <2>3 DEF BlockAdded
    <3> QED
      BY <2>1, <2>2, <3>1
  <2> QED
    BY <2>3, PlacedNext
<1>3. ASSUME NEW x, OthersStay(x.off), NEW a \in asked, a.off # x.off
      PROVE  Suits(a.caps, a.off)'
  BY <1>0, <1>3, SuitsStays
<1>4. ASSUME NEW x, BlockRemoved(x)
      PROVE  PlacedAsAsked'
  <2>1. ASSUME NEW a \in asked' PROVE Suits(a.caps, a.off)'
    BY <1>3, <1>4, <2>1 DEF BlockRemoved, Removed
  <2> QED
    BY <2>1, PlacedNext
<1>5. ASSUME NEW caps, NEW x, NEW y, BlockReplaced(caps, x, y)
      PROVE  PlacedAsAsked'
  <2>1. Suits(Strip(caps), x.off)' /\ OthersStay(x.off)
    BY <1>5 DEF BlockReplaced, Replaced
  <2>2. ASSUME NEW a \in asked' PROVE Suits(a.caps, a.off)'
    <3>1. \/ a \in asked /\ a.off # x.off
          \/ a = [off |-> x.off, caps |-> Strip(caps)]
      BY <1>5, <2>2 DEF BlockReplaced
    <3> QED
      BY <1>3, <2>1, <3>1
  <2> QED
    BY <2>2, PlacedNext
<1> QED
  BY <1>1, <1>2, <1>4, <1>5 DEF Effect

LEMMA CapsInvStep == CapsInv /\ [CapsNext]_capsVars => CapsInv'
<1> SUFFICES ASSUME CapsInv, [CapsNext]_capsVars PROVE CapsInv'
  OBVIOUS
<1>1. ArenasInv'
  BY CapsStepArenas, ArenasStep DEF CapsInv
<1>2. Effect
  BY <1>1, StepEffect DEF CapsInv
<1> QED
  BY <1>1, <1>2, MovesStep, PlacedStep DEF CapsInv

LEMMA CapsInvInit == CapsInit => CapsInv
BY ArenasInit DEF CapsInit, CapsInv, Moves, PlacedAsAsked

(* Both arenas keep their invariants under every call that chooses between  *)
(* them, no realloc loses an end of its move, and every block lies where it *)
(* was asked to: the inductive invariant of the composition.                *)
THEOREM CapsSafety == CapsSpec => []CapsInv
BY CapsInvInit, CapsInvStep, PTL DEF CapsSpec

(* Every live block lies in memory that has the capabilities last asked of  *)
(* it: through fallbacks in both directions, refusals after one arena was   *)
(* searched, reallocs that ask for something else than before and moves to  *)
(* the other arena, for every layout and every set of capabilities.         *)
THEOREM BlocksPlacedAsAsked == CapsSpec => []PlacedAsAsked
<1>1. CapsInv => PlacedAsAsked
  BY DEF CapsInv
<1> QED
  BY <1>1, CapsSafety, PTL

(* Between its two critical sections a moving realloc holds two live blocks *)
(* of either arena; everybody else has left them as they are.               *)
THEOREM MoveHoldsBothEnds == CapsSpec => []Moves
<1>1. CapsInv => Moves
  BY DEF CapsInv
<1> QED
  BY <1>1, CapsSafety, PTL

-----------------------------------------------------------------------------
(* The refinement of MxrHeap. *)

Ends == UNION {{m.from, m.to} : m \in moving}

LEMMA EndsMembers == \A x : x \in Ends <=> \E m \in moving : x = m.from \/ x = m.to
BY DEF Ends

CapsHeapStep == [Heap!Next]_(Heap!heapVars)

(* A block that is new or resized is a free range of the heap without it. *)
LEMMA LiveBlockFree ==
  ASSUME ArenasInv', NEW x \in Live', NEW B \in SUBSET (Live' \ {x})
  PROVE  Heap!FreeRange(B, x)
<1>1. Piece(x) /\ \A c \in B : c.off + c.len <= x.off \/ x.off + x.len <= c.off
  <2>1. LiveApart'
    BY BlocksLowNext
  <2>2. Piece(x)
    BY <2>1 DEF LiveApart, Piece
  <2>3. \A c \in B : c \in Live' /\ c # x
    OBVIOUS
  <2> QED
    BY <2>1, <2>2, <2>3 DEF LiveApart
<1>2. x \in [off : 0 .. (RawEnd + IramInit), len : 0 .. (RawEnd + IramInit)]
  BY <1>1, TopType DEF Piece, Top, Extent
<1> QED
  BY <1>1, <1>2 DEF Heap!FreeRange, Heap!Apart, Piece

LEMMA AddedRefines ==
  ASSUME ArenasInv', NEW caps, NEW y, BlockAdded(caps, y), moving' = moving
  PROVE  CapsHeapStep
<1>1. y \notin Live /\ Live' = Live \cup {y} /\ y \in Live'
  BY DEF BlockAdded, Added
<1>2. Heap!FreeRange(Live, y)
  BY <1>1, LiveBlockFree
<1>3. Ends' = Ends \cup {} /\ {} \in SUBSET {y}
  BY DEF Ends
<1>4. Heap!Allocate(y, {})
  BY <1>1, <1>2, <1>3 DEF Heap!Allocate, Ends
<1>5. Heap!Next
  BY <1>1, <1>3, <1>4 DEF Heap!Next
<1> QED
  BY <1>5 DEF CapsHeapStep

LEMMA MoveBeginRefines ==
  ASSUME ArenasInv', NEW caps, NEW y, BlockAdded(caps, y), NEW x, MoveStarted(x, y)
  PROVE  CapsHeapStep
<1>1. y \notin Live /\ Live' = Live \cup {y} /\ y \in Live' /\ x \in Live
  BY DEF BlockAdded, Added, MoveStarted
<1>2. Heap!FreeRange(Live, y)
  BY <1>1, LiveBlockFree
<1>3. Ends = {} /\ Ends' = {x, y}
  BY DEF MoveStarted, Ends
<1>4. Heap!MoveBegin(x, y)
  BY <1>1, <1>2, <1>3 DEF Heap!MoveBegin, Ends
<1>5. Heap!Next
  BY <1>1, <1>4 DEF Heap!Next
<1> QED
  BY <1>5 DEF CapsHeapStep

LEMMA RemovedRefines ==
  ASSUME NEW x, BlockRemoved(x), Settled(x), moving' = moving
  PROVE  CapsHeapStep
<1>1. x \in Live /\ Live' = Live \ {x}
  BY DEF BlockRemoved, Removed
<1>2. Ends' = Ends /\ x \notin Ends
  BY EndsMembers DEF Ends, Settled
<1>3. Heap!Free(x)
  BY <1>1, <1>2 DEF Heap!Free, Ends
<1>4. Heap!Next
  BY <1>1, <1>3 DEF Heap!Next
<1> QED
  BY <1>4 DEF CapsHeapStep

LEMMA ReplacedRefines ==
  ASSUME ArenasInv, ArenasInv', NEW caps, NEW x, NEW y, BlockReplaced(caps, x, y),
         Settled(x), moving' = moving
  PROVE  CapsHeapStep
<1>1. x \in Live /\ y.off = x.off /\ Live' = (Live \ {x}) \cup {y} /\ y \in Live'
  BY DEF BlockReplaced, Replaced
<1>2. Ends' = Ends /\ x \notin Ends
  BY EndsMembers DEF Ends, Settled
<1>3. y \notin Live \ {x}
  BY <1>1, LiveOffsetIsKey
<1>4. Live \ {x} \in SUBSET (Live' \ {y})
  BY <1>1, <1>3
<1>5. Heap!FreeRange(Live \ {x}, y)
  BY <1>1, <1>4, LiveBlockFree
<1>6. Heap!Resize(x, y)
  BY <1>1, <1>2, <1>5 DEF Heap!Resize, Ends
<1>7. Heap!Next
  BY <1>1, <1>6 DEF Heap!Next
<1> QED
  BY <1>7 DEF CapsHeapStep

LEMMA MoveEndRefinesCaps ==
  ASSUME Moves, NEW m \in moving, BlockRemoved(m.from), moving' = {}
  PROVE  CapsHeapStep
<1>1. PICK u, v : u # v /\ moving = {[from |-> u, to |-> v]}
  BY DEF Moves, OneMove
<1>2. m.from = u /\ m.to = v
  BY <1>1
<1>3. Ends = {u, v} /\ Ends' = {}
  BY <1>1 DEF Ends
<1>4. Live' = Live \ {u}
  BY <1>2 DEF BlockRemoved, Removed
<1>5. Heap!MoveEnd(u, v)
  BY <1>1, <1>3, <1>4 DEF Heap!MoveEnd, Ends
<1>6. Heap!Next
  BY <1>3, <1>5 DEF Heap!Next, Ends
<1> QED
  BY <1>6 DEF CapsHeapStep

LEMMA CapsRefinesStep == CapsInv /\ CapsInv' /\ [CapsNext]_capsVars => [Heap!Next]_(Heap!heapVars)
<1> SUFFICES ASSUME CapsInv, CapsInv', [CapsNext]_capsVars PROVE CapsHeapStep
  BY DEF CapsHeapStep
<1>1. Effect
  BY StepEffect DEF CapsInv
<1>2. CASE NothingMoves
  BY <1>2 DEF NothingMoves, CapsHeapStep, Heap!heapVars
<1>3. CASE \E caps, y : BlockAdded(caps, y) /\ (moving' = moving \/ \E x : MoveStarted(x, y))
  BY <1>3, AddedRefines, MoveBeginRefines DEF CapsInv
<1>4. CASE \E x : BlockRemoved(x) /\ Settled(x) /\ moving' = moving
  BY <1>4, RemovedRefines
<1>5. CASE \E caps, x, y : BlockReplaced(caps, x, y) /\ Settled(x) /\ moving' = moving
  BY <1>5, ReplacedRefines DEF CapsInv
<1>6. CASE \E m \in moving : BlockRemoved(m.from) /\ moving' = {}
  BY <1>6, MoveEndRefinesCaps DEF CapsInv
<1> QED
  BY <1>1, <1>2, <1>3, <1>4, <1>5, <1>6 DEF Effect

LEMMA CapsHeapInit == CapsInit => Heap!Init
<1> SUFFICES ASSUME CapsInit PROVE Heap!Init
  OBVIOUS
<1>1. blocks = {} /\ Iram!Used = {} /\ moving = {}
  BY DEF CapsInit, Init, Iram!Init, Iram!Used
<1>2. Live = {}
  BY <1>1 DEF Live
<1> QED
  BY <1>1, <1>2 DEF Heap!Init

(* Both arenas behind one malloc, realloc and free implement the abstract   *)
(* heap: live blocks of either arena share no byte, keep their place, and   *)
(* the two ends of a move are left alone until it is done.                  *)
THEOREM CapsImplementsHeap == CapsSpec => HeapRefined
BY CapsHeapInit, CapsRefinesStep, CapsSafety, PTL DEF CapsSpec, HeapRefined, Heap!Spec

-----------------------------------------------------------------------------
(* The largest-block query.  Its guards and limits are those of placement,  *)
(* rounded to the alignment: what it reports can be had, and no more.       *)

LEMMA AtMostFacts ==
  ASSUME NEW n \in Nat, NEW max \in Nat
  PROVE  /\ AtMost(n, max) \in Nat /\ AtMost(n, max) <= n
         /\ max # Unlimited => AtMost(n, max) <= max
         /\ Aligned(n) => Aligned(AtMost(n, max))
         /\ \A m \in Nat : Aligned(m) /\ m <= n /\ (max = Unlimited \/ m <= max) => m <= AtMost(n, max)
<1> DEFINE down == max - (max % Align)
<1>1. /\ down \in Nat /\ down <= max /\ Aligned(down)
      /\ \A m \in Nat : Aligned(m) /\ m <= max => m <= down
  <2>1. 0 \in Nat /\ Aligned(0) /\ 0 <= max
    BY AlignedZero
  <2>2. down \in Nat /\ down <= max /\ Aligned(down)
    BY <2>1, AlignedBelow
  <2> QED
    BY <2>2, AlignedBelow
<1>2. AtMost(n, max) = IF max # Unlimited /\ n > max THEN down ELSE n
  BY DEF AtMost
<1> HIDE DEF down
<1> QED
  BY <1>1, <1>2

(* The largest multiple of the alignment, or 0, that a gap, a class and a   *)
(* limit allow.                                                             *)
LongestUnder(n, gap, min, max, limit) ==
  /\ n \in Nat /\ n <= gap /\ (Aligned(gap) => Aligned(n))
  /\ n > 0 => /\ min <= n
              /\ max = Unlimited \/ n <= max
              /\ limit = Unlimited \/ n <= limit
  /\ \A m \in Nat : /\ Aligned(m) /\ m <= gap /\ min <= m
                    /\ max = Unlimited \/ m <= max
                    /\ limit = Unlimited \/ m <= limit
                    => m <= n

LEMMA OwnLongestFacts ==
  ASSUME NEW gap \in Nat, NEW min \in Nat, NEW max \in Nat, NEW limit \in Nat
  PROVE  /\ LongestUnder(OwnLongest(gap, min, max, limit), gap, min, max, limit)
         /\ LongestUnder(CrossLongest(gap, min, max, limit), gap, min, max, limit)
<1> SUFFICES ASSUME NEW n, n = OwnLongest(gap, min, max, limit) \/ n = CrossLongest(gap, min, max, limit)
             PROVE  LongestUnder(n, gap, min, max, limit)
  OBVIOUS
<1> DEFINE a == AtMost(gap, max)
           b == AtMost(a, limit)
<1>1. n = FitFrom(b, min)
  BY DEF OwnLongest, CrossLongest
<1>2. /\ a \in Nat /\ a <= gap /\ (max # Unlimited => a <= max) /\ (Aligned(gap) => Aligned(a))
      /\ \A m \in Nat : Aligned(m) /\ m <= gap /\ (max = Unlimited \/ m <= max) => m <= a
  BY AtMostFacts
<1> HIDE DEF a
<1>3. /\ b \in Nat /\ b <= a /\ (limit # Unlimited => b <= limit) /\ (Aligned(a) => Aligned(b))
      /\ \A m \in Nat : Aligned(m) /\ m <= a /\ (limit = Unlimited \/ m <= limit) => m <= b
  BY <1>2, AtMostFacts
<1> HIDE DEF b
<1>4. CASE b < min
  <2>1. n = 0
    BY <1>1, <1>4 DEF FitFrom
  <2>2. ASSUME NEW m \in Nat, Aligned(m), m <= gap, min <= m,
               max = Unlimited \/ m <= max, limit = Unlimited \/ m <= limit
        PROVE  FALSE
    <3>1. m <= a
      BY <1>2, <2>2
    <3>2. m <= b
      BY <1>3, <2>2, <3>1
    <3> QED
      BY <1>3, <1>4, <2>2, <3>2
  <2>3. n \in Nat /\ n <= gap /\ Aligned(n) /\ ~(n > 0)
    BY <2>1, AlignedZero
  <2> QED
    BY <2>2, <2>3 DEF LongestUnder
<1>5. CASE ~(b < min)
  <2>1. n = b
    BY <1>1, <1>5 DEF FitFrom
  <2>2. n \in Nat /\ n <= gap /\ min <= n /\ (Aligned(gap) => Aligned(n))
    BY <1>2, <1>3, <1>5, <2>1
  <2>3. (max = Unlimited \/ n <= max) /\ (limit = Unlimited \/ n <= limit)
    BY <1>2, <1>3, <2>1
  <2>4. ASSUME NEW m \in Nat, Aligned(m), m <= gap, min <= m,
               max = Unlimited \/ m <= max, limit = Unlimited \/ m <= limit
        PROVE  m <= n
    BY <1>2, <1>3, <2>1, <2>4
  <2> QED
    BY <2>2, <2>3, <2>4 DEF LongestUnder
<1> QED
  BY <1>4, <1>5

LEMMA MinIntoFacts ==
  ASSUME NEW min \in Nat, NEW div \in Nat
  PROVE  /\ MinInto(min, div) \in Nat /\ Align <= MinInto(min, div)
         /\ div = 0 \/ min \div div <= MinInto(min, div)
         /\ \A m \in Nat : Align <= m /\ (div = 0 \/ min \div div <= m) => MinInto(min, div) <= m
<1>1. Align \in Nat
  BY SearchAssumption
<1>2. div # 0 => min \div div \in Nat
  OBVIOUS
<1> QED
  BY <1>1, <1>2 DEF MinInto

LEMMA BoundFacts ==
  ASSUME NEW max \in Nat, NEW num \in Nat, NEW den \in Nat \ {0}
  PROVE  /\ Bound(max, num, den) \in Nat
         /\ num = 0 \/ max = Unlimited => Bound(max, num, den) = Unlimited
         /\ ~(num = 0 \/ max = Unlimited) => Bound(max, num, den) = (max * num) \div den
<1>1. max * num \in Nat
  OBVIOUS
<1>2. \A k \in Nat : k \div den \in Nat
  OBVIOUS
<1>3. (max * num) \div den \in Nat
  BY <1>1, <1>2
<1> QED
  BY <1>3 DEF Bound, Unlimited

LEMMA LongestGapFacts ==
  ASSUME NEW B \in SUBSET Extent, NEW lo \in Nat, NEW hi \in Nat,
         Aligned(lo), Aligned(hi), \A b \in B : AlignedPiece(b)
  PROVE  /\ LargestGap(B, lo, hi) = {LongestGap(B, lo, hi)}
         /\ LongestGap(B, lo, hi) \in Nat /\ LongestGap(B, lo, hi) <= hi
         /\ Aligned(LongestGap(B, lo, hi))
         /\ \A n \in Nat \ {0} : (\E g \in Gaps(B, lo, hi) : n <= g.len) <=> n <= LongestGap(B, lo, hi)
<1>1. PICK n \in Nat : /\ LargestGap(B, lo, hi) = {n} /\ n <= hi
                       /\ n = 0 \/ \E g \in Gaps(B, lo, hi) : n = g.len
  BY LargestGapOf
<1>2. LongestGap(B, lo, hi) = n
  BY <1>1 DEF LongestGap
<1>3. Aligned(n)
  BY <1>1, AlignedZero, GapAligned DEF AlignedPiece
<1>4. \A g \in Gaps(B, lo, hi) : g.len <= n /\ g.len \in Nat
  <2>1. \A g \in Gaps(B, lo, hi) : g.len \in Nat
    BY GapSound DEF Extent
  <2> QED
    BY <1>1, <2>1, LargestGapBounds
<1>5. ASSUME NEW m \in Nat \ {0}
      PROVE  (\E g \in Gaps(B, lo, hi) : m <= g.len) <=> m <= n
  BY <1>1, <1>4
<1> QED
  BY <1>1, <1>2, <1>3, <1>5

(* A size that the query looks for: a multiple of the alignment, and so in  *)
(* some class.                                                              *)
LEMMA SizeFacts ==
  ASSUME NEW n \in Nat \ {0}, Aligned(n)
  PROVE  Align <= n /\ RegMin[0] <= n /\ (NFb > 0 => FbMin[0] <= n)
<1>1. Align \in Nat /\ Align > 0
  BY SearchAssumption
<1>2. PICK k \in Int : n = k * Align
  BY DEF Aligned
<1>3. k > 0
  <2>1. CASE k <= 0
    <3>1. k * Align <= 0
      BY <1>1, <1>2, <2>1
    <3> QED
      BY <1>2, <3>1
  <2> QED
    BY <1>2, <2>1
<1>4. Align <= k * Align
  BY <1>1, <1>2, <1>3
<1>5. RegMin[0] \in Nat /\ RegMin[0] <= Align
  BY LayoutAssumption DEF Region
<1>6. NFb > 0 => FbMin[0] \in Nat /\ FbMin[0] <= Align
  <2>1. NFb > 0 => 0 \in Iram!Fb
    BY IramAssumption DEF Iram!Fb
  <2> QED
    BY <2>1, IramAssumption
<1> QED
  BY <1>1, <1>2, <1>4, <1>5, <1>6

FitsRegion(r, n) == HasRoom(r, n) /\ (SizeOk(r, n) \/ (CrossEnabled /\ CrossGuards(r, n)))

LEMMA DramLongestFits ==
  ASSUME AlignedInv, NEW r \in Region
  PROVE  /\ \A n \in DramLongest(r) : /\ n \in Nat /\ n <= arenaEnd /\ Aligned(n)
                                      /\ n > 0 => FitsRegion(r, n)
         /\ \A m \in Nat \ {0} : Aligned(m) /\ FitsRegion(r, m) => \E n \in DramLongest(r) : m <= n
<1> DEFINE gap == LongestGap(blocks, RegStart[r], RegEnd(r))
           bound == Bound(RegMax[r], GuardNum, GuardDen)
           min == MinInto(RegMin[r], MinDiv)
           own == OwnLongest(gap, RegMin[r], RegMax[r], 0)
           cross == CrossLongest(gap, min, bound, 0)
           crosses == CrossEnabled /\ (GuardNum > 0 => bound > 0 \/ RegMax[r] = Unlimited)
<1>1. /\ TypeOK /\ ArenaTiled /\ blocks \in SUBSET Extent
      /\ RegStart[r] \in Nat /\ RegEnd(r) \in Nat /\ RegMin[r] \in Nat /\ RegMax[r] \in Nat
      /\ arenaEnd \in Nat /\ RegEnd(r) <= arenaEnd
      /\ Aligned(RegStart[r]) /\ Aligned(RegEnd(r)) /\ \A b \in blocks : AlignedPiece(b)
  BY RegionFacts, RegionInArena, BordersAligned DEF AlignedInv, Inv, TypeOK, BlocksAligned
<1>2. /\ gap \in Nat /\ gap <= RegEnd(r) /\ Aligned(gap)
      /\ \A n \in Nat \ {0} : HasRoom(r, n) <=> n <= gap
  BY <1>1, LongestGapFacts DEF HasRoom
<1>3. /\ GuardNum \in Nat /\ GuardDen \in Nat \ {0} /\ MinDiv \in Nat /\ Unlimited = 0
  BY OptionAssumption DEF Unlimited
<1>4. /\ bound \in Nat
      /\ GuardNum = 0 \/ RegMax[r] = Unlimited => bound = Unlimited
      /\ ~(GuardNum = 0 \/ RegMax[r] = Unlimited) => bound = (RegMax[r] * GuardNum) \div GuardDen
  BY <1>1, <1>3, BoundFacts
<1>5. /\ min \in Nat /\ Align <= min /\ (MinDiv = 0 \/ RegMin[r] \div MinDiv <= min)
      /\ \A m \in Nat : Align <= m /\ (MinDiv = 0 \/ RegMin[r] \div MinDiv <= m) => min <= m
  BY <1>1, <1>3, MinIntoFacts
<1>6. DramLongest(r) = {own} \cup IF crosses THEN {cross} ELSE {}
  BY DEF DramLongest
<1> HIDE DEF gap, bound, min
<1>7. /\ own \in Nat /\ own <= gap /\ Aligned(own)
      /\ own > 0 => RegMin[r] <= own /\ (RegMax[r] = Unlimited \/ own <= RegMax[r])
      /\ \A m \in Nat : /\ Aligned(m) /\ m <= gap /\ RegMin[r] <= m
                        /\ RegMax[r] = Unlimited \/ m <= RegMax[r]
                        => m <= own
  <2>1. LongestUnder(own, gap, RegMin[r], RegMax[r], 0)
    BY <1>1, <1>2, OwnLongestFacts
  <2> HIDE DEF own
  <2> QED
    BY <1>2, <1>3, <2>1 DEF LongestUnder
<1>8. /\ cross \in Nat /\ cross <= gap /\ Aligned(cross)
      /\ cross > 0 => min <= cross /\ (bound = Unlimited \/ cross <= bound)
      /\ \A m \in Nat : /\ Aligned(m) /\ m <= gap /\ min <= m
                        /\ bound = Unlimited \/ m <= bound
                        => m <= cross
  <2>1. LongestUnder(cross, gap, min, bound, 0)
    BY <1>2, <1>4, <1>5, OwnLongestFacts
  <2> HIDE DEF cross
  <2> QED
    BY <1>2, <1>3, <2>1 DEF LongestUnder
<1> HIDE DEF own, cross
<1>9. MinDiv # 0 => RegMin[r] \div MinDiv \in Nat
  BY <1>1, <1>3
<1>10. own > 0 => FitsRegion(r, own)
  BY <1>1, <1>2, <1>7 DEF FitsRegion, SizeOk
<1>11. crosses /\ cross > 0 => FitsRegion(r, cross)
  <2>1. SUFFICES ASSUME crosses, cross > 0 PROVE FitsRegion(r, cross)
    OBVIOUS
  <2>2. HasRoom(r, cross)
    BY <1>2, <1>8, <2>1
  <2>3. GuardNum = 0 \/ RegMax[r] = Unlimited \/ cross <= (RegMax[r] * GuardNum) \div GuardDen
    BY <1>3, <1>4, <1>8, <2>1
  <2>4. MinDiv = 0 \/ cross >= RegMin[r] \div MinDiv
    BY <1>5, <1>8, <1>9, <2>1
  <2> QED
    BY <2>1, <2>2, <2>3, <2>4 DEF FitsRegion, CrossGuards
<1>12. ASSUME NEW m \in Nat \ {0}, Aligned(m), FitsRegion(r, m)
       PROVE  m <= own \/ (crosses /\ m <= cross)
  <2>1. m <= gap
    BY <1>2, <1>12 DEF FitsRegion
  <2>2. CASE SizeOk(r, m)
    BY <1>1, <1>7, <1>12, <2>1, <2>2 DEF SizeOk
  <2>3. CASE CrossEnabled /\ CrossGuards(r, m)
    <3>1. bound = Unlimited \/ m <= bound
      BY <1>4, <2>3 DEF CrossGuards
    <3>2. min <= m
      BY <1>1, <1>5, <1>9, <1>12, <2>3, SizeFacts DEF CrossGuards
    <3>3. crosses
      BY <1>3, <1>4, <2>3 DEF CrossGuards
    <3> QED
      BY <1>8, <1>12, <2>1, <3>1, <3>2, <3>3
  <2> QED
    BY <1>12, <2>2, <2>3 DEF FitsRegion
<1> HIDE DEF crosses
<1> QED
  BY <1>1, <1>2, <1>6, <1>7, <1>8, <1>10, <1>11, <1>12

(* Both arenas speak of the same gaps and the same alignment. *)
LEMMA SameNotions ==
  /\ Iram!Extent = Extent /\ Iram!Unlimited = Unlimited
  /\ \A n : Iram!Aligned(n) <=> Aligned(n)
  /\ \A x : Iram!AlignedPiece(x) <=> AlignedPiece(x)
  /\ \A B, lo, hi : Iram!Gaps(B, lo, hi) = Gaps(B, lo, hi)
BY DEF Iram!Extent, Extent, Iram!Unlimited, Unlimited, Iram!Aligned, Aligned,
       Iram!AlignedPiece, AlignedPiece, Iram!Gaps, Gaps, Iram!EndOf, EndOf,
       Iram!IsFree, IsFree, Iram!Disjoint, Disjoint

FitsFb(r, n) ==
  /\ FbMaxBytes = 0 \/ n <= FbMaxBytes
  /\ Iram!FbHasRoom(r, n)
  /\ Iram!FbSizeOk(r, n) \/ (ICrossEnabled /\ Iram!FbGuards(r, n))

LEMMA IramBlocksAligned ==
  ASSUME Iram!IAlignedInv
  PROVE  /\ Iram!IInv /\ Iram!TypeOK /\ Iram!Used \in SUBSET Extent
         /\ iramEnd \in Nat /\ Reserve \in Nat /\ Reserve <= iramEnd /\ Aligned(Reserve)
         /\ \A b \in Iram!Used : AlignedPiece(b)
<1>1. Iram!IInv /\ Iram!TypeOK /\ Iram!IAlignedLayout /\ Iram!UsedAligned /\ Iram!IramTiled
  BY DEF Iram!IAlignedInv, Iram!IInv
<1>2. Iram!Used \in SUBSET Extent
  BY <1>1, IramAssumed, Iram!UsedFacts, SameNotions
<1>3. iramEnd \in Nat /\ Reserve \in Nat /\ Reserve <= iramEnd
  BY <1>1, IramAssumption DEF Iram!TypeOK, Iram!IramTiled
<1> QED
  BY <1>1, <1>2, <1>3, SameNotions DEF Iram!IAlignedLayout, Iram!UsedAligned

LEMMA FbLongestFits ==
  ASSUME Iram!IAlignedInv, NEW r \in Iram!Fb
  PROVE  /\ \A n \in FbLongest(r) : /\ n \in Nat /\ n <= iramEnd /\ Aligned(n)
                                    /\ n > 0 => FitsFb(r, n)
         /\ \A m \in Nat \ {0} : Aligned(m) /\ FitsFb(r, m) => \E n \in FbLongest(r) : m <= n
<1> DEFINE gap == LongestGap(Iram!Used, FbStart[r], Iram!FbEnd(r))
           bound == Bound(FbMax[r], IGuardNum, IGuardDen)
           min == MinInto(FbMin[r], IMinDiv)
           own == OwnLongest(gap, FbMin[r], FbMax[r], FbMaxBytes)
           cross == CrossLongest(gap, min, bound, FbMaxBytes)
           crosses == ICrossEnabled /\ (IGuardNum > 0 => bound > 0 \/ FbMax[r] = Unlimited)
<1>1. /\ Iram!Used \in SUBSET Extent /\ \A b \in Iram!Used : AlignedPiece(b)
      /\ FbStart[r] \in Nat /\ Iram!FbEnd(r) \in Nat /\ FbMin[r] \in Nat /\ FbMax[r] \in Nat
      /\ iramEnd \in Nat /\ Iram!FbEnd(r) <= iramEnd
      /\ Aligned(FbStart[r]) /\ Aligned(Iram!FbEnd(r))
  <2>1. Iram!TypeOK /\ Iram!IramTiled
    BY DEF Iram!IAlignedInv, Iram!IInv
  <2>2. FbStart[r] \in Nat /\ Iram!FbEnd(r) \in Nat /\ FbMin[r] \in Nat /\ FbMax[r] \in Nat
    BY <2>1, IramAssumed, Iram!FbFacts
  <2>3. iramEnd \in Nat /\ Iram!FbEnd(r) <= iramEnd
    BY <2>1, IramAssumed, Iram!FbInArena
  <2>4. Aligned(FbStart[r]) /\ Aligned(Iram!FbEnd(r))
    BY IramAssumed, Iram!FbBordersAligned, SameNotions
  <2> QED
    BY <2>2, <2>3, <2>4, IramBlocksAligned
<1>2. /\ gap \in Nat /\ gap <= Iram!FbEnd(r) /\ Aligned(gap)
      /\ \A n \in Nat \ {0} : Iram!FbHasRoom(r, n) <=> n <= gap
  BY <1>1, LongestGapFacts, SameNotions DEF Iram!FbHasRoom
<1>3. /\ IGuardNum \in Nat /\ IGuardDen \in Nat \ {0} /\ IMinDiv \in Nat /\ Unlimited = 0
      /\ Iram!Unlimited = 0 /\ FbMaxBytes \in Nat
  BY IramAssumption, SameNotions DEF Unlimited
<1>4. /\ bound \in Nat
      /\ IGuardNum = 0 \/ FbMax[r] = Unlimited => bound = Unlimited
      /\ ~(IGuardNum = 0 \/ FbMax[r] = Unlimited) => bound = (FbMax[r] * IGuardNum) \div IGuardDen
  BY <1>1, <1>3, BoundFacts
<1>5. /\ min \in Nat /\ Align <= min /\ (IMinDiv = 0 \/ FbMin[r] \div IMinDiv <= min)
      /\ \A m \in Nat : Align <= m /\ (IMinDiv = 0 \/ FbMin[r] \div IMinDiv <= m) => min <= m
  BY <1>1, <1>3, MinIntoFacts
<1>6. FbLongest(r) = {own} \cup IF crosses THEN {cross} ELSE {}
  BY DEF FbLongest
<1> HIDE DEF gap, bound, min
<1>7. LongestUnder(own, gap, FbMin[r], FbMax[r], FbMaxBytes)
  BY <1>1, <1>2, <1>3, OwnLongestFacts
<1>8. LongestUnder(cross, gap, min, bound, FbMaxBytes)
  BY <1>2, <1>3, <1>4, <1>5, OwnLongestFacts
<1> HIDE DEF own, cross
<1>9. IMinDiv # 0 => FbMin[r] \div IMinDiv \in Nat
  BY <1>1, <1>3
<1>10. own > 0 => FitsFb(r, own)
  BY <1>1, <1>2, <1>3, <1>7 DEF FitsFb, Iram!FbSizeOk, LongestUnder
<1>11. crosses /\ cross > 0 => FitsFb(r, cross)
  <2>1. SUFFICES ASSUME crosses, cross > 0 PROVE FitsFb(r, cross)
    OBVIOUS
  <2>2. /\ cross \in Nat \ {0} /\ cross <= gap /\ min <= cross
        /\ bound = Unlimited \/ cross <= bound
        /\ FbMaxBytes = 0 \/ cross <= FbMaxBytes
    BY <1>3, <1>8, <2>1 DEF LongestUnder
  <2>3. Iram!FbHasRoom(r, cross)
    BY <1>2, <2>2
  <2>4. IGuardNum = 0 \/ FbMax[r] = Iram!Unlimited \/ cross <= (FbMax[r] * IGuardNum) \div IGuardDen
    BY <1>3, <1>4, <2>1, <2>2
  <2>5. IMinDiv = 0 \/ cross >= FbMin[r] \div IMinDiv
    BY <1>5, <1>9, <2>2
  <2> QED
    BY <2>1, <2>2, <2>3, <2>4, <2>5 DEF FitsFb, Iram!FbGuards
<1>12. ASSUME NEW m \in Nat \ {0}, Aligned(m), FitsFb(r, m)
       PROVE  m <= own \/ (crosses /\ m <= cross)
  <2>1. m <= gap /\ (FbMaxBytes = 0 \/ m <= FbMaxBytes)
    BY <1>2, <1>12 DEF FitsFb
  <2>2. CASE Iram!FbSizeOk(r, m)
    <3>1. FbMin[r] <= m /\ (FbMax[r] = Unlimited \/ m <= FbMax[r])
      BY <1>1, <1>3, <2>2 DEF Iram!FbSizeOk
    <3> QED
      BY <1>3, <1>7, <1>12, <2>1, <3>1 DEF LongestUnder
  <2>3. CASE ICrossEnabled /\ Iram!FbGuards(r, m)
    <3>1. bound = Unlimited \/ m <= bound
      BY <1>3, <1>4, <2>3 DEF Iram!FbGuards
    <3>2. min <= m
      BY <1>1, <1>5, <1>9, <1>12, <2>3, SizeFacts DEF Iram!FbGuards
    <3>3. crosses
      BY <1>3, <1>4, <2>3 DEF Iram!FbGuards
    <3> QED
      BY <1>3, <1>8, <1>12, <2>1, <3>1, <3>2, <3>3 DEF LongestUnder
  <2> QED
    BY <1>12, <2>2, <2>3 DEF FitsFb
<1> HIDE DEF crosses
<1>13. /\ own \in Nat /\ own <= gap /\ Aligned(own)
       /\ cross \in Nat /\ cross <= gap /\ Aligned(cross)
  BY <1>2, <1>7, <1>8 DEF LongestUnder
<1> QED
  BY <1>1, <1>2, <1>6, <1>10, <1>11, <1>12, <1>13

(* Where there is room for a request of n bytes with these capabilities. *)
FitsAsked(caps, n) ==
  \/ ExecServes(caps) /\ ~Iram!ITableFull /\ Iram!ExecFits(n)
  \/ FbServes(caps) /\ ~Iram!ITableFull /\ \E r \in Iram!Fb : FitsFb(r, n)
  \/ DramServes(caps) /\ ~TableFull /\ \E r \in Region : FitsRegion(r, n)

(* The query is written for tables that do not grow: a dynamic table must   *)
(* have a slot left.                                                        *)
SlotsLeft == (Dynamic => ~TableFull) /\ (IDynamic => ~Iram!ITableFull)

QueryInv ==
  /\ AlignedInv /\ FreeInv /\ CacheExact
  /\ Iram!IAlignedInv /\ Iram!RoomInv

LEMMA ServedIsFits ==
  ASSUME QueryInv, SlotsLeft, NEW caps, NEW n \in Nat \ {0}, Aligned(n)
  PROVE  Served(caps, n) <=> FitsAsked(caps, n)
<1>1. RegMin[0] <= n /\ (NFb > 0 => FbMin[0] <= n)
  BY SizeFacts
<1>2. ASSUME TableFull, NEW x PROVE ~Lands(x)
  BY <1>2 DEF SlotsLeft, Lands, TableTakes, CanGrowFor
<1>3. ASSUME Iram!ITableFull, NEW x PROVE ~Iram!ILands(x)
  BY <1>3 DEF SlotsLeft, Iram!ILands, Iram!ICanGrowFor
<1>4. Served(caps, n) <=> \/ ExecServes(caps) /\ Iram!ServedExec(n)
                          \/ FbServes(caps) /\ Iram!ServedFb(n)
                          \/ DramServes(caps) /\ ServedDram(n)
  BY DEF Served, Iram!ServedExec, Iram!ServedFb, ServedDram
<1>5. ServedDram(n) <=> ~TableFull /\ \E r \in Region : FitsRegion(r, n)
  <2>1. CASE TableFull
    BY <1>2, <2>1 DEF ServedDram, OwnFails, CrossFails
  <2>2. CASE ~TableFull
    <3>1. ServedDram(n) <=> Fits(n)
      BY <1>1, <2>2, ServedIffFits DEF QueryInv
    <3> QED
      BY <2>2, <3>1 DEF Fits, FitsRegion
  <2> QED
    BY <2>1, <2>2
<1>6. Iram!ServedFb(n) <=> ~Iram!ITableFull /\ \E r \in Iram!Fb : FitsFb(r, n)
  <2>1. CASE Iram!ITableFull
    BY <1>3, <2>1 DEF Iram!ServedFb, Iram!FbFails, Iram!FbOwnFails
  <2>2. CASE ~Iram!ITableFull
    <3>1. Iram!ServedFb(n) <=> Iram!FbFits(n)
      BY <1>1, <2>2, IramAssumed, Iram!FbServedIffFits DEF QueryInv
    <3> QED
      BY <2>2, <3>1 DEF Iram!FbFits, FitsFb
  <2> QED
    BY <2>1, <2>2
<1>7. Iram!ServedExec(n) <=> ~Iram!ITableFull /\ Iram!ExecFits(n)
  <2>1. CASE Iram!ITableFull
    BY <1>3, <2>1 DEF Iram!ServedExec
  <2>2. CASE ~Iram!ITableFull
    BY <2>2, IramAssumed, Iram!ExecServedIffFits DEF QueryInv
  <2> QED
    BY <2>1, <2>2
<1> QED
  BY <1>4, <1>5, <1>6, <1>7 DEF FitsAsked

(* Every candidate of the query fits, and nothing longer than all of them. *)
LEMMA CandidateFacts ==
  ASSUME QueryInv, NEW caps
  PROVE  /\ \A n \in Candidates(caps) : /\ n \in Nat /\ n <= arenaEnd + iramEnd /\ Aligned(n)
                                        /\ n > 0 => FitsAsked(caps, n)
         /\ \A m \in Nat \ {0} : Aligned(m) /\ FitsAsked(caps, m) =>
              \E n \in Candidates(caps) : m <= n
<1>1. arenaEnd \in Nat /\ iramEnd \in Nat
  BY IramBlocksAligned DEF QueryInv, AlignedInv, Inv, TypeOK
<1>2. ~(ExecServes(caps) /\ FbServes(caps))
  BY DEF ExecServes, WantsExec, FbServes
<1> DEFINE D == IF DramServes(caps) /\ ~TableFull THEN UNION {DramLongest(r) : r \in Region} ELSE {}
           E == IF ~Iram!ITableFull /\ ExecServes(caps) THEN LargestGap(Iram!Used, 0, Reserve) ELSE {}
           F == IF ~Iram!ITableFull /\ FbServes(caps) THEN UNION {FbLongest(r) : r \in Iram!Fb} ELSE {}
<1>3. Candidates(caps) = D \cup E \cup F
  BY <1>2 DEF Candidates
<1>4. /\ \A n \in D : /\ n \in Nat /\ n <= arenaEnd /\ Aligned(n)
                      /\ n > 0 => DramServes(caps) /\ ~TableFull /\ \E r \in Region : FitsRegion(r, n)
      /\ \A m \in Nat \ {0} :
           Aligned(m) /\ DramServes(caps) /\ ~TableFull /\ (\E r \in Region : FitsRegion(r, m))
           => \E n \in D : m <= n
  <2>1. AlignedInv
    BY DEF QueryInv
  <2>2. ASSUME NEW n \in D
        PROVE  /\ n \in Nat /\ n <= arenaEnd /\ Aligned(n)
               /\ n > 0 => DramServes(caps) /\ ~TableFull /\ \E r \in Region : FitsRegion(r, n)
    <3>1. PICK r \in Region : DramServes(caps) /\ ~TableFull /\ n \in DramLongest(r)
      OBVIOUS
    <3> QED
      BY <2>1, <3>1, DramLongestFits
  <2>3. ASSUME NEW m \in Nat \ {0}, Aligned(m), DramServes(caps), ~TableFull,
               NEW r \in Region, FitsRegion(r, m)
        PROVE  \E n \in D : m <= n
    <3>1. PICK n \in DramLongest(r) : m <= n
      BY <2>1, <2>3, DramLongestFits
    <3>2. n \in D
      BY <2>3, <3>1
    <3> QED
      BY <3>1, <3>2
  <2> HIDE DEF D
  <2> QED
    BY <2>2, <2>3
<1>5. /\ \A n \in F : /\ n \in Nat /\ n <= iramEnd /\ Aligned(n)
                      /\ n > 0 => FbServes(caps) /\ ~Iram!ITableFull /\ \E r \in Iram!Fb : FitsFb(r, n)
      /\ \A m \in Nat \ {0} :
           Aligned(m) /\ FbServes(caps) /\ ~Iram!ITableFull /\ (\E r \in Iram!Fb : FitsFb(r, m))
           => \E n \in F : m <= n
  <2>1. Iram!IAlignedInv
    BY DEF QueryInv
  <2>2. ASSUME NEW n \in F
        PROVE  /\ n \in Nat /\ n <= iramEnd /\ Aligned(n)
               /\ n > 0 => FbServes(caps) /\ ~Iram!ITableFull /\ \E r \in Iram!Fb : FitsFb(r, n)
    <3>1. PICK r \in Iram!Fb : FbServes(caps) /\ ~Iram!ITableFull /\ n \in FbLongest(r)
      OBVIOUS
    <3> QED
      BY <2>1, <3>1, FbLongestFits
  <2>3. ASSUME NEW m \in Nat \ {0}, Aligned(m), FbServes(caps), ~Iram!ITableFull,
               NEW r \in Iram!Fb, FitsFb(r, m)
        PROVE  \E n \in F : m <= n
    <3>1. PICK n \in FbLongest(r) : m <= n
      BY <2>1, <2>3, FbLongestFits
    <3>2. n \in F
      BY <2>3, <3>1
    <3> QED
      BY <3>1, <3>2
  <2> HIDE DEF F
  <2> QED
    BY <2>2, <2>3
<1>6. /\ \A n \in E : /\ n \in Nat /\ n <= iramEnd /\ Aligned(n)
                      /\ n > 0 => ExecServes(caps) /\ ~Iram!ITableFull /\ Iram!ExecFits(n)
      /\ \A m \in Nat \ {0} :
           ExecServes(caps) /\ ~Iram!ITableFull /\ Iram!ExecFits(m) => \E n \in E : m <= n
  <2>1. /\ Iram!Used \in SUBSET Extent /\ 0 \in Nat /\ Aligned(0) /\ Reserve \in Nat
        /\ Aligned(Reserve) /\ Reserve <= iramEnd /\ \A b \in Iram!Used : AlignedPiece(b)
    BY IramBlocksAligned, AlignedZero DEF QueryInv
  <2> DEFINE gap == LongestGap(Iram!Used, 0, Reserve)
  <2>2. /\ LargestGap(Iram!Used, 0, Reserve) = {gap}
        /\ gap \in Nat /\ gap <= Reserve /\ Aligned(gap)
        /\ \A n \in Nat \ {0} : Iram!ExecFits(n) <=> n <= gap
    BY <2>1, LongestGapFacts, SameNotions DEF Iram!ExecFits
  <2> HIDE DEF gap
  <2> QED
    BY <1>1, <2>1, <2>2
<1> HIDE DEF D, E, F
<1>7. ASSUME NEW n \in Candidates(caps)
      PROVE  /\ n \in Nat /\ n <= arenaEnd + iramEnd /\ Aligned(n)
             /\ n > 0 => FitsAsked(caps, n)
  BY <1>1, <1>3, <1>4, <1>5, <1>6 DEF FitsAsked
<1>8. ASSUME NEW m \in Nat \ {0}, Aligned(m), FitsAsked(caps, m)
      PROVE  \E n \in Candidates(caps) : m <= n
  BY <1>3, <1>4, <1>5, <1>6, <1>8 DEF FitsAsked
<1> QED
  BY <1>7, <1>8

LEMMA LargestIsServed == QueryInv /\ SlotsLeft => LargestServed
<1> SUFFICES ASSUME QueryInv, SlotsLeft, NEW caps \in Wanted
             PROVE  LET n == LargestBlock(caps) IN
                    (n > 0 => Served(caps, n)) /\ ~Served(caps, n + Align)
  BY DEF LargestServed
<1> DEFINE n == LargestBlock(caps)
<1>1. /\ Candidates(caps) \cup {0} \in SUBSET Nat
      /\ \A m \in Candidates(caps) \cup {0} : m <= arenaEnd + iramEnd
      /\ arenaEnd + iramEnd \in Nat
  <2>1. arenaEnd \in Nat /\ iramEnd \in Nat
    BY IramBlocksAligned DEF QueryInv, AlignedInv, Inv, TypeOK
  <2> QED
    BY <2>1, CandidateFacts
<1>2. \E k \in Candidates(caps) \cup {0} : \A m \in Candidates(caps) \cup {0} : m <= k
  BY <1>1, NatMax
<1>3. n \in Candidates(caps) \cup {0} /\ \A m \in Candidates(caps) : m <= n
  BY <1>2 DEF LargestBlock
<1> HIDE DEF n
<1>4. n \in Nat /\ Aligned(n)
  BY <1>3, CandidateFacts, AlignedZero
<1>5. ASSUME n > 0 PROVE Served(caps, n)
  <2>1. FitsAsked(caps, n)
    BY <1>3, <1>4, <1>5, CandidateFacts
  <2> QED
    BY <1>4, <1>5, <2>1, ServedIsFits
<1>6. ~Served(caps, n + Align)
  <2>1. Align \in Nat /\ Align > 0 /\ Aligned(Align)
    <3>1. Align \in Nat /\ Align > 0
      BY SearchAssumption
    <3>2. Align = 1 * Align /\ 1 \in Int
      BY <3>1
    <3>3. Aligned(Align)
      BY <3>2, Zenon DEF Aligned
    <3> QED
      BY <3>1, <3>3
  <2>2. n + Align \in Nat \ {0} /\ Aligned(n + Align) /\ n < n + Align
    BY <1>4, <2>1, AlignedSum
  <2>3. SUFFICES ASSUME Served(caps, n + Align) PROVE FALSE
    OBVIOUS
  <2>4. FitsAsked(caps, n + Align)
    BY <2>2, <2>3, ServedIsFits
  <2>5. PICK m \in Candidates(caps) : n + Align <= m
    BY <2>2, <2>4, CandidateFacts
  <2>6. m <= n /\ m \in Nat
    BY <1>1, <1>3
  <2> QED
    BY <1>4, <2>1, <2>5, <2>6
<1> QED
  BY <1>5, <1>6 DEF n

LEMMA QueryInvStart == CapsInit /\ AlignedLayout /\ Iram!IAlignedLayout => QueryInv /\ Iram!IChunks
<1> SUFFICES ASSUME CapsInit, AlignedLayout, Iram!IAlignedLayout
             PROVE  QueryInv /\ Iram!IChunks
  OBVIOUS
<1>1. Init /\ Iram!Init
  BY DEF CapsInit
<1>2. AlignedInv /\ FreeInv /\ CacheExact
  BY <1>1, AlignedStart, FreeInit, CacheInit DEF CacheInv
<1>3. Iram!IAlignedInv /\ Iram!RoomInv /\ Iram!IChunks
  BY <1>1, IramAssumed, Iram!IAlignedStart, Iram!RoomStart
<1> QED
  BY <1>2, <1>3 DEF QueryInv

LEMMA QueryInvStep == QueryInv /\ Iram!IChunks /\ [CapsNext]_capsVars => (QueryInv /\ Iram!IChunks)'
<1> SUFFICES ASSUME QueryInv, Iram!IChunks, [CapsNext]_capsVars
             PROVE  QueryInv' /\ (Iram!IChunks)'
  OBVIOUS
<1>1. [Next]_arenaVars
  BY CapsStepArenas DEF DramStep
<1>2. [Iram!Next]_(Iram!iramVars)
  BY CapsStepArenas DEF IramStep, iramVars, Iram!iramVars
<1>3. AlignedInv' /\ FreeInv' /\ CacheExact'
  BY <1>1, AlignedStep, FreeStep, CacheStep DEF QueryInv, CacheInv, FreeInv
<1>4. (Iram!IAlignedInv)'
  BY <1>2, IramAssumed, Iram!IAlignedStep DEF QueryInv
<1>5. (Iram!RoomInv)' /\ (Iram!IChunks)'
  BY <1>2, IramAssumed, Iram!RoomStays DEF QueryInv
<1> QED
  BY <1>3, <1>4, <1>5 DEF QueryInv

(* With aligned borders and requests, and a slot left in every table that   *)
(* grows, the largest block that the query reports can always be had with   *)
(* the capabilities asked about, and no larger one can: caches, rounding,   *)
(* class bounds, crossing guards and limits of the query are exactly those  *)
(* of the placement.                                                        *)
THEOREM LargestBlockServed ==
  AlignedLayout /\ Iram!IAlignedLayout /\ CapsSpec => [](SlotsLeft => LargestServed)
<1>1. QueryInv => (SlotsLeft => LargestServed)
  BY LargestIsServed
<1> QED
  BY <1>1, QueryInvStart, QueryInvStep, PTL DEF CapsSpec

=============================================================================
