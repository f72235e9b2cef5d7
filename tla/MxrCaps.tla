-------------------------------- MODULE MxrCaps -------------------------------
(***************************************************************************)
(* The whole heap: the DRAM arena and the IRAM arena behind one malloc,    *)
(* realloc and free.  The capabilities of a request decide which memory is *)
(* tried, in which order, and whether a block may be resized where it is;  *)
(* size queries and status reports look at both arenas and fill in their   *)
(* caches on the way.                                                      *)
(*                                                                         *)
(* Each action is one critical section.  A moving realloc has two, and its *)
(* source and target may lie in different arenas.  Overruns are left to    *)
(* the modules of the arenas, concurrent callers to MxrApi: here one move  *)
(* at a time is under way while others allocate and free.                  *)
(***************************************************************************)
EXTENDS MxrDram

CONSTANTS
  Reserve, NFb, FbStart, FbMin, FbMax, IramInit, IDynamic, IDescInit, IMaxDesc,
  FbMaxBytes, ICrossEnabled, IGuardNum, IGuardDen, IMinDiv,   \* as in MxrIram
  IramFirst,      \* CONFIG_MXR_IRAM_FB_ORDER_IRAM_FIRST; else DRAM first
  Wanted          \* capability sets that callers pass: sets of flags

VARIABLES execs, fbs, ibroken, iramEnd, icap, zoneTotal, fbTotal, fbFree, fbCache,
          execFree, iramFree, zoneFree                        \* as in MxrIram

VARIABLES
  moving,    \* the realloc between its two critical sections: {[from, to]} or {}
  asked      \* history: [off, caps] of every live block, as last asked for

Iram == INSTANCE MxrIramProofs     \* MxrIram, with the theorems about it

(* The assumptions of MxrIram, of the constants it is given here. *)
ASSUME IramAssumption ==
  /\ Reserve \in Nat /\ NFb \in Nat /\ IramInit \in Nat
  /\ IF NFb = 0 THEN Reserve = IramInit ELSE Reserve < IramInit
  /\ FbStart \in [Iram!Fb -> Nat] /\ FbMin \in [Iram!Fb -> Nat] /\ FbMax \in [Iram!Fb -> Nat]
  /\ NFb > 0 => FbStart[0] = Reserve /\ FbMin[0] <= Align
  /\ \A r, q \in Iram!Fb : r < q => FbStart[r] <= FbStart[q]
  /\ \A r \in Iram!Fb : FbStart[r] <= IramInit
  /\ \A r \in Iram!Fb : FbMax[r] = Unlimited <=> r = Iram!FbLast
  /\ \A r \in Iram!Fb \ {Iram!FbLast} : FbMin[r] <= FbMax[r] /\ FbMin[r + 1] = FbMax[r] + 1
  /\ IDynamic \in BOOLEAN /\ ICrossEnabled \in BOOLEAN
  /\ IDescInit \in Nat \ {0} /\ IMaxDesc \in Nat \ {0} /\ IDescInit <= IMaxDesc
  /\ FbMaxBytes \in Nat /\ IMinDiv \in Nat
  /\ IGuardNum \in Nat /\ IGuardDen \in Nat \ {0} /\ IGuardNum <= IGuardDen

iramVars == <<execs, fbs, ibroken, iramEnd, icap, zoneTotal, fbTotal, fbFree, fbCache,
              execFree, iramFree, zoneFree>>
capsVars == <<arenaVars, iramVars, moving, asked>>

(* One address space: IRAM lies behind DRAM. *)
Mapped(x) == [off |-> RawEnd + x.off, len |-> x.len]
Live == blocks \cup {Mapped(b) : b \in Iram!Used}
Settled(x) == \A m \in moving : x # m.from /\ x # m.to

-----------------------------------------------------------------------------
(* Capabilities. *)

DramCaps == {"8BIT", "32BIT", "DMA", "INTERNAL"}
ExecCaps == {"EXEC", "32BIT", "INTERNAL"}

\* A placement hint: region matching never sees it.
Strip(caps) == caps \ {"PREFER_IRAM"}

WantsExec(caps) == "EXEC" \in caps
ExecServes(caps) == WantsExec(caps) /\ Strip(caps) \subseteq ExecCaps
DramServes(caps) == Strip(caps) \subseteq DramCaps

FbServes(caps) ==
  /\ caps \cap {"EXEC", "DMA", "8BIT", "SPIRAM"} = {}
  /\ caps \cap {"32BIT", "INTERNAL"} # {} \/ Strip(caps) = {}

FbFirst(caps) == IramFirst \/ "PREFER_IRAM" \in caps

-----------------------------------------------------------------------------
(* mxr_malloc_caps_locked. *)

DramMisses(caps, bytes) ==
  IF DramServes(caps) THEN \E own \in Region : Refuse(own, bytes) ELSE UNCHANGED arenaVars

(* A failed attempt is repeated after DRAM when IRAM was only preferred; it *)
(* has the same outcome and learns nothing new.                             *)
FbMisses(caps, bytes) ==
  IF FbServes(caps) /\ Iram!FbAdmits(bytes)
  THEN \E own \in Iram!Fb : Iram!FbRefuse(own, bytes)
  ELSE UNCHANGED iramVars

(* EXEC requests know one zone and never fall back. *)
AllocExec(caps, bytes, x) ==
  /\ ExecServes(caps)
  /\ Iram!TakeExec(bytes, x)
  /\ UNCHANGED arenaVars

AllocFb(caps, bytes, x) ==
  /\ FbServes(caps)
  /\ Iram!FbTake(bytes, x)
  /\ IF FbFirst(caps) THEN UNCHANGED arenaVars ELSE DramMisses(caps, bytes)

AllocDram(caps, bytes, x) ==
  /\ DramServes(caps)
  /\ Take(bytes, x)
  /\ IF FbFirst(caps) THEN FbMisses(caps, bytes) ELSE UNCHANGED iramVars

Alloc(caps, bytes) ==
  \/ \E x \in Answers(bytes) : AllocDram(caps, bytes, x)
  \/ \E x \in Iram!ExecFinds(bytes) : AllocExec(caps, bytes, x)
  \/ \E x \in Iram!IAnswers(bytes) : AllocFb(caps, bytes, x)

AllocFails(caps, bytes) ==
  /\ ~WantsExec(caps)
  /\ DramMisses(caps, bytes) /\ FbMisses(caps, bytes)

(* The block handed out by this step. *)
NewBlocks == Live' \ Live

AskedFor(caps) == asked' = asked \cup {[off |-> x.off, caps |-> Strip(caps)] : x \in NewBlocks}

-----------------------------------------------------------------------------
(* The public calls. *)

Malloc(caps, bytes) ==
  /\ Alloc(caps, bytes)
  /\ AskedFor(caps)
  /\ UNCHANGED moving

MallocFails(caps, bytes) ==
  /\ AllocFails(caps, bytes)
  /\ UNCHANGED <<moving, asked>>

ReleaseAny(x) ==
  /\ \/ Release(x) /\ UNCHANGED iramVars
     \/ \E b \in Iram!Used : x = Mapped(b) /\ Iram!IRelease(b) /\ UNCHANGED arenaVars
  /\ asked' = {a \in asked : a.off # x.off}

FreeCall(x) ==
  /\ Settled(x)
  /\ ReleaseAny(x)
  /\ UNCHANGED moving

(* What mxr_realloc_caps demands of the memory a block lies in before it    *)
(* considers to resize the block there.                                     *)
\* mutant: an EXEC block is good for any word-accessed data
StaysInAny(caps, x) ==
  \/ x \in blocks /\ DramServes(caps)
  \/ \E b \in Iram!Used : x = Mapped(b) /\ (ExecServes(caps) \/ FbServes(caps))

StaysIn(caps, x) ==
  \/ x \in blocks /\ DramServes(caps)
  \/ \E b \in execs : x = Mapped(b) /\ ExecServes(caps)
  \/ \E b \in fbs : x = Mapped(b) /\ FbServes(caps)

ResizeDram(x, bytes) ==
  (Shrink(x, bytes) \/ Extend(x, bytes)) /\ UNCHANGED iramVars

ResizeIram(x, bytes) ==
  \E b \in Iram!Used :
    x = Mapped(b) /\ (Iram!IShrink(b, bytes) \/ Iram!IExtend(b, bytes)) /\ UNCHANGED arenaVars

(* The block is long enough, and what shrinking would free is no use. *)
KeepsDram(x, bytes) ==
  /\ \E r \in Region : x \in blocks /\ InRegion(r, x.off) /\ SizeOk(r, bytes)
  /\ bytes = x.len \/ (bytes < x.len /\ IsSliver(x.len - bytes))

KeepsIram(x, bytes) ==
  \E b \in Iram!Used :
    /\ x = Mapped(b) /\ Iram!FbInPlace(b, bytes)
    /\ bytes = x.len \/ (bytes < x.len /\ IsSliver(x.len - bytes))

ReallocInPlace(caps, x, bytes) ==
  /\ Settled(x) /\ StaysIn(caps, x)
  /\ \/ ResizeDram(x, bytes)
     \/ ResizeIram(x, bytes)
     \/ (KeepsDram(x, bytes) \/ KeepsIram(x, bytes)) /\ UNCHANGED <<arenaVars, iramVars>>
  /\ asked' = {a \in asked : a.off # x.off} \cup {[off |-> x.off, caps |-> Strip(caps)]}
  /\ UNCHANGED moving

DramHasRoom(x, bytes) ==
  \E r \in Region :
    /\ x \in blocks /\ InRegion(r, x.off) /\ SizeOk(r, bytes)
    /\ bytes <= x.len \/ RoomBehind(r, x, bytes) # {}

IramHasRoom(x, bytes) ==
  \E b \in Iram!Used :
    /\ x = Mapped(b) /\ Iram!FbInPlace(b, bytes)
    /\ bytes <= b.len \/ Iram!IRoomBehind(b, bytes) # {}

MustMove(caps, x, bytes) ==
  /\ x \in Live /\ Settled(x)
  /\ StaysIn(caps, x) => ~DramHasRoom(x, bytes) /\ ~IramHasRoom(x, bytes)

(* The target is allocated, then copied into outside the lock. *)
ReallocMove(caps, x, bytes) ==
  /\ moving = {}
  /\ MustMove(caps, x, bytes)
  /\ Alloc(Strip(caps), bytes)
  /\ AskedFor(caps)
  /\ moving' = {[from |-> x, to |-> y] : y \in NewBlocks}

ReallocFails(caps, x, bytes) ==
  /\ MustMove(caps, x, bytes)
  /\ AllocFails(Strip(caps), bytes)
  /\ UNCHANGED <<moving, asked>>

ReallocEnd ==
  \E m \in moving : ReleaseAny(m.from) /\ moving' = {}

-----------------------------------------------------------------------------
(* Queries. *)

AtMost(n, max) == IF max # Unlimited /\ n > max THEN max - (max % Align) ELSE n
FitFrom(n, min) == IF n < min THEN 0 ELSE n

LongestGap(B, lo, hi) == CHOOSE n \in LargestGap(B, lo, hi) : TRUE

(* A block of a region's own class, or one that crosses into the region as  *)
(* far as the guards allow (scale stands for their numerator/denominator).  *)
OwnLongest(gap, min, max, limit) == FitFrom(AtMost(AtMost(gap, max), limit), min)

\* mutant: the guard does not bound what crosses into a region
CrossLongestUnguarded(gap, min, bound, limit) == AtMost(gap, limit)

CrossLongest(gap, min, bound, limit) == FitFrom(AtMost(AtMost(gap, bound), limit), min)

MinInto(min, div) == IF div = 0 \/ min \div div < Align THEN Align ELSE min \div div
Bound(max, num, den) == IF num = 0 \/ max = Unlimited THEN Unlimited ELSE (max * num) \div den

DramLongest(r) ==
  LET gap == LongestGap(blocks, RegStart[r], RegEnd(r)) IN
  {OwnLongest(gap, RegMin[r], RegMax[r], 0)} \cup
  IF CrossEnabled /\ (GuardNum > 0 => Bound(RegMax[r], GuardNum, GuardDen) > 0 \/ RegMax[r] = Unlimited)
  THEN {CrossLongest(gap, MinInto(RegMin[r], MinDiv), Bound(RegMax[r], GuardNum, GuardDen), 0)}
  ELSE {}

FbLongest(r) ==
  LET gap == LongestGap(Iram!Used, FbStart[r], Iram!FbEnd(r)) IN
  {OwnLongest(gap, FbMin[r], FbMax[r], FbMaxBytes)} \cup
  IF ICrossEnabled /\ (IGuardNum > 0 => Bound(FbMax[r], IGuardNum, IGuardDen) > 0 \/ FbMax[r] = Unlimited)
  THEN {CrossLongest(gap, MinInto(FbMin[r], IMinDiv), Bound(FbMax[r], IGuardNum, IGuardDen), FbMaxBytes)}
  ELSE {}

(* mxr_get_largest_free_block_caps_locked, for tables that do not grow. *)
Candidates(caps) ==
  (IF DramServes(caps) /\ ~TableFull THEN UNION {DramLongest(r) : r \in Region} ELSE {}) \cup
  (IF Iram!ITableFull THEN {}
   ELSE IF ExecServes(caps) THEN LargestGap(Iram!Used, 0, Reserve)
   ELSE IF FbServes(caps) THEN UNION {FbLongest(r) : r \in Iram!Fb} ELSE {})

LargestBlock(caps) == CHOOSE n \in Candidates(caps) \cup {0} : \A m \in Candidates(caps) : m <= n

(* The query computes the fallback regions' caches unless they are valid. *)
QueryLargest(caps) ==
  /\ FbServes(caps) /\ ~Iram!ITableFull
  /\ Iram!IInspect(Iram!Fb)
  /\ UNCHANGED <<arenaVars, moving, asked>>

(* mxr_get_status: every DRAM cache, then the largest block for no demands. *)
Status ==
  /\ Inspect(Region)
  /\ IF Iram!ITableFull THEN UNCHANGED iramVars ELSE Iram!IInspect(Iram!Fb)
  /\ UNCHANGED <<moving, asked>>

-----------------------------------------------------------------------------

CapsInit ==
  /\ Init /\ Iram!Init
  /\ moving = {} /\ asked = {}

CapsNext ==
  \/ \E caps \in Wanted : \E bytes \in Requests : Malloc(caps, bytes) \/ MallocFails(caps, bytes)
  \/ \E x \in Live : FreeCall(x)
  \/ \E caps \in Wanted : \E x \in Live : \E bytes \in Requests :
       \/ ReallocInPlace(caps, x, bytes)
       \/ ReallocMove(caps, x, bytes)
       \/ ReallocFails(caps, x, bytes)
  \/ ReallocEnd
  \/ \E caps \in Wanted : QueryLargest(caps)
  \/ Status

CapsSpec == CapsInit /\ [][CapsNext]_capsVars

-----------------------------------------------------------------------------
(* Properties. *)

(* Every block lies in memory that has the capabilities last asked of it,   *)
(* through fallbacks in either order, reallocs that ask for something else  *)
(* than before, and reallocs that move a block to the other arena.          *)
PlacedAsAsked ==
  \A a \in asked :
    \/ a.caps \subseteq DramCaps /\ \E b \in blocks : b.off = a.off
    \/ "EXEC" \in a.caps /\ \E b \in execs : Mapped(b).off = a.off
    \/ /\ a.caps \cap {"EXEC", "DMA", "8BIT"} = {}
       /\ \E b \in fbs : Mapped(b).off = a.off

(* The block that the largest-block query reports can be had, and no larger *)
(* one: the query's guards and limits are those of the placement.           *)
Served(caps, bytes) ==
  \/ ExecServes(caps) /\ \E x \in Iram!ExecFinds(bytes) : Iram!ILands(x)
  \/ FbServes(caps) /\ Iram!FbAdmits(bytes)
       /\ \E own \in Iram!Fb : Iram!FbIsOwn(own, bytes) /\ ~Iram!FbFails(own, bytes)
  \/ DramServes(caps)
       /\ \E own \in Region : /\ IsOwn(own, bytes)
                              /\ \/ ~OwnFails(own, bytes)
                                 \/ CrossEnabled /\ \E q \in Region \ {own} : ~CrossFails(q, bytes)

LargestServed ==
  \A caps \in Wanted :
    LET n == LargestBlock(caps) IN
    /\ n > 0 => Served(caps, n)
    /\ ~Served(caps, n + Align)

(* Over both arenas a live block keeps its place and shares no byte with    *)
(* another, and the two ends of a move are left alone until it is done.     *)
Heap == INSTANCE MxrHeap WITH
          Memory <- [off : 0 .. (RawEnd + IramInit), len : 0 .. (RawEnd + IramInit)],
          live <- Live,
          pinned <- UNION {{m.from, m.to} : m \in moving}

HeapRefined == Heap!Spec

=============================================================================
