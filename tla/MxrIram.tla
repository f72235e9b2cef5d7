------------------------------- MODULE MxrIram -------------------------------
(***************************************************************************)
(* The IRAM arena: a zone [0, Reserve) for executable code, taken first    *)
(* fit, and behind it a zone of size-class regions for word-accessed       *)
(* fallback data, taken best fit from the upper edge of a gap.  One        *)
(* descriptor table serves both; a dynamic one grows into the tail of the  *)
(* last fallback region, and its owner must leave that tail alone.         *)
(*                                                                         *)
(* As in MxrDram every action is one critical section of mxr_malloc.c.     *)
(***************************************************************************)
EXTENDS MxrGaps, FiniteSets

CONSTANTS
  Reserve,        \* s_iram_fb_zone_start: end of the EXEC zone
  NFb,            \* s_iram_fb_region_count; 0 without a fallback zone
  FbStart,        \* [Fb -> Nat]: start_byte
  FbMin, FbMax,   \* [Fb -> Nat]: size class of the region
  IramInit,       \* s_iram_total_bytes after mxr_init_iram
  IDynamic,       \* MXR_IRAM_DESC_DYNAMIC_ACTIVE
  IDescInit,      \* MXR_IRAM_DESC_INIT (dynamic table)
  DescChunk,      \* MXR_DESC_CHUNK
  IMaxDesc,       \* CONFIG_MXR_IRAM_MAX_DESC
  FbMaxBytes,     \* CONFIG_MXR_IRAM_FALLBACK_MAX_BYTES; 0 when there is none
  ICrossEnabled,  \* MXR_CROSS_REGION_FALLBACK and MXR_IRAM_CROSS_ENABLED
  IGuardNum, IGuardDen, \* MXR_IRAM_GUARD_NUM/DEN; IGuardNum = 0 when not defined
  IMinDiv,        \* MXR_IRAM_MIN_BYTES_DIVISOR; 0 when not defined
  Canary,         \* MXR_CANARY_ACTIVE
  Requests        \* block lengths that callers ask for

Fb     == 0 .. (NFb - 1)
FbLast == NFb - 1

IDelta   == DescChunk * 8           \* 8 = sizeof(mxr_desc_t)
IInitCap == IF IDynamic THEN IDescInit ELSE IMaxDesc

(* What mxr_init_iram leaves behind. *)
ASSUME IramLayoutAssumption ==
  /\ Reserve \in Nat /\ NFb \in Nat /\ IramInit \in Nat
  /\ IF NFb = 0 THEN Reserve = IramInit ELSE Reserve < IramInit
  /\ FbStart \in [Fb -> Nat] /\ FbMin \in [Fb -> Nat] /\ FbMax \in [Fb -> Nat]
  /\ NFb > 0 => FbStart[0] = Reserve /\ FbMin[0] <= Align
  /\ \A r, q \in Fb : r < q => FbStart[r] <= FbStart[q]
  /\ \A r \in Fb : FbStart[r] <= IramInit
  /\ \A r \in Fb : FbMax[r] = Unlimited <=> r = FbLast
  /\ \A r \in Fb \ {FbLast} : FbMin[r] <= FbMax[r] /\ FbMin[r + 1] = FbMax[r] + 1

ASSUME IramTableAssumption ==
  /\ IDynamic \in BOOLEAN /\ ICrossEnabled \in BOOLEAN /\ Canary \in BOOLEAN
  /\ IDescInit \in Nat \ {0} /\ DescChunk \in Nat \ {0} /\ IMaxDesc \in Nat \ {0}
  /\ IDescInit <= IMaxDesc
  /\ FbMaxBytes \in Nat /\ IMinDiv \in Nat
  /\ IGuardNum \in Nat /\ IGuardDen \in Nat \ {0} /\ IGuardNum <= IGuardDen
  /\ Requests \subseteq Nat \ {0}

VARIABLES
  execs, fbs,  \* s_iram_desc[0 .. count): extents with and without the EXEC flag
  ibroken,     \* offsets of blocks whose canary words were overwritten
  iramEnd,     \* s_iram_total_bytes; a dynamic table starts there
  icap,        \* s_iram_desc_cap
  zoneTotal,   \* s_iram_fb_zone_total
  fbTotal,     \* [Fb -> Nat]: total_bytes
  fbFree,      \* [Fb -> Nat]: free_bytes
  fbCache,     \* [Fb -> SUBSET Nat]: {largest_free_cache} when valid, else {}
  execFree,    \* s_iram_exec_free_bytes
  iramFree,    \* s_iram_free_bytes
  zoneFree     \* s_iram_fb_free_bytes

iramVars == <<execs, fbs, ibroken, iramEnd, icap, zoneTotal, fbTotal, fbFree, fbCache,
              execFree, iramFree, zoneFree>>

Used == execs \cup fbs

FbEnd(r) == FbStart[r] + fbTotal[r]

Init ==
  /\ execs = {} /\ fbs = {} /\ ibroken = {}
  /\ iramEnd = IramInit /\ icap = IInitCap
  /\ zoneTotal = IramInit - Reserve
  /\ fbTotal = [r \in Fb |-> (IF r = FbLast THEN IramInit ELSE FbStart[r + 1]) - FbStart[r]]
  /\ fbFree = fbTotal
  /\ fbCache = [r \in Fb |-> {fbTotal[r]}]
  /\ execFree = Reserve /\ iramFree = IramInit /\ zoneFree = IramInit - Reserve

Less(n, m) == IF n >= m THEN n - m ELSE 0
Capped(n, m) == IF n > m THEN m ELSE n

-----------------------------------------------------------------------------
(* Regions and limits. *)

FbSizeOk(r, bytes) ==
  bytes >= FbMin[r] /\ (FbMax[r] = Unlimited \/ bytes <= FbMax[r])

FbIsOwn(r, bytes) == FbSizeOk(r, bytes) /\ \A q \in Fb : q < r => ~FbSizeOk(q, bytes)

InFb(r, off) == FbStart[r] <= off /\ off < FbEnd(r)

(* No expansion goes beyond the class bound or the limit on fallback blocks. *)
\* mutant: only the class bound
FbLimitClass(r) == FbMax[r]

FbLimit(r) ==
  IF FbMaxBytes # 0 /\ (FbMax[r] = Unlimited \/ FbMax[r] > FbMaxBytes)
  THEN FbMaxBytes ELSE FbMax[r]

-----------------------------------------------------------------------------
(* The descriptor table and its growth into the tail. *)

ITableFull == Cardinality(Used) >= icap

(* The table may grow, and the range x stays clear of the bytes it takes. *)
ICanGrowFor(x) ==
  /\ IDynamic
  /\ icap + DescChunk <= IMaxDesc
  /\ NFb > 0 /\ IDelta <= iramEnd
  /\ IF Used = {} THEN FbStart[FbLast] <= iramEnd - IDelta
                  ELSE \A b \in Used : EndOf(b) <= iramEnd - IDelta
  /\ EndOf(x) <= iramEnd - IDelta

TailGrowable == ICanGrowFor([off |-> 0, len |-> 0])

\* mutant: the table may take more than the last region has
ILandsPast(x) ==
  /\ x.len > 0 /\ EndOf(x) <= iramEnd /\ IsFree(Used, x)
  /\ ITableFull => ICanGrowFor(x)

(* mxr_iram_desc_insert accepts x. *)
ILands(x) ==
  /\ x.len > 0 /\ EndOf(x) <= iramEnd /\ IsFree(Used, x)
  /\ ITableFull => ICanGrowFor(x) /\ IDelta <= fbTotal[FbLast] /\ IDelta <= zoneTotal

Eaten == IF ITableFull THEN IDelta ELSE 0
AtTailFirst(r, n) == IF r = 0 THEN n ELSE 0     \* mutant: the first region pays
AtTail(r, n) == IF r = FbLast THEN n ELSE 0

(* mxr_iram_desc_insert of x, then mxr_iram_allocated; c is the cache as the *)
(* searches of the request left it.                                          *)
IPlace(x, isExec, c) ==
  LET share(r) == IF ~isExec /\ InFb(r, x.off) THEN x.len ELSE 0 IN
  /\ execs' = IF isExec THEN execs \cup {x} ELSE execs
  /\ fbs' = IF isExec THEN fbs ELSE fbs \cup {x}
  /\ iramEnd' = iramEnd - Eaten
  /\ icap' = IF ITableFull THEN icap + DescChunk ELSE icap
  /\ zoneTotal' = zoneTotal - Eaten
  /\ fbTotal' = [r \in Fb |-> fbTotal[r] - AtTail(r, Eaten)]
  /\ fbFree' = [r \in Fb |-> Less(Less(fbFree[r], AtTail(r, Eaten)), share(r))]
  /\ fbCache' = [r \in Fb |-> IF AtTail(r, Eaten) + share(r) > 0 THEN {} ELSE c[r]]
  /\ execFree' = IF isExec THEN Less(execFree, x.len) ELSE execFree
  /\ iramFree' = Less(Less(iramFree, Eaten), x.len)
  /\ zoneFree' = Less(Less(zoneFree, Eaten), IF isExec THEN 0 ELSE x.len)
  /\ UNCHANGED ibroken

-----------------------------------------------------------------------------
(* Searches.  EXEC: the lowest gap of the zone that is long enough. *)

ExecFinds(bytes) ==
  LET fit == {g \in Gaps(Used, 0, Reserve) : g.len >= bytes} IN
  {[off |-> g.off, len |-> bytes] :
     g \in {h \in fit : execFree >= bytes /\ \A k \in fit : h.off <= k.off}}

FbFitting(r, bytes) == Fitting(Used, FbStart[r], FbEnd(r), bytes)
FbEarly(r, bytes) == EarlyGaps(Used, FbStart[r], FbEnd(r), bytes)

(* The shortest gap, the upper one of two. *)
FbSmallest(r, bytes) ==
  LET fit == FbFitting(r, bytes) IN
  {g \in fit : \A h \in fit : g.len < h.len \/ (g.len = h.len /\ h.off <= g.off)}

FbBest(r, bytes) ==
  IF FbEarly(r, bytes) # {}
  THEN {g \in FbEarly(r, bytes) : \A h \in FbEarly(r, bytes) : g.off <= h.off}
  ELSE FbSmallest(r, bytes)

(* A block is cut from the upper edge of its gap; from the lower edge, and  *)
(* without expansion, when the gap is the tail that the table may need.     *)
KeepsNoTail(r, g) == FALSE     \* mutant: always the upper edge
KeepsTail(r, g) == r = FbLast /\ TailGrowable /\ EndOf(g) = FbEnd(r)

FbCut(r, g, bytes) ==
  LET len == CutLen(g.len, bytes, FbLimit(r)) IN
  IF KeepsTail(r, g) THEN [off |-> g.off, len |-> bytes]
  ELSE [off |-> EndOf(g) - len, len |-> len]

(* The region of the request's class.  A cache that rules it out stays; any *)
(* other attempt leaves what its pass has learnt.                           *)
FbPassed(r, bytes) == \E n \in fbCache[r] : n < bytes

FbOwnFinds(r, bytes) ==
  IF FbPassed(r, bytes) \/ fbFree[r] < bytes THEN {}
  ELSE {FbCut(r, g, bytes) : g \in FbBest(r, bytes)}

\* mutant: what was seen before an early exit is taken for exact
FbOwnCacheSoon(r, bytes) ==
  IF FbPassed(r, bytes) THEN fbCache[r]
  ELSE IF fbFree[r] < bytes THEN {}
  ELSE LearntTooSoon(Used, FbStart[r], FbEnd(r), bytes)

FbOwnCache(r, bytes) ==
  IF FbPassed(r, bytes) THEN fbCache[r]
  ELSE IF fbFree[r] < bytes THEN {}
  ELSE LearntLargest(Used, FbStart[r], FbEnd(r), bytes)

(* Other regions: guards, then a full pass. *)
FbCrossAllowed(r, bytes) ==
  /\ fbFree[r] >= bytes /\ ~FbPassed(r, bytes)
  /\ IGuardNum = 0 \/ FbMax[r] = Unlimited \/ bytes <= (FbMax[r] * IGuardNum) \div IGuardDen
  /\ IMinDiv = 0 \/ bytes >= FbMin[r] \div IMinDiv

FbCrossFinds(r, bytes) ==
  IF FbCrossAllowed(r, bytes) THEN {FbCut(r, g, bytes) : g \in FbSmallest(r, bytes)} ELSE {}

FbBefore(own, i, j) ==
  IF own < NFb \div 2
  THEN (i > own /\ (j < own \/ i < j)) \/ (i < own /\ j < own /\ j < i)
  ELSE (i < own /\ (j > own \/ j < i)) \/ (i > own /\ j > own /\ i < j)

(* The first region that has a place ends the crossing, whether or not the  *)
(* table then takes it.                                                     *)
FbReached(own, r, bytes) ==
  /\ ICrossEnabled /\ r # own
  /\ \A q \in Fb \ {own} : FbBefore(own, q, r) => FbCrossFinds(q, bytes) = {}

FbSearched(own, bytes) ==
  [r \in Fb |-> IF r = own THEN FbOwnCache(r, bytes)
                ELSE IF FbReached(own, r, bytes) /\ FbCrossAllowed(r, bytes)
                     THEN LargestGap(Used, FbStart[r], FbEnd(r))
                ELSE fbCache[r]]

-----------------------------------------------------------------------------
(* The IRAM part of mxr_malloc_caps_locked. *)

TakeExec(bytes, x) ==
  /\ x \in ExecFinds(bytes) /\ ILands(x)
  /\ IPlace(x, TRUE, fbCache)

FbAdmits(bytes) ==
  /\ zoneTotal # 0
  /\ Cardinality(Used) < IMaxDesc
  /\ FbMaxBytes = 0 \/ bytes <= FbMaxBytes

FbOwnFails(own, bytes) == \A x \in FbOwnFinds(own, bytes) : ~ILands(x)

FbTakeOwn(own, bytes, x) ==
  /\ FbAdmits(bytes) /\ FbIsOwn(own, bytes)
  /\ x \in FbOwnFinds(own, bytes) /\ ILands(x)
  /\ IPlace(x, FALSE, fbCache)

FbTakeCross(own, r, bytes, x) ==
  /\ FbAdmits(bytes) /\ FbIsOwn(own, bytes) /\ FbOwnFails(own, bytes)
  /\ FbReached(own, r, bytes)
  /\ x \in FbCrossFinds(r, bytes) /\ ILands(x)
  /\ IPlace(x, FALSE, FbSearched(own, bytes))

FbTake(bytes, x) ==
  \E own \in Fb : \/ FbTakeOwn(own, bytes, x)
                  \/ \E r \in Fb : FbTakeCross(own, r, bytes, x)

(* A refused request leaves behind what its searches have learnt. *)
FbFails(own, bytes) ==
  /\ FbIsOwn(own, bytes) /\ FbOwnFails(own, bytes)
  /\ \A r \in Fb : FbReached(own, r, bytes) => \A x \in FbCrossFinds(r, bytes) : ~ILands(x)

FbRefuse(own, bytes) ==
  /\ FbAdmits(bytes) /\ FbFails(own, bytes)
  /\ fbCache' = FbSearched(own, bytes)
  /\ UNCHANGED <<execs, fbs, ibroken, iramEnd, icap, zoneTotal, fbTotal, fbFree,
                 execFree, iramFree, zoneFree>>

IAnswers(bytes) ==
  ExecFinds(bytes) \cup UNION {FbOwnFinds(r, bytes) \cup FbCrossFinds(r, bytes) : r \in Fb}

-----------------------------------------------------------------------------
(* mxr_free_locked on a live block with whole canaries, then the table.     *)

IIntact(b) == b \in Used /\ b.off \notin ibroken

(* mxr_iram_released *)
BackToFb(b, n, r) == IF b \in fbs /\ InFb(r, b.off) THEN n ELSE 0
BackToExecLate(b, n) == execFree     \* mutant: the flag is read after the removal
BackToExec(b, n)  == IF b \in execs THEN Capped(execFree + n, Reserve) ELSE execFree
BackToZone(b, n)  == IF b \in fbs THEN Capped(zoneFree + n, zoneTotal) ELSE zoneFree

\* mutant: one spare slot more
ITableSlackLate(B) ==
  /\ IDynamic /\ icap > IInitCap /\ NFb > 0
  /\ icap - Cardinality(B) > 2 * DescChunk

ITableSlack(B) ==
  /\ IDynamic /\ icap > IInitCap /\ NFb > 0
  /\ icap - Cardinality(B) >= 2 * DescChunk

IRelease(b) ==
  LET back(r) == BackToFb(b, b.len, r)
      given   == IF ITableSlack(Used \ {b}) THEN IDelta ELSE 0
  IN /\ IIntact(b)
     /\ execs' = execs \ {b} /\ fbs' = fbs \ {b}
     /\ iramEnd' = iramEnd + given
     /\ icap' = IF given > 0 THEN icap - DescChunk ELSE icap
     /\ zoneTotal' = zoneTotal + given
     /\ fbTotal' = [r \in Fb |-> fbTotal[r] + AtTail(r, given)]
     /\ fbFree' = [r \in Fb |-> Capped(Capped(fbFree[r] + back(r), fbTotal[r]) + AtTail(r, given),
                                       fbTotal[r] + AtTail(r, given))]
     /\ fbCache' = [r \in Fb |-> IF back(r) + AtTail(r, given) > 0 THEN {} ELSE fbCache[r]]
     /\ execFree' = BackToExec(b, b.len)
     /\ iramFree' = Capped(Capped(iramFree + b.len, iramEnd) + given, iramEnd + given)
     /\ zoneFree' = BackToZone(b, b.len)
     /\ UNCHANGED ibroken

-----------------------------------------------------------------------------
(* mxr_realloc_caps in place: an EXEC block within its zone, a fallback     *)
(* block within its region and class.                                       *)

Cutoff(B, b, bytes) == IF b \in B THEN (B \ {b}) \cup {[off |-> b.off, len |-> bytes]} ELSE B

FbInPlace(b, bytes) ==
  b \in fbs => \E r \in Fb : InFb(r, b.off) /\ FbSizeOk(r, bytes)

IShrink(b, bytes) ==
  LET n == b.len - bytes IN
  /\ IIntact(b) /\ FbInPlace(b, bytes)
  /\ bytes < b.len /\ ~IsSliver(n)
  /\ execs' = Cutoff(execs, b, bytes) /\ fbs' = Cutoff(fbs, b, bytes)
  /\ fbFree' = [r \in Fb |-> Capped(fbFree[r] + BackToFb(b, n, r), fbTotal[r])]
  /\ fbCache' = [r \in Fb |-> IF BackToFb(b, n, r) > 0 THEN {} ELSE fbCache[r]]
  /\ execFree' = BackToExec(b, n)
  /\ iramFree' = Capped(iramFree + n, iramEnd)
  /\ zoneFree' = BackToZone(b, n)
  /\ UNCHANGED <<ibroken, iramEnd, icap, zoneTotal, fbTotal>>

(* Records [gap, max]: the gap right behind b in its zone or region, when b *)
(* may grow to bytes there, and the bound of an expansion over a sliver.    *)
\* mutant: an EXEC block may grow up to the next block
IRoomBehindPast(b, bytes) ==
  {m \in {[gap |-> g, max |-> Unlimited] : g \in IF b \in execs THEN Gaps(Used, 0, iramEnd) ELSE {}}
           \cup UNION {{[gap |-> g, max |-> FbLimit(r)] : g \in Gaps(Used, FbStart[r], FbEnd(r))} :
                         r \in {q \in Fb : b \in fbs /\ InFb(q, b.off) /\ FbSizeOk(q, bytes)}} :
     /\ b \in fbs => FbMaxBytes = 0 \/ bytes <= FbMaxBytes
     /\ m.gap.off = EndOf(b) /\ b.len + m.gap.len >= bytes}

\* mutant: the next block is not looked at
IRoomBehindBlind(b, bytes) ==
  {m \in {[gap |-> g, max |-> Unlimited] : g \in IF b \in execs THEN Gaps({b}, 0, Reserve) ELSE {}}
           \cup UNION {{[gap |-> g, max |-> FbLimit(r)] : g \in Gaps({b}, FbStart[r], FbEnd(r))} :
                         r \in {q \in Fb : b \in fbs /\ InFb(q, b.off) /\ FbSizeOk(q, bytes)}} :
     /\ b \in fbs => FbMaxBytes = 0 \/ bytes <= FbMaxBytes
     /\ m.gap.off = EndOf(b) /\ b.len + m.gap.len >= bytes}

IRoomBehind(b, bytes) ==
  {m \in {[gap |-> g, max |-> Unlimited] : g \in IF b \in execs THEN Gaps(Used, 0, Reserve) ELSE {}}
           \cup UNION {{[gap |-> g, max |-> FbLimit(r)] : g \in Gaps(Used, FbStart[r], FbEnd(r))} :
                         r \in {q \in Fb : b \in fbs /\ InFb(q, b.off) /\ FbSizeOk(q, bytes)}} :
     /\ b \in fbs => FbMaxBytes = 0 \/ bytes <= FbMaxBytes
     /\ m.gap.off = EndOf(b) /\ b.len + m.gap.len >= bytes}

IExtend(b, bytes) ==
  /\ IIntact(b) /\ b.len < bytes
  /\ \E m \in IRoomBehind(b, bytes) :
       LET len == CutLen(b.len + m.gap.len, bytes, m.max)
           taken(r) == BackToFb(b, len - b.len, r)
       IN /\ execs' = Cutoff(execs, b, len) /\ fbs' = Cutoff(fbs, b, len)
          /\ fbFree' = [r \in Fb |-> Less(fbFree[r], taken(r))]
          /\ fbCache' = [r \in Fb |-> IF taken(r) > 0 THEN {} ELSE fbCache[r]]
          /\ execFree' = IF b \in execs THEN Less(execFree, len - b.len) ELSE execFree
          /\ iramFree' = Less(iramFree, len - b.len)
          /\ zoneFree' = IF b \in fbs THEN Less(zoneFree, len - b.len) ELSE zoneFree
  /\ UNCHANGED <<ibroken, iramEnd, icap, zoneTotal, fbTotal>>

IOverrun(b) ==
  /\ Canary /\ b \in Used
  /\ ibroken' = ibroken \cup {b.off}
  /\ UNCHANGED <<execs, fbs, iramEnd, icap, zoneTotal, fbTotal, fbFree, fbCache,
                 execFree, iramFree, zoneFree>>

(* A status or size query fills in the caches of the regions it asks about. *)
IInspect(R) ==
  /\ fbCache' = [r \in Fb |-> IF r \in R /\ fbCache[r] = {}
                              THEN LargestGap(Used, FbStart[r], FbEnd(r)) ELSE fbCache[r]]
  /\ UNCHANGED <<execs, fbs, ibroken, iramEnd, icap, zoneTotal, fbTotal, fbFree,
                 execFree, iramFree, zoneFree>>

-----------------------------------------------------------------------------

Next ==
  \/ \E bytes \in Requests : \E x \in ExecFinds(bytes) : TakeExec(bytes, x)
  \/ \E bytes \in Requests : \E x \in IAnswers(bytes) : FbTake(bytes, x)
  \/ \E bytes \in Requests : \E own \in Fb : FbRefuse(own, bytes)
  \/ \E b \in Used : IRelease(b)
  \/ \E b \in Used : \E bytes \in Requests : IShrink(b, bytes)
  \/ \E b \in Used : \E bytes \in Requests : IExtend(b, bytes)
  \/ \E b \in Used : IOverrun(b)
  \/ \E R \in SUBSET Fb : IInspect(R)

Spec == Init /\ [][Next]_iramVars

-----------------------------------------------------------------------------
(* Properties. *)

(* Every variable keeps its type: no region, zone or counter goes negative  *)
(* when the table takes bytes of the last region.                           *)
TypeOK ==
  /\ execs \subseteq Extent /\ fbs \subseteq Extent
  /\ IsFiniteSet(execs) /\ IsFiniteSet(fbs)
  /\ ibroken \subseteq Nat
  /\ iramEnd \in Nat /\ icap \in Nat /\ zoneTotal \in Nat
  /\ fbTotal \in [Fb -> Nat] /\ fbFree \in [Fb -> Nat]
  /\ fbCache \in [Fb -> SUBSET Nat]
  /\ execFree \in Nat /\ iramFree \in Nat /\ zoneFree \in Nat

(* The zones tile the arena, the regions tile the fallback zone, and a      *)
(* dynamic table fills the rest, through every move of the table.           *)
IramTiled ==
  /\ zoneTotal = iramEnd - Reserve
  /\ \A r \in Fb : FbEnd(r) = IF r = FbLast THEN iramEnd ELSE FbStart[r + 1]
  /\ IDynamic => iramEnd + icap * 8 = IramInit + IInitCap * 8

(* "EXEC blocks cannot leave the reserve zone and fallback blocks cannot    *)
(* enter it", nor cross a region's border or reach into the table; no two   *)
(* blocks share a byte.                                                     *)
ZonesApart ==
  /\ \A b, c \in Used : b # c => Disjoint(b, c)
  /\ \A b \in Used : b.len > 0
  /\ \A b \in execs : EndOf(b) <= Reserve
  /\ \A b \in fbs : \E r \in Fb : FbStart[r] <= b.off /\ EndOf(b) <= FbEnd(r)

(* A valid largest-gap cache of a fallback region is exact. *)
FbCacheExact ==
  \A r \in Fb : fbCache[r] # {} => fbCache[r] = LargestGap(Used, FbStart[r], FbEnd(r))

(* The arena, its EXEC zone and every fallback region count their free      *)
(* bytes apart; the counters stay exact and consistent with one another.    *)
CountersAgree ==
  /\ execFree = Cardinality(FreeBytes(Used, 0, Reserve))
  /\ \A r \in Fb : fbFree[r] = Cardinality(FreeBytes(Used, FbStart[r], FbEnd(r)))
  /\ iramFree = Cardinality(FreeBytes(Used, 0, iramEnd))

(* A fallback block respects the limit on fallback blocks and, with any     *)
(* guard, its region's class bound, also after an expansion over a sliver   *)
(* or a growth in place.                                                    *)
FbLimitKept ==
  \A b \in fbs :
    /\ FbMaxBytes # 0 => b.len <= FbMaxBytes
    /\ \A r \in Fb : IGuardNum > 0 /\ InFb(r, b.off) /\ FbMax[r] # Unlimited => b.len <= FbMax[r]

(* The table never holds more blocks than slots, and never keeps two spare  *)
(* chunks once it has grown.                                                *)
ITableFits ==
  /\ Cardinality(Used) <= icap /\ icap <= IMaxDesc
  /\ icap = IInitCap \/ icap - Cardinality(Used) < 2 * DescChunk

(* A fallback block taken from the tail does not cost the table its room to *)
(* grow when that tail is long enough for both.                             *)
TailKept ==
  [][\A x \in fbs' \ fbs : \A g \in Gaps(Used, FbStart[FbLast], iramEnd) :
       /\ TailGrowable /\ iramEnd' = iramEnd
       /\ g.off <= x.off /\ EndOf(x) <= EndOf(g)
       /\ g.len >= x.len + IDelta
       => TailGrowable']_iramVars

=============================================================================
