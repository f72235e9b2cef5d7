------------------------------- MODULE MxrDram -------------------------------
(***************************************************************************)
(* The DRAM arena of the allocator: descriptor table, size-class regions,  *)
(* per-region largest-gap cache and recorded gaps, and the descriptor      *)
(* table that may itself be carved from the arena's tail.                  *)
(*                                                                         *)
(* Every action is one locked section of mxr_malloc.c, run with interrupts *)
(* off, hence atomic.  Sizes are those of the code: "bytes" is the block   *)
(* length after alignment and canary overhead.  Statistics counters and    *)
(* low watermarks are left out: no decision reads them.                    *)
(***************************************************************************)
EXTENDS MxrGaps, FiniteSets

CONSTANTS
  NRegions,       \* s_region_count
  RegStart,       \* [Region -> Nat]: start_byte
  RegMin, RegMax, \* [Region -> Nat]: size class of the region
  ArenaInit,      \* s_arena_total_bytes after mxr_init
  Dynamic,        \* MXR_DESC_DYNAMIC_ACTIVE: the table lives in the arena's tail
  DescInit,       \* MXR_DRAM_DESC_INIT (dynamic table)
  DescChunk,      \* MXR_DESC_CHUNK
  MaxDesc,        \* CONFIG_MXR_MAX_DESC
  Bins,           \* 0: no recorded gaps, 1: quick-fit hint, 2..8: MXR_BIN_COUNT
  BinBase,        \* MXR_BIN_BASE
  CrossEnabled,   \* MXR_CROSS_REGION_FALLBACK and MXR_DRAM_CROSS_ENABLED
  GuardNum, GuardDen, \* MXR_DRAM_GUARD_NUM/DEN; GuardNum = 0 when not defined
  MinDiv,         \* MXR_DRAM_MIN_BYTES_DIVISOR; 0 when not defined
  Canary,         \* MXR_CANARY_ACTIVE
  Requests        \* block lengths that callers ask for

Region == 0 .. (NRegions - 1)
Last   == NRegions - 1
Slot   == 0 .. (Bins - 1)

DescSize == 8                       \* sizeof(mxr_desc_t)
Delta    == DescChunk * DescSize
InitCap  == IF Dynamic THEN DescInit ELSE MaxDesc
RawEnd   == ArenaInit + InitCap * DescSize

(* What mxr_init_regions_exact leaves behind: regions in address order with *)
(* nothing between them, classes in the same order with no size in between. *)
ASSUME LayoutAssumption ==
  /\ NRegions \in Nat \ {0}
  /\ ArenaInit \in Nat
  /\ RegStart \in [Region -> Nat] /\ RegStart[0] = 0
  /\ \A r, q \in Region : r < q => RegStart[r] <= RegStart[q]
  /\ RegStart[Last] <= ArenaInit
  /\ RegMin \in [Region -> Nat] /\ RegMax \in [Region -> Nat]
  /\ RegMin[0] <= Align
  /\ \A r \in Region : RegMax[r] = Unlimited <=> r = Last
  /\ \A r \in Region \ {Last} : RegMin[r] <= RegMax[r] /\ RegMin[r + 1] = RegMax[r] + 1

ASSUME TableAssumption ==
  /\ Dynamic \in BOOLEAN
  /\ DescInit \in Nat \ {0} /\ DescChunk \in Nat \ {0} /\ MaxDesc \in Nat \ {0}
  /\ DescInit <= MaxDesc

ASSUME OptionAssumption ==
  /\ Bins \in Nat /\ BinBase \in Nat
  /\ GuardNum \in Nat /\ GuardDen \in Nat \ {0} /\ GuardNum <= GuardDen
  /\ MinDiv \in Nat
  /\ CrossEnabled \in BOOLEAN /\ Canary \in BOOLEAN
  /\ Requests \subseteq Nat \ {0}

VARIABLES
  blocks,    \* s_dram_desc[0 .. count): the set of its extents
  broken,    \* offsets of blocks whose canary words were overwritten
  arenaEnd,  \* s_arena_total_bytes; a dynamic table starts there
  cap,       \* s_dram_desc_cap
  total,     \* [Region -> Nat]: total_bytes
  free,      \* [Region -> Nat]: free_bytes
  cache,     \* [Region -> SUBSET Nat]: {largest_free_cache} when valid, else {}
  hints      \* [Region -> [Slot -> Extent]]: hint_off, hint_len

arenaVars == <<blocks, broken, arenaEnd, cap, total, free, cache, hints>>

NoHint == [off |-> 0, len |-> 0]

RegEnd(r) == RegStart[r] + total[r]

Init ==
  /\ blocks = {} /\ broken = {}
  /\ arenaEnd = ArenaInit
  /\ cap = InitCap
  /\ total = [r \in Region |-> (IF r = Last THEN ArenaInit ELSE RegStart[r + 1]) - RegStart[r]]
  /\ free = total
  /\ cache = [r \in Region |-> {total[r]}]
  /\ hints = [r \in Region |-> [k \in Slot |-> NoHint]]

-----------------------------------------------------------------------------
(* Regions and size classes. *)

SizeOk(r, bytes) ==
  bytes >= RegMin[r] /\ (RegMax[r] = Unlimited \/ bytes <= RegMax[r])

IsOwn(r, bytes) == SizeOk(r, bytes) /\ \A q \in Region : q < r => ~SizeOk(q, bytes)

InRegion(r, off) == RegStart[r] <= off /\ off < RegEnd(r)

Within(r, x) == RegStart[r] <= x.off /\ EndOf(x) <= RegEnd(r)

(* free_bytes arithmetic saturates both ways. *)
Less(n, m) == IF n >= m THEN n - m ELSE 0
Capped(n, m) == IF n > m THEN m ELSE n

-----------------------------------------------------------------------------
(* Recorded gaps: one LRU slot (Bins = 1) or one per size class (Bins > 1). *)

Holds(k, size) == k = Bins - 1 \/ size <= BinBase * 2^k
BinOf(size) == {k \in Slot : Holds(k, size) /\ \A j \in Slot : j < k => ~Holds(j, size)}

(* An empty record has no offset: it is never read. *)
Recorded(g, tot) == IF g.len = 0 \/ (Bins = 1 /\ g.len >= tot) THEN NoHint ELSE g

HintStore(h, g, tot) ==
  [k \in Slot |-> IF Bins = 1 THEN Recorded(g, tot)
                  ELSE IF k \in BinOf(g.len) /\ 0 < g.len /\ g.len < tot THEN g
                  ELSE h[k]]

(* The larger remainder of gap g once x is taken from it. *)
\* mutant: the record is shortened and keeps its start
RemainderInPlace(g, x) == [off |-> g.off, len |-> Less(g.len, x.len)]

Remainder(g, x) ==
  LET left  == [off |-> g.off,    len |-> Less(x.off, g.off)]
      right == [off |-> EndOf(x), len |-> Less(EndOf(g), EndOf(x))]
  IN IF left.len >= right.len THEN left ELSE right

\* mutant: only the slot of the block's own class is looked at
HintCarveOneBin(h, x, tot) ==
  [k \in Slot |-> IF h[k].len = 0 \/ Disjoint(h[k], x) \/ k \notin BinOf(x.len) THEN h[k]
                  ELSE Recorded(Remainder(h[k], x), tot)]

HintCarve(h, x, tot) ==
  [k \in Slot |-> IF h[k].len = 0 \/ Disjoint(h[k], x) THEN h[k]
                  ELSE Recorded(Remainder(h[k], x), tot)]

HintSlots(r, bytes) ==
  {k \in Slot : /\ \E b \in BinOf(bytes) : b <= k
                /\ hints[r][k].len >= bytes
                /\ GapAcceptable(hints[r][k].len, bytes, RegMax[r])}

HintCut(r, bytes) ==
  {Cut(hints[r][k], bytes, RegMax[r]) :
     k \in {s \in HintSlots(r, bytes) : \A j \in HintSlots(r, bytes) : s <= j}}

-----------------------------------------------------------------------------
(* The table.  A full dynamic table moves down by Delta, and the last       *)
(* region gives that tail up, when the tail and the candidate allow it.     *)

\* mutant: the table may take more than the last region has
CanGrowPast(x) ==
  /\ Dynamic
  /\ cap + DescChunk <= MaxDesc
  /\ Delta <= arenaEnd
  /\ \A b \in blocks : EndOf(b) <= arenaEnd - Delta
  /\ EndOf(x) <= arenaEnd - Delta

CanGrowFor(x) ==
  /\ Dynamic
  /\ cap + DescChunk <= MaxDesc
  /\ Delta <= arenaEnd /\ Delta <= total[Last]
  /\ \A b \in blocks : EndOf(b) <= arenaEnd - Delta
  /\ EndOf(x) <= arenaEnd - Delta

TableFull == Cardinality(blocks) >= cap

TableTakes(x) == TableFull => CanGrowFor(x)

(* The table's own guard: a range outside of the arena, or one that meets a *)
(* neighbour, is not inserted.                                              *)
InsertOk(x) == x.len > 0 /\ EndOf(x) <= arenaEnd /\ IsFree(blocks, x)

(* mxr_dram_desc_insert of x in region r, then the caller's bookkeeping; c  *)
(* is the cache as the searches of this request left it.                    *)
Place(r, x, c) ==
  LET eaten  == [off |-> arenaEnd - Delta, len |-> Delta]
      total1 == IF TableFull THEN [total EXCEPT ![Last] = @ - Delta] ELSE total
      free1  == IF TableFull THEN [free EXCEPT ![Last] = Less(@, Delta)] ELSE free
      cache1 == IF TableFull THEN [c EXCEPT ![Last] = {}] ELSE c
      hints1 == IF TableFull
                THEN [hints EXCEPT ![Last] = HintCarve(@, eaten, total1[Last])] ELSE hints
  IN /\ blocks' = blocks \cup {x}
     /\ arenaEnd' = IF TableFull THEN arenaEnd - Delta ELSE arenaEnd
     /\ cap' = IF TableFull THEN cap + DescChunk ELSE cap
     /\ total' = total1
     /\ free' = [free1 EXCEPT ![r] = Less(@, x.len)]
     /\ cache' = [cache1 EXCEPT ![r] = {}]
     /\ hints' = [hints1 EXCEPT ![r] = HintCarve(@, x, total1[r])]
     /\ UNCHANGED broken

(* Enough slack after a free: one chunk of the table returns to the arena.  *)
\* mutant: one spare slot more
TableSlackLate(B) ==
  Dynamic /\ cap > InitCap /\ cap - Cardinality(B) > 2 * DescChunk

TableSlack(B) ==
  Dynamic /\ cap > InitCap /\ cap - Cardinality(B) >= 2 * DescChunk

-----------------------------------------------------------------------------
(* Searches of one region.  A region is passed over without a scan when its *)
(* free bytes or its valid cache rule the request out.                      *)

\* mutant: a region with just enough free bytes is passed over
EligibleMore(r, bytes) == free[r] > bytes /\ \A n \in cache[r] : n >= bytes

Eligible(r, bytes) == free[r] >= bytes /\ \A n \in cache[r] : n >= bytes

Find(r, bytes) == FindBestFree(blocks, RegStart[r], RegEnd(r), bytes, RegMax[r])
Learnt(r, bytes) == LearntLargest(blocks, RegStart[r], RegEnd(r), bytes)

(* The region of the request's own class: recorded gaps, then the scan. *)
OwnFinds(r, bytes) ==
  IF ~Eligible(r, bytes) THEN {}
  ELSE IF HintCut(r, bytes) # {} THEN HintCut(r, bytes)
  ELSE Find(r, bytes)

OwnCache(r, bytes) ==
  IF Eligible(r, bytes) /\ HintCut(r, bytes) = {} THEN Learnt(r, bytes) ELSE cache[r]

(* Another region: no recorded gaps, but the guards of the crossing. *)
CrossAllowed(r, bytes) ==
  /\ Eligible(r, bytes)
  /\ \/ GuardNum = 0 \/ RegMax[r] = Unlimited
     \/ bytes <= (RegMax[r] * GuardNum) \div GuardDen
  /\ MinDiv = 0 \/ bytes >= RegMin[r] \div MinDiv

CrossFinds(r, bytes) == IF CrossAllowed(r, bytes) THEN Find(r, bytes) ELSE {}

CrossCache(r, bytes) == IF CrossAllowed(r, bytes) THEN Learnt(r, bytes) ELSE cache[r]

(* Regions are crossed into away from the nearer end of the list first. *)
Before(own, i, j) ==
  IF own < NRegions \div 2
  THEN (i > own /\ (j < own \/ i < j)) \/ (i < own /\ j < own /\ j < i)
  ELSE (i < own /\ (j > own \/ j < i)) \/ (i > own /\ j > own /\ i < j)

-----------------------------------------------------------------------------
(* mxr_malloc_caps_locked, DRAM part: the block lands in its own region, in *)
(* the first other region that takes it, or nowhere.                        *)

Lands(x) == InsertOk(x) /\ TableTakes(x)

OwnFails(own, bytes) == \A x \in OwnFinds(own, bytes) : ~Lands(x)
CrossFails(r, bytes) == \A x \in CrossFinds(r, bytes) : ~Lands(x)

TakeOwn(own, bytes, x) ==
  /\ IsOwn(own, bytes)
  /\ x \in OwnFinds(own, bytes) /\ Lands(x)
  /\ Place(own, x, cache)

TakeCross(own, r, bytes, x) ==
  /\ IsOwn(own, bytes) /\ OwnFails(own, bytes)
  /\ CrossEnabled /\ r # own
  /\ x \in CrossFinds(r, bytes) /\ Lands(x)
  /\ \A q \in Region \ {own} : Before(own, q, r) => CrossFails(q, bytes)
  /\ Place(r, x, [q \in Region |-> IF q = own THEN OwnCache(q, bytes)
                                   ELSE IF Before(own, q, r) THEN CrossCache(q, bytes)
                                   ELSE cache[q]])

Refuse(own, bytes) ==
  /\ IsOwn(own, bytes) /\ OwnFails(own, bytes)
  /\ CrossEnabled => \A q \in Region \ {own} : CrossFails(q, bytes)
  /\ cache' = [q \in Region |-> IF q = own THEN OwnCache(q, bytes)
                                ELSE IF CrossEnabled THEN CrossCache(q, bytes)
                                ELSE cache[q]]
  /\ UNCHANGED <<blocks, broken, arenaEnd, cap, total, free, hints>>

(* Some block x is handed out for a request of that many bytes. *)
Take(bytes, x) ==
  \E own \in Region : \/ TakeOwn(own, bytes, x)
                      \/ \E r \in Region : TakeCross(own, r, bytes, x)

(* The extents a request can be answered with, for bounded quantification.  *)
Answers(bytes) == UNION {OwnFinds(r, bytes) \cup CrossFinds(r, bytes) : r \in Region}

-----------------------------------------------------------------------------
(* mxr_free_locked on a live block: a broken canary keeps the block where   *)
(* it is, so that only blocks with whole canaries are released.             *)

IntactUnchecked(b) == b \in blocks     \* mutant: the canary is not looked at
Intact(b) == b \in blocks /\ b.off \notin broken

\* mutant: the last region does not get its bytes back
GiveBackNoTotal(rest, free1, cache1, hints1) ==
  /\ arenaEnd' = arenaEnd + Delta
  /\ cap' = cap - DescChunk
  /\ cache' = [cache1 EXCEPT ![Last] = {}]
  /\ free' = free1 /\ hints' = hints1
  /\ UNCHANGED total

\* mutant: the largest-gap cache of the last region survives
GiveBackKeepsCache(rest, free1, cache1, hints1) ==
  /\ arenaEnd' = arenaEnd + Delta
  /\ cap' = cap - DescChunk
  /\ total' = [total EXCEPT ![Last] = @ + Delta]
  /\ free' = [free1 EXCEPT ![Last] = Capped(@ + Delta, total[Last] + Delta)]
  /\ cache' = cache1 /\ hints' = hints1

\* mutant: free bytes are capped before the region has grown
GiveBackCapsEarly(rest, free1, cache1, hints1) ==
  /\ arenaEnd' = arenaEnd + Delta
  /\ cap' = cap - DescChunk
  /\ total' = [total EXCEPT ![Last] = @ + Delta]
  /\ free' = [free1 EXCEPT ![Last] = Capped(@ + Delta, total[Last])]
  /\ cache' = [cache1 EXCEPT ![Last] = {}] /\ hints' = hints1

GiveBackChunk(rest, free1, cache1, hints1) ==
  /\ arenaEnd' = arenaEnd + Delta
  /\ cap' = cap - DescChunk
  /\ total' = [total EXCEPT ![Last] = @ + Delta]
  /\ free' = [free1 EXCEPT ![Last] = Capped(@ + Delta, total[Last] + Delta)]
  /\ cache' = [cache1 EXCEPT ![Last] = {}]
  /\ \E g \in Gaps(rest, RegStart[Last], RegEnd(Last) + Delta) :
       /\ EndOf(g) = RegEnd(Last) + Delta
       /\ hints' = [hints1 EXCEPT ![Last] = HintStore(@, g, total[Last] + Delta)]

Release(b) ==
  LET rest == blocks \ {b} IN
  /\ Intact(b)
  /\ \E r \in Region : \E g \in Gaps(rest, RegStart[r], RegEnd(r)) :
       LET free1  == [free EXCEPT ![r] = Capped(@ + b.len, total[r])]
           cache1 == [cache EXCEPT ![r] = {}]
           hints1 == [hints EXCEPT ![r] = HintStore(@, g, total[r])]
       IN /\ InRegion(r, b.off)
          /\ g.off <= b.off /\ EndOf(b) <= EndOf(g)
          /\ IF TableSlack(rest)
             THEN GiveBackChunk(rest, free1, cache1, hints1)
             ELSE /\ free' = free1 /\ cache' = cache1 /\ hints' = hints1
                  /\ UNCHANGED <<arenaEnd, cap, total>>
  /\ blocks' = rest
  /\ UNCHANGED broken

-----------------------------------------------------------------------------
(* mxr_realloc_caps in place. *)

Resized(b, bytes) == (blocks \ {b}) \cup {[off |-> b.off, len |-> bytes]}

Shrink(b, bytes) ==
  /\ Intact(b)
  /\ bytes < b.len /\ ~IsSliver(b.len - bytes)
  /\ \E r \in Region : \E g \in Gaps(Resized(b, bytes), RegStart[r], RegEnd(r)) :
       /\ InRegion(r, b.off) /\ SizeOk(r, bytes)
       /\ g.off = b.off + bytes
       /\ free' = [free EXCEPT ![r] = Capped(@ + (b.len - bytes), total[r])]
       /\ cache' = [cache EXCEPT ![r] = {}]
       /\ hints' = [hints EXCEPT ![r] = HintStore(@, g, total[r])]
  /\ blocks' = Resized(b, bytes)
  /\ UNCHANGED <<broken, arenaEnd, cap, total>>

(* The gap right behind b in its region, when b may grow to bytes there. *)
\* mutant: the room is not clipped at the region's border
RoomToArenaEnd(r, b, bytes) ==
  {g \in Gaps(blocks, RegStart[r], arenaEnd) :
     /\ SizeOk(r, bytes)
     /\ g.off = EndOf(b) /\ b.len + g.len >= bytes}

\* mutant: the neighbour is not looked at
RoomBehindBlind(r, b, bytes) ==
  {g \in {[off |-> EndOf(b), len |-> RegEnd(r) - EndOf(b)]} :
     /\ SizeOk(r, bytes)
     /\ b.len + g.len >= bytes}

RoomBehind(r, b, bytes) ==
  {g \in Gaps(blocks, RegStart[r], RegEnd(r)) :
     /\ SizeOk(r, bytes)
     /\ g.off = EndOf(b) /\ b.len + g.len >= bytes}

Extend(b, bytes) ==
  /\ Intact(b)
  /\ b.len < bytes
  /\ \E r \in Region : \E g \in RoomBehind(r, b, bytes) :
       LET len == CutLen(b.len + g.len, bytes, RegMax[r])
           add == [off |-> EndOf(b), len |-> len - b.len]
       IN /\ InRegion(r, b.off)
          /\ blocks' = Resized(b, len)
          /\ free' = [free EXCEPT ![r] = Less(@, add.len)]
          /\ cache' = [cache EXCEPT ![r] = {}]
          /\ hints' = [hints EXCEPT ![r] = HintCarve(@, add, total[r])]
  /\ UNCHANGED <<broken, arenaEnd, cap, total>>

(* The application writes past the payload of a block (or of its neighbour) *)
(* and destroys the canary words of b.                                      *)
Overrun(b) ==
  /\ Canary /\ b \in blocks
  /\ broken' = broken \cup {b.off}
  /\ UNCHANGED <<blocks, arenaEnd, cap, total, free, cache, hints>>

(* A status report computes the largest-gap caches of all regions; one on a *)
(* single region computes that region's, unless it is valid.                *)
Inspect(R) ==
  /\ R = Region \/ \E r \in Region : R = {r} /\ cache[r] = {}
  /\ cache' = [r \in Region |-> IF r \in R THEN LargestGap(blocks, RegStart[r], RegEnd(r))
                               ELSE cache[r]]
  /\ UNCHANGED <<blocks, broken, arenaEnd, cap, total, free, hints>>

-----------------------------------------------------------------------------

Next ==
  \/ \E bytes \in Requests : \E x \in Answers(bytes) : Take(bytes, x)
  \/ \E bytes \in Requests : \E own \in Region : Refuse(own, bytes)
  \/ \E b \in blocks : Release(b)
  \/ \E b \in blocks : \E bytes \in Requests : Shrink(b, bytes)
  \/ \E b \in blocks : \E bytes \in Requests : Extend(b, bytes)
  \/ \E b \in blocks : Overrun(b)
  \/ \E R \in SUBSET Region : Inspect(R)

Spec == Init /\ [][Next]_arenaVars

-----------------------------------------------------------------------------
(* Properties. *)

(* Every variable keeps its type. *)
TypeOK ==
  /\ blocks \subseteq Extent /\ IsFiniteSet(blocks)
  /\ broken \subseteq Nat
  /\ arenaEnd \in Nat /\ cap \in Nat
  /\ total \in [Region -> Nat] /\ free \in [Region -> Nat]
  /\ cache \in [Region -> SUBSET Nat]
  /\ hints \in [Region -> [Slot -> Extent]]

(* Regions tile [0, arenaEnd) and a dynamic table fills the rest, through    *)
(* every growth and shrinking of the table.                                 *)
ArenaTiled ==
  /\ \A r \in Region : RegEnd(r) = IF r = Last THEN arenaEnd ELSE RegStart[r + 1]
  /\ Dynamic => arenaEnd + cap * DescSize = RawEnd

(* No two live blocks share a byte and no block crosses a region's border,  *)
(* so none reaches into the descriptor table: the ground of free-by-offset. *)
BlocksSeparate ==
  /\ \A b, c \in blocks : b # c => Disjoint(b, c)
  /\ \A b \in blocks : b.len > 0 /\ \E r \in Region : Within(r, b)

(* A recorded gap (hint or bin slot) is free and inside its region: a block *)
(* is cut from it without looking at the table.                             *)
HintSound ==
  \A r \in Region : \A k \in Slot :
    hints[r][k].len > 0 => Within(r, hints[r][k]) /\ IsFree(blocks, hints[r][k])

(* No search, by scan or from a record, ever comes up with a range that the *)
(* table's guard against overlaps must refuse (desc_insert_fail_* stay 0).  *)
InsertsPass ==
  \A bytes \in Requests : \A x \in Answers(bytes) : InsertOk(x)

(* A valid largest-gap cache is exact, whatever mix of scans, allocations,  *)
(* frees and table moves ran since it was computed.                         *)
CacheExact ==
  \A r \in Region : cache[r] # {} =>
    cache[r] = LargestGap(blocks, RegStart[r], RegEnd(r))

(* The table never holds more blocks than slots, and a dynamic table never  *)
(* keeps two spare chunks: what 2 * CHUNK of hysteresis promises.           *)
TableFits ==
  /\ Cardinality(blocks) <= cap /\ cap <= MaxDesc
  /\ InitCap <= cap
  /\ cap = InitCap \/ cap - Cardinality(blocks) < 2 * DescChunk

(* The free bytes of a region, kept by saturating additions, are exactly    *)
(* those that no block takes: no step of a growing or shrinking table, of   *)
(* an expansion or of an in-place realloc is lost or counted twice.         *)
FreeExact ==
  \A r \in Region : free[r] = Cardinality(FreeBytes(blocks, RegStart[r], RegEnd(r)))

(* With a free table slot, a request is found a place in its own region     *)
(* whenever the region has that many free bytes in a row: the free-bytes    *)
(* and cache shortcuts never turn a request away wrongly.                   *)
NoFalseRefusal ==
  \A bytes \in Requests : \A r \in Region :
    /\ IsOwn(r, bytes) /\ ~TableFull
    /\ \E a \in RegStart[r] .. (RegEnd(r) - bytes) :
         IsFree(blocks, [off |-> a, len |-> bytes])
    => OwnFinds(r, bytes) # {}

(* A block in a region with an upper class bound stays within the bound,    *)
(* although it may have come from another class, been expanded over a       *)
(* sliver or grown in place (for every guard preset but "All").             *)
ClassBound ==
  GuardNum > 0 =>
    \A b \in blocks : \A r \in Region :
      InRegion(r, b.off) /\ RegMax[r] # Unlimited => b.len <= RegMax[r]

(* A block whose canary was destroyed stays where it is and as long as it   *)
(* is: neither free nor realloc touches it again.                           *)
Quarantine ==
  [][\A b \in blocks : b.off \in broken => b \in blocks']_arenaVars

-----------------------------------------------------------------------------
(* What the documentation says of the quick-fit hint and of best fit.       *)

(* The hint "caches the largest known gap": a recorded gap that stays free  *)
(* is not replaced by a shorter one.                                        *)
HintKeepsLargest ==
  [][\A r \in Region : \A k \in Slot :
       LET g == hints[r][k] IN
       g.len > 0 /\ IsFree(blocks', g) /\ hints'[r][k].len > 0
         => hints'[r][k].len >= g.len]_arenaVars

(* Without early exit the search is "a strict best-fit full scan": a block  *)
(* is cut from a shortest of the gaps that hold it.                         *)
StrictBestFit ==
  [][~EarlyExit => \A bytes \in Requests : \A own \in Region : \A x \in OwnFinds(own, bytes) :
       TakeOwn(own, bytes, x) =>
         \E g \in Gaps(blocks, RegStart[own], RegEnd(own)) :
           /\ g.off <= x.off /\ EndOf(x) <= EndOf(g)
           /\ \A h \in Fitting(blocks, RegStart[own], RegEnd(own), bytes) : g.len <= h.len]_arenaVars

=============================================================================
