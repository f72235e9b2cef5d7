------------------------------ MODULE MxrRegions ------------------------------
(***************************************************************************)
(* The start: the arenas are measured, the table and the EXEC zone get     *)
(* their bytes, and the configured list "min-percent%,..." becomes the     *)
(* regions of the rest, or one flat region when the list is no good.  The  *)
(* DRAM arena and the fallback zone of the IRAM arena each have a list.    *)
(*                                                                         *)
(* Regions are carved one after the other out of what remains; a list that *)
(* proves impossible half way leaves carved regions behind, which the      *)
(* fallback must wipe.                                                     *)
(***************************************************************************)
EXTENDS Integers, Sequences

CONSTANTS
  Align,        \* MXR_ALIGN_SIZE
  MaxRegions,   \* MXR_ACTIVE_TOTAL_REGIONS, MXR_IRAM_FB_REGION_COUNT
  ClassLimit,   \* largest boundary that mxr_class_t holds (compact types)
  TableInit,    \* bytes of the first dynamic table; 0 when it is static
  DramSpare,    \* 512: least room beside a dynamic table
  IramSpare,    \* 256: the same in IRAM
  DramMost,     \* MXR_MAX_ARENA_BYTES: a larger arena is not used
  IramLeast,    \* 512: an IRAM arena must be larger
  IramMost,     \* 0x10000: and smaller than this
  Arenas,       \* bytes between the linker's bounds: multiples of Align
  Reserves,     \* CONFIG_MXR_IRAM_RESERVE_BYTES
  Configs       \* lists of [min, percent]

ASSUME StartAssumption ==
  /\ Align \in Nat \ {0} /\ MaxRegions \in Nat \ {0} /\ ClassLimit \in Nat
  /\ TableInit \in Nat /\ TableInit % Align = 0
  /\ DramSpare \in Nat /\ IramSpare \in Nat
  /\ DramMost \in Nat /\ IramLeast \in Nat /\ IramMost \in Nat
  /\ \A a \in Arenas : a \in Nat /\ a % Align = 0
  /\ Reserves \subseteq Nat
  /\ Configs \subseteq Seq([min : Nat, percent : Nat])

VARIABLES
  build,      \* whose start: DRAM, or IRAM with fallback regions, as one EXEC
              \* zone, or cut down to the reserved EXEC zone
  raw,        \* bytes between the bounds
  total,      \* s_arena_total_bytes, s_iram_total_bytes
  base,       \* 0 in DRAM, s_iram_fb_zone_start in IRAM
  arena,      \* bytes for regions: s_arena_total_bytes, s_iram_fb_zone_total
  cfg,        \* the configured list
  phase,      \* "bounds", "check", "carve", "done", or "off": no such heap
  remaining,  \* remaining_bytes
  regions,    \* s_region[0 .. s_region_count), s_iram_fb_region[...]
  fallback    \* region_init_fallback, iram_fb_region_init_fallback

regionVars == <<build, raw, total, base, arena, cfg, phase, remaining, regions, fallback>>

Unlimited == 0

Init ==
  /\ build \in {"dram", "fallback", "whole", "reserved"}
  /\ raw \in Arenas
  /\ cfg \in IF build \in {"dram", "fallback"} THEN Configs ELSE {<<>>}
  /\ phase = "bounds"
  /\ total = 0 /\ base = 0 /\ arena = 0 /\ remaining = 0
  /\ regions = <<>> /\ fallback = FALSE

-----------------------------------------------------------------------------

AlignDown(n) == (n \div Align) * Align     \* mutant
AlignUp(n) == ((n + Align - 1) \div Align) * Align

PercentOf(n, p) == (n \div 100) * p + ((n % 100) * p) \div 100

Count == Len(cfg)

(* Boundaries are aligned; a class ends where the next one begins. *)
MinOf(j) == IF AlignUp(cfg[j].min) < Align THEN Align ELSE AlignUp(cfg[j].min)
MaxTouches(j) == IF j = Count THEN Unlimited ELSE MinOf(j + 1)     \* mutant: off by one
MaxOf(j) == IF j = Count THEN Unlimited ELSE MinOf(j + 1) - 1

PercentSum[j \in Nat] == IF j = 0 THEN 0 ELSE PercentSum[j - 1] + cfg[j].percent

(* The parser takes a percentage up to 100, a boundary that the class type  *)
(* holds once aligned, and as many entries as there is room for.            *)
Parses ==
  /\ Count <= MaxRegions
  /\ \A j \in 1 .. Count : cfg[j].percent <= 100 /\ MinOf(j) <= ClassLimit

(* A list of one entry is checked in IRAM; in DRAM it means one flat region. *)
MeansFlat == Count = 0 \/ (build = "dram" /\ Count = 1)

Acceptable ==
  /\ MinOf(1) <= Align
  /\ \A j \in 2 .. Count : MinOf(j) > MinOf(j - 1)
  /\ PercentSum[Count] <= 100
  /\ \A j \in 1 .. (Count - 1) : cfg[j].percent > 0

Flat == <<[start |-> base, total |-> arena, min |-> Align, max |-> Unlimited]>>

(* The bytes region j asks for: its share rounded up, and never less than   *)
(* one block of its class.                                                  *)
Share(j) ==
  IF j = Count /\ cfg[j].percent = 0 THEN remaining
  ELSE AlignUp(PercentOf(arena, cfg[j].percent))

WantedShare(j) == Share(j)     \* mutant: a region may be smaller than its blocks
Wanted(j) == IF Share(j) < MinOf(j) THEN MinOf(j) ELSE Share(j)

-----------------------------------------------------------------------------

(* A dynamic table takes the end of the arena, if enough is left beside it. *)
Measured(spare) ==
  IF TableInit = 0 THEN {raw} ELSE IF raw <= TableInit + spare THEN {} ELSE {raw - TableInit}

DramSizes == {n \in Measured(DramSpare) : n > 0 /\ raw <= DramMost}

DramBounds ==
  /\ phase = "bounds" /\ build = "dram"
  /\ \E n \in DramSizes :
       /\ total' = n /\ arena' = n /\ remaining' = n
       /\ phase' = "check"
  /\ UNCHANGED <<build, raw, base, cfg, regions, fallback>>

(* The EXEC zone comes first; regions share what is behind it. *)
IramSizes == {n \in Measured(IramSpare) : IramLeast < n /\ n < IramMost}

ZoneStart(n, reserve) == IF AlignUp(reserve) >= n THEN n ELSE AlignUp(reserve)

IramWithRegions ==
  /\ phase = "bounds" /\ build = "fallback"
  /\ \E n \in IramSizes, reserve \in Reserves :
       LET start == ZoneStart(n, reserve) IN
       /\ total' = n /\ base' = start
       /\ arena' = n - start /\ remaining' = n - start
       /\ phase' = IF n = start THEN "done" ELSE "check"
  /\ UNCHANGED <<build, raw, cfg, regions, fallback>>

(* Without fallback the zone is the arena, or the arena is cut to the zone. *)
IramExecOnly ==
  /\ phase = "bounds" /\ build \in {"whole", "reserved"}
  /\ \E n \in IramSizes, reserve \in Reserves :
       LET kept == IF build = "whole" THEN n ELSE ZoneStart(n, reserve) IN
       /\ kept > 0
       /\ total' = kept /\ base' = kept
       /\ phase' = "done"
  /\ UNCHANGED <<build, raw, arena, cfg, remaining, regions, fallback>>

NoHeap ==
  /\ phase = "bounds"
  /\ \/ build = "dram" /\ DramSizes = {}
     \/ build # "dram" /\ IramSizes = {}
     \/ build = "reserved" /\ 0 \in Reserves
  /\ phase' = "off"
  /\ UNCHANGED <<build, raw, total, base, arena, cfg, remaining, regions, fallback>>

\* mutant: regions carved before the list failed are left behind
FallBackUnwiped ==
  /\ regions' = regions \o Flat /\ fallback' = TRUE
  /\ phase' = "done"
  /\ UNCHANGED <<build, raw, total, base, arena, cfg, remaining>>

FallBack ==
  /\ regions' = Flat /\ fallback' = TRUE
  /\ phase' = "done"
  /\ UNCHANGED <<build, raw, total, base, arena, cfg, remaining>>

OneRegion ==
  /\ phase = "check" /\ Parses /\ MeansFlat
  /\ regions' = Flat
  /\ phase' = "done"
  /\ UNCHANGED <<build, raw, total, base, arena, cfg, remaining, fallback>>

Reject ==
  /\ phase = "check"
  /\ ~Parses \/ (~MeansFlat /\ ~Acceptable)
  /\ FallBack

Accept ==
  /\ phase = "check" /\ Parses /\ ~MeansFlat /\ Acceptable
  /\ phase' = "carve"
  /\ UNCHANGED <<build, raw, total, base, arena, cfg, remaining, regions, fallback>>

Carve ==
  LET j == Len(regions) + 1 IN
  /\ phase = "carve" /\ j <= Count
  /\ Wanted(j) <= remaining
  /\ regions' = Append(regions, [start |-> base + (arena - remaining), total |-> Wanted(j),
                                 min |-> MinOf(j), max |-> MaxOf(j)])
  /\ remaining' = remaining - Wanted(j)
  /\ UNCHANGED <<build, raw, total, base, arena, cfg, phase, fallback>>

\* mutant: compared with the whole arena
TooLargeForArena ==
  LET j == Len(regions) + 1 IN
  /\ phase = "carve" /\ j <= Count
  /\ Wanted(j) > arena
  /\ FallBack

TooLarge ==
  LET j == Len(regions) + 1 IN
  /\ phase = "carve" /\ j <= Count
  /\ Wanted(j) > remaining
  /\ FallBack

(* What is left over goes to the last region. *)
Finish ==
  /\ phase = "carve" /\ Len(regions) = Count
  /\ regions' = [regions EXCEPT ![Count].total = @ + remaining]
  /\ phase' = "done"
  /\ UNCHANGED <<build, raw, total, base, arena, cfg, remaining, fallback>>

Next ==
  \/ DramBounds \/ IramWithRegions \/ IramExecOnly \/ NoHeap
  \/ OneRegion \/ Reject \/ Accept \/ Carve \/ TooLarge \/ Finish

Spec == Init /\ [][Next]_regionVars /\ WF_regionVars(Next)

-----------------------------------------------------------------------------
(* Properties. *)

Done == phase = "done"

(* Whatever the list, the allocator starts with regions that tile what the  *)
(* EXEC zone leaves of the arena, in address order and each large enough    *)
(* for a block of its class; only an arena that is all EXEC zone has none.  *)
RegionsTileArena ==
  Done =>
    LET n == Len(regions) IN
    /\ base + arena = total /\ total + TableInit <= raw /\ base % Align = 0
    /\ n = 0 <=> arena = 0
    /\ n > 0 => regions[1].start = base /\ regions[n].start + regions[n].total = total
    /\ \A j \in 1 .. (n - 1) : regions[j + 1].start = regions[j].start + regions[j].total
    /\ \A j \in 1 .. n : regions[j].total >= regions[j].min

(* Every block length has exactly one region of its own class: the search   *)
(* of malloc takes the first and fails when there is none.                  *)
TakesSize(r, bytes) == r.min <= bytes /\ (r.max = Unlimited \/ bytes <= r.max)

OneHomePerSize ==
  Done => \A k \in 1 .. (arena \div Align) :
            \E j \in 1 .. Len(regions) :
              /\ TakesSize(regions[j], k * Align)
              /\ \A i \in 1 .. Len(regions) : TakesSize(regions[i], k * Align) => i = j

(* The layout is what the models of the arenas assume of it                 *)
(* (LayoutAssumption, IramLayoutAssumption): the DRAM heap has a region,    *)
(* regions are in address order, and classes follow one another without a   *)
(* hole from the smallest block up, the last one without a bound.           *)
LayoutAsAssumed ==
  Done =>
    LET n == Len(regions) IN
    /\ build = "dram" => base = 0 /\ n > 0
    /\ IF n = 0 THEN base = total ELSE base < total
    /\ n > 0 => regions[1].start = base /\ regions[1].min <= Align
    /\ \A i, j \in 1 .. n : i < j => regions[i].start <= regions[j].start
    /\ \A j \in 1 .. n : regions[j].start <= total /\ (regions[j].max = Unlimited <=> j = n)
    /\ \A j \in 1 .. (n - 1) : /\ regions[j].min <= regions[j].max
                              /\ regions[j + 1].min = regions[j].max + 1

(* No region of an accepted list is smaller than its percentage, although   *)
(* shares are rounded and taken from what remains.                          *)
SharesKept ==
  Done /\ ~fallback /\ arena > 0 /\ ~MeansFlat =>
    \A j \in 1 .. Count : regions[j].total * 100 >= cfg[j].percent * arena - 100

(* mxr_init comes to an end, with bytes to allocate from when it reports    *)
(* that there is a heap.                                                    *)
StartEnds == <>(phase = "off" \/ (Done /\ total > 0))

(* The rules the documentation gives for a list: boundaries increase, the   *)
(* percentages sum up to 100 at most, only the last may be 0; and, to be    *)
(* fair, every share can hold one block of its class.                       *)
Documented ==
  /\ Parses /\ Count >= 2 /\ Acceptable
  /\ \A j \in 1 .. (Count - 1) : PercentOf(arena, cfg[j].percent) >= MinOf(j)
  /\ arena - PercentOf(arena, PercentSum[Count - 1]) >= 2 * MinOf(Count)

(* A list for the DRAM arena that obeys the documented rules is honoured    *)
(* (mxr_init_regions_exact).                                                *)
DocumentedListHonoured == build = "dram" /\ Documented => ~fallback

=============================================================================
