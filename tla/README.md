# Verification of mxr_malloc

TLA+ models of the `mxr_malloc` heap allocator (`src/mxr_malloc/mxr_malloc.c`,
`src/mxr_malloc/include/mxr_malloc.h`), TLC runs over small instances, and
TLAPS proofs for every value of the constants.

Line numbers below are those of `mxr_malloc.c` unless another file is named.

## 1. The system

`mxr_malloc` replaces the heap of an ESP8266 firmware. It manages up to two
arenas, keeps all of its metadata outside of the blocks, and runs each operation
with interrupts off (`mxr_lock`/`mxr_unlock`, 42-51), so that a locked section is
atomic. What is *not* atomic is a call that takes the lock twice, or works on
memory after it has released it.

| Component | State | Operations | Properties that make it correct |
| --- | --- | --- | --- |
| Descriptor array (316-482) | sorted array of `(off, len)`, count, capacity | bisect, insert with overlap guards, remove, set length | sorted, disjoint; a lookup finds exactly the live offsets; guard lets in exactly free ranges |
| Dynamic table (1536-1682) | array placed in the arena's tail, `s_dram_desc_cap`, `s_arena_total_bytes` | grow on a full insert, shrink after a free | arena + table tile the raw memory; table never covers a block; hysteresis; the last region's counters, cache and hints follow |
| Regions and size classes (776-980) | `start/total/free/min/max` per region, largest-gap cache | own region of a size, region of an offset, account | regions tile the arena; free bytes exact; valid cache exact; class bound kept |
| Best-fit scan (1840-2001) and acceptance rules (1001-1066) | none | search one region | finds what best fit / early exit / big-gap guard say; learns the largest gap only on a full pass |
| Quick-fit hint / bins (1086-1416) | one recorded gap per region, or one per bin | try, carve on allocation, store on free | a recorded gap is free and inside the region whenever it is used |
| Canary (1421-1466) | a word at each end of a block | write, check, report | a block found broken is never touched again |
| Double-free ring (1471-1524) | ring of recent frees | push, classify | a repeated free within the ring is classified; nothing else changes |
| Allocation (2005-2076, 3149-3249, 3334-3501) | - | own region, crossing to other regions, IRAM before or after | block really free; no wrong refusal; failed attempts leave exact caches |
| Free (3506-3614), realloc in place (3745-3846) | - | release, shrink, grow | as above |
| Public API (3619-3681, 3686-4063) | what a task does outside the lock | malloc, calloc, zalloc, realloc, free | memory copied or cleared outside the lock stays allocated; a moving realloc leaves one block |
| Start: `mxr_init` (4386-4526), `mxr_init_iram` (2994-3144), region layouts (2829-2976, 4068-4370) | bounds, `s_region[]`, `s_iram_fb_region[]` | measure, parse, validate, carve, fall back | regions tile what table and EXEC zone leave, one class per size, shares kept |
| IRAM arena (484-770, 1684-1827, 2080-2823, 3259-3330, 3873-4027) | a second table, EXEC zone `[0, reserve)`, fallback zone with its own regions, four kinds of free counters | first fit for EXEC, best fit from the top for fallback, own growth of the table, resize in place | zones never overlap; counters agree; caches exact; the limit on fallback blocks holds; the tail stays free for the table |
| Routing by capabilities (796-801, 2735-2791, 3382-3501, 3898-3914) | - | EXEC, word- and byte-accessed requests, PREFER_IRAM, order of arenas, moves between arenas | a block lies only where the capabilities last asked of it are, also after realloc |
| Queries, status (4528-5197) | fills caches on the way; low watermarks | largest block, free size, status | the reported block can really be allocated; caches stay exact; the watermark is a minimum of what the query answers |
| Dump (5202-5528) | `s_dump_in_progress`, static buffers, a snapshot block | begin, allocate, collect, print, free, end | one at a time; nothing left behind |
| Wrappers (`mxr_heap_wrap.c`, `mxr_heap_port.c`, `mxr_heap_compat.c`) | none | forward libc / `heap_caps_*` calls | - |

How they interact: a request goes routing -> own region (hint, then scan) ->
crossing -> descriptor insertion, which may move the table and so change the
last region -> hint carving -> accounting. A free goes lookup -> canary ->
removal -> hint store -> accounting -> possible shrink of the table, which changes
the last region once more. Every one of these steps writes state that the next
request reads without checking it again: the recorded gap is cut without a look
at the table, the cache refuses requests without a scan, the free counter
saturates instead of failing. A request whose capabilities allow both arenas goes
through one of them completely, with all that its failed searches leave in the
caches, before the other is tried.

Hard behaviours, each listed under `hazards` in `PROJECT.json` at its line:
stale recorded gaps and caches; a table that moves in the middle of an insertion;
an insertion that fails after the caches were written; lengths changed by
anti-sliver expansion; bisection boundaries; two-section calls interleaved with
other tasks; a broken canary found between the two sections of a realloc; region
shares whose rounding exceeds the arena; a second table that wants the bytes which
the fallback zone hands out first; blocks that a realloc with other capabilities
must move to the other arena; dumps that share static buffers.

## 2. The modules

    MxrGaps                    gaps of a set of blocks; acceptance rules; best fit
      |-- MxrDram              the DRAM arena: one action per locked section
      |     |-- MxrApi         tasks: calls of several sections, the dump
      |     |     `- refines MxrHeap     what the calls promise
      |     `-- MxrCaps        both arenas behind one malloc, realloc, free
      |           |- INSTANCE MxrIramProofs, that is MxrIram and its theorems
      |           |- refines MxrHeap
      |           `-- MxrPool  low watermark of the pool of both
      |-- MxrIram              the IRAM arena: one action per locked section
      `-- MxrTable             the array as an array
            `-- MxrScan        the scan loop over the array, against MxrGaps
    MxrRegions                 the start of both arenas
    MxrFreed                   verdicts on freed pointers, the double-free ring
    MCDram, MCIram, MCApi, MCCaps, MCPool, MCScan, MCRegions, MCFreed   instances

    MxrGapsProofs              lemmas about gaps, searches and lengths (no theorem of a run)
      |-- MxrDramProofs -- MxrApiProofs
      |     `-- MxrCapsProofs          also uses MxrIramProofs, through MxrCaps
      `-- MxrIramProofs
    MxrTableProofs                   about MxrTable and MxrScan, over the lemmas of MxrGapsProofs
    MxrRegionsProofs, MxrFreedProofs      each about its module

**MxrGaps.** The table as a *set* of extents `[off, len]`; a gap is a maximal free
range between two neighbours. `WasteLimit`, `IsSliver`, `BigGapRelaxed`,
`GapAcceptable`, `CutLen` are the acceptance rules; `FindBestFree` is the search of
one region as a definition (a set with no or one element), `LearntLargest` what
the search learns for the cache.

**MxrDram.** State: `blocks` (descriptors), `arenaEnd`, `cap` (where the table
starts and its slots), per region `total`, `free`, `cache` (empty when invalid),
`hints` (one slot, or one per bin), and `broken` (blocks whose canary words were
overwritten). Actions: `TakeOwn`, `TakeCross`, `Refuse` are the three outcomes of
`mxr_malloc_caps_locked`, with everything the failed attempts on the way wrote
to the caches; `Place` is `mxr_dram_desc_insert`, growth of the table included,
followed by the caller's bookkeeping; `Release` is `mxr_free_locked` with the
possible shrink of the table (`GiveBackChunk`); `Shrink` and `Extend` are realloc
in place; `Overrun` is the application destroying a canary; `Inspect` is a
report that fills in caches.

A growth of the table changes four things of the last region before the block is
accounted for, in the code and here: size, free bytes, cache, recorded gaps.
`Lands` says that the overlap guard passes and a full table can grow; the code
grows before it looks at the guard, which makes no difference because the guard
never refuses (`InsertsPass`, proved).

**MxrTable, MxrScan.** Why a set may stand for the array: bisection with the same
midpoints, the guard that looks at two neighbours only, the gap read off the
neighbours of a removed entry after the entries behind it have moved up (`FreedGap`, 3549-3554), and the scan loop with its early exits,
its separate copy of the rule for the tail and its two possible starts. `Passes` is the loop as a recursive
function of the entries passed, `Look` one look at a gap.

**MxrIram.** The IRAM arena in the manner of `MxrDram`: `execs` and `fbs` are the
descriptors with and without the EXEC flag, `iramEnd` and `icap` the table,
`zoneTotal` and `fbTotal` the sizes that its moves change, and
`execFree`, `iramFree`, `zoneFree`, `fbFree` the counters, each updated where the code
updates it (`IPlace` is the insertion with `mxr_iram_allocated`, `IRelease` the free with
`mxr_iram_released` and the shrink). What differs from DRAM is kept: no hints, the upper
edge of a gap (`FbCut`) unless it is the tail (`KeepsTail`), a search whose first found
region ends the crossing even when the table then refuses the block (`FbReached`, 3312-3328), caches of passed-over
regions left alone (`FbPassed`, 3277), EXEC blocks first fit without expansion.

**MxrCaps.** `MxrDram` extended and `MxrIram` instantiated over their own variables (by way of `MxrIramProofs`,
which adds theorems and no behaviour, so that they can be cited of the instance). A request is a set
of capabilities: `DramServes`, `FbServes`, `ExecServes` are the code's tests,
`FbFirst` the order; `AllocDram`, `AllocFb`, `AllocExec` are the three
places a block may come from, each with what a failed first attempt leaves in the other arena.
`moving` is the one realloc between its two sections, `asked` (history) the capabilities
last asked of each block. `Candidates` is the largest-block query with its own
version of the guards, `Status` and `QueryLargest` write caches.

**MxrPool** adds `s_dram_fb_min_free_bytes` and, as history, the least answer of the free-size query.

**MxrApi, MxrHeap.** `job[t]` is what task `t` does outside the lock: nothing,
clear a block (calloc, zalloc), copy `old` to `new` (realloc that moves), or one of the stages of a full dump:
snapshot to be allocated, to be filled, printed and freed, flag to be cleared. The
caller's contract is the one stated at 3862-3864: nobody else uses a pointer under
realloc; and nobody knows the new block yet. `MxrHeap` is the abstract promise, without
regions or tables: live ranges never share a byte, pinned ranges are not released
or resized. `HeapRefined` checks that every step maps to a step or a stutter, in `MxrApi` for
several tasks, in `MxrCaps` for both arenas in one address space.

**MxrRegions.** The start. The arena is measured (`DramBounds`, `IramWithRegions`, `IramExecOnly`, `NoHeap`), then
`Reject`, `Accept`, `OneRegion`, then `Carve` one region
per step, `TooLarge` or `Finish`. `build` tells whose start it is; the two arenas run the same
steps but for a list of one entry, which is checked in IRAM and means a flat region in DRAM. A list is abstract (boundary, percent); the
parser is represented by the limits it enforces.

**MxrFreed.** The arenas reduced to live blocks and the capacity of their tables, which says where each arena ends (`ArenaEnd`).
`Outside`, `Unknown`, `Quarantined`, `Release` are the four ends of `mxr_free_locked`: the pointer is in no arena as
the arenas are now (`Located`, that is `mxr_ptr_to_arena`, 288), no block starts there and the ring is asked, the canary is broken, the block is freed and the
table may shrink. `Allocate` takes any free range and grows a full table. `ring`, `pos`, `count` are the double-free ring,
`verdict` the counter that the last free incremented and for which pointer, `recent` (history) the blocks that the ring is meant to hold.

`PROJECT.json` maps each definition to its lines. In the modules an operator marked
`\* mutant` states a plausible bug (a missing reset, an off-by-one, a dropped
guard); exchanging it for the definition below it breaks the property it is
listed with, so that each property is known to depend on the code.

## 3. The runs

| Run | Instance | Checks |
| --- | --- | --- |
| `DramClasses` | three classes in 84 bytes, five slots, hint, early exit, big-gap guard, crossing with the 3/4 guard, a fourth length so that blocks shrink within the last class | `BlocksSeparate` `HintSound` `NoFalseRefusal` `ClassBound` `CacheExact` |
| `DramDynamic` | two classes in 60 bytes, table growing from one slot in the tail, three bins, no early exit, canaries | `TypeOK` `ArenaTiled` `TableFits` `CacheExact` `FreeExact` `HintSound` `InsertsPass` |
| `Iram` | EXEC zone of 16, two fallback regions, 52 bytes, table from 2 to 5 slots, limit of 16 on fallback blocks, canaries | `TypeOK` `IramTiled` `ZonesApart` `FbCacheExact` `CountersAgree` `FbLimitKept` `ITableFits` `TailKept` |
| `Caps` | two DRAM regions in 24 bytes, EXEC zone and two fallback regions in 36, static tables of 2 and 3, four kinds of requests, DRAM first | `PlacedAsAsked` `LargestServed` `HeapRefined` |
| `Api` | two tasks, two classes in 48 bytes, moving table, canaries, dumps | `JobSafe` `DumpAlone` `Quarantine` `HeapRefined` `NoBlockLeaks` `CallsEnd` |
| `Freed` | DRAM of 24 bytes with a table that grows from one slot, static IRAM with two of the same offsets, ring of three, pointers off the grid, into a head and behind the arenas | `JudgedByRecent` |
| `Table` | every array of up to four blocks in 28 bytes, every region in it | `Sorted` `FindsByOffset` `GuardIsExact` `ReleasedGapIsMaximal` `ScanIsSearch` |
| `RegionsStart` | both arenas, four builds, every list of up to three entries (and some of four), six sizes, three reserves | `RegionsTileArena` `OneHomePerSize` `LayoutAsAssumed` `SharesKept` `StartEnds` |
| `DramHintDoc`, `DramStrictDoc`, `RegionsDocumented`, `PoolMinimum` | as above; `PoolMinimum` with one region per arena and an IRAM table that grows and shrinks | four statements of documentation and comments that the code does not keep |

**Bounds and why they suffice.** The code is uniform in the alignment unit: all
offsets and lengths are multiples of 4, so an arena of 48 to 84 bytes has 12 to 21
units, and three or four request lengths (below, at and above a class border) give
exact fits, slivers (`MinSlice = 8` makes a rest of 4 a sliver), early exits (waste
limit `bytes/4`, at least 4) and real best-fit choices. Four or five blocks are
enough for a gap with two live neighbours in each region, for a full table and for
each combination of failed own region and crossing. Three regions are the smallest
number for which the order of crossing (`Before`) matters; `FbBefore` of IRAM is the same text
in the code, so two regions serve there. A chunk of one descriptor
(8 bytes) and an initial table of one or two slots make a table grow and shrink several times in one
run, until the tail or the cap `MaxDesc` stops it. `Iram` has room for an EXEC block, a block in each region and one more in
the tail that the table wants. `Caps` is kept small in each arena, whose insides the other runs check, for the sake of the
product: both tables can be full, either arena can fail first, and a block can move in both directions.
Two tasks are the smallest number for which a
critical section of one falls between the two of another, and for two dumps to meet. A ring of three slots wraps twice in a few frees;
three blocks of 8 in 24 bytes let the table of `Freed` take the bytes of a block that the ring still holds, all of them or the last ones, and give them back.

The start's thresholds are constants scaled down (`DramSpare` for 512, `IramSpare` for 256, `IramLeast` for 512,
`IramMost` and `DramMost` for the upper limits); the six sizes lie on both sides of each. The other
instances do not keep the minimum of 512 bytes next to a dynamic table (4422): no
decision after the start depends on it, and the proofs hold for every arena.

**Fairness.** `ApiSpec` assumes weak fairness of `CallocEnd`, `ReallocEnd` and `DumpStep` per
task only: a task that left its first critical section is running code without
a wait or a lock that can be refused, and the scheduler runs a ready task eventually. Nothing obliges
a task to start a call, and a dump that finds another one under way returns at once (no step here). `RegionsStart` assumes weak fairness of the start-up
code, which is sequential and runs before any task.

**Deadlock** is checked everywhere except in `MxrRegions`, where the start ends.

### Findings

Statements of documentation and comments that the code does not keep; none of them breaks
the heap. The last one is a defect of the code.

1. `src/README.md:332`: the hint "caches the largest known gap". It holds the gap of
   the *last* free, a shorter one replaces a longer one that is still free
   (`mxr_region_hint_put`, 1187). Run `DramHintDoc`.
2. `src/README.md:325`: without early exit there is "a strict best-fit full scan (only
   an exact-fit gap stops early)". The hint is asked first and also takes a gap that
   would leave a sliver (`mxr_gap_acceptable`, 1044), although an exact gap exists.
   Run `DramStrictDoc`.
3. `Kconfig.projbuild:164`: "The sum of all percents must be <= 100. Any leftover memory
   is added to the last region." Shares are rounded up to 4 bytes before the
   comparison (4183, 4187), so that a list with sum 100 may be dropped for one flat region:
   two regions of 50% in a DRAM arena of 84 bytes ask for 44 each (4183), and the second is refused at 4189. Run `RegionsDocumented`.
4. Comment at 4745 on `mxr_get_min_free_size_caps`: "Return the minimum of the same aggregate pool used by
   mxr_get_free_size_caps_locked()." When the IRAM table grows, its chunk is subtracted from `s_iram_fb_free_bytes`
   (1754); when it shrinks, the chunk is added to the region, the zone and the arena (1809-1819), but not to that counter.
   Every shrink leaves the watermark's source one chunk (`MXR_DESC_CHUNK * 8` bytes) short until frees saturate it, so that
   `mxr_get_min_free_size_caps` reports less than the pool has ever had. Run `PoolMinimum`; with a static IRAM table
   (`IDynamic = FALSE`, `IMaxDesc = 3`) the same instance satisfies the property. No allocation decision reads the counter,
   and the other counters stay exact (`CountersAgree`).

## 4. The proofs

Each theorem holds for every value of the constants that satisfies the named
assumptions: any number of regions and tasks, any layout, table, request, guard and search
option. A line names the module's inductive invariant first.

| Module | Inductive invariant | Theorems (property proved) |
| --- | --- | --- |
| `MxrDramProofs` | `Inv == TypeOK /\ ArenaTiled /\ BlocksSeparate /\ HintSound` | `TypeCorrect` (`TypeOK`), `RegionsTile` (`ArenaTiled`), `BlocksApart` (`BlocksSeparate`), `RecordsSound` (`HintSound`), `InsertsNeverRefused` (`InsertsPass`), `QuarantineHolds` (`Quarantine`), `TableNeverOverflows` (`TableFits`), `CacheAlwaysExact` (`CacheExact`), `ClassesBounded` (`ClassBound`), `FreeBytesExact` (`FreeExact`), `RequestsNeverTurnedAway` (`NoFalseRefusal`), `RequestsServedExactly`, `BlocksStayAligned` |
| `MxrIramProofs` | `IInv == TypeOK /\ IramTiled /\ ZonesApart` | `IramTypeCorrect` (`TypeOK`), `IramZonesTile` (`IramTiled`), `IramBlocksApart` (`ZonesApart`), `IramTableNeverOverflows` (`ITableFits`), `FbLimitsRespected` (`FbLimitKept`), `FbCacheAlwaysExact` (`FbCacheExact`), `IramCountersExact` (`CountersAgree`), `IramTailKept` (`TailKept`), `IramServedExactly`, `IramStaysAligned` |
| `MxrApiProofs` | `ApiInv == Inv /\ ArenaFits /\ JobTyped /\ JobSafe /\ OneDump` | `HeldBlocksStay` (`JobSafe`), `OneDumpAtATime` (`DumpAlone`), `ApiQuarantine` (`Quarantine`), `MovesLeakNothing` (`NoBlockLeaks`), `ApiImplementsHeap` (`HeapRefined`) |
| `MxrCapsProofs` | `CapsInv == ArenasInv /\ Moves /\ PlacedAsAsked`, `QueryInv` | `CapsImplementsArenas`, `BlocksPlacedAsAsked` (`PlacedAsAsked`), `MoveHoldsBothEnds`, `CapsImplementsHeap` (`HeapRefined`), `LargestBlockServed` (`LargestServed`) |
| `MxrTableProofs` | `ArrayInv` | `TableSorted` (`Sorted`), `SearchByOffsetExact` (`FindsByOffset`), `OverlapGuardExact` (`GuardIsExact`), `RecordedGapMaximal` (`ReleasedGapIsMaximal`), `ScanFindsTheGap` (`ScanIsSearch`) |
| `MxrRegionsProofs` | `StartInv` | `StartTilesArena` (`RegionsTileArena`), `EverySizeHasOneHome` (`OneHomePerSize`), `StartMeetsAssumptions` (`LayoutAsAssumed`), `PercentagesKept` (`SharesKept`) |
| `MxrFreedProofs` | `FreedInv == RingInv /\ FitInv /\ JudgedByRecent` | `DoubleFreesJudged` (`JudgedByRecent`) |

**Assumptions.** `LayoutAssumption` (`MxrDram`) and `IramLayoutAssumption` (`MxrIram`) are
what the start leaves behind: regions in address order inside the arena, classes without a
hole in between, the last one unlimited. `StartMeetsAssumptions` proves that the code that builds the layout
establishes them, in both arenas, every fallback of the start included; the link between the two is by the reader,
as the layout is a constant of one module and the final state of the other. `TableAssumption`, `IramTableAssumption`,
`OptionAssumption` and `StartAssumption` are the ranges of the Kconfig options; `GuardNum <= GuardDen`
holds for every guard preset (header, 285-360). `SnapAssumption` says that a snapshot has a size,
`TableSize` that an array has bytes and slots, `QueryAssumption` that searches are for at least one byte, `RingAssumption` that the ring has a slot, `ArenaAssumption` and `BlockAssumption` (`MxrFreed`) that sizes are natural numbers and that a block is longer than its head and has an aligned pointer. `IramAssumption` repeats the IRAM
assumptions where `MxrCaps` instantiates the module: TLC evaluates them there too, and the theorems cited of the instance hold under the
assumptions of the instance, which `IramAssumed` derives from those of `MxrCaps`.
`AlignedLayout` and `IAlignedLayout` are hypotheses of the three theorems that are about alignment: borders of arenas, zones and regions, the
chunk by which a table moves and the lengths of requests are multiples of `Align`, as the start lays them out and as 3351-3367 round requests up.
`SlotsLeft`, of `LargestBlockServed`: a table that can grow is not full (section 5).

**DRAM arena.** `BlocksSeparate` is not inductive. A block may be cut from a recorded gap
without a look at the table, so that `HintSound` is needed; `HintSound` speaks of region
borders that the table moves, so that `ArenaTiled` is needed; and the arithmetic needs
`TypeOK`. The inductive invariant is their conjunction `Inv`. The lemmas go bottom up: a gap is free
(`GapSound`), a cut stays in its gap (`CutSound`), a search returns a free range of its region
(`FindSound`, `OwnSound`, `CrossSound`), carving keeps a record sound and storing makes a sound one
(`CarveSound`, `StoreSound`), then one lemma per action (`PlaceSafe`, `ReleaseSafe`,
`ShrinkSafe`, `ExtendSafe`, `QuietSafe`).

`TableFits` needs that the capacity moves in whole chunks from its initial value
(`Chunks`). `CacheExact` needs that a block of one region does not show in the gaps
of another (`GapsFrame`), which `Inv` gives. `ClassBound` needs `Inv` and that the guards
and expansions never exceed the bound (`ShareBound`, `CutBound`). `FreeExact` equates a counter
with the number of bytes that no block takes: a block placed in free room takes as many as it is long (`FreeBytesTaken`), one outside the
region none (`FreeBytesFrame`), and the bytes a region gains from the table are free (`FreeBytesTail`). As a free range is never longer
than that number (`FreeRangeFits`), no subtraction of the code saturates. `NoFalseRefusal` follows from exact counters, exact caches
and sound hints, and from the existence of a gap around every free range (`GapAround`) and of a best one among the acceptable (`BestGapFound`). `ServedExactly` turns this
into an equivalence: with a free slot a request is served if and only if a region that its class admits, or a crossing guard, has a gap that long; the other half is that
the search finds nothing where there is nothing. `BlocksAligned` is kept because every border of a gap is a border of the region or of a block (`GapAligned`)
and a cut is the request or the whole gap. Where induction
would be natural, a least number of a set is taken instead (`NatMin`), as induction rules are out of the provers' reach.

**IRAM arena.** The same shape without recorded gaps, with two kinds of blocks, two
borders that move with the table (the last region and the zone) and a search from the upper edge;
`IServedExactly` and `UsedAligned` have the proofs of their DRAM counterparts. `CountersAgree` relates three counters to the blocks of both kinds.

**Tasks.** A job's block is live because no other task's step may touch it (`Owned`) and because
a step of the arena keeps every block but the one it is asked about; `JobSafe` with its types and the
invariant of the arena is inductive. `DumpAlone` needs that the flag is set while any job is a dump's (`OneDump`).
For `ApiImplementsHeap` every action is given its image: an allocation is `Alloc` of a fresh range (`Inv` gives that it
is fresh), a free outside of a pinned set `Free`, a moving realloc `Alloc` and later `Free`, growth of the table, refusals and reports
stutter.

**Both arenas.** Every action of `MxrCaps` is taken apart into a step of the DRAM arena and one of the IRAM arena, where a
refusal of the first and a placement in the second may fall together (`DramMissesStep`, `AllocStep`, `ReleaseAnyStep`, `InPlaceStep`).
So the whole implements each arena (`CapsImplementsArenas`), and every theorem about one holds behind capabilities and moves;
`ArenasInv` collects what the rest needs: both invariants, the arenas' fit into the raw memory, and the IRAM table's. DRAM blocks end
below `RawEnd` and IRAM blocks start there, so that blocks of the two never share an address (`LivePieces`, `LiveOffsetIsKey`).
`Effect` then says what a step may do to live blocks at all: nothing, one block more, one less, one resized at its place, a move begun or ended,
together with the fact that all other blocks stay in their zone (`OthersStay`). From `Effect` alone follow the three results:
both ends of a move stay live and apart (`Moves`, since free and realloc in place only touch settled blocks); each block lies in
memory that suits the capabilities last asked for (`PlacedAsAsked`, which rests on an offset naming one block of one zone); and each effect has its image in `MxrHeap` (`AddedRefines`, `MoveBeginRefines`, `RemovedRefines`, `ReplacedRefines`,
`MoveEndRefinesCaps`).

`LargestServed` compares the largest-block query with the placement, two pieces of code that repeat each other's class bounds, guards and limits.
`ServedExactly` and `IServedExactly` first replace the placement by "there is a gap that long in an admitted region"; then each candidate of the query is shown
to fit in this sense and to be at least as long as every multiple of `Align` that fits (`DramLongestFits`, `FbLongestFits`), since a cached
longest gap is the longest (`CacheExact`) and the roundings of the query go down to the grid on which all gaps lie. `LargestIsServed` puts the arenas together. `QueryInv`
is the conjunction of the invariants this needs: alignment, exact counters and exact caches of both arenas.

**Array.** Both bisections are recursive functions over the bounds; that they have values is shown by a function that
satisfies the equation, and any other agrees with it at the least distance of the bounds where it could not, and the value is the boundary of the entries below the
offset. With it, looking at two neighbours is looking at all entries.
For `ScanIsSearch` the loop, too, is shown to have values (`LoopSolved`), and `LoopInv` holds after each pass: either the search has ended with the first gap that is good enough, or every
block passed lies behind `cur`, a gap could start at `cur`, and `best` and `largest` are those of the gaps before `cur`. A pass adds at most the one gap up to the next
entry (`NextGap`, `SeenPast`), the tail adds the last (`TailSeen`), and the bisection skips only entries that end before the region (`FirstAfterSkips`).

**Start.** `StartInv` says for each phase what is known: while regions are carved, that they tile
what is taken so far (`CarvedTo`) with the shares of the list; at the end (`Outcome`) that they are one flat region, none, or the list.

**Ring.** Slot `i` holds the address of the block that the history keeps at `Age(i)`; `RingInv` is this correspondence, through the wrap, so that
the ring knows exactly the blocks of the history (`RingKnows`). `FitInv` says that live blocks end where the arena ends, whatever the table does, so that the arena
check never refuses one; and a block start that it does refuse belongs to a block whose end the table has passed (`LocatedStart`).

**Only model-checked.** Liveness (`CallsEnd`, `StartEnds`): out of the prover's reach. Every invariant and every action property of the passing runs is
proved.
The four statements of documentation are refuted by TLC's counterexamples.

## 5. Abstractions

* Statistics counters, `alloc_count` and low watermarks other than the pool's are left out: no decision of the
  code reads them. `s_dram_free_bytes` moves with the regions' free bytes and is taken as their sum; it is
  read by reports and watermarks only.
* Wrap-around of 32-bit offsets and lengths is left out: `mxr_init` bounds the arena by
  `MXR_MAX_ARENA_BYTES`, `mxr_malloc_caps_locked` bounds a request by
  `MXR_MAX_LEN_BYTES`, and each sum is of two such numbers.
* Requests are block lengths after alignment and canary overhead (3351-3367). A length above the
  arena fails in the code before the search (3375); here the search fails and changes nothing, as the free bytes are fewer.
* Capabilities: all DRAM regions have the same, so `mxr_region_caps_ok` is constant in a build without IRAM.
* The contents of blocks are left out, except for the canary (`broken`) and for who copies or clears what (`job`).
* An empty recorded gap has no offset here; the code keeps one and never reads it.
* Frees of pointers that are not the start of a live block change counters and nothing else; their verdict is in `MxrFreed`, the other modules leave them out.
* `MxrFreed` leaves out where malloc looks for a range, classes and regions, and with them the refusal of a growth that the last region is too short for;
  it has one free range after the other and a table whose only obstacles are blocks. So it allows more histories than the code. A second free of a
  released block whose bytes the table has taken since may count as invalid instead of double: `mxr_ptr_to_arena` (3516) refuses the pointer before the ring is read.
* `MxrCaps`: overruns are left to the modules of the arenas, and one moving realloc is under way at a time (several are in
  `MxrApi`, in one arena). The canary overhead that queries subtract and requests add cancels out: sizes are block lengths throughout.
* `LargestServed` is checked with static tables, and proved for tables that have a slot left or cannot grow (`SlotsLeft`). With a full table that can still grow the query reckons with a shorter
  last region, but a search that does not know of the growth may prefer a gap at the very end, whose block the table then refuses
  (3294-3304, 3469): whether the reported block is served depends on the gap that best fit picks.
* The dump is the full one (`CONFIG_MXR_DUMP_FULL`); the others do not allocate. Its text is left out.
* `CONFIG_SOC_IRAM_SIZE` (3024) bounds what the linker script gives; no instance exceeds it.
* A failed fallback attempt that is repeated after DRAM (PREFER_IRAM with DRAM first) changes nothing the second time and is one attempt here.

Not modelled: total-size and allocated-size queries and per-region status, which change nothing or fill in caches as `Inspect` does;
the parser's characters; text output; the remaining statistics; the wrappers, which keep no state; the CMake checks and Kconfig; the web page, tools and examples.

## 6. Plan

Done: `MxrGaps`, `MxrDram`, `MxrTable`, `MxrScan`, `MxrApi`, `MxrHeap`, `MxrRegions`, `MxrIram`, `MxrCaps`, `MxrPool`, `MxrFreed`,
in this order because every other part of the allocator reuses the arena's rules; then the proofs about each of them but `MxrPool`, whose
property the code violates.
