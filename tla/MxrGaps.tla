------------------------------- MODULE MxrGaps -------------------------------
(***************************************************************************)
(* Free gaps of a region and the rules by which the allocator accepts one. *)
(*                                                                         *)
(* The descriptor table of the allocator is an array sorted by offset; all *)
(* that a search reads from it is which byte ranges are taken.  Here the   *)
(* table is the SET of its extents and a gap is a maximal free range       *)
(* between two neighbours (or a neighbour and a region border).            *)
(*                                                                         *)
(* A search returns the set of its results: one element when something is  *)
(* found, none when nothing fits.                                          *)
(***************************************************************************)
EXTENDS Integers

CONSTANTS
  Align,         \* MXR_ALIGN_SIZE: granularity of offsets and sizes
  MinSlice,      \* MXR_MIN_SLICE_BYTES; 0 when anti-sliver is not built in
  EarlyExit,     \* MXR_EARLY_EXIT_ACTIVE
  WasteDiv,      \* 2^MXR_BEST_FIT_WASTE_SHIFT
  BigGapGuard,   \* MXR_BGG_ACTIVE
  BigGapMin,     \* MXR_BGG_GAP_MIN
  BigGapFactor   \* 2^MXR_BGG_FACTOR_SHIFT

ASSUME SearchAssumption ==
  /\ Align \in Nat \ {0}
  /\ MinSlice \in Nat
  /\ WasteDiv \in Nat \ {0}
  /\ BigGapMin \in Nat
  /\ BigGapFactor \in Nat \ {0}
  /\ EarlyExit \in BOOLEAN
  /\ BigGapGuard \in BOOLEAN

Unlimited == 0     \* max_bytes of a region without an upper class bound

-----------------------------------------------------------------------------
(* Extents: a block, a gap, a hint or a piece of the arena's tail. *)

Extent == [off : Nat, len : Nat]

EndOf(x) == x.off + x.len

Disjoint(x, y) == EndOf(x) <= y.off \/ EndOf(y) <= x.off

IsFree(B, x) == \A b \in B : Disjoint(b, x)

Gaps(B, lo, hi) ==
  LET starts == {lo} \cup {EndOf(b) : b \in {c \in B : lo < EndOf(c) /\ EndOf(c) < hi}}
      ends   == {hi} \cup {b.off : b \in {c \in B : lo < c.off /\ c.off < hi}}
  IN {g \in {[off |-> a, len |-> e - a] : a \in starts, e \in ends} :
        g.len > 0 /\ IsFree(B, g)}

(* The length of the longest gap, as a set with that one element. *)
LargestGap(B, lo, hi) ==
  LET gaps == Gaps(B, lo, hi)
  IN {n \in {0} \cup {g.len : g \in gaps} : \A g \in gaps : g.len <= n}

(* The bytes of [lo, hi) that no block of B takes. *)
FreeBytes(B, lo, hi) == {i \in lo .. (hi - 1) : \A b \in B : i < b.off \/ EndOf(b) <= i}

-----------------------------------------------------------------------------
(* The rules of acceptance. *)

IsSliver(waste) == 0 < waste /\ waste < MinSlice

WasteLimit(bytes) ==
  IF ~EarlyExit THEN 0
  ELSE IF bytes \div WasteDiv < Align THEN Align ELSE bytes \div WasteDiv

BigGapLimit(bytes) ==
  IF bytes * BigGapFactor < BigGapMin THEN BigGapMin ELSE bytes * BigGapFactor

BigGapRelaxed(gap, bytes) ==
  /\ BigGapGuard
  /\ gap - bytes > WasteLimit(bytes)
  /\ gap <= BigGapLimit(bytes)

(* Anti-sliver: a block about to leave a sliver takes the whole gap, unless *)
(* the gap is above the region's class bound.                               *)
\* mutant: the class bound is forgotten
CutLenUnbounded(gap, bytes, max) == IF IsSliver(gap - bytes) THEN gap ELSE bytes

CutLen(gap, bytes, max) ==
  IF IsSliver(gap - bytes) /\ (max = Unlimited \/ gap <= max) THEN gap ELSE bytes

Cut(g, bytes, max) == [off |-> g.off, len |-> CutLen(g.len, bytes, max)]

(* A recorded gap is taken without a scan when nothing useful is left over. *)
GapAcceptable(gap, bytes, max) ==
  \/ CutLen(gap, bytes, max) # bytes
  \/ gap - bytes <= WasteLimit(bytes)
  \/ BigGapRelaxed(gap, bytes)

(* A scan stops at the first gap that is good enough; the relaxed rule is   *)
(* not applied to the gap at the region's tail.                             *)
StopsScan(g, bytes, hi) ==
  \/ g.len - bytes <= WasteLimit(bytes)
  \/ EndOf(g) # hi /\ BigGapRelaxed(g.len, bytes)

-----------------------------------------------------------------------------
(* The search of mxr_find_best_free in the region [lo, hi). *)

Fitting(B, lo, hi, bytes) == {g \in Gaps(B, lo, hi) : g.len >= bytes}

EarlyGaps(B, lo, hi, bytes) ==
  {g \in Fitting(B, lo, hi, bytes) : StopsScan(g, bytes, hi)}

BestGap(B, lo, hi, bytes) ==
  LET fit   == Fitting(B, lo, hi, bytes)
      early == EarlyGaps(B, lo, hi, bytes)
  IN IF early # {}
     THEN {g \in early : \A h \in early : g.off <= h.off}
     ELSE {g \in fit : \A h \in fit : g.len < h.len
                                      \/ (g.len = h.len /\ g.off <= h.off)}

FindBestFree(B, lo, hi, bytes, max) ==
  {Cut(g, bytes, max) : g \in BestGap(B, lo, hi, bytes)}

(* What the scan learns about the longest gap: exact after a full pass,     *)
(* nothing after an early exit.                                             *)
\* mutant: the largest gap seen before an early exit is taken for exact
LearntTooSoon(B, lo, hi, bytes) ==
  LET gaps == Gaps(B, lo, hi)
      early == EarlyGaps(B, lo, hi, bytes)
      seen == {g \in gaps : \A h \in early : g.off <= h.off}
  IN {n \in {g.len : g \in seen} : \A g \in seen : g.len <= n}

LearntLargest(B, lo, hi, bytes) ==
  IF EarlyGaps(B, lo, hi, bytes) # {} THEN {} ELSE LargestGap(B, lo, hi)

=============================================================================
