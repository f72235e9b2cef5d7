-------------------------------- MODULE MxrPool -------------------------------
(***************************************************************************)
(* The low watermark of the pool that both arenas form for word-accessed   *)
(* data, next to the query of the pool's free size it is the minimum of.   *)
(***************************************************************************)
EXTENDS MxrCaps, FiniteSetsExt

VARIABLES
  poolMin,   \* s_dram_fb_min_free_bytes
  lowest     \* history: the least answer of the free-size query so far

poolVars == <<capsVars, poolMin, lowest>>

Lower(n, m) == IF m < n THEN m ELSE n

(* s_dram_free_bytes moves with free_bytes of the regions. *)
DramFree == MapThenSumSet(LAMBDA r : free[r], Region)

(* What the watermark is taken from: the zone's own counter for IRAM. *)
PoolFree == DramFree + zoneFree

(* mxr_get_free_size_caps_locked for a request without demands. *)
FreeSize == DramFree + MapThenSumSet(LAMBDA r : fbFree[r], Iram!Fb)

PoolInit == CapsInit /\ poolMin = PoolFree /\ lowest = FreeSize

(* Whatever lowers a counter of the pool ends with the watermark's update. *)
PoolNext ==
  /\ CapsNext
  /\ poolMin' = Lower(poolMin, PoolFree')
  /\ lowest' = Lower(lowest, FreeSize')

PoolSpec == PoolInit /\ [][PoolNext]_poolVars

(* "Return the minimum of the same aggregate pool used by                   *)
(* mxr_get_free_size_caps_locked()": the watermark is the least answer of   *)
(* that query over time.                                                    *)
PoolMinimumExact == poolMin = lowest

=============================================================================
