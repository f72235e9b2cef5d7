-------------------------------- MODULE MxrScan ------------------------------
(***************************************************************************)
(* The scan of the descriptor array for a gap, one entry after the other,  *)
(* against the definition by sets that MxrDram uses.                       *)
(***************************************************************************)
EXTENDS MxrTable

CONSTANT Queries    \* searches to check: bytes of the region [lo, hi) of bound max

ASSUME QueryAssumption == Queries \subseteq [lo : Nat, hi : Nat, max : Nat, bytes : Nat \ {0}]

Longer(n, m) == IF n > m THEN n ELSE m

Better(q, best, g) ==
  IF g.len >= q.bytes /\ \A b \in best : g.len < b.len \/ (g.len = b.len /\ g.off < b.off)
  THEN {g} ELSE best

\* mutant: the relaxed rule holds at the region's tail too
StopsAnywhere(q, g, relax) ==
  /\ g.len >= q.bytes
  /\ g.len - q.bytes <= WasteLimit(q.bytes) \/ BigGapRelaxed(g.len, q.bytes)

Stops(q, g, relax) ==
  /\ g.len >= q.bytes
  /\ \/ g.len - q.bytes <= WasteLimit(q.bytes)
     \/ relax /\ BigGapRelaxed(g.len, q.bytes)

(* What the loop keeps: the end of the blocks behind it, the best and the   *)
(* longest gap so far, and the gap that ended the search, if one did.       *)
Fresh(q) == [cur |-> q.lo, best |-> {}, largest |-> 0, early |-> {}]

Look(q, s, to, relax) ==
  LET g == [off |-> s.cur, len |-> IF to > s.cur THEN to - s.cur ELSE 0]
  IN IF Stops(q, g, relax) THEN [s EXCEPT !.early = {g}]
     ELSE [s EXCEPT !.best = Better(q, s.best, g), !.largest = Longer(s.largest, g.len)]

(* One pass.  A break keeps s from then on: in a sorted array its condition *)
(* stays true.  An entry that ends before the region changes nothing.       *)
Pass(q, s, x) ==
  IF s.early # {} \/ s.cur >= q.hi \/ x.off >= q.hi THEN s
  ELSE [Look(q, s, x.off, TRUE) EXCEPT !.cur = Longer(s.cur, EndOf(x))]

Passes(q, start) ==
  LET s[i \in 0 .. Len(desc)] == IF i < start THEN Fresh(q) ELSE Pass(q, s[i - 1], desc[i])
  IN s[Len(desc)]

(* The passes from entry start on, then the gap at the region's tail.       *)
FindBestFreeIn(q, start) ==
  LET s == Passes(q, start)
      t == IF s.early # {} THEN s ELSE Look(q, s, q.hi, FALSE)
  IN IF t.early # {}
     THEN [found |-> {Cut(g, q.bytes, q.max) : g \in t.early}, learnt |-> {}]
     ELSE [found |-> {Cut(g, q.bytes, q.max) : g \in t.best}, learnt |-> {t.largest}]

(* The scan finds what the definition by sets finds, and learns the largest *)
(* gap exactly when it says so, whether it skips the entries before the     *)
(* region by bisection or starts at the first of all.                       *)
ScanIsSearch ==
  \A q \in Queries : \A start \in {1, FirstAfter(q.lo)} :
    FindBestFreeIn(q, start) =
      [found  |-> FindBestFree(Blocks, q.lo, q.hi, q.bytes, q.max),
       learnt |-> LearntLargest(Blocks, q.lo, q.hi, q.bytes)]

=============================================================================
