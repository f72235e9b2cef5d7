------------------------------- MODULE MxrTable ------------------------------
(***************************************************************************)
(* The descriptor table as the code keeps it: an array sorted by offset,   *)
(* searched by bisection.  MxrDram takes the table for the set of its      *)
(* extents; this module is why it may.                                     *)
(***************************************************************************)
EXTENDS MxrGaps, SequencesExt

CONSTANTS
  Bytes,    \* length of the arena
  Slots     \* capacity of the table

ASSUME TableSize == Bytes \in Nat \ {0} /\ Slots \in Nat \ {0}

VARIABLE desc    \* s_dram_desc[0 .. count), numbered from 1

Init == desc = <<>>

(* What a bisection has left to look at: <<l, r>> stands for [l, r). *)
Span == (1 .. (Len(desc) + 1)) \X (1 .. (Len(desc) + 1))

(* The first index not in Left, which holds the indices below it. *)
Bisect(Left) ==
  LET b[s \in Span] ==
        LET l == s[1]  r == s[2]  mid == (l + r) \div 2
        IN IF l >= r THEN l
           ELSE IF mid \in Left THEN b[<<mid + 1, r>>] ELSE b[<<l, mid>>]
  IN b[<<1, Len(desc) + 1>>]

Indices == 1 .. Len(desc)

\* mutant: bisects by the ends of the blocks
InsertPosByEnd(key) == Bisect({i \in Indices : EndOf(desc[i]) < key})

InsertPos(key)    == Bisect({i \in Indices : desc[i].off < key})
FirstAfter(start) == Bisect({i \in Indices : EndOf(desc[i]) <= start})

(* The index of the block at an offset: none or one. *)
\* mutant: the last entry is never probed
FindKeyShort(key) ==
  LET f[s \in Span] ==
        LET l == s[1]  r == s[2]  mid == (l + r) \div 2
        IN IF l >= r THEN {}
           ELSE IF desc[mid].off = key THEN {mid}
           ELSE IF desc[mid].off < key THEN f[<<mid + 1, r>>] ELSE f[<<l, mid>>]
  IN IF desc = <<>> THEN {} ELSE f[<<1, Len(desc)>>]

FindKey(key) ==
  LET f[s \in Span] ==
        LET l == s[1]  r == s[2]  mid == (l + r) \div 2
        IN IF l >= r THEN {}
           ELSE IF desc[mid].off = key THEN {mid}
           ELSE IF desc[mid].off < key THEN f[<<mid + 1, r>>] ELSE f[<<l, mid>>]
  IN f[<<1, Len(desc) + 1>>]

-----------------------------------------------------------------------------

Insert(x) ==
  LET pos == InsertPos(x.off) IN
  /\ x.len > 0 /\ EndOf(x) <= Bytes
  /\ Len(desc) < Slots
  /\ pos > 1 => EndOf(desc[pos - 1]) <= x.off
  /\ pos <= Len(desc) => desc[pos].off # x.off /\ EndOf(x) <= desc[pos].off
  /\ desc' = InsertAt(desc, pos, x)

Delete(key) ==
  \E i \in FindKey(key) : desc' = RemoveAt(desc, i)

(* realloc in place writes the length of an entry: it cuts the block, or    *)
(* extends it up to the next one.                                           *)
NextBoundaryFar(i, hi) == hi     \* mutant: the neighbour is not looked at

NextBoundary(i, hi) ==
  IF i < Len(desc) /\ desc[i + 1].off < hi THEN desc[i + 1].off ELSE hi

SetLen(key, len) ==
  \E i \in FindKey(key) :
    /\ 0 < len /\ len # desc[i].len
    /\ desc[i].off + len <= NextBoundary(i, Bytes)
    /\ desc' = [desc EXCEPT ![i].len = len]

Place == {k * Align : k \in 0 .. (Bytes \div Align)}

Next ==
  \/ \E x \in [off : Place, len : Place] : Insert(x)
  \/ \E key \in Place : Delete(key)
  \/ \E key, len \in Place : SetLen(key, len)

Spec == Init /\ [][Next]_desc

-----------------------------------------------------------------------------
(* The gap between two neighbours in an array of descriptors; entries of    *)
(* other regions are clipped away.                                          *)
GapBetween(d, left, right, lo, hi) ==
  LET from == IF left \in DOMAIN d /\ EndOf(d[left]) > lo THEN EndOf(d[left]) ELSE lo
      to   == IF right \in DOMAIN d /\ d[right].off < hi THEN d[right].off ELSE hi
  IN [off |-> from, len |-> IF to > from THEN to - from ELSE 0]

\* mutant: the right neighbour is looked for where it was before the removal
FreedGapUnshifted(i, lo, hi) == GapBetween(RemoveAt(desc, i), i - 1, i + 1, lo, hi)

(* A free reads the gap off the array from which the entry is gone: the     *)
(* right neighbour has taken its index.                                     *)
FreedGap(i, lo, hi) == GapBetween(RemoveAt(desc, i), i - 1, i, lo, hi)

-----------------------------------------------------------------------------
(* Properties. *)

Blocks == Range(desc)

(* The array stays sorted and its blocks apart, and within its capacity. *)
Sorted ==
  /\ Len(desc) <= Slots
  /\ \A i \in Indices : desc[i].len > 0 /\ EndOf(desc[i]) <= Bytes
  /\ \A i \in Indices : i < Len(desc) => EndOf(desc[i]) <= desc[i + 1].off

(* Bisection finds a block by its offset exactly when there is one: a valid *)
(* pointer is never refused, an invalid one never frees a neighbour.        *)
FindsByOffset ==
  \A key \in 0 .. Bytes : FindKey(key) = {i \in Indices : desc[i].off = key}

(* The guard against overlaps looks at two neighbours only, and catches     *)
(* every overlap: what it lets in is free, what it refuses is not.          *)
GuardIsExact ==
  \A x \in [off : Place, len : Place \ {0}] :
    LET pos == InsertPos(x.off)
        clear == /\ pos > 1 => EndOf(desc[pos - 1]) <= x.off
                 /\ pos <= Len(desc) => EndOf(x) <= desc[pos].off
    IN clear <=> IsFree(Blocks, x)

(* The gap recorded when entry i is freed is the maximal gap that its block *)
(* leaves, although it is read after the entries have moved up.             *)
ReleasedGapIsMaximal ==
  \A i \in Indices : \A lo, hi \in Place :
    lo <= desc[i].off /\ EndOf(desc[i]) <= hi =>
      FreedGap(i, lo, hi) \in Gaps(Blocks \ {desc[i]}, lo, hi)

=============================================================================
