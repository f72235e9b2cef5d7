--------------------------- MODULE MxrRegionsProofs ---------------------------
(***************************************************************************)
(* Proofs about the start, for every configured list and every arena: the  *)
(* regions tile the arena, every block length has one region of its class  *)
(* and no region is smaller than its percentage.                           *)
(***************************************************************************)
EXTENDS MxrRegions, TLAPS, SequenceTheorems, NaturalsInduction, WellFoundedInduction

-----------------------------------------------------------------------------
(* Multiples of the alignment. *)

Multiple(n) == \E k \in Nat : n = k * Align

LEMMA MultipleOfAlign ==
  ASSUME NEW n \in Nat
  PROVE  n % Align = 0 <=> Multiple(n)
<1>1. Align \in Nat /\ Align > 0
  BY StartAssumption
<1>2. ASSUME n % Align = 0 PROVE Multiple(n)
  <2>1. n = (n \div Align) * Align /\ n \div Align \in Nat
    BY <1>1, <1>2
  <2> QED
    BY <2>1 DEF Multiple
<1>3. ASSUME Multiple(n) PROVE n % Align = 0
  <2>1. PICK k \in Nat : n = k * Align
    BY <1>3 DEF Multiple
  <2>2. (k * Align) % Align = 0
    BY <1>1
  <2> QED
    BY <2>1, <2>2
<1> QED
  BY <1>2, <1>3

LEMMA MultipleDiff ==
  ASSUME NEW n \in Nat, NEW m \in Nat, m <= n, Multiple(n), Multiple(m)
  PROVE  Multiple(n - m) /\ (m < n => n - m >= Align)
<1>1. Align \in Nat /\ Align > 0
  BY StartAssumption
<1>2. PICK k \in Nat : n = k * Align
  BY DEF Multiple
<1>3. PICK l \in Nat : m = l * Align
  BY DEF Multiple
<1>4. l <= k
  BY <1>1, <1>2, <1>3
<1>5. PICK d \in Nat : k = l + d
  <2>1. k - l \in Nat /\ k = l + (k - l)
    BY <1>4
  <2> QED
    BY <2>1
<1>6. n - m = d * Align
  BY <1>1, <1>2, <1>3, <1>5
<1>7. m < n => d >= 1
  BY <1>1, <1>2, <1>3, <1>5
<1>8. d >= 1 => d * Align >= Align
  BY <1>1
<1> QED
  BY <1>6, <1>7, <1>8 DEF Multiple

LEMMA MultipleZero == Multiple(0) /\ Multiple(Align)
<1>1. 0 = 0 * Align /\ Align = 1 * Align
  BY StartAssumption
<1> QED
  BY <1>1 DEF Multiple

(* Rounding up gives the next multiple. *)
LEMMA AlignUpFacts ==
  ASSUME NEW n \in Nat
  PROVE  AlignUp(n) \in Nat /\ n <= AlignUp(n) /\ Multiple(AlignUp(n))
<1>1. Align \in Nat /\ Align > 0
  BY StartAssumption
<1> DEFINE k == (n + Align - 1) \div Align
<1>2. k \in Nat /\ AlignUp(n) = k * Align
  BY <1>1 DEF AlignUp
<1>3. k * Align >= n
  BY <1>1
<1>4. k * Align \in Nat
  BY <1>1, <1>2
<1> QED
  BY <1>2, <1>3, <1>4 DEF Multiple

(* The percentage is rounded down, by less than a byte. *)
LEMMA PercentFacts ==
  ASSUME NEW n \in Nat, NEW p \in Nat
  PROVE  PercentOf(n, p) \in Nat /\ PercentOf(n, p) * 100 >= p * n - 100
<1> DEFINE q == n \div 100
           r == n % 100
<1>1. q \in Nat /\ r \in Nat /\ n = 100 * q + r
  OBVIOUS
<1>2. PercentOf(n, p) = q * p + ((r * p) \div 100)
  BY DEF PercentOf
<1> HIDE DEF q, r
<1>3. r * p \in Nat /\ q * p \in Nat
  BY <1>1
<1>4. PICK s \in Nat : s = r * p
  BY <1>3
<1>5. s \div 100 \in Nat /\ (s \div 100) * 100 >= s - 100
  BY <1>4
<1>6. p * n = 100 * (q * p) + s
  BY <1>1, <1>4
<1>7. PICK u \in Nat : u = q * p
  BY <1>3
<1>8. PercentOf(n, p) = u + (s \div 100)
  BY <1>2, <1>4, <1>7
<1> QED
  BY <1>5, <1>6, <1>7, <1>8

-----------------------------------------------------------------------------
(* The invariant of the start. *)

Config == [min : Nat, percent : Nat]
Region == [start : Nat, total : Nat, min : Nat, max : Nat]

(* Region j as the list asks for it. *)
AsListed(j) ==
  /\ regions[j].min = MinOf(j) /\ regions[j].max = MaxOf(j)
  /\ regions[j].total >= MinOf(j)
  /\ regions[j].total * 100 >= cfg[j].percent * arena - 100

(* The regions carved so far: one behind the other, from base to here. *)
CarvedTo(here) ==
  LET n == Len(regions) IN
  /\ n <= Count
  /\ n = 0 => here = base
  /\ n > 0 => regions[1].start = base /\ regions[n].start + regions[n].total = here
  /\ \A j \in 1 .. (n - 1) : regions[j + 1].start = regions[j].start + regions[j].total
  /\ \A j \in 1 .. n : AsListed(j)

Listed == Parses /\ ~MeansFlat /\ Acceptable

StartType ==
  /\ build \in {"dram", "fallback", "whole", "reserved"}
  /\ raw \in Nat /\ Multiple(raw)
  /\ total \in Nat /\ base \in Nat /\ arena \in Nat /\ remaining \in Nat
  /\ cfg \in Seq(Config) /\ regions \in Seq(Region)
  /\ phase \in {"bounds", "check", "carve", "done", "off"}

(* What is measured once the bounds are known. *)
Split ==
  /\ base + arena = total /\ total + TableInit <= raw
  /\ Multiple(base) /\ Multiple(arena)
  /\ build = "dram" => base = 0

Outcome ==
  \/ arena = 0 /\ regions = <<>> /\ build # "dram"
  \/ arena > 0 /\ regions = Flat /\ (fallback = TRUE \/ MeansFlat)
  \/ arena > 0 /\ Listed /\ Len(regions) = Count /\ CarvedTo(total)

StartInv ==
  /\ StartType
  /\ phase = "bounds" => /\ base = 0 /\ arena = 0 /\ remaining = 0
                         /\ regions = <<>> /\ fallback = FALSE
  /\ phase \in {"check", "carve", "done"} => Split
  /\ phase \in {"check", "carve"} => arena > 0 /\ remaining <= arena /\ fallback = FALSE
  /\ phase = "check" => regions = <<>> /\ remaining = arena
  /\ phase = "carve" => Listed /\ CarvedTo(base + (arena - remaining))
  /\ phase = "done" => Outcome

LEMMA EntryFacts ==
  ASSUME cfg \in Seq(Config), NEW j \in 1 .. Count
  PROVE  /\ Count \in Nat /\ cfg[j].min \in Nat /\ cfg[j].percent \in Nat
         /\ MinOf(j) \in Nat /\ MinOf(j) >= Align /\ Align \in Nat /\ Align >= 1
<1>1. Count \in Nat /\ cfg[j] \in Config
  BY DEF Count
<1>2. cfg[j].min \in Nat /\ cfg[j].percent \in Nat
  BY <1>1 DEF Config
<1>3. AlignUp(cfg[j].min) \in Nat
  BY <1>2, AlignUpFacts
<1> QED
  BY <1>1, <1>2, <1>3, StartAssumption DEF MinOf

LEMMA ShareFacts ==
  ASSUME StartType, NEW j \in 1 .. Count
  PROVE  /\ Wanted(j) \in Nat /\ Wanted(j) >= MinOf(j)
         /\ Wanted(j) * 100 >= cfg[j].percent * arena - 100
<1>1. /\ cfg[j].percent \in Nat /\ MinOf(j) \in Nat /\ arena \in Nat /\ remaining \in Nat
  BY EntryFacts DEF StartType
<1> DEFINE part == PercentOf(arena, cfg[j].percent)
           need == cfg[j].percent * arena
<1>2. part \in Nat /\ part * 100 >= need - 100
  BY <1>1, PercentFacts
<1>3. AlignUp(part) \in Nat /\ part <= AlignUp(part)
  BY <1>2, AlignUpFacts
<1>4. need \in Nat
  BY <1>1
<1>5. cfg[j].percent = 0 => need = 0
  BY <1>1
<1>6. Share(j) = IF j = Count /\ cfg[j].percent = 0 THEN remaining ELSE AlignUp(part)
  BY DEF Share
<1> HIDE DEF part, need
<1>7. Share(j) \in Nat /\ Share(j) * 100 >= need - 100
  <2>1. CASE j = Count /\ cfg[j].percent = 0
    BY <1>1, <1>5, <1>6, <2>1
  <2>2. CASE ~ (j = Count /\ cfg[j].percent = 0)
    BY <1>2, <1>3, <1>4, <1>6, <2>2
  <2> QED
    BY <2>1, <2>2
<1>8. Wanted(j) \in Nat /\ Wanted(j) >= MinOf(j) /\ Wanted(j) >= Share(j)
  BY <1>1, <1>7 DEF Wanted
<1>9. Wanted(j) * 100 >= need - 100
  BY <1>4, <1>7, <1>8
<1> QED
  BY <1>8, <1>9 DEF need

(* The boundaries of an accepted list begin with the alignment and rise.    *)
LEMMA BoundariesRise ==
  ASSUME cfg \in Seq(Config), Listed
  PROVE  /\ Count \in Nat /\ Count >= 1 /\ MinOf(1) = Align
         /\ \A j \in 1 .. Count : MaxOf(j) \in Nat
         /\ \A j \in 1 .. Count : MaxOf(j) = Unlimited <=> j = Count
         /\ \A j \in 1 .. (Count - 1) : MinOf(j) < MinOf(j + 1) /\ MaxOf(j) = MinOf(j + 1) - 1
<1>1. Count \in Nat /\ Count >= 1
  BY DEF Listed, MeansFlat, Count
<1>2. \A j \in 1 .. Count : MinOf(j) \in Nat /\ MinOf(j) >= Align /\ Align \in Nat /\ Align >= 1
  BY EntryFacts
<1>3. MinOf(1) = Align
  BY <1>1, <1>2 DEF Listed, Acceptable
<1>4. ASSUME NEW j \in 1 .. (Count - 1)
      PROVE  /\ MinOf(j) < MinOf(j + 1) /\ MaxOf(j) = MinOf(j + 1) - 1
             /\ MaxOf(j) \in Nat /\ MaxOf(j) # 0
  <2>1. j \in 1 .. Count /\ j + 1 \in 2 .. Count /\ j + 1 \in 1 .. Count /\ j # Count /\ (j + 1) - 1 = j
    BY <1>1
  <2>2. MinOf(j + 1) > MinOf((j + 1) - 1)
    BY <2>1 DEF Listed, Acceptable
  <2>3. MinOf(j) < MinOf(j + 1)
    BY <1>2, <2>1, <2>2
  <2> QED
    BY <1>2, <2>1, <2>3 DEF MaxOf
<1>5. MaxOf(Count) = 0
  BY DEF MaxOf, Unlimited
<1>6. \A j \in 1 .. Count : j = Count \/ j \in 1 .. (Count - 1)
  BY <1>1
<1>7. \A j \in 1 .. Count : MaxOf(j) \in Nat
  BY <1>4, <1>5, <1>6
<1>8. \A j \in 1 .. Count : MaxOf(j) = Unlimited <=> j = Count
  BY <1>4, <1>5, <1>6 DEF Unlimited
<1> QED
  BY <1>1, <1>3, <1>4, <1>7, <1>8

-----------------------------------------------------------------------------
(* The start keeps its invariant. *)

LEMMA BeginsSound == Init => StartInv
<1> SUFFICES ASSUME Init PROVE StartInv
  OBVIOUS
<1>1. raw \in Nat /\ raw % Align = 0
  BY StartAssumption DEF Init
<1>2. Multiple(raw)
  BY <1>1, MultipleOfAlign
<1>3. cfg \in Seq(Config)
  <2>1. Configs \subseteq Seq(Config)
    BY StartAssumption DEF Config
  <2>2. cfg \in Configs \/ cfg = <<>>
    BY DEF Init
  <2>3. <<>> \in Seq(Config)
    OBVIOUS
  <2> QED
    BY <2>1, <2>2, <2>3, Zenon
<1>4. regions \in Seq(Region)
  BY DEF Init
<1> QED
  BY <1>1, <1>2, <1>3, <1>4 DEF Init, StartInv, StartType

(* The sizes that an arena of these bounds can have. *)
LEMMA MeasuredFacts ==
  ASSUME StartType, NEW spare, NEW n \in Measured(spare), spare \in Nat
  PROVE  n \in Nat /\ Multiple(n) /\ n + TableInit <= raw
<1>1. raw \in Nat /\ Multiple(raw) /\ TableInit \in Nat /\ TableInit % Align = 0
  BY StartAssumption DEF StartType
<1>2. Multiple(TableInit)
  BY <1>1, MultipleOfAlign
<1>3. CASE TableInit = 0
  BY <1>1, <1>3 DEF Measured
<1>4. CASE TableInit # 0
  <2>1. TableInit <= raw /\ n = raw - TableInit
    BY <1>1, <1>4 DEF Measured
  <2> QED
    BY <1>1, <1>2, <2>1, MultipleDiff
<1> QED
  BY <1>3, <1>4

LEMMA ZoneStartFacts ==
  ASSUME NEW n \in Nat, Multiple(n), NEW reserve \in Nat
  PROVE  ZoneStart(n, reserve) \in Nat /\ ZoneStart(n, reserve) <= n /\ Multiple(ZoneStart(n, reserve))
BY AlignUpFacts DEF ZoneStart

(* The operators of a list that does not change. *)
LEMMA ListKept ==
  ASSUME UNCHANGED <<build, base, arena, cfg>>
  PROVE  /\ Count' = Count /\ (\A j : MinOf(j)' = MinOf(j) /\ MaxOf(j)' = MaxOf(j))
         /\ (Listed' <=> Listed) /\ (MeansFlat' <=> MeansFlat) /\ Flat' = Flat
<1>1. Count' = Count
  BY DEF Count
<1>2. \A j : MinOf(j)' = MinOf(j)
  BY DEF MinOf, AlignUp
<1>3. \A j : MaxOf(j)' = MaxOf(j)
  BY <1>1, <1>2 DEF MaxOf, Unlimited
<1>4. MeansFlat' <=> MeansFlat
  BY <1>1 DEF MeansFlat
<1>5. PercentSum' = PercentSum
  BY DEF PercentSum
<1>6. Parses' <=> Parses
  BY <1>1, <1>2 DEF Parses
<1>7. Acceptable' <=> Acceptable
  BY <1>1, <1>2, <1>5 DEF Acceptable
<1>8. Flat' = Flat
  BY DEF Flat, Unlimited
<1> QED
  BY <1>1, <1>2, <1>3, <1>4, <1>6, <1>7, <1>8 DEF Listed

LEMMA SplitKept ==
  ASSUME UNCHANGED <<build, raw, total, base, arena>>
  PROVE  Split' <=> Split
BY DEF Split, Multiple

LEMMA FlatType ==
  ASSUME StartType
  PROVE  Flat \in Seq(Region)
<1>1. base \in Nat /\ arena \in Nat /\ Align \in Nat /\ Unlimited \in Nat
  BY StartAssumption DEF StartType, Unlimited
<1> QED
  BY <1>1 DEF Flat, Region

LEMMA BoundsKeeps ==
  ASSUME StartInv, DramBounds \/ IramWithRegions \/ IramExecOnly \/ NoHeap
  PROVE  StartInv'
<1>1. /\ StartType /\ phase = "bounds" /\ base = 0 /\ arena = 0 /\ remaining = 0
      /\ regions = <<>> /\ fallback = FALSE
  BY DEF StartInv, DramBounds, IramWithRegions, IramExecOnly, NoHeap
<1>2. DramSpare \in Nat /\ IramSpare \in Nat /\ Reserves \subseteq Nat
  BY StartAssumption
<1>3. ASSUME NEW n \in DramSizes PROVE n \in Nat /\ Multiple(n) /\ n + TableInit <= raw /\ n > 0
  BY <1>1, <1>2, <1>3, MeasuredFacts DEF DramSizes
<1>4. ASSUME NEW n \in IramSizes PROVE n \in Nat /\ Multiple(n) /\ n + TableInit <= raw
  BY <1>1, <1>2, <1>4, MeasuredFacts DEF IramSizes
<1>5. raw \in Nat /\ TableInit \in Nat
  BY <1>1, StartAssumption DEF StartType
<1>6. Multiple(0)
  BY MultipleZero
<1>7. CASE DramBounds
  <2>1. PICK n \in DramSizes : /\ total' = n /\ arena' = n /\ remaining' = n /\ phase' = "check"
                               /\ UNCHANGED <<build, raw, base, cfg, regions, fallback>>
    BY <1>7 DEF DramBounds
  <2>2. StartType'
    BY <1>1, <1>3, <2>1 DEF StartType, Multiple
  <2>3. Split'
    BY <1>1, <1>3, <1>6, <2>1 DEF Split, Multiple
  <2> QED
    BY <1>1, <1>3, <2>1, <2>2, <2>3 DEF StartInv
<1>8. CASE IramWithRegions
  <2>0. build' # "dram"
    BY <1>8 DEF IramWithRegions
  <2>1. PICK n \in IramSizes : \E reserve \in Reserves :
               /\ total' = n /\ base' = ZoneStart(n, reserve)
               /\ arena' = n - ZoneStart(n, reserve) /\ remaining' = n - ZoneStart(n, reserve)
               /\ phase' = IF n = ZoneStart(n, reserve) THEN "done" ELSE "check"
               /\ UNCHANGED <<build, raw, cfg, regions, fallback>>
    BY <1>8, Zenon DEF IramWithRegions
  <2>2. PICK reserve \in Reserves :
               /\ total' = n /\ base' = ZoneStart(n, reserve)
               /\ arena' = n - ZoneStart(n, reserve) /\ remaining' = n - ZoneStart(n, reserve)
               /\ phase' = IF n = ZoneStart(n, reserve) THEN "done" ELSE "check"
               /\ UNCHANGED <<build, raw, cfg, regions, fallback>>
    BY <2>1
  <2>3. PICK z \in Nat : z = ZoneStart(n, reserve) /\ z <= n /\ Multiple(z)
    BY <1>2, <1>4, ZoneStartFacts
  <2>4. n - z \in Nat /\ Multiple(n - z) /\ n \in Nat /\ n + TableInit <= raw
    BY <1>4, <2>3, MultipleDiff
  <2>5. StartType'
    BY <1>1, <2>2, <2>3, <2>4 DEF StartType, Multiple
  <2>6. Split'
    BY <1>1, <2>0, <2>2, <2>3, <2>4 DEF Split, Multiple
  <2>7. CASE n = z
    BY <1>1, <2>0, <2>2, <2>3, <2>5, <2>6, <2>7 DEF StartInv, Outcome
  <2>8. CASE n # z
    BY <1>1, <2>2, <2>3, <2>4, <2>5, <2>6, <2>8 DEF StartInv
  <2> QED
    BY <2>7, <2>8
<1>9. CASE IramExecOnly
  <2>0. build' # "dram"
    BY <1>9 DEF IramExecOnly
  <2>1. PICK n \in IramSizes : \E reserve \in Reserves :
               /\ total' = IF build = "whole" THEN n ELSE ZoneStart(n, reserve)
               /\ base' = total' /\ phase' = "done"
               /\ UNCHANGED <<build, raw, arena, cfg, remaining, regions, fallback>>
    BY <1>9 DEF IramExecOnly
  <2>2. PICK reserve \in Reserves :
               /\ total' = IF build = "whole" THEN n ELSE ZoneStart(n, reserve)
               /\ base' = total' /\ phase' = "done"
               /\ UNCHANGED <<build, raw, arena, cfg, remaining, regions, fallback>>
    BY <2>1
  <2>3. PICK kept \in Nat : kept = total' /\ kept <= n /\ Multiple(kept)
    <3>1. n \in Nat /\ Multiple(n) /\ reserve \in Nat
      BY <1>2, <1>4
    <3>2. /\ ZoneStart(n, reserve) \in Nat /\ ZoneStart(n, reserve) <= n
          /\ Multiple(ZoneStart(n, reserve))
      BY <3>1, ZoneStartFacts
    <3>3. CASE build = "whole"
      <4>1. total' = n /\ n <= n
        BY <2>2, <3>1, <3>3
      <4> QED
        BY <3>1, <4>1
    <3>4. CASE build # "whole"
      <4>1. total' = ZoneStart(n, reserve)
        BY <2>2, <3>4
      <4> QED
        BY <3>2, <4>1
    <3> QED
      BY <3>3, <3>4
  <2>4. kept + TableInit <= raw
    <3>1. n \in Nat /\ n + TableInit <= raw
      BY <1>4
    <3>2. kept <= n
      BY <2>3
    <3> QED
      BY <1>5, <3>1, <3>2
  <2>5. StartType'
    BY <1>1, <2>2, <2>3 DEF StartType, Multiple
  <2>6. Split'
    BY <1>1, <1>6, <2>0, <2>2, <2>3, <2>4 DEF Split, Multiple
  <2> QED
    BY <1>1, <2>0, <2>2, <2>5, <2>6 DEF StartInv, Outcome
<1>10. CASE NoHeap
  <2>1. phase' = "off" /\ UNCHANGED <<build, raw, total, base, arena, cfg, remaining, regions, fallback>>
    BY <1>10 DEF NoHeap
  <2> QED
    BY <1>1, <2>1 DEF StartInv, StartType, Multiple
<1> QED
  BY <1>7, <1>8, <1>9, <1>10

LEMMA FlatKeeps ==
  ASSUME StartInv, phase \in {"check", "carve"},
         regions' = Flat, phase' = "done", fallback' = TRUE \/ MeansFlat,
         UNCHANGED <<build, raw, total, base, arena, cfg, remaining>>
  PROVE  StartInv'
<1>1. StartType /\ Split /\ arena > 0
  BY DEF StartInv
<1>2. StartType'
  BY <1>1, FlatType DEF StartType, Multiple
<1>3. Split'
  BY <1>1, SplitKept
<1>4. Outcome'
  BY <1>1, ListKept DEF Outcome
<1> QED
  BY <1>2, <1>3, <1>4 DEF StartInv

LEMMA CarveKeeps == ASSUME StartInv, Carve PROVE StartInv'
<1> DEFINE n == Len(regions)
           j == Len(regions) + 1
           h == base + (arena - remaining)
<1>1. /\ phase = "carve" /\ j <= Count /\ Wanted(j) <= remaining
      /\ regions' = Append(regions, [start |-> h, total |-> Wanted(j), min |-> MinOf(j), max |-> MaxOf(j)])
      /\ remaining' = remaining - Wanted(j)
      /\ UNCHANGED <<build, raw, total, base, arena, cfg, phase, fallback>>
  BY DEF Carve
<1>2. /\ StartType /\ Split /\ arena > 0 /\ remaining <= arena /\ fallback = FALSE
      /\ Listed /\ CarvedTo(h)
  BY <1>1 DEF StartInv
<1>3. /\ base \in Nat /\ arena \in Nat /\ remaining \in Nat /\ h \in Nat
      /\ regions \in Seq(Region) /\ n \in Nat /\ j \in Nat /\ cfg \in Seq(Config)
  BY <1>2 DEF StartType
<1>4. j \in 1 .. Count /\ Count \in Nat
  BY <1>1, <1>2, <1>3, BoundariesRise
<1>5. PICK w \in Nat : /\ w = Wanted(j) /\ w >= MinOf(j)
                       /\ w * 100 >= cfg[j].percent * arena - 100
  BY <1>2, <1>4, ShareFacts
<1>6. MinOf(j) \in Nat /\ MaxOf(j) \in Nat
  BY <1>2, <1>3, <1>4, EntryFacts, BoundariesRise
<1>7. PICK r \in Region : r = [start |-> h, total |-> w, min |-> MinOf(j), max |-> MaxOf(j)]
  BY <1>3, <1>5, <1>6 DEF Region
<1>8. r.start = h /\ r.total = w /\ r.min = MinOf(j) /\ r.max = MaxOf(j)
  BY <1>7
<1>9. regions' = Append(regions, r)
  BY <1>1, <1>5, <1>7
<1>10. /\ regions' \in Seq(Region) /\ Len(regions') = n + 1 /\ regions'[n + 1] = r
       /\ \A i \in 1 .. n : regions'[i] = regions[i]
  BY <1>3, <1>9
<1>11. w <= remaining /\ remaining' = remaining - w /\ remaining' \in Nat /\ remaining' <= arena
  <2>1. w <= remaining /\ remaining' = remaining - w
    BY <1>1, <1>5
  <2>2. remaining <= arena
    BY <1>2
  <2> QED
    BY <1>3, <2>1, <2>2
<1>12. (base + (arena - remaining))' = h + w
  <2>1. base' = base /\ arena' = arena
    BY <1>1
  <2>2. base \in Nat /\ arena \in Nat /\ remaining \in Nat
    BY <1>3
  <2> QED
    BY <1>11, <2>1, <2>2
<1>13. /\ n <= Count /\ (n = 0 => h = base)
       /\ n > 0 => regions[1].start = base /\ regions[n].start + regions[n].total = h
       /\ \A i \in 1 .. (n - 1) : regions[i + 1].start = regions[i].start + regions[i].total
       /\ \A i \in 1 .. n : AsListed(i)
  BY <1>2 DEF CarvedTo
<1> HIDE DEF h
<1>14. \A i \in 1 .. (n + 1) : AsListed(i)'
  <2> SUFFICES ASSUME NEW i \in 1 .. (n + 1) PROVE AsListed(i)'
    OBVIOUS
  <2>1. MinOf(i)' = MinOf(i) /\ MaxOf(i)' = MaxOf(i)
    BY <1>1, ListKept
  <2>2. CASE i \in 1 .. n
    <3>1. AsListed(i) /\ regions'[i] = regions[i]
      BY <1>10, <1>13, <2>2
    <3> QED
      BY <1>1, <2>1, <3>1 DEF AsListed
  <2>3. CASE i = n + 1
    BY <1>1, <1>5, <1>8, <1>10, <2>1, <2>3 DEF AsListed
  <2> QED
    BY <1>3, <2>2, <2>3
<1>15. regions'[1].start = base /\ regions'[n + 1].start + regions'[n + 1].total = h + w
  <2>1. CASE n = 0
    BY <1>8, <1>10, <1>13, <2>1
  <2>2. CASE n > 0
    <3>1. 1 \in 1 .. n
      BY <1>3, <2>2
    <3> QED
      BY <1>8, <1>10, <1>13, <2>2, <3>1
  <2> QED
    BY <1>3, <2>1, <2>2
<1>16. ASSUME NEW i \in 1 .. n
       PROVE  regions'[i + 1].start = regions'[i].start + regions'[i].total
  <2>1. CASE i = n
    BY <1>3, <1>8, <1>10, <1>13, <2>1
  <2>2. CASE i # n
    <3>1. i \in 1 .. (n - 1) /\ i + 1 \in 1 .. n
      BY <1>3, <2>2
    <3> QED
      BY <1>10, <1>13, <3>1
  <2> QED
    BY <2>1, <2>2
<1>17. Count' = Count /\ Listed' /\ Split'
  BY <1>1, <1>2, ListKept, SplitKept
<1>18. CarvedTo(base + (arena - remaining))'
  <2>1. Len(regions)' = n + 1 /\ n + 1 > 0 /\ n + 1 # 0 /\ (n + 1) - 1 = n /\ n + 1 <= Count
    BY <1>1, <1>3, <1>10
  <2>2. base' = base
    BY <1>1
  <2> QED
    BY <1>12, <1>14, <1>15, <1>16, <1>17, <2>1, <2>2 DEF CarvedTo
<1>19. StartType'
  BY <1>1, <1>2, <1>10, <1>11 DEF StartType, Multiple
<1>20. phase' = "carve" /\ arena' > 0 /\ remaining' <= arena' /\ fallback' = FALSE
  BY <1>1, <1>2, <1>11
<1> QED
  BY <1>17, <1>18, <1>19, <1>20 DEF StartInv

LEMMA FinishKeeps == ASSUME StartInv, Finish PROVE StartInv'
<1> DEFINE n == Count
           h == base + (arena - remaining)
<1>1. /\ phase = "carve" /\ Len(regions) = n /\ phase' = "done"
      /\ regions' = [regions EXCEPT ![n].total = regions[n].total + remaining]
      /\ UNCHANGED <<build, raw, total, base, arena, cfg, remaining, fallback>>
  BY DEF Finish
<1>2. StartType /\ Split /\ arena > 0 /\ Listed /\ CarvedTo(h)
  BY <1>1 DEF StartInv
<1>3. /\ base \in Nat /\ arena \in Nat /\ remaining \in Nat /\ total \in Nat
      /\ regions \in Seq(Region) /\ cfg \in Seq(Config)
  BY <1>2 DEF StartType
<1>4. n \in Nat /\ n >= 1 /\ n \in 1 .. n
  BY <1>2, <1>3, BoundariesRise
<1>5. base + arena = total
  BY <1>2 DEF Split
<1>6. /\ regions[1].start = base /\ regions[n].start + regions[n].total = h
      /\ \A i \in 1 .. (n - 1) : regions[i + 1].start = regions[i].start + regions[i].total
      /\ \A i \in 1 .. n : AsListed(i)
  BY <1>1, <1>2, <1>4 DEF CarvedTo
<1>7. regions[n] \in Region
  BY <1>1, <1>3, <1>4
<1>8. PICK old \in Region : old = regions[n]
  BY <1>7
<1>9. /\ old.start \in Nat /\ old.total \in Nat /\ old.min \in Nat /\ old.max \in Nat
  BY <1>8 DEF Region
<1> DEFINE r == [start |-> old.start, total |-> old.total + remaining,
                 min |-> old.min, max |-> old.max]
<1>10. r \in Region /\ r = [old EXCEPT !.total = old.total + remaining]
  <2>1. old.total + remaining \in Nat
    BY <1>3, <1>9
  <2>2. old = [start |-> old.start, total |-> old.total, min |-> old.min, max |-> old.max]
    BY DEF Region
  <2> QED
    BY <1>9, <2>1, <2>2 DEF Region
<1>11. r.start = old.start /\ r.total = old.total + remaining /\ r.min = old.min /\ r.max = old.max
  OBVIOUS
<1>12. regions' = [regions EXCEPT ![n] = r]
  BY <1>1, <1>8, <1>10
<1> HIDE DEF r, h, n
<1>13. /\ regions' \in Seq(Region) /\ Len(regions') = n /\ regions'[n] = r
       /\ \A i \in 1 .. n : i # n => regions'[i] = regions[i]
  <2>1. n \in 1 .. Len(regions) /\ Len(regions) = n
    BY <1>1, <1>4 DEF n
  <2> QED
    BY <1>3, <1>10, <1>12, <2>1, ExceptSeq
<1>14. Count' = n /\ Listed' /\ Split'
  BY <1>1, <1>2, ListKept, SplitKept DEF n
<1>15. ASSUME NEW i \in 1 .. n PROVE AsListed(i)'
  <2>1. /\ MinOf(i)' = MinOf(i) /\ MaxOf(i)' = MaxOf(i)
        /\ cfg' = cfg /\ arena' = arena
    BY <1>1, ListKept
  <2>2. AsListed(i)
    BY <1>6
  <2>3. CASE i # n
    <3>1. regions'[i] = regions[i]
      BY <1>13, <2>3
    <3> QED
      BY <2>1, <2>2, <3>1 DEF AsListed
  <2>4. CASE i = n
    <3>1. /\ old.min = MinOf(i) /\ old.max = MaxOf(i) /\ old.total >= MinOf(i)
          /\ old.total * 100 >= cfg[i].percent * arena - 100
      BY <1>8, <2>2, <2>4 DEF AsListed
    <3>2. MinOf(i) \in Nat /\ cfg[i].percent \in Nat
      BY <1>3, EntryFacts DEF n
    <3>3. PICK need \in Nat : need = cfg[i].percent * arena
      BY <1>3, <3>2
    <3>6. old.total >= MinOf(i) /\ old.total * 100 >= need - 100
      BY <3>1, <3>3
    <3>7. old.total \in Nat /\ remaining \in Nat
      BY <1>3, <1>9
    <3>8. (old.total + remaining) * 100 >= need - 100
      BY <3>3, <3>6, <3>7
    <3>4. old.total + remaining >= MinOf(i) /\ (old.total + remaining) * 100 >= need - 100
      BY <3>2, <3>6, <3>7, <3>8
    <3>5. regions'[i] = r
      BY <1>13, <2>4
    <3> QED
      BY <1>11, <2>1, <3>1, <3>3, <3>4, <3>5 DEF AsListed
  <2> QED
    BY <2>3, <2>4
<1>16. old.start + (old.total + remaining) = total
  <2>1. old.start + old.total = base + (arena - remaining)
    BY <1>6, <1>8 DEF h
  <2>2. base \in Nat /\ arena \in Nat /\ remaining \in Nat /\ total \in Nat
    BY <1>3
  <2>3. old.start \in Nat /\ old.total \in Nat
    BY <1>9
  <2> QED
    BY <1>5, <2>1, <2>2, <2>3
<1>17. regions'[1].start = base /\ regions'[n].start + regions'[n].total = total
  <2>1. regions'[n].start + regions'[n].total = total
    BY <1>11, <1>13, <1>16
  <2>2. CASE n = 1
    BY <1>6, <1>8, <1>11, <1>13, <2>1, <2>2
  <2>3. CASE n # 1
    <3>1. 1 \in 1 .. n
      BY <1>4
    <3> QED
      BY <1>6, <1>13, <2>1, <2>3, <3>1
  <2> QED
    BY <2>2, <2>3
<1>18. ASSUME NEW i \in 1 .. (n - 1)
       PROVE  regions'[i + 1].start = regions'[i].start + regions'[i].total
  <2>1. i \in 1 .. n /\ i # n /\ i + 1 \in 1 .. n
    BY <1>4
  <2>2. regions'[i] = regions[i] /\ regions[i + 1].start = regions[i].start + regions[i].total
    BY <1>6, <1>13, <2>1
  <2>3. regions'[i + 1].start = regions[i + 1].start
    <3>1. CASE i + 1 = n
      BY <1>8, <1>11, <1>13, <3>1
    <3>2. CASE i + 1 # n
      BY <1>13, <2>1, <3>2
    <3> QED
      BY <3>1, <3>2
  <2> QED
    BY <2>2, <2>3
<1>19. CarvedTo(total)'
  <2>1. Len(regions)' = n /\ n <= n /\ n # 0 /\ base' = base /\ total' = total
    BY <1>1, <1>4, <1>13
  <2> QED
    BY <1>14, <1>15, <1>17, <1>18, <2>1 DEF CarvedTo
<1>20. StartType'
  BY <1>1, <1>2, <1>13 DEF StartType, Multiple
<1>21. Outcome'
  <2>1. Len(regions)' = Count' /\ arena' > 0
    BY <1>1, <1>2, <1>13, <1>14
  <2> QED
    BY <1>14, <1>19, <2>1 DEF Outcome
<1> QED
  BY <1>1, <1>14, <1>20, <1>21 DEF StartInv

LEMMA StartStep == StartInv /\ [Next]_regionVars => StartInv'
<1> SUFFICES ASSUME StartInv, [Next]_regionVars PROVE StartInv'
  OBVIOUS
<1>1. CASE OneRegion
  BY <1>1, FlatKeeps DEF OneRegion
<1>2. CASE Reject
  BY <1>2, FlatKeeps DEF Reject, FallBack
<1>3. CASE TooLarge
  BY <1>3, FlatKeeps DEF TooLarge, FallBack
<1>4. CASE Accept
  <2>1. /\ phase = "check" /\ Listed /\ phase' = "carve"
        /\ UNCHANGED <<build, raw, total, base, arena, cfg, remaining, regions, fallback>>
    BY <1>4 DEF Accept, Listed
  <2>2. /\ StartType /\ Split /\ arena > 0 /\ remaining = arena /\ regions = <<>>
        /\ fallback = FALSE
    BY <2>1 DEF StartInv
  <2>3. Listed' /\ Split'
    BY <2>1, <2>2, ListKept, SplitKept
  <2>4. cfg \in Seq(Config) /\ base \in Nat /\ arena \in Nat
    BY <2>2 DEF StartType
  <2>5. Count' \in Nat
    BY <2>1, <2>4 DEF Count
  <2>6. (base + (arena - remaining))' = base' /\ Len(regions)' = 0
    BY <2>1, <2>2, <2>4
  <2>7. CarvedTo(base + (arena - remaining))'
    BY <2>5, <2>6 DEF CarvedTo
  <2>8. StartType'
    BY <2>1, <2>2 DEF StartType, Multiple
  <2>9. arena' > 0 /\ remaining' <= arena' /\ fallback' = FALSE
    BY <2>1, <2>2, <2>4
  <2> QED
    BY <2>1, <2>3, <2>7, <2>8, <2>9 DEF StartInv
<1>5. CASE UNCHANGED regionVars
  <2>1. UNCHANGED <<build, raw, total, base, arena, cfg, phase, remaining, regions, fallback>>
    BY <1>5 DEF regionVars
  <2>2. StartType' <=> StartType
    BY <2>1 DEF StartType, Multiple
  <2>3. (Split' <=> Split) /\ (Listed' <=> Listed) /\ (MeansFlat' <=> MeansFlat) /\ Flat' = Flat
    BY <2>1, ListKept, SplitKept
  <2>4. \A j : AsListed(j)' <=> AsListed(j)
    BY <2>1, ListKept DEF AsListed
  <2>5. CarvedTo(base + (arena - remaining))' <=> CarvedTo(base + (arena - remaining))
    BY <2>1, <2>4, ListKept DEF CarvedTo
  <2>6. CarvedTo(total)' <=> CarvedTo(total)
    BY <2>1, <2>4, ListKept DEF CarvedTo
  <2>7. Outcome' <=> Outcome
    BY <2>1, <2>3, <2>6, ListKept DEF Outcome
  <2> QED
    BY <2>1, <2>2, <2>3, <2>5, <2>7 DEF StartInv
<1> QED
  BY <1>1, <1>2, <1>3, <1>4, <1>5, BoundsKeeps, CarveKeeps, FinishKeeps DEF Next

(* However the bounds, the reserve and the list come out, the start goes    *)
(* through these states only: a list that is turned down half way leaves    *)
(* one flat region behind and nothing of what was carved.                   *)
THEOREM StartSafety == Spec => []StartInv
<1> QED
  BY BeginsSound, StartStep, PTL DEF Spec

LEMMA OutcomeFacts ==
  ASSUME StartInv, Done
  PROVE  StartType /\ Split /\ Outcome
BY DEF StartInv, Done

LEMMA FlatFacts ==
  ASSUME regions = Flat
  PROVE  /\ Len(regions) = 1 /\ regions[1].start = base /\ regions[1].total = arena
         /\ regions[1].min = Align /\ regions[1].max = Unlimited
BY DEF Flat

(* The regions tile what the EXEC zone leaves, in address order, each large *)
(* enough for a block of its class: whatever region_init is configured with *)
(* and wherever its checks make it give up.                                 *)
THEOREM StartTilesArena == Spec => []RegionsTileArena
<1>1. StartInv => RegionsTileArena
  <2> SUFFICES ASSUME StartInv, Done PROVE RegionsTileArena
    BY DEF RegionsTileArena
  <2>1. /\ base \in Nat /\ arena \in Nat /\ base + arena = total /\ total + TableInit <= raw
        /\ Multiple(base) /\ Multiple(arena) /\ regions \in Seq(Region) /\ cfg \in Seq(Config)
    BY OutcomeFacts DEF Split, StartType
  <2>2. base % Align = 0
    BY <2>1, MultipleOfAlign
  <2>3. CASE arena = 0 /\ regions = <<>>
    <3>1. Len(regions) = 0
      BY <2>3
    <3> QED
      BY <2>1, <2>2, <2>3, <3>1 DEF RegionsTileArena
  <2>4. CASE arena > 0 /\ regions = Flat
    <3>1. arena - 0 >= Align /\ 0 \in Nat
      BY <2>1, <2>4, MultipleDiff, MultipleZero
    <3>2. arena >= Align
      BY <2>1, <3>1
    <3>3. /\ Len(regions) = 1 /\ regions[1].start = base /\ regions[1].total = arena
          /\ regions[1].min = Align
      BY <2>4, FlatFacts
    <3>4. \A j \in 1 .. 1 : regions[j].total >= regions[j].min
      BY <3>2, <3>3
    <3> QED
      BY <2>1, <2>2, <2>4, <3>3, <3>4 DEF RegionsTileArena
  <2>5. CASE arena > 0 /\ Listed /\ Len(regions) = Count /\ CarvedTo(total)
    <3>1. Count \in Nat /\ Count >= 1
      BY <2>1, <2>5, BoundariesRise
    <3>2. \A j \in 1 .. Count : regions[j].total >= regions[j].min
      BY <2>5 DEF CarvedTo, AsListed
    <3> QED
      BY <2>1, <2>2, <2>5, <3>1, <3>2 DEF RegionsTileArena, CarvedTo
  <2> QED
    BY <2>3, <2>4, <2>5, OutcomeFacts DEF Outcome
<1> QED
  BY <1>1, StartSafety, PTL

(* No region of an accepted list is smaller than its percentage.            *)
THEOREM PercentagesKept == Spec => []SharesKept
<1>1. StartInv => SharesKept
  <2> SUFFICES ASSUME StartInv, Done, ~fallback, arena > 0, ~MeansFlat,
                      NEW j \in 1 .. Count
               PROVE  regions[j].total * 100 >= cfg[j].percent * arena - 100
    BY Zenon DEF SharesKept
  <2>1. fallback # TRUE
    <3>1. ASSUME fallback = TRUE PROVE FALSE
      <4>1. fallback
        BY <3>1
      <4> QED
        BY <4>1
    <3> QED
      BY <3>1
  <2>2. Len(regions) = Count /\ CarvedTo(total)
    <3>1. Outcome /\ arena \in Nat
      BY OutcomeFacts DEF StartType
    <3>2. arena # 0
      BY <3>1
    <3> QED
      BY <2>1, <3>1, <3>2, Zenon DEF Outcome
  <2> QED
    BY <2>2 DEF CarvedTo, AsListed
<1> QED
  BY <1>1, StartSafety, PTL

LEMMA NatMin ==
  ASSUME NEW S \in SUBSET Nat, S # {}
  PROVE  \E m \in S : \A n \in S : m <= n
<1> DEFINE R == OpToRel(<, Nat)
<1>1. IsWellFoundedOn(R, Nat)
  BY NatLessThanWellFounded
<1>2. \A x, y \in Nat : <<y, x>> \in R <=> y < x
  BY DEF OpToRel
<1> HIDE DEF R
<1>3. PICK m \in S : \A y \in S : ~ (<<y, m>> \in R)
  BY <1>1, WFMin
<1>4. \A y \in S : ~ (y < m)
  BY <1>2, <1>3
<1> QED
  BY <1>4

(* Of rising boundaries that start below b, exactly one class holds b.      *)
LEMMA OneClass ==
  ASSUME cfg \in Seq(Config), Listed, NEW b \in Nat, Align <= b
  PROVE  \E j \in 1 .. Count :
           /\ MinOf(j) <= b /\ (MaxOf(j) = Unlimited \/ b <= MaxOf(j))
           /\ \A i \in 1 .. Count :
                MinOf(i) <= b /\ (MaxOf(i) = Unlimited \/ b <= MaxOf(i)) => i = j
<1>1. /\ Count \in Nat /\ Count >= 1 /\ MinOf(1) = Align
      /\ \A j \in 1 .. Count : MinOf(j) \in Nat /\ (MaxOf(j) = Unlimited <=> j = Count)
      /\ \A j \in 1 .. (Count - 1) : MinOf(j) < MinOf(j + 1) /\ MaxOf(j) = MinOf(j + 1) - 1
  BY BoundariesRise, EntryFacts
<1> DEFINE Holds(j) == MinOf(j) <= b /\ (j = Count \/ b < MinOf(j + 1))
<1>2. ASSUME NEW j \in 1 .. Count
      PROVE  MinOf(j) <= b /\ (MaxOf(j) = Unlimited \/ b <= MaxOf(j)) <=> Holds(j)
  <2>1. CASE j = Count
    BY <1>1, <2>1
  <2>2. CASE j # Count
    <3>1. j \in 1 .. (Count - 1) /\ j + 1 \in 1 .. Count
      BY <1>1, <2>2
    <3>2. MaxOf(j) = MinOf(j + 1) - 1 /\ MinOf(j + 1) \in Nat /\ MaxOf(j) # Unlimited
      BY <1>1, <2>2, <3>1
    <3> QED
      BY <2>2, <3>2
  <2> QED
    BY <2>1, <2>2
<1>3. \E j \in 1 .. Count : Holds(j)
  <2> DEFINE S == {m \in Nat : m < Count /\ MinOf(Count - m) <= b}
  <2>1. Count - 1 \in S
    <3>1. Count - (Count - 1) = 1 /\ Count - 1 \in Nat /\ Count - 1 < Count
      BY <1>1
    <3> QED
      BY <1>1, <3>1
  <2>2. PICK m \in S : \A l \in S : m <= l
    BY <2>1, NatMin
  <2>3. Count - m \in 1 .. Count /\ MinOf(Count - m) <= b /\ m \in Nat
    BY <1>1
  <2>4. ASSUME Count - m # Count PROVE b < MinOf(Count - m + 1)
    <3>1. m - 1 \in Nat /\ Count - (m - 1) = Count - m + 1 /\ m - 1 < Count /\ ~ (m <= m - 1)
      BY <1>1, <2>3, <2>4
    <3>2. m - 1 \notin S
      BY <2>2, <3>1
    <3>3. ~ (MinOf(Count - m + 1) <= b)
      BY <3>1, <3>2
    <3>4. Count - m + 1 \in 1 .. Count
      BY <1>1, <2>3, <2>4
    <3>5. MinOf(Count - m + 1) \in Nat
      BY <1>1, <3>4
    <3> QED
      BY <3>3, <3>5
  <2> QED
    BY <2>3, <2>4
<1>4. ASSUME NEW i \in 1 .. Count, NEW j \in 1 .. Count, i < j, Holds(i), Holds(j)
      PROVE  FALSE
  <2> DEFINE S == {q \in Nat : i < q /\ q <= Count /\ MinOf(q) <= b}
  <2>1. j \in S
    BY <1>1, <1>4
  <2>2. PICK q \in S : \A l \in S : q <= l
    BY <2>1, NatMin
  <2>3. q \in Nat /\ i < q /\ q <= Count /\ MinOf(q) <= b
    OBVIOUS
  <2>4. i # Count /\ b < MinOf(i + 1)
    BY <1>1, <1>4
  <2>5. CASE q = i + 1
    BY <1>1, <2>3, <2>4, <2>5
  <2>6. CASE q # i + 1
    <3>1. /\ q - 1 \in 1 .. (Count - 1) /\ (q - 1) + 1 = q /\ i < q - 1 /\ q - 1 \in Nat
          /\ q - 1 <= Count /\ ~ (q <= q - 1) /\ q - 1 \in 1 .. Count /\ q \in 1 .. Count
      BY <1>1, <2>3, <2>6
    <3>2. MinOf(q - 1) < MinOf(q) /\ MinOf(q - 1) \in Nat /\ MinOf(q) \in Nat
      BY <1>1, <3>1
    <3>3. MinOf(q - 1) <= b
      BY <2>3, <3>2
    <3>4. q - 1 \in S
      BY <3>1, <3>3
    <3> QED
      BY <2>2, <3>1, <3>4
  <2> QED
    BY <2>5, <2>6
<1>5. PICK j \in 1 .. Count : Holds(j)
  BY <1>3
<1> HIDE DEF Holds
<1>6. \A i \in 1 .. Count : Holds(i) => i = j
  BY <1>1, <1>4, <1>5
<1> QED
  BY <1>2, <1>5, <1>6

(* Every block length that the arena could hold has one region of its own   *)
(* class, and only one: the search of malloc, which takes the first, never  *)
(* turns a length down for want of a class.                                 *)
THEOREM EverySizeHasOneHome == Spec => []OneHomePerSize
<1>1. StartInv => OneHomePerSize
  <2> SUFFICES ASSUME StartInv, Done, NEW k \in 1 .. (arena \div Align)
               PROVE  \E j \in 1 .. Len(regions) :
                        /\ TakesSize(regions[j], k * Align)
                        /\ \A i \in 1 .. Len(regions) : TakesSize(regions[i], k * Align) => i = j
    BY DEF OneHomePerSize
  <2>1. arena \in Nat /\ cfg \in Seq(Config) /\ Outcome
    BY OutcomeFacts DEF StartType
  <2>2. Align \in Nat /\ Align >= 1
    BY StartAssumption
  <2>3. k \in Nat /\ k >= 1 /\ arena # 0
    BY <2>1, <2>2
  <2>4. PICK b \in Nat : b = k * Align /\ Align <= b
    <3>1. k * Align \in Nat /\ Align <= k * Align
      BY <2>2, <2>3
    <3> QED
      BY <3>1
  <2>5. CASE regions = Flat
    <3>1. Len(regions) = 1 /\ regions[1].min = Align /\ regions[1].max = Unlimited
      BY <2>5, FlatFacts
    <3>2. TakesSize(regions[1], b) /\ 1 .. Len(regions) = {1}
      BY <2>4, <3>1 DEF TakesSize
    <3> QED
      BY <2>4, <3>2
  <2>6. CASE Listed /\ Len(regions) = Count /\ CarvedTo(total)
    <3>1. \A j \in 1 .. Count : regions[j].min = MinOf(j) /\ regions[j].max = MaxOf(j)
      BY <2>6 DEF CarvedTo, AsListed
    <3>2. \A j \in 1 .. Count :
            TakesSize(regions[j], b) <=> MinOf(j) <= b /\ (MaxOf(j) = Unlimited \/ b <= MaxOf(j))
      BY <3>1 DEF TakesSize
    <3>3. \E j \in 1 .. Count :
            /\ TakesSize(regions[j], b)
            /\ \A i \in 1 .. Count : TakesSize(regions[i], b) => i = j
      BY <2>1, <2>4, <2>6, <3>2, OneClass
    <3> QED
      BY <2>4, <2>6, <3>3
  <2> QED
    BY <2>1, <2>3, <2>5, <2>6 DEF Outcome
<1> QED
  BY <1>1, StartSafety, PTL

(* Regions that lie one behind the other are in address order. *)
LEMMA StartsRise ==
  ASSUME NEW n \in Nat, regions \in Seq(Region), Len(regions) = n,
         \A j \in 1 .. (n - 1) : regions[j + 1].start = regions[j].start + regions[j].total,
         NEW i \in 1 .. n, NEW j \in 1 .. n, i < j
  PROVE  regions[i].start <= regions[j].start
<1>1. \A q \in 1 .. n : regions[q].start \in Nat /\ regions[q].total \in Nat
  <2> SUFFICES ASSUME NEW q \in 1 .. n PROVE regions[q].start \in Nat /\ regions[q].total \in Nat
    OBVIOUS
  <2>1. regions[q] \in Region
    OBVIOUS
  <2> QED
    BY <2>1 DEF Region
<1> DEFINE S == {q \in Nat : i < q /\ q <= n /\ ~ (regions[i].start <= regions[q].start)}
<1>2. ASSUME S # {} PROVE FALSE
  <2>1. PICK q \in S : \A l \in S : q <= l
    BY <1>2, NatMin
  <2>2. q \in Nat /\ i < q /\ q <= n /\ ~ (regions[i].start <= regions[q].start)
    OBVIOUS
  <2>3. /\ q - 1 \in 1 .. (n - 1) /\ (q - 1) + 1 = q /\ q - 1 \in 1 .. n /\ q \in 1 .. n
        /\ q - 1 \in Nat /\ q - 1 <= n /\ ~ (q <= q - 1) /\ (q - 1 = i \/ i < q - 1)
    BY <2>2
  <2>4. regions[q].start = regions[q - 1].start + regions[q - 1].total
    BY <2>3
  <2>5. regions[q - 1].start <= regions[q].start
    BY <1>1, <2>3, <2>4
  <2>6. q - 1 \notin S
    BY <2>1, <2>3
  <2>7. regions[i].start <= regions[q - 1].start
    BY <1>1, <2>3, <2>6
  <2> QED
    BY <1>1, <2>2, <2>3, <2>5, <2>7
<1> QED
  BY <1>2

(* The start discharges the assumptions on the layout under which the       *)
(* theorems about the two arenas are proved.                                *)
THEOREM StartMeetsAssumptions == Spec => []LayoutAsAssumed
<1>1. StartInv => LayoutAsAssumed
  <2> SUFFICES ASSUME StartInv, Done PROVE LayoutAsAssumed
    BY DEF LayoutAsAssumed
  <2>1. /\ base \in Nat /\ arena \in Nat /\ base + arena = total /\ (build = "dram" => base = 0)
        /\ regions \in Seq(Region) /\ cfg \in Seq(Config)
    BY OutcomeFacts DEF Split, StartType
  <2>2. CASE arena = 0 /\ regions = <<>> /\ build # "dram"
    <3>1. Len(regions) = 0 /\ base = total
      BY <2>1, <2>2
    <3> QED
      BY <2>2, <3>1 DEF LayoutAsAssumed
  <2>3. CASE arena > 0 /\ regions = Flat
    <3>1. /\ Len(regions) = 1 /\ regions[1].start = base /\ regions[1].min = Align
          /\ regions[1].max = Unlimited /\ base < total /\ Align \in Nat
      BY <2>1, <2>3, FlatFacts, StartAssumption
    <3>2. 1 .. 1 = {1} /\ 1 .. (1 - 1) = {}
      OBVIOUS
    <3> QED
      BY <2>1, <3>1, <3>2 DEF LayoutAsAssumed
  <2>4. CASE arena > 0 /\ Listed /\ Len(regions) = Count /\ CarvedTo(total)
    <3> DEFINE n == Count
    <3>1. /\ n \in Nat /\ n >= 1 /\ MinOf(1) = Align
          /\ \A j \in 1 .. n : MinOf(j) \in Nat /\ MaxOf(j) \in Nat /\ (MaxOf(j) = Unlimited <=> j = n)
          /\ \A j \in 1 .. (n - 1) : MinOf(j) < MinOf(j + 1) /\ MaxOf(j) = MinOf(j + 1) - 1
      BY <2>1, <2>4, BoundariesRise, EntryFacts
    <3>2. /\ regions[1].start = base /\ regions[n].start + regions[n].total = total
          /\ \A j \in 1 .. (n - 1) : regions[j + 1].start = regions[j].start + regions[j].total
          /\ \A j \in 1 .. n : regions[j].min = MinOf(j) /\ regions[j].max = MaxOf(j)
      BY <2>4, <3>1 DEF CarvedTo, AsListed
    <3>3. base < total /\ total \in Nat /\ Align \in Nat
      BY <2>1, <2>4, StartAssumption
    <3>4. ASSUME NEW i \in 1 .. n, NEW j \in 1 .. n, i < j
          PROVE  regions[i].start <= regions[j].start
      BY <2>1, <2>4, <3>1, <3>2, <3>4, StartsRise
    <3>5. ASSUME NEW j \in 1 .. n PROVE regions[j].start <= total
      <4>1. n \in 1 .. n /\ regions[n] \in Region /\ regions[j] \in Region
        BY <2>1, <2>4, <3>1
      <4>2. regions[n].start \in Nat /\ regions[n].total \in Nat /\ regions[j].start \in Nat
        BY <4>1 DEF Region
      <4>3. regions[j].start <= regions[n].start
        BY <3>1, <3>4, <4>1, <4>2
      <4> QED
        BY <3>2, <3>3, <4>2, <4>3
    <3>6. ASSUME NEW j \in 1 .. (n - 1)
          PROVE  regions[j].min <= regions[j].max /\ regions[j + 1].min = regions[j].max + 1
      <4>1. j \in 1 .. n /\ j + 1 \in 1 .. n
        BY <3>1
      <4>2. /\ MinOf(j) \in Nat /\ MinOf(j + 1) \in Nat
            /\ MinOf(j) < MinOf(j + 1) /\ MaxOf(j) = MinOf(j + 1) - 1
        BY <3>1, <4>1
      <4> QED
        BY <3>2, <4>1, <4>2
    <3>7. \A j \in 1 .. n : regions[j].max = Unlimited <=> j = n
      BY <3>1, <3>2
    <3>8. regions[1].min <= Align /\ n > 0 /\ n # 0
      <4>1. 1 \in 1 .. n
        BY <3>1
      <4> QED
        BY <3>1, <3>2, <3>3, <4>1
    <3>9. Len(regions) = n
      BY <2>4
    <3> HIDE DEF n
    <3> QED
      BY <2>1, <3>2, <3>3, <3>4, <3>5, <3>6, <3>7, <3>8, <3>9 DEF LayoutAsAssumed
  <2> QED
    BY <2>2, <2>3, <2>4, OutcomeFacts DEF Outcome
<1> QED
  BY <1>1, StartSafety, PTL

=============================================================================
