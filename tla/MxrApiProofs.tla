----------------------------- MODULE MxrApiProofs -----------------------------
(***************************************************************************)
(* Proofs about the calls that tasks make, for every number of tasks, every *)
(* layout and every build option: what a call holds outside the lock stays *)
(* its own, one dump runs at a time, a broken block stays, a moving realloc *)
(* leaves one block behind, and the whole implements the abstract heap.    *)
(***************************************************************************)
EXTENDS MxrApi, MxrDramProofs

-----------------------------------------------------------------------------
(* The jobs. *)

DumpKind == {"dump", "snap", "print", "leave"}
Kind     == {"idle", "clear", "copy"} \cup DumpKind
Job      == [kind : Kind, old : Extent, new : Extent]

(* What a call of each kind holds. *)
WellFormed(j) ==
  /\ j.kind # "copy" => j.old = NoBlock
  /\ j.kind \in {"idle", "dump", "leave"} => j.new = NoBlock
  /\ j.kind \in {"clear", "copy"} => j.new # NoBlock
  /\ j.kind = "copy" => j.old # NoBlock

JobTyped == job \in [Task -> Job] /\ \A t \in Task : WellFormed(job[t])

(* The flag of the dump is up while one task dumps, and one task does. *)
OneDump ==
  /\ \A t, s \in Task : job[t].kind \in DumpKind /\ job[s].kind \in DumpKind => t = s
  /\ \A t \in Task : job[t].kind \in DumpKind => dumping

ApiInv == Inv /\ ArenaFits /\ JobTyped /\ JobSafe /\ OneDump

EndsOf(j) == {j.old, j.new} \ {NoBlock}

LEMMA NoBlockNotLive == Inv => NoBlock \notin blocks
BY DEF Inv, BlocksSeparate, NoBlock

LEMMA IdleJob == Idle \in Job /\ WellFormed(Idle) /\ EndsOf(Idle) = {} /\ NoBlock \in Extent
BY DEF Idle, Job, Kind, DumpKind, WellFormed, EndsOf, NoBlock, Extent

LEMMA DumpJobs ==
  ASSUME NEW kind \in DumpKind, NEW x \in Extent, kind \in {"dump", "leave"} => x = NoBlock
  PROVE  /\ DumpJob(kind, x) \in Job /\ WellFormed(DumpJob(kind, x))
         /\ EndsOf(DumpJob(kind, x)) = {x} \ {NoBlock}
         /\ DumpJob(kind, x).kind = kind /\ kind \notin {"idle", "clear", "copy"}
BY DEF DumpJob, Job, Kind, DumpKind, WellFormed, EndsOf, NoBlock, Extent

(* A task that is idle, in the sense of its kind, holds nothing. *)
LEMMA IdleHoldsNothing ==
  ASSUME JobTyped, NEW t \in Task, job[t].kind \in {"idle", "dump", "leave"}
  PROVE  Ends(t) = {}
BY DEF JobTyped, WellFormed, Ends, NoBlock

(* A block that a caller may use is at no end of a call in progress. *)
LEMMA OwnedNotHeld ==
  ASSUME JobTyped, NEW b, Owned(b), NEW s \in Task
  PROVE  b \notin Ends(s)
<1> SUFFICES ASSUME b \in Ends(s) PROVE FALSE
  OBVIOUS
<1>1. CASE b = job[s].new
  BY <1>1 DEF Owned, Held, Ends
<1>2. CASE b = job[s].old
  <2>1. job[s].kind = "copy"
    BY <1>2 DEF JobTyped, WellFormed, Ends
  <2> QED
    BY <1>2, <2>1 DEF Owned, Held
<1> QED
  BY <1>1, <1>2 DEF Ends

(* A step in which one task goes over to job j. *)
LEMMA JobChange ==
  ASSUME JobTyped, JobSafe, NEW t \in Task, NEW j \in Job, WellFormed(j),
         job' = [job EXCEPT ![t] = j],
         EndsOf(j) \subseteq blocks',
         \A s \in Task \ {t} : Ends(s) \subseteq blocks' /\ Ends(s) \cap EndsOf(j) = {},
         j.kind = "copy" => j.old # j.new
  PROVE  JobTyped' /\ JobSafe'
<1>1. job'[t] = j /\ \A s \in Task \ {t} : job'[s] = job[s]
  BY DEF JobTyped
<1>2. Ends(t)' = EndsOf(j) /\ \A s \in Task \ {t} : Ends(s)' = Ends(s)
  BY <1>1 DEF Ends, EndsOf
<1>3. JobTyped'
  BY <1>1 DEF JobTyped
<1>4. \A s \in Task : Ends(s)' \subseteq blocks'
  BY <1>2
<1>5. \A s \in Task : job'[s].kind = "copy" => job'[s].old # job'[s].new
  BY <1>1 DEF JobSafe
<1>6. \A q, s \in Task : q # s => Ends(q)' \cap Ends(s)' = {}
  <2>1. \A q, s \in Task \ {t} : q # s => Ends(q)' \cap Ends(s)' = {}
    BY <1>2 DEF JobSafe
  <2> QED
    BY <1>2, <2>1
<1> QED
  BY <1>3, <1>4, <1>5, <1>6 DEF JobSafe

(* A step in which no call goes on. *)
LEMMA JobsStay ==
  ASSUME JobTyped, JobSafe, job' = job, \A s \in Task : Ends(s) \subseteq blocks'
  PROVE  JobTyped' /\ JobSafe'
<1>1. \A s \in Task : Ends(s)' = Ends(s)
  BY DEF Ends
<1>2. JobTyped'
  BY DEF JobTyped
<1> QED
  BY <1>1, <1>2 DEF JobSafe

(* The flag under a step of one task. *)
LEMMA DumpChange ==
  ASSUME JobTyped, OneDump, NEW t \in Task, NEW j,
         job' = [job EXCEPT ![t] = j],
         \/ j.kind \notin DumpKind /\ job[t].kind \notin DumpKind /\ dumping' = dumping
         \/ j.kind \in DumpKind /\ job[t].kind \in DumpKind /\ dumping' = dumping
         \/ j.kind \in DumpKind /\ ~dumping /\ dumping' = TRUE
         \/ j.kind \notin DumpKind /\ job[t].kind \in DumpKind
  PROVE  OneDump'
<1>1. job'[t] = j /\ \A s \in Task \ {t} : job'[s] = job[s]
  BY DEF JobTyped
<1>2. CASE j.kind \notin DumpKind /\ job[t].kind \notin DumpKind /\ dumping' = dumping
  BY <1>1, <1>2 DEF OneDump
<1>3. CASE j.kind \in DumpKind /\ job[t].kind \in DumpKind /\ dumping' = dumping
  BY <1>1, <1>3 DEF OneDump
<1>4. CASE j.kind \in DumpKind /\ ~dumping /\ dumping' = TRUE
  BY <1>1, <1>4 DEF OneDump
<1>5. CASE j.kind \notin DumpKind /\ job[t].kind \in DumpKind
  BY <1>1, <1>5 DEF OneDump
<1> QED
  BY <1>2, <1>3, <1>4, <1>5

-----------------------------------------------------------------------------
(* The actions, one lemma each: what becomes of the blocks, of the jobs and *)
(* of the flag.                                                             *)

(* The block that a locked section hands out was not there before. *)
LEMMA TakenBlock ==
  ASSUME Inv, NEW bytes \in Nat \ {0}, NEW x, Take(bytes, x)
  PROVE  /\ x \in Extent /\ x \notin blocks /\ x # NoBlock
         /\ blocks' = blocks \cup {x} /\ ArenaStep
<1>1. x \in Extent /\ x.len > 0 /\ x \notin blocks /\ blocks' = blocks \cup {x}
  BY TakeBlocks
<1>2. x # NoBlock
  BY <1>1 DEF NoBlock
<1> QED
  BY <1>1, <1>2 DEF ArenaStep

(* A call's own block, given back: it goes, or its canary is broken. *)
LEMMA GivenBackBlock ==
  ASSUME Inv, NEW x \in blocks, GiveBack(x)
  PROVE  /\ blocks' = blocks \ {x} \/ (blocks' = blocks /\ x.off \in broken)
         /\ ArenaStep
<1>1. CASE \E b \in blocks : b.off = x.off /\ Release(b)
  <2>1. PICK b \in blocks : b.off = x.off /\ Release(b)
    BY <1>1
  <2>2. b = x
    BY <2>1, OffsetIsKey
  <2>3. blocks' = blocks \ {x}
    BY <2>1, <2>2 DEF Release
  <2> QED
    BY <2>1, <2>3 DEF ArenaStep
<1>2. CASE (\A b \in blocks : b.off = x.off => b.off \in broken) /\ UNCHANGED arenaVars
  BY <1>2 DEF ArenaStep, arenaVars
<1> QED
  BY <1>1, <1>2 DEF GiveBack

(* What holds the invariant up from one state to the next. *)
Kept == ArenaStep /\ JobTyped' /\ JobSafe' /\ OneDump'

LEMMA KeptInv ==
  ASSUME ApiInv, Kept
  PROVE  ApiInv'
BY ArenaStepInv, ArenaFitsStep DEF ApiInv, Kept

LEMMA EndsLive ==
  ASSUME ApiInv, NEW s \in Task
  PROVE  Ends(s) \subseteq blocks /\ NoBlock \notin blocks
BY NoBlockNotLive DEF ApiInv, JobSafe

(* Steps in which no call goes on and no held block is touched. *)
LEMMA StillKept ==
  ASSUME ApiInv, ArenaStep, job' = job, dumping' = dumping,
         \A s \in Task : Ends(s) \subseteq blocks'
  PROVE  Kept
<1>1. OneDump'
  BY DEF ApiInv, OneDump
<1> QED
  BY <1>1, JobsStay DEF ApiInv, Kept

LEMMA MallocKept ==
  ASSUME ApiInv, NEW t \in Task, NEW bytes \in Nat \ {0}, NEW x, Malloc(t, bytes, x)
  PROVE  Kept /\ x \in blocks' /\ x \notin blocks /\ blocks' = blocks \cup {x} /\ job' = job
<1>1. blocks' = blocks \cup {x} /\ x \notin blocks /\ ArenaStep
  BY TakenBlock DEF Malloc, ApiInv
<1>2. job' = job /\ dumping' = dumping
  BY DEF Malloc
<1>3. \A s \in Task : Ends(s) \subseteq blocks'
  BY <1>1, EndsLive
<1> QED
  BY <1>1, <1>2, <1>3, StillKept

(* A refused request leaves the blocks as they are. *)
LEMMA RefusedStep ==
  ASSUME NEW bytes \in Nat \ {0}, \E own \in Region : Refuse(own, bytes)
  PROVE  ArenaStep /\ blocks' = blocks
BY DEF ArenaStep, Refuse

LEMMA FailsKept ==
  ASSUME ApiInv, NEW bytes \in Nat \ {0}, \E own \in Region : Refuse(own, bytes),
         UNCHANGED <<job, dumping>>
  PROVE  Kept /\ blocks' = blocks /\ job' = job
<1>1. ArenaStep /\ blocks' = blocks
  BY RefusedStep
<1> QED
  BY <1>1, EndsLive, StillKept

(* An idle task takes a block and keeps working on it. *)
LEMMA TakenKept ==
  ASSUME ApiInv, NEW t \in Task, NEW bytes \in Nat \ {0}, NEW x, Take(bytes, x),
         NEW j \in Job, WellFormed(j), job' = [job EXCEPT ![t] = j], Ends(t) = {},
         x \in EndsOf(j), EndsOf(j) \ {x} \subseteq blocks,
         \A s \in Task : Ends(s) \cap (EndsOf(j) \ {x}) = {},
         j.kind = "copy" => j.old # j.new
  PROVE  ArenaStep /\ JobTyped' /\ JobSafe' /\ x \notin blocks /\ blocks' = blocks \cup {x}
<1>1. blocks' = blocks \cup {x} /\ x \notin blocks /\ ArenaStep
  BY TakenBlock DEF ApiInv
<1>2. EndsOf(j) \subseteq blocks'
  BY <1>1
<1>3. \A s \in Task : Ends(s) \subseteq blocks' /\ x \notin Ends(s)
  BY <1>1, EndsLive
<1>4. \A s \in Task : Ends(s) \cap EndsOf(j) = {}
  BY <1>3
<1> QED
  BY <1>1, <1>2, <1>3, <1>4, JobChange DEF ApiInv

LEMMA CallocKept ==
  ASSUME ApiInv, NEW t \in Task, NEW bytes \in Nat \ {0}, NEW x, Calloc(t, bytes, x)
  PROVE  /\ Kept /\ x \notin blocks /\ blocks' = blocks \cup {x}
         /\ job' = [job EXCEPT ![t] = [kind |-> "clear", old |-> NoBlock, new |-> x]]
         /\ x # NoBlock /\ job[t] = Idle
<1> DEFINE j == [kind |-> "clear", old |-> NoBlock, new |-> x]
<1>1. /\ Take(bytes, x) /\ job' = [job EXCEPT ![t] = j] /\ dumping' = dumping
      /\ job[t] = Idle /\ job[t].kind = "idle"
  BY DEF Calloc, Idle
<1>2. x \in Extent /\ x # NoBlock
  BY <1>1, TakenBlock DEF ApiInv
<1>3. j \in Job /\ WellFormed(j) /\ EndsOf(j) = {x} /\ j.kind = "clear"
  BY <1>2, IdleJob DEF Job, Kind, WellFormed, EndsOf
<1>4. Ends(t) = {}
  BY <1>1, IdleHoldsNothing DEF ApiInv
<1> HIDE DEF j
<1>5. ArenaStep /\ JobTyped' /\ JobSafe' /\ x \notin blocks /\ blocks' = blocks \cup {x}
  BY <1>1, <1>3, <1>4, TakenKept
<1>6. OneDump'
  BY <1>1, <1>3, DumpChange DEF ApiInv, DumpKind
<1> QED
  BY <1>1, <1>2, <1>5, <1>6 DEF Kept, j

LEMMA CallocEndKept ==
  ASSUME ApiInv, NEW t \in Task, CallocEnd(t)
  PROVE  /\ Kept /\ blocks' = blocks /\ job' = [job EXCEPT ![t] = Idle]
         /\ job[t].old = NoBlock
<1>1. job' = [job EXCEPT ![t] = Idle] /\ blocks' = blocks /\ dumping' = dumping /\ ArenaStep
  BY DEF CallocEnd, ArenaStep, arenaVars
<1>2. JobTyped' /\ JobSafe'
  BY <1>1, IdleJob, EndsLive, JobChange DEF ApiInv, Idle
<1>3. OneDump'
  BY <1>1, DumpChange DEF ApiInv, DumpKind, Idle, CallocEnd
<1>4. job[t].old = NoBlock
  BY DEF ApiInv, JobTyped, WellFormed, CallocEnd
<1> QED
  BY <1>1, <1>2, <1>3, <1>4 DEF Kept

LEMMA FreeKept ==
  ASSUME ApiInv, NEW t \in Task, NEW b \in blocks, FreeCall(t, b)
  PROVE  /\ Kept /\ blocks' = blocks \ {b} /\ job' = job
         /\ \A s \in Task : b \notin Ends(s)
<1>1. blocks' = blocks \ {b} /\ job' = job /\ dumping' = dumping /\ ArenaStep
  BY DEF FreeCall, Release, ArenaStep
<1>2. \A s \in Task : b \notin Ends(s)
  BY OwnedNotHeld DEF FreeCall, ApiInv
<1>3. \A s \in Task : Ends(s) \subseteq blocks'
  BY <1>1, <1>2, EndsLive
<1> QED
  BY <1>1, <1>2, <1>3, StillKept

LEMMA InPlaceKept ==
  ASSUME ApiInv, NEW t \in Task, NEW b \in blocks, NEW bytes \in Nat \ {0},
         ReallocInPlace(t, b, bytes)
  PROVE  /\ Kept /\ job' = job
         /\ \E x \in blocks' : x.off = b.off /\ blocks' = (blocks \ {b}) \cup {x}
         /\ \A s \in Task : b \notin Ends(s)
<1>1. /\ job' = job /\ dumping' = dumping /\ ArenaStep
      /\ Shrink(b, bytes) \/ Extend(b, bytes)
  BY DEF ReallocInPlace, ArenaStep
<1>2. \A s \in Task : b \notin Ends(s)
  BY OwnedNotHeld DEF ReallocInPlace, ApiInv
<1>3. PICK len : blocks' = Resized(b, len)
  BY <1>1 DEF Shrink, Extend
<1>4. \E x \in blocks' : x.off = b.off /\ blocks' = (blocks \ {b}) \cup {x}
  BY <1>3 DEF Resized
<1>5. \A s \in Task : Ends(s) \subseteq blocks'
  BY <1>2, <1>4, EndsLive
<1> QED
  BY <1>1, <1>2, <1>4, <1>5, StillKept

LEMMA MoveKept ==
  ASSUME ApiInv, NEW t \in Task, NEW b \in blocks, NEW bytes \in Nat \ {0}, NEW x,
         ReallocMove(t, b, bytes, x)
  PROVE  /\ Kept /\ x \notin blocks /\ blocks' = blocks \cup {x}
         /\ job' = [job EXCEPT ![t] = [kind |-> "copy", old |-> b, new |-> x]]
         /\ x # NoBlock /\ job[t] = Idle
         /\ \A s \in Task : b \notin Ends(s)
<1> DEFINE j == [kind |-> "copy", old |-> b, new |-> x]
<1>1. /\ Take(bytes, x) /\ job' = [job EXCEPT ![t] = j] /\ dumping' = dumping
      /\ job[t] = Idle /\ job[t].kind = "idle"
  BY DEF ReallocMove, MustMove, Idle
<1>2. x \in Extent /\ x \notin blocks /\ x # NoBlock
  BY <1>1, TakenBlock DEF ApiInv
<1>3. b \in Extent /\ b # NoBlock /\ b # x
  BY <1>2, NoBlockNotLive DEF ApiInv, Inv, TypeOK
<1>4. /\ j \in Job /\ WellFormed(j) /\ EndsOf(j) = {b, x}
      /\ j.kind = "copy" /\ j.old # j.new
  BY <1>2, <1>3 DEF Job, Kind, WellFormed, EndsOf
<1>5. Ends(t) = {}
  BY <1>1, IdleHoldsNothing DEF ApiInv
<1>6. \A s \in Task : b \notin Ends(s)
  BY OwnedNotHeld DEF ReallocMove, MustMove, ApiInv
<1> HIDE DEF j
<1>7. ArenaStep /\ JobTyped' /\ JobSafe' /\ x \notin blocks /\ blocks' = blocks \cup {x}
  <2>1. x \in EndsOf(j) /\ EndsOf(j) \ {x} = {b}
    BY <1>3, <1>4
  <2>2. /\ EndsOf(j) \ {x} \subseteq blocks
        /\ \A s \in Task : Ends(s) \cap (EndsOf(j) \ {x}) = {}
    BY <1>6, <2>1
  <2> QED
    BY <1>1, <1>4, <1>5, <2>1, <2>2, TakenKept
<1>8. OneDump'
  BY <1>1, <1>4, DumpChange DEF ApiInv, DumpKind
<1> QED
  BY <1>1, <1>2, <1>6, <1>7, <1>8 DEF Kept, j

(* A task lets go of one of its ends, and gives it back. *)
LEMMA LetGo ==
  ASSUME ApiInv, NEW t \in Task, NEW x \in Ends(t), GiveBack(x),
         NEW j \in Job, WellFormed(j), EndsOf(j) = {}, j.kind # "copy",
         job' = [job EXCEPT ![t] = j]
  PROVE  /\ ArenaStep /\ JobTyped' /\ JobSafe' /\ x \in blocks
         /\ blocks' = blocks \ {x} \/ (blocks' = blocks /\ x.off \in broken)
<1>1. x \in blocks
  BY EndsLive
<1>2. /\ blocks' = blocks \ {x} \/ (blocks' = blocks /\ x.off \in broken)
      /\ ArenaStep
  BY <1>1, GivenBackBlock DEF ApiInv
<1>3. \A s \in Task \ {t} : Ends(s) \subseteq blocks /\ x \notin Ends(s)
  BY EndsLive DEF ApiInv, JobSafe
<1>4. \A s \in Task \ {t} : Ends(s) \subseteq blocks' /\ Ends(s) \cap EndsOf(j) = {}
  BY <1>2, <1>3
<1> QED
  BY <1>1, <1>2, <1>4, JobChange DEF ApiInv

(* The two ends of a copy. *)
LEMMA CopyEnds ==
  ASSUME ApiInv, NEW t \in Task, job[t].kind = "copy"
  PROVE  /\ job[t].old # job[t].new
         /\ Ends(t) = {job[t].old, job[t].new}
BY DEF ApiInv, JobSafe, JobTyped, WellFormed, Ends

LEMMA MoveEndKept ==
  ASSUME ApiInv, NEW t \in Task, ReallocEnd(t)
  PROVE  /\ Kept /\ job[t].kind = "copy" /\ job' = [job EXCEPT ![t] = Idle]
         /\ \/ blocks' = blocks \ {job[t].old}
            \/ blocks' = blocks /\ job[t].old.off \in broken
<1>1. /\ job[t].kind = "copy" /\ job' = [job EXCEPT ![t] = Idle]
      /\ GiveBack(job[t].old) /\ dumping' = dumping
  BY DEF ReallocEnd
<1>2. job[t].old \in Ends(t)
  BY <1>1, CopyEnds
<1>3. Idle \in Job /\ WellFormed(Idle) /\ EndsOf(Idle) = {} /\ Idle.kind = "idle"
  BY IdleJob DEF Idle
<1>4. /\ ArenaStep /\ JobTyped' /\ JobSafe'
      /\ \/ blocks' = blocks \ {job[t].old}
         \/ blocks' = blocks /\ job[t].old.off \in broken
  BY <1>1, <1>2, <1>3, LetGo
<1>5. OneDump'
  BY <1>1, <1>3, DumpChange DEF ApiInv, DumpKind
<1> QED
  BY <1>1, <1>4, <1>5 DEF Kept

LEMMA DumpBeginKept ==
  ASSUME ApiInv, NEW t \in Task, DumpBegin(t)
  PROVE  /\ Kept /\ blocks' = blocks /\ job[t] = Idle
         /\ job' = [job EXCEPT ![t] = DumpJob("dump", NoBlock)]
<1> DEFINE j == DumpJob("dump", NoBlock)
<1>1. /\ job' = [job EXCEPT ![t] = j] /\ blocks' = blocks /\ ~dumping /\ dumping' = TRUE
      /\ ArenaStep /\ job[t] = Idle
  BY DEF DumpBegin, ArenaStep, arenaVars
<1>2. j \in Job /\ WellFormed(j) /\ EndsOf(j) = {} /\ j.kind = "dump" /\ j.kind \in DumpKind
  BY DumpJobs, IdleJob DEF DumpKind
<1> HIDE DEF j
<1>3. JobTyped' /\ JobSafe'
  BY <1>1, <1>2, EndsLive, JobChange DEF ApiInv
<1>4. OneDump'
  BY <1>1, <1>2, DumpChange DEF ApiInv
<1> QED
  BY <1>1, <1>3, <1>4 DEF Kept, j

(* A dump gets memory for its snapshot, or does without. *)
LEMMA DumpAllocKept ==
  ASSUME ApiInv, NEW t \in Task, DumpAlloc(t)
  PROVE  /\ Kept /\ job[t].kind = "dump"
         /\ \/ \E x \in Extent :
                 /\ x # NoBlock /\ x \notin blocks /\ blocks' = blocks \cup {x}
                 /\ job' = [job EXCEPT ![t] = DumpJob("snap", x)]
            \/ /\ blocks' = blocks
               /\ job' = [job EXCEPT ![t] = DumpJob("snap", NoBlock)]
<1>1. job[t].kind = "dump" /\ job[t].kind \in DumpKind /\ dumping' = dumping
  BY DEF DumpAlloc, DumpKind
<1>2. Ends(t) = {} /\ SnapBytes \in Nat \ {0}
  BY <1>1, IdleHoldsNothing, SnapAssumption DEF ApiInv
<1>3. ASSUME NEW x, Take(SnapBytes, x), job' = [job EXCEPT ![t] = DumpJob("snap", x)]
      PROVE  /\ Kept /\ x \in Extent /\ x # NoBlock
             /\ x \notin blocks /\ blocks' = blocks \cup {x}
  <2> DEFINE j == DumpJob("snap", x)
  <2>1. x \in Extent /\ x # NoBlock
    BY <1>2, <1>3, TakenBlock DEF ApiInv
  <2>2. j \in Job /\ WellFormed(j) /\ EndsOf(j) = {x} /\ j.kind = "snap" /\ j.kind \in DumpKind
    BY <2>1, DumpJobs DEF DumpKind
  <2>3. job' = [job EXCEPT ![t] = j]
    BY <1>3
  <2> HIDE DEF j
  <2>4. ArenaStep /\ JobTyped' /\ JobSafe' /\ x \notin blocks /\ blocks' = blocks \cup {x}
    BY <1>2, <1>3, <2>2, <2>3, TakenKept
  <2>5. OneDump'
    BY <1>1, <2>2, <2>3, DumpChange DEF ApiInv
  <2> QED
    BY <2>1, <2>4, <2>5 DEF Kept
<1>4. ASSUME \E own \in Region : Refuse(own, SnapBytes),
             job' = [job EXCEPT ![t] = DumpJob("snap", NoBlock)]
      PROVE  Kept /\ blocks' = blocks
  <2> DEFINE j == DumpJob("snap", NoBlock)
  <2>1. j \in Job /\ WellFormed(j) /\ EndsOf(j) = {} /\ j.kind = "snap" /\ j.kind \in DumpKind
    BY DumpJobs, IdleJob DEF DumpKind
  <2>2. job' = [job EXCEPT ![t] = j]
    BY <1>4
  <2> HIDE DEF j
  <2>3. ArenaStep /\ blocks' = blocks
    BY <1>2, <1>4, RefusedStep
  <2>4. JobTyped' /\ JobSafe'
    BY <2>1, <2>2, <2>3, EndsLive, JobChange DEF ApiInv
  <2>5. OneDump'
    BY <1>1, <2>1, <2>2, DumpChange DEF ApiInv
  <2> QED
    BY <2>3, <2>4, <2>5 DEF Kept
<1> QED
  BY <1>1, <1>3, <1>4 DEF DumpAlloc

LEMMA DumpCollectKept ==
  ASSUME ApiInv, NEW t \in Task, DumpCollect(t)
  PROVE  /\ Kept /\ blocks' = blocks /\ job[t].kind = "snap" /\ job[t].old = NoBlock
         /\ job' = [job EXCEPT ![t] = DumpJob("print", job[t].new)]
<1> DEFINE j == DumpJob("print", job[t].new)
<1>1. /\ job' = [job EXCEPT ![t] = j] /\ blocks' = blocks /\ dumping' = dumping
      /\ ArenaStep /\ job[t].kind = "snap"
  BY DEF DumpCollect, Inspect, ArenaStep
<1>2. job[t].new \in Extent /\ job[t].old = NoBlock
  BY <1>1 DEF ApiInv, JobTyped, Job, WellFormed
<1>3. /\ j \in Job /\ WellFormed(j) /\ EndsOf(j) = {job[t].new} \ {NoBlock} /\ j.kind = "print"
      /\ j.kind \in DumpKind /\ job[t].kind \in DumpKind
  BY <1>1, <1>2, DumpJobs DEF DumpKind
<1>4. EndsOf(j) = Ends(t)
  BY <1>2, <1>3 DEF Ends
<1> HIDE DEF j
<1>5. \A s \in Task \ {t} : Ends(s) \cap EndsOf(j) = {}
  BY <1>4 DEF ApiInv, JobSafe
<1>6. JobTyped' /\ JobSafe'
  <2>1. JobTyped /\ JobSafe /\ j.kind # "copy"
    BY <1>3 DEF ApiInv, DumpKind
  <2>2. \A s \in Task : Ends(s) \subseteq blocks'
    BY <1>1, EndsLive
  <2>3. EndsOf(j) \subseteq blocks'
    BY <1>4, <2>2
  <2> QED
    BY <1>1, <1>3, <1>5, <2>1, <2>2, <2>3, JobChange
<1>7. OneDump'
  BY <1>1, <1>3, DumpChange DEF ApiInv
<1> QED
  BY <1>1, <1>2, <1>6, <1>7 DEF Kept, j

LEMMA DumpFreeKept ==
  ASSUME ApiInv, NEW t \in Task, DumpFree(t)
  PROVE  /\ Kept /\ job[t].kind = "print" /\ job[t].old = NoBlock
         /\ job' = [job EXCEPT ![t] = DumpJob("leave", NoBlock)]
         /\ \/ job[t].new = NoBlock /\ blocks' = blocks
            \/ job[t].new \in Ends(t) /\ blocks' = blocks \ {job[t].new}
            \/ job[t].new \in Ends(t) /\ blocks' = blocks /\ job[t].new.off \in broken
<1> DEFINE j == DumpJob("leave", NoBlock)
<1>1. /\ job' = [job EXCEPT ![t] = j] /\ dumping' = dumping /\ job[t].kind = "print"
      /\ IF job[t].new = NoBlock THEN UNCHANGED arenaVars ELSE GiveBack(job[t].new)
  BY DEF DumpFree
<1>2. /\ j \in Job /\ WellFormed(j) /\ EndsOf(j) = {} /\ j.kind = "leave"
      /\ j.kind \in DumpKind /\ j.kind # "copy" /\ job[t].kind \in DumpKind
  BY <1>1, DumpJobs, IdleJob DEF DumpKind
<1>3. job[t].old = NoBlock
  BY <1>1 DEF ApiInv, JobTyped, WellFormed
<1> HIDE DEF j
<1>4. OneDump'
  BY <1>1, <1>2, DumpChange DEF ApiInv
<1>5. CASE job[t].new = NoBlock
  <2>1. blocks' = blocks /\ ArenaStep
    BY <1>1, <1>5 DEF ArenaStep, arenaVars
  <2>2. JobTyped' /\ JobSafe'
    BY <1>1, <1>2, <2>1, EndsLive, JobChange DEF ApiInv
  <2> QED
    BY <1>1, <1>3, <1>4, <1>5, <2>1, <2>2 DEF Kept, j
<1>6. CASE job[t].new # NoBlock
  <2>1. job[t].new \in Ends(t) /\ GiveBack(job[t].new)
    BY <1>1, <1>6 DEF Ends
  <2>2. /\ ArenaStep /\ JobTyped' /\ JobSafe'
        /\ \/ blocks' = blocks \ {job[t].new}
           \/ blocks' = blocks /\ job[t].new.off \in broken
    BY <1>1, <1>2, <2>1, LetGo
  <2> QED
    BY <1>1, <1>3, <1>4, <2>1, <2>2 DEF Kept, j
<1> QED
  BY <1>5, <1>6

LEMMA DumpEndKept ==
  ASSUME ApiInv, NEW t \in Task, DumpEnd(t)
  PROVE  /\ Kept /\ blocks' = blocks /\ job[t].kind = "leave"
         /\ job' = [job EXCEPT ![t] = Idle]
<1>1. /\ job' = [job EXCEPT ![t] = Idle] /\ blocks' = blocks /\ ArenaStep
      /\ job[t].kind = "leave" /\ job[t].kind \in DumpKind
  BY DEF DumpEnd, ArenaStep, arenaVars, DumpKind
<1>2. JobTyped' /\ JobSafe'
  BY <1>1, IdleJob, EndsLive, JobChange DEF ApiInv, Idle
<1>3. OneDump'
  BY <1>1, DumpChange DEF ApiInv, DumpKind, Idle
<1> QED
  BY <1>1, <1>2, <1>3 DEF Kept

LEMMA OverrunKept ==
  ASSUME ApiInv, NEW b \in blocks, ApiOverrun(b)
  PROVE  Kept /\ blocks' = blocks /\ job' = job
<1>1. ArenaStep /\ blocks' = blocks /\ job' = job /\ dumping' = dumping
  BY DEF ApiOverrun, Overrun, ArenaStep
<1> QED
  BY <1>1, EndsLive, StillKept

-----------------------------------------------------------------------------
(* The invariant and what follows from it. *)

LEMMA ApiInitInv == ApiInit => ApiInv
<1> SUFFICES ASSUME ApiInit PROVE ApiInv
  OBVIOUS
<1>1. Init /\ job = [t \in Task |-> Idle]
  BY DEF ApiInit
<1>2. \A t \in Task : job[t] = Idle /\ job[t].kind = "idle"
  BY <1>1 DEF Idle
<1>3. JobTyped
  BY <1>1, <1>2, IdleJob DEF JobTyped
<1>4. \A t \in Task : Ends(t) = {}
  BY <1>2, <1>3, IdleHoldsNothing
<1>5. JobSafe
  BY <1>2, <1>4 DEF JobSafe
<1>6. OneDump
  BY <1>2 DEF OneDump, DumpKind
<1> QED
  BY <1>1, <1>3, <1>5, <1>6, InitInv, ArenaFitsInit DEF ApiInv

LEMMA StutterKept ==
  ASSUME ApiInv, UNCHANGED apiVars
  PROVE  Kept /\ blocks' = blocks /\ job' = job
<1>1. ArenaStep /\ blocks' = blocks /\ job' = job /\ dumping' = dumping
  BY DEF apiVars, ArenaStep, arenaVars
<1> QED
  BY <1>1, EndsLive, StillKept

LEMMA ApiStepKept == ApiInv /\ [ApiNext]_apiVars => Kept
<1> SUFFICES ASSUME ApiInv, [ApiNext]_apiVars PROVE Kept
  OBVIOUS
<1>0. Requests \subseteq Nat \ {0}
  BY OptionAssumption
<1>1. ASSUME NEW t \in Task, Step(t) PROVE Kept
  <2>1. CASE \E bytes \in Requests : \E x \in Answers(bytes) : Malloc(t, bytes, x) \/ Calloc(t, bytes, x)
    BY <1>0, <2>1, MallocKept, CallocKept
  <2>2. CASE \E bytes \in Requests : MallocFails(t, bytes)
    BY <1>0, <2>2, FailsKept DEF MallocFails
  <2>3. CASE CallocEnd(t)
    BY <2>3, CallocEndKept
  <2>4. CASE \E b \in blocks : FreeCall(t, b)
    BY <2>4, FreeKept
  <2>5. CASE \E b \in blocks : \E bytes \in Requests : ReallocInPlace(t, b, bytes) \/ ReallocFails(t, b, bytes)
    BY <1>0, <2>5, InPlaceKept, FailsKept DEF ReallocFails
  <2>6. CASE \E b \in blocks : \E bytes \in Requests : \E x \in Answers(bytes) : ReallocMove(t, b, bytes, x)
    BY <1>0, <2>6, MoveKept
  <2>7. CASE ReallocEnd(t)
    BY <2>7, MoveEndKept
  <2>8. CASE DumpBegin(t)
    BY <2>8, DumpBeginKept
  <2>9. CASE DumpStep(t)
    BY <2>9, DumpAllocKept, DumpCollectKept, DumpFreeKept, DumpEndKept DEF DumpStep
  <2> QED
    BY <1>1, <2>1, <2>2, <2>3, <2>4, <2>5, <2>6, <2>7, <2>8, <2>9 DEF Step
<1>2. CASE \E b \in blocks : ApiOverrun(b)
  BY <1>2, OverrunKept
<1>3. CASE UNCHANGED apiVars
  BY <1>3, StutterKept
<1> QED
  BY <1>1, <1>2, <1>3 DEF ApiNext

THEOREM ApiSafety == ApiSpec => []ApiInv
<1>1. ApiInv /\ [ApiNext]_apiVars => ApiInv'
  BY ApiStepKept, KeptInv
<1> QED
  BY <1>1, ApiInitInv, PTL DEF ApiSpec

(* Whatever the other tasks do, the memory that a calloc clears, a moving   *)
(* realloc copies or a dump fills outside the lock stays allocated, whole   *)
(* and its own.                                                             *)
THEOREM HeldBlocksStay == ApiSpec => []JobSafe
<1>1. ApiInv => JobSafe
  BY DEF ApiInv
<1> QED
  BY <1>1, ApiSafety, PTL

(* The static buffers of a dump have one writer at a time. *)
THEOREM OneDumpAtATime == ApiSpec => []DumpAlone
<1>1. ApiInv => DumpAlone
  BY DEF ApiInv, OneDump, DumpKind, DumpAlone
<1> QED
  BY <1>1, ApiSafety, PTL

(* No call of the API gets at a block whose canary was destroyed. *)
THEOREM ApiQuarantine == ApiSpec => Quarantine
<1> DEFINE P == \A b \in blocks : b.off \in broken => b \in blocks'
<1>1. ASSUME ArenaStep, NEW b \in blocks, b.off \in broken
      PROVE  b \in blocks'
  <2>1. CASE \E bytes \in Nat \ {0} : \E x : Take(bytes, x)
    BY <2>1 DEF Take, TakeOwn, TakeCross, Place
  <2>2. CASE \E bytes \in Nat \ {0} : \E own \in Region : Refuse(own, bytes)
    BY <1>1, <2>2 DEF Refuse
  <2>3. CASE \E c \in blocks : Release(c)
    BY <1>1, <2>3 DEF Release, Intact
  <2>4. ASSUME NEW c \in blocks, NEW bytes \in Nat \ {0}, Shrink(c, bytes) \/ Extend(c, bytes)
        PROVE  b \in blocks'
    <3>1. b # c
      BY <1>1, <2>4 DEF Shrink, Extend, Intact
    <3>2. CASE Shrink(c, bytes)
      BY <3>1, <3>2 DEF Shrink, Resized
    <3>3. CASE Extend(c, bytes)
      <4>1. PICK len : blocks' = Resized(c, len)
        BY <3>3 DEF Extend
      <4> QED
        BY <3>1, <4>1 DEF Resized
    <3> QED
      BY <2>4, <3>2, <3>3
  <2>5. CASE \/ \E c \in blocks : Overrun(c)
             \/ \E R \in SUBSET Region : Inspect(R)
             \/ UNCHANGED arenaVars
    BY <2>5 DEF Overrun, Inspect, arenaVars
  <2> QED
    BY <1>1, <2>1, <2>2, <2>3, <2>4, <2>5 DEF ArenaStep
<1>2. Kept => P
  BY <1>1 DEF Kept
<1>3. ApiInv /\ [ApiNext]_apiVars => [P]_arenaVars
  BY <1>2, ApiStepKept
<1>4. Quarantine <=> [][P]_arenaVars
  BY DEF Quarantine
<1> QED
  BY <1>3, <1>4, ApiSafety, PTL DEF ApiSpec

-----------------------------------------------------------------------------
(* Moves and dumps leave no block behind. *)

LeftBehind(x) == x \in blocks' /\ x.off \notin broken

NoneLeft ==
  \A t \in Task :
    /\ job[t].kind = "copy" /\ job'[t].kind = "idle" => ~LeftBehind(job[t].old)
    /\ job[t].kind = "print" /\ job'[t].kind = "leave" => ~LeftBehind(job[t].new)

LEMMA NoneLeftStill ==
  ASSUME job' = job
  PROVE  NoneLeft
BY DEF NoneLeft

LEMMA NoneLeftChange ==
  ASSUME JobTyped, NEW t \in Task, NEW j, job' = [job EXCEPT ![t] = j],
         job[t].kind = "copy" /\ j.kind = "idle" => ~LeftBehind(job[t].old),
         job[t].kind = "print" /\ j.kind = "leave" => ~LeftBehind(job[t].new)
  PROVE  NoneLeft
<1>1. job'[t] = j /\ \A s \in Task \ {t} : job'[s] = job[s]
  BY DEF JobTyped
<1> QED
  BY <1>1 DEF NoneLeft

LEMMA NoneLeftStep == ApiInv /\ [ApiNext]_apiVars => NoneLeft
<1> SUFFICES ASSUME ApiInv, [ApiNext]_apiVars PROVE NoneLeft
  OBVIOUS
<1>0. Requests \subseteq Nat \ {0} /\ JobTyped /\ NoBlock \notin blocks
  BY OptionAssumption, NoBlockNotLive DEF ApiInv
<1>1. ASSUME NEW t \in Task, Step(t) PROVE NoneLeft
  <2>1. CASE \E bytes \in Requests : \E x \in Answers(bytes) : Malloc(t, bytes, x) \/ Calloc(t, bytes, x)
    <3>1. PICK bytes \in Nat \ {0} : \E x : Malloc(t, bytes, x) \/ Calloc(t, bytes, x)
      BY <1>0, <2>1
    <3>2. ASSUME NEW x, Calloc(t, bytes, x) PROVE NoneLeft
      <4>1. /\ job' = [job EXCEPT ![t] = [kind |-> "clear", old |-> NoBlock, new |-> x]]
            /\ job[t].kind = "idle"
        BY <3>2 DEF Calloc, Idle
      <4> QED
        BY <1>0, <4>1, NoneLeftChange
    <3> QED
      BY <3>1, <3>2, NoneLeftStill DEF Malloc
  <2>2. CASE \E bytes \in Requests : MallocFails(t, bytes)
    BY <2>2, NoneLeftStill DEF MallocFails
  <2>3. CASE CallocEnd(t)
    <3>1. job' = [job EXCEPT ![t] = Idle] /\ job[t].kind = "clear"
      BY <2>3 DEF CallocEnd
    <3> QED
      BY <1>0, <3>1, NoneLeftChange
  <2>4. CASE \E b \in blocks : FreeCall(t, b)
    BY <2>4, NoneLeftStill DEF FreeCall
  <2>5. CASE \E b \in blocks : \E bytes \in Requests : ReallocInPlace(t, b, bytes) \/ ReallocFails(t, b, bytes)
    BY <2>5, NoneLeftStill DEF ReallocInPlace, ReallocFails
  <2>6. CASE \E b \in blocks : \E bytes \in Requests : \E x \in Answers(bytes) : ReallocMove(t, b, bytes, x)
    <3>1. PICK b \in blocks : \E bytes \in Requests : \E x \in Answers(bytes) : ReallocMove(t, b, bytes, x)
      BY <2>6
    <3>2. PICK bytes \in Requests : \E x \in Answers(bytes) : ReallocMove(t, b, bytes, x)
      BY <3>1
    <3>3. PICK x \in Answers(bytes) : ReallocMove(t, b, bytes, x)
      BY <3>2
    <3>4. /\ job' = [job EXCEPT ![t] = [kind |-> "copy", old |-> b, new |-> x]]
          /\ job[t].kind = "idle"
      BY <3>3 DEF ReallocMove, MustMove, Idle
    <3> QED
      BY <1>0, <3>4, NoneLeftChange
  <2>7. CASE ReallocEnd(t)
    <3>1. job[t].kind = "copy" /\ job' = [job EXCEPT ![t] = Idle] /\ ~LeftBehind(job[t].old)
      BY <2>7, MoveEndKept DEF LeftBehind
    <3> QED
      BY <1>0, <3>1, NoneLeftChange
  <2>8. CASE DumpBegin(t)
    <3>1. job' = [job EXCEPT ![t] = DumpJob("dump", NoBlock)] /\ job[t].kind = "idle"
      BY <2>8 DEF DumpBegin, Idle
    <3> QED
      BY <1>0, <3>1, NoneLeftChange
  <2>9. CASE DumpStep(t)
    <3>1. CASE DumpAlloc(t)
      <4>1. job[t].kind = "dump" /\ \E j : job' = [job EXCEPT ![t] = j]
        BY <3>1 DEF DumpAlloc
      <4> QED
        BY <1>0, <4>1, NoneLeftChange
    <3>2. CASE DumpCollect(t)
      <4>1. job[t].kind = "snap" /\ \E j : job' = [job EXCEPT ![t] = j]
        BY <3>2 DEF DumpCollect
      <4> QED
        BY <1>0, <4>1, NoneLeftChange
    <3>3. CASE DumpFree(t)
      <4>1. /\ job[t].kind = "print" /\ job' = [job EXCEPT ![t] = DumpJob("leave", NoBlock)]
            /\ ~LeftBehind(job[t].new)
        BY <1>0, <3>3, DumpFreeKept DEF LeftBehind
      <4> QED
        BY <1>0, <4>1, NoneLeftChange
    <3>4. CASE DumpEnd(t)
      <4>1. job[t].kind = "leave" /\ job' = [job EXCEPT ![t] = Idle]
        BY <3>4 DEF DumpEnd
      <4> QED
        BY <1>0, <4>1, NoneLeftChange
    <3> QED
      BY <2>9, <3>1, <3>2, <3>3, <3>4 DEF DumpStep
  <2> QED
    BY <1>1, <2>1, <2>2, <2>3, <2>4, <2>5, <2>6, <2>7, <2>8, <2>9 DEF Step
<1>2. CASE \E b \in blocks : ApiOverrun(b)
  BY <1>2, NoneLeftStill DEF ApiOverrun
<1>3. CASE UNCHANGED apiVars
  BY <1>3, NoneLeftStill DEF apiVars
<1> QED
  BY <1>1, <1>2, <1>3 DEF ApiNext

(* A moving realloc leaves one block behind, a dump none: the block that is *)
(* given back outside of the first critical section is gone, or broken.     *)
THEOREM MovesLeakNothing == ApiSpec => NoBlockLeaks
<1> DEFINE P == \A t \in Task :
                  /\ job[t].kind = "copy" /\ job'[t].kind = "idle" =>
                       job[t].old \notin blocks' \/ job[t].old.off \in broken
                  /\ job[t].kind = "print" /\ job'[t].kind = "leave" =>
                       job[t].new \notin blocks' \/ job[t].new.off \in broken
<1>1. NoneLeft => P
  BY DEF NoneLeft, LeftBehind
<1>2. ApiInv /\ [ApiNext]_apiVars => [P]_apiVars
  BY <1>1, NoneLeftStep
<1>3. NoBlockLeaks <=> [][P]_apiVars
  BY DEF NoBlockLeaks
<1> QED
  BY <1>2, <1>3, ApiSafety, PTL DEF ApiSpec

-----------------------------------------------------------------------------
(* The tasks see the abstract heap. *)

Pinned == UNION {Ends(t) : t \in Task}

(* What one task pins changes; what the others pin does not. *)
LEMMA PinnedChange ==
  ASSUME JobTyped, JobSafe, NEW t \in Task, NEW j, job' = [job EXCEPT ![t] = j]
  PROVE  Pinned' = (Pinned \ Ends(t)) \cup EndsOf(j)
<1>1. job'[t] = j /\ \A s \in Task \ {t} : job'[s] = job[s]
  BY DEF JobTyped
<1>2. Ends(t)' = EndsOf(j) /\ \A s \in Task \ {t} : Ends(s)' = Ends(s)
  BY <1>1 DEF Ends, EndsOf
<1>3. \A s \in Task \ {t} : Ends(s) \cap Ends(t) = {}
  BY DEF JobSafe
<1>4. \A x : x \in Pinned' <=> \E s \in Task : x \in Ends(s)'
  BY DEF Pinned
<1>5. \A x : x \in Pinned <=> \E s \in Task : x \in Ends(s)
  BY DEF Pinned
<1>6. \A x : x \in Pinned' <=> x \in (Pinned \ Ends(t)) \cup EndsOf(j)
  BY <1>2, <1>3, <1>4, <1>5
<1> QED
  BY <1>6

LEMMA PinnedStill ==
  ASSUME job' = job
  PROVE  Pinned' = Pinned
BY DEF Pinned, Ends

LEMMA AllPlaced == ApiInv => \A x \in blocks : Placed(x)
BY BlockPlaced DEF ApiInv

LEMMA AllPlacedNext == ApiInv' => (\A x \in blocks : Placed(x))'
BY AllPlaced, PTL

(* A block that is new or resized is a free range of the heap without it.   *)
LEMMA NewBlockFree ==
  ASSUME ApiInv', NEW x \in blocks', NEW B \in SUBSET (blocks' \ {x})
  PROVE  Heap!FreeRange(B, x)
<1>1. /\ x \in [off : 0 .. RawEnd, len : 0 .. RawEnd] /\ x.len > 0
      /\ \A c \in blocks' \ {x} : Disjoint(c, x)
  BY AllPlacedNext DEF Placed
<1> QED
  BY <1>1 DEF Heap!FreeRange, Heap!Apart, Disjoint, EndOf

(* Each action of the calls is a step of the abstract heap, or none. *)
HeapStep == [Heap!Next]_(Heap!heapVars)

LEMMA HeapStill ==
  ASSUME blocks' = blocks, Pinned' = Pinned
  PROVE  HeapStep
BY DEF HeapStep, Heap!heapVars, Pinned

LEMMA HeapAllocate ==
  ASSUME ApiInv', NEW x, x \notin blocks, blocks' = blocks \cup {x},
         NEW pins \in SUBSET {x}, Pinned' = Pinned \cup pins
  PROVE  HeapStep
<1>1. x \in blocks' /\ blocks \in SUBSET (blocks' \ {x})
  OBVIOUS
<1>2. Heap!FreeRange(blocks, x)
  BY <1>1, NewBlockFree
<1>3. Heap!Allocate(x, pins)
  BY <1>2 DEF Heap!Allocate, Pinned
<1>4. Heap!Next
  BY <1>1, <1>3 DEF Heap!Next
<1> QED
  BY <1>4 DEF HeapStep

(* A call pins its block while it works on it. *)
LEMMA HeapAllocatePinned ==
  ASSUME ApiInv, ApiInv', NEW t \in Task, job[t].kind \in {"idle", "dump"},
         NEW x, x \notin blocks, blocks' = blocks \cup {x},
         NEW j, job' = [job EXCEPT ![t] = j], EndsOf(j) = {x}
  PROVE  HeapStep
<1>1. Ends(t) = {}
  BY IdleHoldsNothing DEF ApiInv
<1>2. Pinned' = (Pinned \ Ends(t)) \cup {x}
  BY PinnedChange DEF ApiInv
<1>3. Pinned' = Pinned \cup {x} /\ {x} \in SUBSET {x}
  BY <1>1, <1>2
<1> QED
  BY <1>3, HeapAllocate

LEMMA HeapUnpin ==
  ASSUME ApiInv, NEW t \in Task, NEW j, job' = [job EXCEPT ![t] = j],
         EndsOf(j) = {}, NEW x, Ends(t) = {x},
         blocks' = blocks \/ blocks' = blocks \ {x}
  PROVE  HeapStep
<1>1. Pinned' = Pinned \ {x} /\ x \in Pinned
  BY PinnedChange DEF ApiInv, Pinned
<1>2. Heap!GivenBack(x)
  BY <1>1 DEF Heap!GivenBack, Pinned
<1>3. Heap!Next
  BY <1>1, <1>2 DEF Heap!Next, Pinned
<1> QED
  BY <1>3 DEF HeapStep

LEMMA PinnedMembers ==
  ASSUME NEW x
  PROVE  x \in Pinned <=> \E s \in Task : x \in Ends(s)
BY DEF Pinned

LEMMA FreeRefines ==
  ASSUME ApiInv, NEW t \in Task, NEW b \in blocks, FreeCall(t, b)
  PROVE  HeapStep
<1>1. blocks' = blocks \ {b} /\ job' = job /\ \A s \in Task : b \notin Ends(s)
  BY FreeKept
<1>2. Pinned' = Pinned /\ b \notin Pinned
  BY <1>1, PinnedStill, PinnedMembers
<1>3. Heap!Free(b)
  BY <1>1, <1>2 DEF Heap!Free, Pinned
<1>4. Heap!Next
  BY <1>3 DEF Heap!Next
<1> QED
  BY <1>4 DEF HeapStep

LEMMA InPlaceRefines ==
  ASSUME ApiInv, ApiInv', NEW t \in Task, NEW b \in blocks, NEW bytes \in Nat \ {0},
         ReallocInPlace(t, b, bytes)
  PROVE  HeapStep
<1>1. job' = job /\ \A s \in Task : b \notin Ends(s)
  BY InPlaceKept
<1>2. PICK x \in blocks' : x.off = b.off /\ blocks' = (blocks \ {b}) \cup {x}
  BY InPlaceKept
<1>3. Pinned' = Pinned /\ b \notin Pinned
  BY <1>1, PinnedStill, PinnedMembers
<1>4. x \notin blocks \ {b}
  BY <1>2, OffsetIsKey DEF ApiInv
<1>5. blocks \ {b} \in SUBSET (blocks' \ {x})
  BY <1>2, <1>4
<1>6. Heap!FreeRange(blocks \ {b}, x)
  BY <1>5, NewBlockFree
<1>7. Heap!Resize(b, x)
  BY <1>2, <1>3, <1>6 DEF Heap!Resize, Pinned
<1>8. Heap!Next
  BY <1>7 DEF Heap!Next
<1> QED
  BY <1>8 DEF HeapStep

LEMMA MoveRefines ==
  ASSUME ApiInv, ApiInv', NEW t \in Task, NEW b \in blocks, NEW bytes \in Nat \ {0}, NEW x,
         ReallocMove(t, b, bytes, x)
  PROVE  HeapStep
<1> DEFINE j == [kind |-> "copy", old |-> b, new |-> x]
<1>1. /\ x \notin blocks /\ blocks' = blocks \cup {x} /\ x # NoBlock
      /\ job' = [job EXCEPT ![t] = j] /\ job[t].kind = "idle"
      /\ \A s \in Task : b \notin Ends(s)
  BY MoveKept DEF Idle
<1>2. Ends(t) = {}
  BY <1>1, IdleHoldsNothing DEF ApiInv
<1>3. EndsOf(j) = {b, x}
  BY <1>1, NoBlockNotLive DEF ApiInv, EndsOf
<1> HIDE DEF j
<1>4. Pinned' = Pinned \cup {b, x} /\ b \notin Pinned
  BY <1>1, <1>2, <1>3, PinnedChange, PinnedMembers DEF ApiInv
<1>5. x \in blocks' /\ blocks \in SUBSET (blocks' \ {x})
  BY <1>1
<1>6. Heap!FreeRange(blocks, x)
  BY <1>5, NewBlockFree
<1>7. Heap!MoveBegin(b, x)
  BY <1>1, <1>4, <1>6 DEF Heap!MoveBegin, Pinned
<1>8. Heap!Next
  BY <1>5, <1>7 DEF Heap!Next
<1> QED
  BY <1>8 DEF HeapStep

LEMMA MoveEndRefines ==
  ASSUME ApiInv, NEW t \in Task, ReallocEnd(t)
  PROVE  HeapStep
<1> DEFINE b == job[t].old
           x == job[t].new
<1>1. /\ job[t].kind = "copy" /\ job' = [job EXCEPT ![t] = Idle]
      /\ blocks' = blocks \ {b} \/ blocks' = blocks
  BY MoveEndKept
<1>2. b # x /\ Ends(t) = {b, x}
  BY <1>1, CopyEnds
<1> HIDE DEF b, x
<1>3. Pinned' = Pinned \ {b, x}
  BY <1>1, <1>2, PinnedChange, IdleJob DEF ApiInv
<1>4. b \in Pinned /\ x \in Pinned
  BY <1>2, PinnedMembers
<1>5. Heap!MoveEnd(b, x)
  BY <1>1, <1>2, <1>3, <1>4 DEF Heap!MoveEnd, Pinned
<1>6. Heap!Next
  BY <1>4, <1>5 DEF Heap!Next, Pinned
<1> QED
  BY <1>6 DEF HeapStep

LEMMA HeapInit == ApiInit => Heap!Init
<1> SUFFICES ASSUME ApiInit PROVE Heap!Init
  OBVIOUS
<1>1. blocks = {} /\ \A t \in Task : Ends(t) = {}
  BY DEF ApiInit, Init, Ends, Idle
<1> QED
  BY <1>1 DEF Heap!Init

LEMMA RefinesStep == ApiInv /\ [ApiNext]_apiVars => HeapStep
<1> SUFFICES ASSUME ApiInv, [ApiNext]_apiVars PROVE HeapStep
  OBVIOUS
<1>0. Requests \subseteq Nat \ {0} /\ ApiInv'
  BY OptionAssumption, ApiStepKept, KeptInv
<1>1. ASSUME NEW t \in Task, Step(t) PROVE HeapStep
  <2>1. CASE \E bytes \in Requests : \E x \in Answers(bytes) : Malloc(t, bytes, x) \/ Calloc(t, bytes, x)
    <3>1. ASSUME NEW bytes \in Nat \ {0}, NEW x, Malloc(t, bytes, x) PROVE HeapStep
      <4>1. /\ x \notin blocks /\ blocks' = blocks \cup {x}
            /\ Pinned' = Pinned \cup {} /\ {} \in SUBSET {x}
        BY <3>1, MallocKept, PinnedStill
      <4> QED
        BY <1>0, <4>1, HeapAllocate
    <3>2. ASSUME NEW bytes \in Nat \ {0}, NEW x, Calloc(t, bytes, x) PROVE HeapStep
      <4> DEFINE j == [kind |-> "clear", old |-> NoBlock, new |-> x]
      <4>1. /\ x \notin blocks /\ blocks' = blocks \cup {x} /\ x # NoBlock
            /\ job' = [job EXCEPT ![t] = j] /\ job[t].kind \in {"idle", "dump"}
        BY <3>2, CallocKept DEF Idle
      <4>2. EndsOf(j) = {x}
        BY <4>1 DEF EndsOf
      <4> HIDE DEF j
      <4> QED
        BY <1>0, <4>1, <4>2, HeapAllocatePinned
    <3> QED
      BY <1>0, <2>1, <3>1, <3>2
  <2>2. CASE \E bytes \in Requests : MallocFails(t, bytes)
    BY <1>0, <2>2, FailsKept, PinnedStill, HeapStill DEF MallocFails
  <2>3. CASE CallocEnd(t)
    <3>1. /\ blocks' = blocks /\ job' = [job EXCEPT ![t] = Idle] /\ job[t].old = NoBlock
          /\ job[t].kind = "clear"
      BY <2>3, CallocEndKept DEF CallocEnd
    <3>2. Ends(t) = {job[t].new}
      BY <3>1 DEF ApiInv, JobTyped, WellFormed, Ends
    <3> QED
      BY <3>1, <3>2, IdleJob, HeapUnpin
  <2>4. CASE \E b \in blocks : FreeCall(t, b)
    BY <2>4, FreeRefines
  <2>5. CASE \E b \in blocks : \E bytes \in Requests : ReallocInPlace(t, b, bytes) \/ ReallocFails(t, b, bytes)
    BY <1>0, <2>5, InPlaceRefines, FailsKept, PinnedStill, HeapStill DEF ReallocFails
  <2>6. CASE \E b \in blocks : \E bytes \in Requests : \E x \in Answers(bytes) : ReallocMove(t, b, bytes, x)
    BY <1>0, <2>6, MoveRefines
  <2>7. CASE ReallocEnd(t)
    BY <2>7, MoveEndRefines
  <2>8. CASE DumpBegin(t)
    <3> DEFINE j == DumpJob("dump", NoBlock)
    <3>1. blocks' = blocks /\ job' = [job EXCEPT ![t] = j] /\ job[t].kind = "idle"
      BY <2>8, DumpBeginKept DEF Idle
    <3>2. Ends(t) = {} /\ EndsOf(j) = {}
      BY <3>1, IdleHoldsNothing, DumpJobs, IdleJob DEF ApiInv, DumpKind
    <3> HIDE DEF j
    <3>3. Pinned' = Pinned
      BY <3>1, <3>2, PinnedChange DEF ApiInv
    <3> QED
      BY <3>1, <3>3, HeapStill
  <2>9. CASE DumpAlloc(t)
    <3>1. job[t].kind = "dump" /\ Ends(t) = {}
      BY <2>9, IdleHoldsNothing DEF ApiInv, DumpAlloc
    <3>2. CASE \E x \in Extent :
                 /\ x # NoBlock /\ x \notin blocks /\ blocks' = blocks \cup {x}
                 /\ job' = [job EXCEPT ![t] = DumpJob("snap", x)]
      <4>1. PICK x \in Extent :
                 /\ x # NoBlock /\ x \notin blocks /\ blocks' = blocks \cup {x}
                 /\ job' = [job EXCEPT ![t] = DumpJob("snap", x)]
        BY <3>2
      <4>2. EndsOf(DumpJob("snap", x)) = {x}
        BY <4>1, DumpJobs DEF DumpKind
      <4> QED
        BY <1>0, <3>1, <4>1, <4>2, HeapAllocatePinned
    <3>3. CASE blocks' = blocks /\ job' = [job EXCEPT ![t] = DumpJob("snap", NoBlock)]
      <4>1. EndsOf(DumpJob("snap", NoBlock)) = {}
        BY DumpJobs, IdleJob DEF DumpKind
      <4>2. Pinned' = Pinned
        BY <3>1, <3>3, <4>1, PinnedChange DEF ApiInv
      <4> QED
        BY <3>3, <4>2, HeapStill
    <3> QED
      BY <2>9, <3>2, <3>3, DumpAllocKept
  <2>10. CASE DumpCollect(t)
    <3> DEFINE j == DumpJob("print", job[t].new)
    <3>1. blocks' = blocks /\ job' = [job EXCEPT ![t] = j] /\ job[t].old = NoBlock
      BY <2>10, DumpCollectKept
    <3>2. EndsOf(j) = Ends(t)
      BY <3>1 DEF DumpJob, EndsOf, Ends
    <3> HIDE DEF j
    <3>3. Pinned' = (Pinned \ Ends(t)) \cup Ends(t) /\ Ends(t) \subseteq Pinned
      BY <3>1, <3>2, PinnedChange DEF ApiInv, Pinned
    <3>4. Pinned' = Pinned
      BY <3>3
    <3> QED
      BY <3>1, <3>4, HeapStill
  <2>11. CASE DumpFree(t)
    <3> DEFINE j == DumpJob("leave", NoBlock)
    <3>1. job' = [job EXCEPT ![t] = j] /\ job[t].old = NoBlock
      BY <2>11, DumpFreeKept
    <3>2. EndsOf(j) = {}
      BY DumpJobs, IdleJob DEF DumpKind
    <3> HIDE DEF j
    <3>3. CASE job[t].new = NoBlock
      <4>1. Ends(t) = {} /\ blocks' = blocks
        BY <2>11, <3>1, <3>3, DumpFreeKept DEF Ends
      <4>2. Pinned' = Pinned
        BY <3>1, <3>2, <4>1, PinnedChange DEF ApiInv
      <4> QED
        BY <4>1, <4>2, HeapStill
    <3>4. CASE job[t].new # NoBlock
      <4>1. Ends(t) = {job[t].new}
        BY <3>1, <3>4 DEF Ends
      <4>2. blocks' = blocks \/ blocks' = blocks \ {job[t].new}
        BY <2>11, DumpFreeKept
      <4> QED
        BY <3>1, <3>2, <4>1, <4>2, HeapUnpin
    <3> QED
      BY <3>3, <3>4
  <2>12. CASE DumpEnd(t)
    <3>1. blocks' = blocks /\ job' = [job EXCEPT ![t] = Idle] /\ job[t].kind = "leave"
      BY <2>12, DumpEndKept
    <3>2. Ends(t) = {} /\ EndsOf(Idle) = {}
      BY <3>1, IdleHoldsNothing, IdleJob DEF ApiInv
    <3>3. Pinned' = Pinned
      BY <3>1, <3>2, PinnedChange DEF ApiInv
    <3> QED
      BY <3>1, <3>3, HeapStill
  <2> QED
    BY <1>1, <2>1, <2>2, <2>3, <2>4, <2>5, <2>6, <2>7, <2>8, <2>9, <2>10, <2>11, <2>12
       DEF Step, DumpStep
<1>2. CASE \E b \in blocks : ApiOverrun(b)
  BY <1>2, OverrunKept, PinnedStill, HeapStill
<1>3. CASE UNCHANGED apiVars
  BY <1>3, StutterKept, PinnedStill, HeapStill
<1> QED
  BY <1>1, <1>2, <1>3 DEF ApiNext

(* malloc, calloc, realloc, free and the dump, with their gaps between two  *)
(* critical sections, implement the abstract heap: behind regions, caches,  *)
(* recorded gaps and a moving table, a caller sees blocks that keep their   *)
(* place, and that nobody touches while a call works on them.               *)
THEOREM ApiImplementsHeap == ApiSpec => HeapRefined
<1>1. ApiInv /\ [ApiNext]_apiVars => [Heap!Next]_(Heap!heapVars)
  BY RefinesStep DEF HeapStep
<1> QED
  BY <1>1, HeapInit, ApiSafety, PTL DEF ApiSpec, HeapRefined, Heap!Spec

=============================================================================
