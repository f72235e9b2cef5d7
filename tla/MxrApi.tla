------------------------------- MODULE MxrApi --------------------------------
(***************************************************************************)
(* malloc, calloc, realloc, free and the dump as tasks call them, in a     *)
(* build without IRAM.  Each of them runs one or more critical sections;   *)
(* calloc, a moving realloc and a dump work on memory outside of them,     *)
(* while other tasks allocate, free, resize, and make the descriptor table *)
(* move.                                                                   *)
(*                                                                         *)
(* The contract of the caller is the one the code states where it leaves   *)
(* the lock: nobody else uses or frees a pointer that is being realloc'd,  *)
(* and a block that is still being set up is known to its own call only.   *)
(***************************************************************************)
EXTENDS MxrDram

CONSTANTS
  Task,
  SnapBytes     \* block length of the full dump's snapshot of the table

ASSUME SnapAssumption == SnapBytes \in Nat \ {0}

VARIABLES
  job,      \* [Task -> Job]: what a call does outside the lock
  dumping   \* s_dump_in_progress

apiVars == <<arenaVars, job, dumping>>

NoBlock == [off |-> 0, len |-> 0]
Idle == [kind |-> "idle", old |-> NoBlock, new |-> NoBlock]

(* Offsets of the pointers that some call in progress holds. *)
Held == {job[t].new.off : t \in {s \in Task : job[s].new # NoBlock}}
          \cup {job[t].old.off : t \in {s \in Task : job[s].kind = "copy"}}

Owned(b) == b \in blocks /\ b.off \notin Held

ApiInit == Init /\ job = [t \in Task |-> Idle] /\ dumping = FALSE

-----------------------------------------------------------------------------

Malloc(t, bytes, x) ==
  /\ job[t] = Idle
  /\ Take(bytes, x)
  /\ UNCHANGED <<job, dumping>>

MallocFails(t, bytes) ==
  /\ job[t] = Idle
  /\ \E own \in Region : Refuse(own, bytes)
  /\ UNCHANGED <<job, dumping>>

(* mxr_calloc_caps, mxr_zalloc_caps: the block is cleared after the unlock. *)
Calloc(t, bytes, x) ==
  /\ job[t] = Idle
  /\ Take(bytes, x)
  /\ job' = [job EXCEPT ![t] = [kind |-> "clear", old |-> NoBlock, new |-> x]]
  /\ UNCHANGED dumping

CallocEnd(t) ==
  /\ job[t].kind = "clear"
  /\ job' = [job EXCEPT ![t] = Idle]
  /\ UNCHANGED <<arenaVars, dumping>>

(* mxr_free, and mxr_realloc to size 0. *)
FreeCall(t, b) ==
  /\ job[t] = Idle
  /\ Owned(b)
  /\ Release(b)
  /\ UNCHANGED <<job, dumping>>

ReallocInPlace(t, b, bytes) ==
  /\ job[t] = Idle
  /\ Owned(b)
  /\ Shrink(b, bytes) \/ Extend(b, bytes)
  /\ UNCHANGED <<job, dumping>>

(* The block stays where it is: resized, or long enough already. *)
FitsInPlace(b, bytes) ==
  \E r \in Region :
    /\ InRegion(r, b.off) /\ SizeOk(r, bytes)
    /\ bytes <= b.len \/ RoomBehind(r, b, bytes) # {}

MustMove(t, b, bytes) ==
  /\ job[t] = Idle
  /\ Owned(b) /\ Intact(b)
  /\ ~FitsInPlace(b, bytes)

ReallocMove(t, b, bytes, x) ==
  /\ MustMove(t, b, bytes)
  /\ Take(bytes, x)
  /\ job' = [job EXCEPT ![t] = [kind |-> "copy", old |-> b, new |-> x]]
  /\ UNCHANGED dumping

ReallocFails(t, b, bytes) ==
  /\ MustMove(t, b, bytes)
  /\ \E own \in Region : Refuse(own, bytes)
  /\ UNCHANGED <<job, dumping>>

\* mutant: found again by its index, which others have shifted meanwhile
GiveBackByIndex(x) == (\E b \in blocks : Release(b)) \/ UNCHANGED arenaVars

(* A block of the call's own, looked up again by its pointer: one whose     *)
(* canary is broken by then stays allocated.                                *)
GiveBack(x) ==
  \/ \E b \in blocks : b.off = x.off /\ Release(b)
  \/ (\A b \in blocks : b.off = x.off => b.off \in broken) /\ UNCHANGED arenaVars

\* mutant: the old block is forgotten
ReallocEndLeaks(t) ==
  /\ job[t].kind = "copy"
  /\ job' = [job EXCEPT ![t] = Idle]
  /\ UNCHANGED <<arenaVars, dumping>>

\* mutant: a call whose old block cannot be released does not return
ReallocEndStuck(t) ==
  /\ job[t].kind = "copy"
  /\ job' = [job EXCEPT ![t] = Idle]
  /\ \E b \in blocks : b.off = job[t].old.off /\ Release(b)
  /\ UNCHANGED dumping

ReallocEnd(t) ==
  /\ job[t].kind = "copy"
  /\ job' = [job EXCEPT ![t] = Idle]
  /\ GiveBack(job[t].old)
  /\ UNCHANGED dumping

-----------------------------------------------------------------------------
(* mxr_dump: one at a time, as its buffers are static.  It allocates a      *)
(* snapshot of the table, fills it together with the status in one critical *)
(* section, prints, and gives the snapshot back.                            *)

DumpJob(kind, x) == [kind |-> kind, old |-> NoBlock, new |-> x]

\* mutant: the flag is not looked at
DumpBeginAnyway(t) ==
  /\ job[t] = Idle
  /\ dumping' = TRUE
  /\ job' = [job EXCEPT ![t] = DumpJob("dump", NoBlock)]
  /\ UNCHANGED arenaVars

DumpBegin(t) ==
  /\ job[t] = Idle /\ ~dumping
  /\ dumping' = TRUE
  /\ job' = [job EXCEPT ![t] = DumpJob("dump", NoBlock)]
  /\ UNCHANGED arenaVars

(* Without memory for the snapshot the dump goes on without descriptors. *)
DumpAlloc(t) ==
  /\ job[t].kind = "dump"
  /\ \/ \E x \in Answers(SnapBytes) :
          /\ Take(SnapBytes, x)
          /\ job' = [job EXCEPT ![t] = DumpJob("snap", x)]
     \/ /\ \E own \in Region : Refuse(own, SnapBytes)
        /\ job' = [job EXCEPT ![t] = DumpJob("snap", NoBlock)]
  /\ UNCHANGED dumping

DumpCollect(t) ==
  /\ job[t].kind = "snap"
  /\ Inspect(Region)
  /\ job' = [job EXCEPT ![t] = DumpJob("print", job[t].new)]
  /\ UNCHANGED dumping

DumpFree(t) ==
  /\ job[t].kind = "print"
  /\ IF job[t].new = NoBlock THEN UNCHANGED arenaVars ELSE GiveBack(job[t].new)
  /\ job' = [job EXCEPT ![t] = DumpJob("leave", NoBlock)]
  /\ UNCHANGED dumping

DumpEnd(t) ==
  /\ job[t].kind = "leave"
  /\ dumping' = FALSE
  /\ job' = [job EXCEPT ![t] = Idle]
  /\ UNCHANGED arenaVars

DumpStep(t) == DumpAlloc(t) \/ DumpCollect(t) \/ DumpFree(t) \/ DumpEnd(t)

-----------------------------------------------------------------------------

ApiOverrun(b) == Overrun(b) /\ UNCHANGED <<job, dumping>>

Step(t) ==
  \/ \E bytes \in Requests : \E x \in Answers(bytes) : Malloc(t, bytes, x) \/ Calloc(t, bytes, x)
  \/ \E bytes \in Requests : MallocFails(t, bytes)
  \/ CallocEnd(t)
  \/ \E b \in blocks : FreeCall(t, b)
  \/ \E b \in blocks : \E bytes \in Requests : ReallocInPlace(t, b, bytes) \/ ReallocFails(t, b, bytes)
  \/ \E b \in blocks : \E bytes \in Requests : \E x \in Answers(bytes) : ReallocMove(t, b, bytes, x)
  \/ ReallocEnd(t)
  \/ DumpBegin(t) \/ DumpStep(t)

ApiNext == (\E t \in Task : Step(t)) \/ (\E b \in blocks : ApiOverrun(b))

(* A call goes on: a task that copies, clears or dumps is eventually done. *)
ApiFairness ==
  \A t \in Task : /\ WF_apiVars(CallocEnd(t)) /\ WF_apiVars(ReallocEnd(t))
                  /\ WF_apiVars(DumpStep(t))

ApiSpec == ApiInit /\ [][ApiNext]_apiVars /\ ApiFairness

-----------------------------------------------------------------------------
(* Properties. *)

(* What a call copies, clears, fills or prints outside the lock stays       *)
(* allocated, at its place and with its length, until the call is done,     *)
(* whatever the other tasks do meanwhile; the two ends of a copy are        *)
(* different blocks, and no block is held by two calls.                     *)
Ends(t) == {job[t].old, job[t].new} \ {NoBlock}

JobSafe ==
  /\ \A t \in Task : Ends(t) \subseteq blocks
  /\ \A t \in Task : job[t].kind = "copy" => job[t].old # job[t].new
  /\ \A t, s \in Task : t # s => Ends(t) \cap Ends(s) = {}

(* A moving realloc leaves one block behind, not two, and a dump none: when *)
(* the block has been given back it is gone, unless its canary was          *)
(* destroyed.                                                               *)
NoBlockLeaks ==
  [][\A t \in Task :
       /\ job[t].kind = "copy" /\ job'[t].kind = "idle" =>
            job[t].old \notin blocks' \/ job[t].old.off \in broken
       /\ job[t].kind = "print" /\ job'[t].kind = "leave" =>
            job[t].new \notin blocks' \/ job[t].new.off \in broken]_apiVars

(* No call is caught for ever between its critical sections.                *)
CallsEnd == \A t \in Task : []<>(job[t].kind = "idle")

(* One task at a time writes to the static buffers of a dump.               *)
DumpAlone ==
  \A t, s \in Task :
    job[t].kind \in {"snap", "print"} /\ job[s].kind \in {"snap", "print"} => t = s

(* The tasks see the abstract heap. *)
Heap == INSTANCE MxrHeap WITH
          Memory <- [off : 0 .. RawEnd, len : 0 .. RawEnd],
          live <- blocks,
          pinned <- UNION {Ends(t) : t \in Task}

HeapRefined == Heap!Spec

=============================================================================
