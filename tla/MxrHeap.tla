------------------------------- MODULE MxrHeap -------------------------------
(***************************************************************************)
(* What malloc, calloc, realloc and free promise to the tasks of the       *)
(* application, without regions, tables, caches or recorded gaps: a live   *)
(* block keeps its place and never shares a byte with another, and a block *)
(* that a call still reads or writes outside the critical section (the two *)
(* ends of a moving realloc, the block a calloc clears, the snapshot of a  *)
(* dump) is neither released nor resized by anyone else until that call is *)
(* done.                                                                   *)
(***************************************************************************)
EXTENDS Integers

CONSTANT Memory        \* the ranges that may be handed out: records [off, len]

VARIABLES
  live,     \* the ranges handed out
  pinned    \* those that a call in progress reads or writes

heapVars == <<live, pinned>>

Apart(x, y) == x.off + x.len <= y.off \/ y.off + y.len <= x.off

FreeRange(B, x) == x \in Memory /\ x.len > 0 /\ \A b \in B : Apart(b, x)

Init == live = {} /\ pinned = {}

(* malloc; calloc and a dump keep the block pinned while they work on it. *)
Allocate(x, pins) ==
  /\ FreeRange(live, x)
  /\ live' = live \cup {x}
  /\ pins \subseteq {x} /\ pinned' = pinned \cup pins

Cleared(x) ==
  /\ x \in pinned
  /\ pinned' = pinned \ {x}
  /\ UNCHANGED live

(* A call gives back a block of its own; one found broken stays. *)
GivenBack(x) ==
  /\ x \in pinned
  /\ live' \in {live \ {x}, live}
  /\ pinned' = pinned \ {x}

Free(b) ==
  /\ b \in live \ pinned
  /\ live' = live \ {b}
  /\ UNCHANGED pinned

Resize(b, x) ==
  /\ b \in live \ pinned
  /\ x.off = b.off /\ FreeRange(live \ {b}, x)
  /\ live' = (live \ {b}) \cup {x}
  /\ UNCHANGED pinned

MoveBegin(b, x) ==
  /\ b \in live \ pinned /\ FreeRange(live, x)
  /\ live' = live \cup {x}
  /\ pinned' = pinned \cup {b, x}

(* The old block goes, unless its canary was found broken: then it stays. *)
MoveEnd(b, x) ==
  /\ {b, x} \subseteq pinned /\ b # x
  /\ live' \in {live \ {b}, live}
  /\ pinned' = pinned \ {b, x}

Next ==
  \/ \E x \in live' : \E pins \in SUBSET {x} : Allocate(x, pins)
  \/ \E x \in pinned : Cleared(x)
  \/ \E x \in pinned : GivenBack(x)
  \/ \E b \in live : Free(b)
  \/ \E b \in live : \E x \in live' : Resize(b, x)
  \/ \E b \in live : \E x \in live' : MoveBegin(b, x)
  \/ \E b, x \in pinned : MoveEnd(b, x)

Spec == Init /\ [][Next]_heapVars

=============================================================================
