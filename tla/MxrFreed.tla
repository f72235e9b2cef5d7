------------------------------- MODULE MxrFreed -------------------------------
(***************************************************************************)
(* How mxr_free_locked judges a pointer: first whether it lies in an arena *)
(* as the arenas are now, then whether a block starts there, which is      *)
(* released or, its canary broken, kept; and only then whether the ring of *)
(* recent frees knows it, which tells a double free from an invalid one.   *)
(*                                                                         *)
(* Where malloc puts a block is left open: any free range of the arena,    *)
(* so that addresses are handed out again at any time while the ring still *)
(* holds them.  A dynamic table takes bytes of the arena's tail when it    *)
(* grows and returns them when it shrinks, addresses the ring holds among  *)
(* them.                                                                   *)
(***************************************************************************)
EXTENDS Integers, FiniteSets, SequencesExt

CONSTANTS
  Blocks,      \* what malloc may hand out: [arena, off, len], offsets of block starts
  Pointers,    \* what free may be asked: [arena, off], the pointer less its head
  RingSize,    \* MXR_DFD_RING_SIZE
  Align,       \* MXR_ALIGN_SIZE
  HeadBytes,   \* MXR_CANARY_HEAD_BYTES: from a block's start to the user's pointer
  ArenaBytes,  \* bytes of an arena beside its first table; 0 when there is none
  DescInit,    \* slots of the first table of an arena
  MaxDesc,     \* and most slots: as many as the first when the table is static
  Chunk        \* MXR_DESC_CHUNK

Arenas == {"dram", "iram"}

ASSUME RingAssumption == RingSize \in Nat \ {0}

ASSUME ArenaAssumption ==
  /\ Align \in Nat \ {0} /\ HeadBytes \in Nat /\ Chunk \in Nat \ {0}
  /\ ArenaBytes \in [Arenas -> Nat]
  /\ DescInit \in [Arenas -> Nat] /\ MaxDesc \in [Arenas -> Nat]

ASSUME BlockAssumption ==
  /\ Blocks \subseteq [arena : Arenas, off : Nat, len : Nat]
  /\ Pointers \subseteq [arena : Arenas, off : Int]
  /\ \A b \in Blocks : b.len > HeadBytes /\ (b.off + HeadBytes) % Align = 0

VARIABLES
  live,      \* allocated blocks
  broken,    \* those whose canary words were overwritten
  cap,       \* s_dram_desc_cap, s_iram_desc_cap
  ring,      \* s_dfd_ring: written slots only
  pos,       \* s_dfd_pos
  count,     \* s_dfd_count
  verdict,   \* the counter that the last call incremented, if it was a free, and for which pointer
  recent     \* history: the last RingSize released blocks, in order

freedVars == <<live, broken, cap, ring, pos, count, verdict, recent>>

Slots == 0 .. (RingSize - 1)

Init ==
  /\ live = {} /\ broken = {}
  /\ cap = DescInit
  /\ ring = [i \in {} |-> CHOOSE p \in Pointers : TRUE]
  /\ pos = 0 /\ count = 0
  /\ verdict = {} /\ recent = <<>>

-----------------------------------------------------------------------------

AddrOf(b) == [arena |-> b.arena, off |-> b.off]
EndOf(b) == b.off + b.len
Of(A) == {b \in live : b.arena = A}

(* A slot has 8 bytes, and what the table gains the arena loses. *)
Delta == Chunk * 8
ArenaEnd(A) == ArenaBytes[A] - (cap[A] - DescInit[A]) * 8

(* mxr_ptr_to_arena: inside the arena as it is now, and aligned. *)
Located(p) ==
  /\ 0 <= p.off + HeadBytes /\ p.off + HeadBytes < ArenaEnd(p.arena)
  /\ (p.off + HeadBytes) % Align = 0

Apart(b, c) == b.arena # c.arena \/ EndOf(b) <= c.off \/ EndOf(c) <= b.off

(* A full table grows, unless its limit, the new block or a live one is in  *)
(* the way.                                                                 *)
TableFull(A) == Cardinality(Of(A)) >= cap[A]

CanGrowFor(b) ==
  /\ cap[b.arena] + Chunk <= MaxDesc[b.arena]
  /\ \A c \in Of(b.arena) \cup {b} : EndOf(c) <= ArenaEnd(b.arena) - Delta

(* A table with two chunks to spare gives one back, down to its first size. *)
MayShrink(A) ==
  /\ cap[A] > DescInit[A]
  /\ cap[A] - (Cardinality(Of(A)) - 1) >= 2 * Chunk

Push(p) ==
  /\ ring' = [i \in DOMAIN ring \cup {pos} |-> IF i = pos THEN p ELSE ring[i]]
  /\ pos' = (pos + 1) % RingSize
  /\ count' = IF count < RingSize THEN count + 1 ELSE count

\* mutant: the arena is not compared
InRingByOffset(p) == \E i \in Slots : i < count /\ ring[i].off = p.off

(* Only slots below count are compared, and the arena as well as the offset. *)
InRing(p) == \E i \in Slots : i < count /\ ring[i] = p

-----------------------------------------------------------------------------

Allocate(b) ==
  /\ EndOf(b) <= ArenaEnd(b.arena)
  /\ \A c \in live : Apart(b, c)
  /\ \/ ~TableFull(b.arena) /\ UNCHANGED cap
     \/ /\ TableFull(b.arena) /\ CanGrowFor(b)
        /\ cap' = [cap EXCEPT ![b.arena] = @ + Chunk]
  /\ live' = live \cup {b}
  /\ verdict' = {}
  /\ UNCHANGED <<broken, ring, pos, count, recent>>

(* Realloc in place writes one length. *)
Resize(b, c) ==
  /\ b \in live \ broken
  /\ AddrOf(c) = AddrOf(b) /\ c # b
  /\ EndOf(c) <= ArenaEnd(c.arena)
  /\ \A other \in live \ {b} : Apart(c, other)
  /\ live' = (live \ {b}) \cup {c}
  /\ verdict' = {}
  /\ UNCHANGED <<broken, cap, ring, pos, count, recent>>

Overrun(b) ==
  /\ b \in live
  /\ broken' = broken \cup {b}
  /\ verdict' = {}
  /\ UNCHANGED <<live, cap, ring, pos, count, recent>>

Judge(p, as) == verdict' = {[of |-> p, as |-> as]}

Release(b) ==
  /\ b \in live \ broken /\ Located(AddrOf(b))
  /\ live' = live \ {b}
  /\ Push(AddrOf(b))
  /\ cap' = IF MayShrink(b.arena) THEN [cap EXCEPT ![b.arena] = @ - Chunk] ELSE cap
  /\ Judge(AddrOf(b), "freed")
  /\ recent' = LET all == Append(recent, b)
               IN IF Len(all) > RingSize THEN Tail(all) ELSE all
  /\ UNCHANGED broken

Quarantined(b) ==
  /\ b \in live \cap broken /\ Located(AddrOf(b))
  /\ Judge(AddrOf(b), "canary")
  /\ UNCHANGED <<live, broken, cap, ring, pos, count, recent>>

NoBlockAt(p) == \A b \in live : AddrOf(b) # p

Unknown(p) ==
  /\ Located(p) /\ NoBlockAt(p)
  /\ Judge(p, IF InRing(p) THEN "double" ELSE "invalid")
  /\ UNCHANGED <<live, broken, cap, ring, pos, count, recent>>

(* Outside of the arenas the ring is not asked. *)
Outside(p) ==
  /\ ~Located(p)
  /\ Judge(p, "invalid")
  /\ UNCHANGED <<live, broken, cap, ring, pos, count, recent>>

Next ==
  \/ \E b \in Blocks : Allocate(b) \/ Overrun(b) \/ Release(b) \/ Quarantined(b)
  \/ \E b, c \in Blocks : Resize(b, c)
  \/ \E p \in Pointers : Unknown(p) \/ Outside(p)

Spec == Init /\ [][Next]_freedVars

-----------------------------------------------------------------------------
(* What a refused free is counted as, however often the ring has wrapped,   *)
(* whoever has owned the address meanwhile and wherever the arena ends now: *)
(* no pointer to a live block is refused as a double or an invalid free; a  *)
(* double free is of one of the last RingSize released blocks; and a free   *)
(* of one of those counts as invalid only while the table has taken bytes   *)
(* of the block (then mxr_ptr_to_arena may refuse it before the ring is     *)
(* read).                                                                   *)
JudgedByRecent ==
  \A v \in verdict :
    /\ v.as \in {"double", "invalid"} => NoBlockAt(v.of)
    /\ v.as = "double" => \E b \in Range(recent) : AddrOf(b) = v.of
    /\ v.as = "invalid" =>
         \A b \in Range(recent) : AddrOf(b) = v.of => EndOf(b) > ArenaEnd(b.arena)

=============================================================================
