-------------------------------- MODULE MCFreed -------------------------------
(***************************************************************************)
(* An instance of MxrFreed for TLC.  DRAM: 24 bytes, blocks of 8, one of   *)
(* 16, and a table that grows from one slot into the last of them.  IRAM:  *)
(* two of the same offsets, a static table.                                *)
(***************************************************************************)
EXTENDS MxrFreed

SmallBlocks ==
  [arena : {"dram"}, off : {0, 8, 16}, len : {8}] \cup
  {[arena |-> "dram", off |-> 8, len |-> 16], [arena |-> "iram", off |-> 8, len |-> 8],
   [arena |-> "iram", off |-> 16, len |-> 8]}

(* Block starts, a pointer that is not aligned, one into the first head of  *)
(* the arena, one behind the arenas.                                        *)
SomePointers ==
  {AddrOf(b) : b \in SmallBlocks} \cup
  {[arena |-> "dram", off |-> 6], [arena |-> "dram", off |-> -4], [arena |-> "iram", off |-> 24]}

TwoArenas == [A \in Arenas |-> 24]
FirstSlots == [A \in Arenas |-> IF A = "dram" THEN 1 ELSE 2]
MostSlots == [A \in Arenas |-> IF A = "dram" THEN 3 ELSE 2]
=============================================================================
