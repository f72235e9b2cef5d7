SPECIFICATION Spec
CONSTANTS
  Blocks <- SmallBlocks
  Pointers <- SomePointers
  RingSize = 3
  Align = 4
  HeadBytes = 4
  ArenaBytes <- TwoArenas
  DescInit <- FirstSlots
  MaxDesc <- MostSlots
  Chunk = 1
INVARIANTS JudgedByRecent
