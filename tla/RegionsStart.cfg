SPECIFICATION Spec
CONSTANTS
  Align = 4
  MaxRegions = 3
  ClassLimit = 32
  TableInit = 8
  DramSpare = 16
  IramSpare = 12
  DramMost = 256
  IramLeast = 20
  IramMost = 256
  Arenas = {0, 24, 48, 92, 220, 264}
  Reserves = {0, 14, 100}
  Configs <- Lists
INVARIANTS RegionsTileArena OneHomePerSize LayoutAsAssumed SharesKept
PROPERTIES StartEnds
CHECK_DEADLOCK FALSE
