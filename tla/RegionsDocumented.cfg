SPECIFICATION Spec
CONSTANTS
  Align = 4
  MaxRegions = 3
  ClassLimit = 32
  TableInit = 8
  DramSpare = 16
  IramSpare = 12
  DramMost = 256
  IramLeast = 20
  IramMost = 256
  Arenas = {92}
  Reserves = {0, 14, 100}
  Configs <- Lists
INVARIANTS DocumentedListHonoured
CHECK_DEADLOCK FALSE
