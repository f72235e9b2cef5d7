SPECIFICATION Spec
CONSTANTS
  Align = 4
  MinSlice = 8
  EarlyExit = TRUE
  WasteDiv = 4
  BigGapGuard = TRUE
  BigGapMin = 16
  BigGapFactor = 4
  NRegions = 3
  RegStart <- ThreeStart
  RegMin <- ThreeMin
  RegMax <- ThreeMax
  ArenaInit = 84
  Dynamic = FALSE
  DescInit = 4
  DescChunk = 1
  MaxDesc = 5
  Bins = 1
  BinBase = 8
  CrossEnabled = TRUE
  GuardNum = 3
  GuardDen = 4
  MinDiv = 2
  Canary = FALSE
  Requests = {8, 12, 20, 28}
INVARIANTS BlocksSeparate HintSound NoFalseRefusal ClassBound CacheExact
