SPECIFICATION Spec
CONSTANTS
  Align = 4
  MinSlice = 8
  EarlyExit = FALSE
  WasteDiv = 4
  BigGapGuard = FALSE
  BigGapMin = 0
  BigGapFactor = 4
  NRegions = 2
  RegStart <- WideStart
  RegMin <- TwoMin
  RegMax <- TwoMax
  ArenaInit = 60
  Dynamic = TRUE
  DescInit = 1
  DescChunk = 1
  MaxDesc = 7
  Bins = 3
  BinBase = 8
  CrossEnabled = TRUE
  GuardNum = 3
  GuardDen = 4
  MinDiv = 2
  Canary = TRUE
  Requests = {8, 12, 20}
INVARIANTS TypeOK ArenaTiled TableFits CacheExact FreeExact HintSound InsertsPass
