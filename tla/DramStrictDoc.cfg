SPECIFICATION Spec
CONSTANTS
  Align = 4
  MinSlice = 8
  EarlyExit = FALSE
  WasteDiv = 4
  BigGapGuard = FALSE
  BigGapMin = 0
  BigGapFactor = 4
  NRegions = 2
  RegStart <- TwoStart
  RegMin <- NarrowMin
  RegMax <- NarrowMax
  ArenaInit = 72
  Dynamic = FALSE
  DescInit = 4
  DescChunk = 1
  MaxDesc = 5
  Bins = 1
  BinBase = 8
  CrossEnabled = TRUE
  GuardNum = 3
  GuardDen = 4
  MinDiv = 2
  Canary = FALSE
  Requests = {8, 12, 20}
PROPERTIES StrictBestFit
