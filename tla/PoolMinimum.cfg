SPECIFICATION PoolSpec
CONSTANTS
  Align = 4
  MinSlice = 8
  EarlyExit = TRUE
  WasteDiv = 4
  BigGapGuard = FALSE
  BigGapMin = 0
  BigGapFactor = 4
  NRegions = 1
  RegStart <- DramStart
  RegMin <- AllMin
  RegMax <- AllMax
  ArenaInit = 24
  Dynamic = FALSE
  DescInit = 2
  DescChunk = 1
  MaxDesc = 2
  Bins = 0
  BinBase = 8
  CrossEnabled = TRUE
  GuardNum = 3
  GuardDen = 4
  MinDiv = 2
  Canary = FALSE
  Requests = {8}
  Reserve = 16
  NFb = 1
  FbStart <- ZoneStart
  FbMin <- AllMin
  FbMax <- AllMax
  IramInit = 64
  IDynamic = TRUE
  IDescInit = 1
  IMaxDesc = 5
  FbMaxBytes = 0
  ICrossEnabled = TRUE
  IGuardNum = 3
  IGuardDen = 4
  IMinDiv = 2
  IramFirst = FALSE
  Wanted <- Words
INVARIANTS PoolMinimumExact
