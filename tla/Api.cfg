SPECIFICATION ApiSpec
CONSTANTS
  Align = 4
  MinSlice = 8
  EarlyExit = TRUE
  WasteDiv = 4
  BigGapGuard = FALSE
  BigGapMin = 0
  BigGapFactor = 4
  NRegions = 2
  RegStart <- ApiStart
  RegMin <- ApiMin
  RegMax <- ApiMax
  ArenaInit = 48
  Dynamic = TRUE
  DescInit = 2
  DescChunk = 1
  MaxDesc = 5
  Bins = 1
  BinBase = 8
  CrossEnabled = TRUE
  GuardNum = 3
  GuardDen = 4
  MinDiv = 2
  Canary = TRUE
  Requests = {8, 12, 20}
  Task = {t1, t2}
  SnapBytes = 12
INVARIANTS JobSafe DumpAlone
PROPERTIES Quarantine HeapRefined NoBlockLeaks CallsEnd
