SPECIFICATION CapsSpec
CONSTANTS
  Align = 4
  MinSlice = 8
  EarlyExit = TRUE
  WasteDiv = 4
  BigGapGuard = FALSE
  BigGapMin = 0
  BigGapFactor = 4
  NRegions = 2
  RegStart <- DStart
  RegMin <- DMin
  RegMax <- DMax
  ArenaInit = 24
  Dynamic = FALSE
  DescInit = 2
  DescChunk = 1
  MaxDesc = 2
  Bins = 0
  BinBase = 8
  CrossEnabled = TRUE
  GuardNum = 3
  GuardDen = 4
  MinDiv = 2
  Canary = FALSE
  Requests = {8, 12}
  Reserve = 12
  NFb = 2
  FbStart <- IStart
  FbMin <- IMin
  FbMax <- IMax
  IramInit = 36
  IDynamic = FALSE
  IDescInit = 2
  IMaxDesc = 3
  FbMaxBytes = 12
  ICrossEnabled = TRUE
  IGuardNum = 3
  IGuardDen = 4
  IMinDiv = 2
  IramFirst = FALSE
  Wanted <- Flags
INVARIANTS PlacedAsAsked LargestServed
PROPERTIES HeapRefined
