SPECIFICATION Spec
CONSTANTS
  Align = 4
  MinSlice = 8
  EarlyExit = TRUE
  WasteDiv = 4
  BigGapGuard = FALSE
  BigGapMin = 0
  BigGapFactor = 4
  Reserve = 16
  NFb = 2
  FbStart <- FbTwoStart
  FbMin <- FbTwoMin
  FbMax <- FbTwoMax
  IramInit = 52
  IDynamic = TRUE
  IDescInit = 2
  DescChunk = 1
  IMaxDesc = 5
  FbMaxBytes = 16
  ICrossEnabled = TRUE
  IGuardNum = 3
  IGuardDen = 4
  IMinDiv = 2
  Canary = TRUE
  Requests = {4, 12, 16}
INVARIANTS TypeOK IramTiled ZonesApart FbCacheExact CountersAgree FbLimitKept ITableFits
PROPERTIES TailKept
