SPECIFICATION Spec
CONSTANTS
  Align = 4
  MinSlice = 8
  EarlyExit = TRUE
  WasteDiv = 4
  BigGapGuard = TRUE
  BigGapMin = 12
  BigGapFactor = 2
  Bytes = 28
  Slots = 4
  Queries <- Spans
INVARIANTS Sorted FindsByOffset GuardIsExact ReleasedGapIsMaximal ScanIsSearch
