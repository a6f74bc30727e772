CONSTANTS
  MaxRecords = 3
  MaxLen = 4
  RecordMax = 3
  Prefix = 2
  Header = 2
  MaxValue = 7
  MTUs = {2, 3, 4, 6, 8, 9}
  PreExisting = {0, 1, 6}
SPECIFICATION ReadSpec
INVARIANTS PageIsSlice MoreIsTruthful ValueFits
CHECK_DEADLOCK FALSE
