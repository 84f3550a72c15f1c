SPECIFICATION TreeSpec
CONSTANTS
  MaxNodes = 16
  MaxLive = 8
  MaxCalls = 3
  Keys <- MCKeys
  Strings <- MCStrings
  Levels = 16
  Values <- MCValues
  IntMin <- MCIntMin
  Numerals <- MCNumerals
  TrueWords = {"yes", "true"}
  FalseWords = {"no", "false"}
  Paths <- MCPaths
  Documents <- MCDocuments
  UnwritableKeys <- MCUnwritableKeys
  UnwritableStrings <- MCUnwritableStrings
  Budgets = {0, 1, 2, 3, 5, 20}
CHECK_DEADLOCK FALSE
INVARIANTS
    WellFormed
    MergeWhole
    WritesStayOnPath
    ReadsBack
