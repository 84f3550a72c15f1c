SPECIFICATION Spec
CONSTANTS
  Situations <- MCSituations
  FieldPath <- MCFieldPath
  Strcasecmp <- MCStrcasecmp
  Vercmp <- MCVercmp
  Strcasestr <- MCStrcasestr
  RegexpMatch <- MCRegexpMatch
  Keys <- MCKeys
  Strings <- MCStrings
  Levels = 7
  IntMin <- MCIntMin
  CIntMin <- MCCIntMin
  Numerals <- MCNumerals
  TrueWords = {"yes", "true"}
  FalseWords = {"no", "false"}
  MaxFailures = 2
INVARIANTS
    FilesInOrder
    OverlaysAllOrNothing
    MenuForDevice
