SPECIFICATION Spec
CONSTANTS
  Values <- MCValues
  MaxDigits = 10
  NameOrder <- MCNameOrder
  Unwritten = {"gnre"}
  AppLen <- MCAppLen
  CustomLen <- MCCustomLen
  Def <- MCDef
  Repeatable = {"nam", "app", "covr"}
  Genres = 4
  Letters = 11
  Texts <- MCTexts
  Blobs <- MCBlobs
  Files <- MCFiles
  MaxCalls = 2
INVARIANTS TypeOK LengthsAgree RoundTrip SettlesAtOnce Filled
CHECK_DEADLOCK FALSE
