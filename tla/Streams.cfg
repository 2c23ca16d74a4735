SPECIFICATION MCSpec
CONSTANTS
  Block = 3
  CounterValues = 4
  InvocationValues = 4
  IVs <- MCIVs
  LongIVs <- MCLongIVs
  Chunks = {0, 1, 4}
  LegacyAfterInitWithIv = FALSE
  MaxAad = 4
  MaxMessages = 2
  PieceLengths = {0, 1, 2, 3, 7}
  \* Requests below, at and above a block, the interval and the limit.
  HmacBlock = 2
  Interval = 2
  StrictFips = TRUE
  MaxRequest = 5
  Seeds = {"seed1", "seed2"}
  Additional = {"additional"}
  NoData = "none"
  Requests = {0, 1, 2, 3, 5, 6}
  HmacCalls = 5
  SivBlock = 2
  SivKeyUnits = 2
  Stack = {1, 2}
  SivPieces <- MCSivPieces
  Texts <- MCTexts
  SivSteps = 6
  ChaBlock = 4
  PolyBlock = 2
  ChaCounterValues = 3
  ChaPieces = {0, 1, 3, 6}
  ChaMaxAad = 3
  ChaMessages = 2
INVARIANTS
  NothingTwice
  PiecesDoNotMatter
  SivMatches
  ArithmeticExact
  EncodingsExact
CHECK_DEADLOCK FALSE
