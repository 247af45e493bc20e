\* A line end in the place right after a segment of a stream.
CONSTANTS
  MaxLength = 9
  MaxTarget = 5
  Chunk = 2
  Threads = {t, u}
  Sources <- MCSources
  Hosts <- MCHosts
  Limits = {None, 2, 4}
  None = None
  Foreign <- MCForeign
  VarintBase = 4
  VarintLimit = 3
  Word = 32
  LineEnd = 3
  Window = 2
  Slots = 2
  MaxReference = 3
  MaxRun = 4
  SpliceLimit = 4
  MinToken = 2
  MaxToken = 3
  MaxTokens = 2
  SampleBudget = 4
  MaxChannels = 2
  MaxRawExpansion = 4
  RawOverhead = 0
  Delimiter = 2
  FieldSize = 1
  BundleFrame = 3
  LogOverhead = 1
  Inputs <- MCInputs
  Damages <- MCDamages
  Separators = {2, 3}
  Digits = {0, 1}
  Plus = 7
  Minus = 4
  Point = 5
  ByteBits = 3
  CodeBits = 6
  RescaleAt = 7
  MaxDictionary = 4
  MaxCells = 40
  FewSymbols = 2
  Lanes = 3
  SampleSize = 4
  FewValues = 1
  StreamSegmentSize = 3
SPECIFICATION AnySpec
SYMMETRY Perms
INVARIANTS StreamsReadBack
CHECK_DEADLOCK FALSE
