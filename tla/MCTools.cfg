\* All tools end.
SPECIFICATION Spec
CHECK_DEADLOCK FALSE
CONSTANTS
  Cases <- MCCases
  Source <- MCSource
  Segments <- MCSegments
  Codes <- MCCodes
  Sizes = {2}
  RunSizes = {4, 130, 256}
  Addrs = {0, 1, 130}
  MaxCut = 2
  Data <- MCData
  Files <- MCFiles
  Windows = {1, 2, 3}
  Bases = {3, 4}
  Modulus = 8
  Char = {1, 2, 3}
  NL = 3
  BufSize = 2
  MaxLen = 6
  NearCases <- MCNearCases
  Thresholds = {0, 1, 2, 3}
  Texts <- MCTexts
  Samples <- MCSamples
  Exponents <- MCExponents
  Columned <- MCColumned
  Columns = {1, 2, 3}
  Blocks <- MCBlocks
  Counts = {1, 2, 3}
  FileSystems <- MCFileSystems
  Arguments <- MCArguments
  Words <- MCWords
  MaxWords = 6
INVARIANTS
  LinkageSound
  GroupsSound
  Decodes
  ExpandsUnlessOverlap
  LinesRead
  SharedHashes
  SameGroups
  MetricsExact
  EditScripts
  StatsExact
  UniqFilters
  FindsInserted
  PathsComplete
