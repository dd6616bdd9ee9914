\* The parts without shared state and the codecs, one after the other: see
\* MCProgram and MCCodecs.  A part ends where its bound is reached.
SPECIFICATION ProgramSpec
CHECK_DEADLOCK FALSE

CONSTANTS
  HashUnits = 4
  KeyUnits = 2
  MaxMatch = 4322
  NibbleMax = 1
  MinMatch = 3
  MaxOffset = 15
  MaxCodeLen = 4
  Literals = 4
  RunMax = 6
  ChunkMax = 3
  CLRepeat <- MCCLRepeat
  CLZeros <- MCCLZeros
  CLMany <- MCCLMany
  TableBits = 2
  ByteBits = 2
  AccBytes = 8
  Lanes = 4
  MinFour = 8
  TableLog = 4
  SparseMax = 2
  MinContext = 3
  MLBase <- MCMLBase
  MLExtra <- MCMLExtra
  LLBase <- MCLLBase
  LLExtra <- MCLLExtra
  OFCodes = 9
  LLMax = 5
  SafeRun = 11
  LitSymbols = 3
  CountLimit = 6
  Short = 5
  Wide = 7
  Widest = 9
  LengthMax = 5
  TokenOffsetBytes = 2
  InputMargin = 7
  OutputMargin = 10
  CallBytes = {232, 233}
  ByteBase = 256
  ImmBL = 4
  ImmADRP = 4
  PageWords = 2
  DigitBase = 4
  MaxDigits = 3
  ValueLimit = 32
  ByteCount = 4
  CountMax = 2
  NoKey = NoKey
  Built = {"sdk", "pqbox"}
  MaxSolid = 4
  Symbols = {"a", "b", "c"}
  Readers <- MCReaders
  InputContents <- MCInputContents
  NewContents <- MCNewContents
  WriterOpts <- MCWriterOpts
  BlockUnits = 2
  MaxEvents = 2
  Paths = {"a", "b"}
  Procs = {p, q}
  Commands <- MCCommands
  PubOf <- MCPubOf
  MaxRuns = 3
  MaxRemovals = 1
  MaxOutages = 1
  Keys = {"a", "b", "c", "d", "e"}
  Capacity = 5
  Probes = 2
  Home <- MCHome
  Empty = Empty
  MaxBlocks = 7
  Streams <- MCStreams
  Chunks = {0, 1, 2, 3, 5, 9}
  Capacities = {4, 9}
  MaxBlock = 5
  FirstBuffer = 4
  MaxResets = 1
  Workers = {w1}
  Clients = {a, b, c, d}
  MaxCalls = 2
  Period = 5
  MaxKeys = 3
  MaxTime = 8

INVARIANTS
  SolidSnapshot SolidNothingWrong SolidNeedsTheKey SolidTestTellsTheTruth
  KeysCanBeReliedOn DedupIInv
  ChunksDoNotMatter FramesStandAlone
  LimitIsExact TableIsBounded
PROPERTIES
  KeyFilesStay ImplementsIndex
  LZRoundTrips EntropyCodersAgree BlocksRoundTrip AcceptedRoundTrips
  TransformsAreUndone PathsFitTogether
