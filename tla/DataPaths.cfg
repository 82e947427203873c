SPECIFICATION Spec
CONSTANTS
  BLOCK_SIZE = 3
  MaxBlocks = 3
  MaxRun = 4
  BLOCKSIZE2 = 8
  LengthBytes = 4
  DigestBytes = 4
  WordRange = 8
  BitsPerByte = 1
  MaxPiece = 31
  MaxSeed = 70
  MaxTaken = 3
  HUFF_LOOKAHEAD = 2
  MaxCodeLength = 4
  DCTable <- SmallDCTable
  ACTable <- SmallACTable
  DCTSIZE2 = 6
  MaxZeros = 2
  ByteBits = 3
  MIN_GET_BITS = 5
  Restarts = 8
  MCU_membership <- OneComponentTwice
  BlockChoices <- SmallBlocks
  NoOfMCUs = 3
  Intervals = {0, 1}
  Images <- SmallImages
  ScriptChoices <- SmallScripts
  LastOfLow = 3
  MAX_CORR_BITS = 7
  Contents = {0, 1}
  Zero = 0
  NoOfRows = 4
  MaxAccess = 2
  MaxMinHeights = 1
  DCTSIZE = 1
  Layouts <- SmallLayouts
  MinHeights = {1, 2, 100}
  CountedBlocks <- CountedOnce
  CountedMCUs = 2
  TableNumbers <- SharedTables
  Histograms <- SmallHistograms
  MaxCount = 255
  LengthLimit = 4
  MAX_CLEN = 9
  HeaderBytes = 4
  AlignBytes = 2
  MaxChunk = 14
  FirstSlop <- SmallFirstSlop
  ExtraSlop <- SmallExtraSlop
  MinSlop = 1
  PointerBytes = 1
  ControlBytes = 3
  ManagerBytes = 5
  ElementBytes <- SmallElements
  MaxMemory = 70
  Rooms <- SmallSystems
  SmallCalls <- SmallObjects
  LargeCalls <- LargeObjects
  ArrayCalls <- SmallArrays
  MaxCalls = 4
  FullSize = 4
  Shows <- SmallShows
  BufferHeights = {1, 3}
  MaxPasses = 2
  BlockSize = 2
  Takes <- SmallTakes
  CallSizes = {1, 3, 100}
  Budgets = {0, 1, 100}
  Pictures <- SmallPictures
  Switches <- SmallSwitches
  MaxTurns = 2
  NoOfMembers = 2
  MaxCover = 3
  FullSteps = {1, 3}
  ReducedSteps = {3, 4, 5}
  Thresholds = {0, 50, 60, 100}
INVARIANTS
  BlockIsTheBits
  DigestIsOfTheBytes
  SegmentsComeBack
  NoSilentDamage
  ProgressionComesBack
  CorrectionBitsFit
  BlocksComeBack
  CodesAreOptimal
  MemoryIsAccountedFor
  RowsMeetTheirNeighbours
  MCUsAreTheImages
  TransformsMoveTheSamples
  DecoderReadsTheFlippedParities
  StegoIsRecompressedCover
  DryOnesCouldGoEitherWay
PROPERTIES
  RowsComeBack
CHECK_DEADLOCK FALSE
