SPECIFICATION LibSpec
CONSTANTS
  Word = 1024
  ReadSize = 100
  MessageLengths <- MCMessageLengths
  HashLengths <- MCHashLengths
  IntDigits = 1
  Arguments <- MCArguments
  LOG_MAX_LEN = 8
  PieceLengths = {0, 2, 9}
  MaxFd = 4
  MaxErrors = 1
  StackSlices = {s1}
  HeapSlices = {s2}
  TextNames = {t1, t2}
  Lengths = {0, 3, 16}
  Blocks = {b1, b2}
  NoText = NoText
  NoBlock = NoBlock
  Wild = Wild
  Files <- MCFiles
  IntWidth = 1048576
  Ports = 65536
  Ephemeral = {8765, 40000}
  NULL = NULL
  Sets = {set1, set2}
  Lists = {l1, l2}
  Items <- MCItems
  Null = Null
  Caps = {0, 1, 2}
  MaxSlot = 3
  Nodes = {n1, n2, n3, n4, n5}
  NoNode = NoNode
  Words <- MCWords
  DataWords <- MCDataWords
  MaxOptions = 3
INVARIANTS
  BlocksInOrder
  DigestOfWhole
  HashTakesAll
  ConversionExact
  LineInBuffer
  LinesReachTheLog
  SliceHolds
  BlocksAccounted
  MeetAtPort
  StoreScansMeetSets
  WalksAgree
  DestroyNeedsAMiddle
  OnlyLongOptions
PROPERTY
  ShowsTheSequence
CHECK_DEADLOCK FALSE
