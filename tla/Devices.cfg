SPECIFICATION DevicesSpec
CONSTANTS
  \* the serial line
  chA = chA
  chB = chB
  LF = LF
  CR = CR
  BUF_SIZE = 3
  Received = {chA, chB}
  Written = {LF}
  Blocks <- MCBlocks
  MaxIn = 4
  MaxOut = 5
  \* the console
  WordBits = 6
  RowZeros <- MCRowZeros
  MaxX = 3
  MaxY = 3
  Regions <- MCRegions
  Letters = {"a"}
  Formats <- MCFormats
  Fixed <- MCFixed
  MaxCalls = 3
  MaxLines = 5
  \* the keyboard
  C_BUFSIZE = 3
  Keys = {"d", "enter", "none"}
  LineSizes = {0, 2, 3}
  MaxCodes = 4
  \* the painters
  Modes <- MCModes
  WantedWidth = 12
  WantedHeight = 10
  FirstBest = {0, 5, 1000}
  Boxes <- MCBoxes
  Scale = 2
  Glyph <- MCGlyph
  TextPlaces <- MCPlaces
  TextLengths = {1, 2}
  \* the bus and the lists
  Element = {1, 2, 3}
  Null = Null
  NoDevice = NoDevice
  Functions <- MCFunctions
  Plugged <- MCPlugged
  WordSize = 256
  FLAG_BITS = 16
  Datum = {"d1", "d2"}
  \* the queues
  Queues = {"sleep"}
  OrderedQueues = {"sleep"}
  QueueKeys = {1, 2}
  Data = {"a", "b"}
  QueueNodes = {1, 2, 3}
INVARIANTS  ShownAsPrinted FieldsReadBack KeysInOrder BoxTiled DevicesFound ListKept
PROPERTIES OutputDrains QueuesKept
CHECK_DEADLOCK FALSE
