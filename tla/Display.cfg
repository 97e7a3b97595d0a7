SPECIFICATION DisplaySpec
CONSTANTS
  NULL = NULL
  Sizes <- SmallSizes
  Word = 16
  Params <- SmallParams
  TabBits = 1
  TabEvery = 8
  Blank = Blank
  Glyph = Glyph
  ConsoleSizes <- FileSizes
  BUF_SIZE = 6
  Counts = {1, 4, 12}
  MaxCalls = 1
  None = None
  Cons = {1, 2}
  Seatings <- OneSeat
  Rows = 2
  Cols = 3
  Back = 1
  Texts <- SomeTexts
  Places = {1, 4}
  InWord = {"a"}
  CursorTypes <- SomeCursors
  MaxWrites = 1
CONSTRAINT BoundedScreen
VIEW View
CHECK_DEADLOCK FALSE
INVARIANTS
  CursorSound
  RegionSound
  LayersExact
  BufferExact
  TransferExact
PROPERTIES
  ScrollConfined
  WrapFromMargin
