SPECIFICATION BothSpec
CONSTANTS
  NULL = NULL
  NULLMAP = NULLMAP
  kbd = "kbd"
  evdev = "evdev"
  HandleIds = {1, 2, 3, 4}
  Devices <- AllDevices
  Handlers <- BothHandlers
  Keys <- AllKeys
  Matches <- AllMatches
  KeyBits <- BitsOf
  EvBits <- EvOf
  Fuzz <- FuzzOf
  Positions <- AxisPositions
  Vts <- TwoVts
  Consoles <- ThreeConsoles
  VtOf <- VtOfConsole
  Opened <- OpenConsoles
  Mods <- TwoMods
  Accents <- SomeAccents
  AltKeys = {"alt"}
  SysrqKeys = {"sysrq"}
  SysrqOp <- OpOfKey
  HighKeys = {}
  LedSets <- SomeLights
  Scenarios <- AllScenarios
  NPAR = 8
  Word = 128
  Rows = 3
  CanDoColor = TRUE
  HiFont = FALSE
  Alphabets <- SmallAlphabets
VIEW View
CONSTRAINT Bounded
CHECK_DEADLOCK FALSE
INVARIANTS
  NoMissedConnection
  KeyboardBinding
  NoStuckModifier
  AxisFollows
  CachesFresh
  ParametersSound
