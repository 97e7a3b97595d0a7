SPECIFICATION TablesSpec
CONSTANTS
  NULL = NULL
  Procs = {p1, p2}
  Maps = {0, 1, 2, 3}
  StaticMaps = {0, 1}
  MapKeys = {0, 1}
  Syms = {"K_SAK", "a"}
  MAX_NR_OF_USER_KEYMAPS = 3
  Scancodes = {1, 2, 3}
  Codes = {1, 2, 3}
  DefaultCodes <- OneToOne
  MAX_NR_FUNC = 3
  Texts <- SomeTexts
  FirstSize = 4
  Block = 4
  MaxSize = 16
  Cons = {1, 2}
  Rows = 4
  VramRows = 11
  Margin = 1
  Palettes = {"p1", "p2"}
  Uses <- SomeUses
  MaxWrites = 1
  MaxFront = 2
CHECK_DEADLOCK FALSE
INVARIANTS
  KeymapCountExact
  ProducedKeysPass
  MapsCounted
  InverseFresh
  VerdictExact
  TextKept
  MonitorShows
PROPERTIES
  StringsKept
  ExposedOnlyLate
VIEW View
