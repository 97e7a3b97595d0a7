SPECIFICATION FairSpec
CONSTANTS
  NVT = 1
  VcCount = 1
  Obj = {o1}
  Proc = {p1}
  p1 = p1
  p2 = p2
  NULL = NULL
  Fds <- AllFds
  Opened <- AllSlots
  Closable <- NoSlots
  Ops <- BlankOps
INVARIANTS
  BlankStateSound
  AutoBlankArmed
  NothingForgotten
PROPERTIES
  KeyUnblanks
