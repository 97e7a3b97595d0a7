SPECIFICATION Spec
CONSTANTS
  NVT = 1
  VcCount = 2
  Obj = {o1, o2}
  Proc = {p1}
  p1 = p1
  p2 = p2
  NULL = NULL
  Fds <- AllFds
  Opened <- AllSlots
  Closable <- NoSlots
  Ops <- DeadlockOps
SYMMETRY ObjSymm
INVARIANTS
  NoSelfDeadlock
CHECK_DEADLOCK FALSE
