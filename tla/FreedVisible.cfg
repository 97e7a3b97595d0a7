SPECIFICATION Spec
CONSTANTS
  NVT = 1
  VcCount = 3
  Obj = {o1, o2, o3}
  Proc = {p1}
  p1 = p1
  p2 = p2
  NULL = NULL
  Fds <- AllFds
  Opened <- AllSlots
  Closable <- LaterSlots
  Ops <- FreeingOps
SYMMETRY ObjSymm
INVARIANTS
  VisibleKept
CHECK_DEADLOCK FALSE
