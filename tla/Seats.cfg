SPECIFICATION Spec
CONSTANTS
  NVT = 2
  VcCount = 2
  Obj = {o1, o2, o3, o4, o5}
  Proc = {p1}
  p1 = p1
  p2 = p2
  NULL = NULL
  Fds <- AllFds
  Opened <- AllSlots
  Closable <- LaterSlots
  Ops <- SeatOps
SYMMETRY ObjSymm
INVARIANTS
  DisplayIsolation
