SPECIFICATION Spec
CONSTANTS
  w1 = w1
  w2 = w2
  Worker = {w1, w2}
  Pair <- SameSum
  Fault = {"read", "insert", "unreachable", "loading", "restart", "crash"}
  UintMax = 9
  MaxReq = 2
  MaxTime = 0
SYMMETRY WorkerSymmetry
INVARIANTS TypeOK IdsUnique StoredHasPeerSession UnreadCoversDue
PROPERTIES LogKept
CHECK_DEADLOCK FALSE
