SPECIFICATION Spec
CONSTANTS
  Worker = {w1, w2}
  User = {a, b}
  Founder = {a}
  MaxReq = 3
SYMMETRY Workers
INVARIANTS RemovedStaysOut
CHECK_DEADLOCK FALSE
