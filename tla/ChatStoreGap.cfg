SPECIFICATION Spec
CONSTANTS
  w1 = w1
  w2 = w2
  Worker = {w1, w2}
  Pair <- OneChat
  Fault = {}
  UintMax = 9
  MaxReq = 2
  MaxTime = 0
INVARIANT GapMeansLost
CHECK_DEADLOCK FALSE
