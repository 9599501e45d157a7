SPECIFICATION Spec
CONSTANTS
  Worker = {w1, w2}
  User = {a, b}
  Founder = {a}
  MaxReq = 3
SYMMETRY Workers
INVARIANTS TypeOK MembersCached UnreadCoversDue
CHECK_DEADLOCK FALSE
