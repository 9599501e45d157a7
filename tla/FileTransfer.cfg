\* One task, of either mode, and four connections: either end may come back.
SPECIFICATION FairSpec
CONSTANTS
  Conn = {c1, c2, c3, c4}
  Task = {t1}
  NoConn = NoConn
  NoTask = NoTask
  Freed = Freed
  Segments = 2
  MaxPulls = 3
  Orderly = {"oneConnection", "oneLogin", "uploadFirst"}
INVARIANT TypeOK
 
INVARIANT RelayedAsAsked
PROPERTIES FilesDelivered OnlineEndsTogether
CHECK_DEADLOCK FALSE
