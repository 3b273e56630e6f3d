SPECIFICATION Spec
CONSTANTS
  n1 = n1  n2 = n2  k1 = k1  k2 = k2  c1 = c1  c2 = c2
  Node = {n1, n2}
  Key = {k1}
  Client = {c1}
  NoRecord = NoRecord
  Nobody = Nobody
  Requests = {"acquire"}
  Background = {n1}
  Trimming = TRUE
  MaxLog = 3
  MaxPend = 1
  MaxWrite = 1
  MaxFault = 0
  MaxRestart = 1
INVARIANTS LeveldbFollows CheckpointIsDurable DurableInv
PROPERTIES VersionsNeverRetreat
CHECK_DEADLOCK FALSE
