SPECIFICATION Spec
CONSTANTS
  n1 = n1  n2 = n2  k1 = k1  k2 = k2  c1 = c1  c2 = c2
  Node = {n1, n2}
  Key = {k1}
  Client = {c1, c2}
  NoRecord = NoRecord
  Nobody = Nobody
  Requests = {"acquire", "release"}
  Background = {}
  Trimming = FALSE
  MaxLog = 4
  MaxPend = 2
  MaxWrite = 0
  MaxFault = 0
  MaxRestart = 0
INVARIANTS GrantedIsAcquired
SYMMETRY NodeClientSym
CHECK_DEADLOCK FALSE
