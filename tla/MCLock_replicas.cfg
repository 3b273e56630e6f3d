SPECIFICATION Spec
CONSTANTS
  n1 = n1  n2 = n2  k1 = k1  k2 = k2  c1 = c1  c2 = c2
  Node = {n1, n2}
  Key = {k1}
  Client = {c1, c2}
  NoRecord = NoRecord
  Nobody = Nobody
  Requests = {"acquire", "set", "delete"}
  Background = {n1}
  Trimming = FALSE
  MaxLog = 3
  MaxPend = 1
  MaxWrite = 0
  MaxFault = 1
  MaxRestart = 0
INVARIANTS TypeOK ReplicasAgree
PROPERTIES ActsAsOneTable
SYMMETRY ClientSym
CHECK_DEADLOCK FALSE
