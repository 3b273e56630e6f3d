SPECIFICATION Spec
CONSTANTS
  n1 = n1  n2 = n2  g1 = g1  c1 = c1  c2 = c2  w1 = w1  w2 = w2
  Node = {n1}
  NQueue = 2
  Group = {g1}
  Subs <- G1Subs
  Consumer = {c1, c2}
  GroupOf <- AllInG1
  Worker = {w1, w2}
  Batches <- TwoQueueBatches
  Nobody = Nobody
  Trimming = FALSE
  MaxLog = 3
  MaxPend = 1
  MaxScan = 1
  MaxFault = 0
INVARIANTS AckedWasDelivered FirstDeliveryInOrder UndeliveredIsIndexed
PROPERTIES SyncNeverRetreats
CONSTRAINT RivalsOrSync
SYMMETRY ClientSym
CHECK_DEADLOCK FALSE
