SPECIFICATION FairSpec
CONSTANTS
  n1 = n1  n2 = n2  g1 = g1  c1 = c1  c2 = c2  w1 = w1  w2 = w2
  Node = {n1, n2}
  NQueue = 1
  Group = {g1}
  Subs <- G1Subs
  Consumer = {c1}
  GroupOf <- AllInG1
  Worker = {w1}
  Batches <- PlainBatches
  Nobody = Nobody
  Trimming = FALSE
  MaxLog = 2
  MaxPend = 0
  MaxScan = 1
  MaxFault = 1
PROPERTIES EveryItemIsDelivered
CHECK_DEADLOCK FALSE
