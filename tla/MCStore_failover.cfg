SPECIFICATION Spec
CONSTANTS
  n1 = n1  n2 = n2  g1 = g1  c1 = c1  c2 = c2  w1 = w1  w2 = w2
  Node = {n1, n2}
  NQueue = 1
  Group = {g1}
  Subs <- G1Subs
  Consumer = {c1}
  GroupOf <- AllInG1
  Worker = {w1}
  Batches <- PlainBatches
  Nobody = Nobody
  Trimming = TRUE
  MaxLog = 2
  MaxPend = 1
  MaxScan = 1
  MaxFault = 1
INVARIANTS TypeOK CheckpointCoversDelivered IInv
PROPERTIES CheckpointNeverRetreats DeliversAtLeastOnce
SYMMETRY NodeSym
CHECK_DEADLOCK FALSE
