SPECIFICATION ClientsSpec
CONSTANTS
  p1 = p1  p2 = p2  q1 = q1  q2 = q2  s1 = s1  s2 = s2  s3 = s3  g1 = g1  g2 = g2
  Parts = {"delivery"}
  Proc = {p1, p2}
  Queue = {q1, q2}
  None = None
  PaxosGroup = {g1}
  GroupOfKey <- OneGroup
  Lease = 2
  Interval = 0
  Delay = 1
  Body = 0
  MaxTime = 4
  MaxVersion = 2
  Sched = {s1, s2, s3}
  IpOf <- SharedIp
  NoMaster = NoMaster
  SchedLease = 2
  Round = 1
  ForceMaster = NoMaster
  MaxNow = 4
  MaxRecord = 3
  PubOf <- PubPerStore
  InfoOf <- QueueInfos
  StoreOf <- StorePerPub
  Skip = {}
  Dropping = {}
  BatchLimit = 2
  ByteLimit = 2
  NRetry = 1
  SwitchStore = TRUE
  Requests <- BothPubs
  Hashes = {1}
  Sizes = {1}
  MaxItem = 2
  MaxCount = 3
  MaxLoss = 1
  NNode = 3
  NPaxos = 1
  MasterRate = 100
  Refusing = {}
  MaxFail = 1
  NWorker = 1
  NFreqQueue = 2
  FirstQueues <- OneWorks
  FreqInfos <- TwoFreqInfos
  GetLimit = 2
  RoundTime = 1
  QuotaCap = 1
  MaxIdle = 1
  MaxTot = 3
  MaxMoves = 2
  NInst = 3
  FirstInst = 0
  Times = {1, 2, 3}
  ReplayInfos <- TwoReplays
  NoItems = {}
  BadReads = {{}, {2}}
  GetThread = {1, 2}
  CursorLimit = 1
  MaxLate = 2
INVARIANTS NoItemLost
CHECK_DEADLOCK FALSE
