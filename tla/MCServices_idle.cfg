\* Consumers that report no load at all, one of which dies.
SPECIFICATION ServicesSpec

CONSTANTS
    t1 = t1  t2 = t2
    Parts = {"sched"}
    \* sched
    NHost = 2  NProc = 2  NGroup = 1  RingSize = 100
    QueuesOf <- TwoQueues  HostPoint <- HostPoints  QueuePoint <- QueuePoints
    Dynamic = {1}  Confs <- OneConf
    Loads = {0, 2}  MaxLoad = 3  MaxMeanLoadPercent = 100
    MaxInitWeightPercent = 200  LoadSticky = 1  WeightSticky = 5
    MaxFaults = 1
    \* batch
    Thread = {t1, t2}  NKey = 2  NRoutine = 1  AddLimit = 4  BatchDelay = 1  NNotifier = 2
    \* dispatch
    Uins = {0, 1, 2}  MaxBatch = 3  NHandler = 2  NBatchHandler = 1  RandomUin = FALSE
    \* freq
    NWorker = 2  NFreqQueue = 2  FirstQueues <- SecondWorks  FreqInfos <- TwoFreqInfos
    GetLimit = 1  RoundTime = 1  QuotaCap = 2  MaxIdle = 2  MaxTot = 3  MaxMoves = 0
    \* placement
    NNode = 3  NPaxos = 2  MasterRate = 50  Refusing = {}  MaxFail = 1
    \* clean
    NLockKey = 3  MaxClean = 2  MaxAcquire = 4  MaxTrouble = 1
    \* config
    CheckInterval = 0  RefreshDelay = 0  MaxWrites = 3

PROPERTY
    ServedInTheEnd

CHECK_DEADLOCK FALSE
