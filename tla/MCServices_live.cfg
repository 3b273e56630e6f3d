\* Seven components that have to get on, one at a time.
SPECIFICATION ServicesSpec

CONSTANTS
    t1 = t1  t2 = t2
    Parts = {"sched", "batch", "dispatch", "freq", "placement", "clean", "config"}
    \* sched
    NHost = 2  NProc = 2  NGroup = 1  RingSize = 100
    QueuesOf <- TwoQueues  HostPoint <- HostPoints  QueuePoint <- QueuePoints
    Dynamic = {1}  Confs <- HostLeaves
    Loads = {2, 4}  MaxLoad = 3  MaxMeanLoadPercent = 100
    MaxInitWeightPercent = 200  LoadSticky = 1  WeightSticky = 1
    MaxFaults = 1
    \* batch
    Thread = {t1, t2}  NKey = 2  NRoutine = 1  AddLimit = 4  BatchDelay = 1  NNotifier = 2
    \* dispatch
    Uins = {0, 1, 2}  MaxBatch = 3  NHandler = 2  NBatchHandler = 1  RandomUin = FALSE
    \* freq
    NWorker = 2  NFreqQueue = 2  FirstQueues <- SecondWorks  FreqInfos <- TwoFreqInfos
    GetLimit = 1  RoundTime = 1  QuotaCap = 2  MaxIdle = 2  MaxTot = 3  MaxMoves = 0
    \* placement
    NNode = 3  NPaxos = 2  MasterRate = 50  Refusing = {}  MaxFail = 1
    \* clean
    NLockKey = 3  MaxClean = 2  MaxAcquire = 4  MaxTrouble = 1
    \* config
    CheckInterval = 0  RefreshDelay = 0  MaxWrites = 3

INVARIANTS
    ServicesTypeOK
    SlotsAreDistinct
    SameScalesSplitQueues
    OthersKeepWeight
    SentOnceWithOwnCode
    HandledInOrder

PROPERTIES
    ServedInTheEnd
    CallsReturn
    ConsumeReturns
    LimitedGoesOn
    HomeInTheEnd
    CleanedInTheEnd
    ConfigInTheEnd

CHECK_DEADLOCK FALSE
