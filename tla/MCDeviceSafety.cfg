SPECIFICATION MCSpec
CONSTANTS
    m1 = m1
    m2 = m2
    Macs <- TwoSlaves
    N = 2
    Free = Free
    Unassigned = Unassigned
    QueueLen = 1
    MaxFaults <- DeleteAndReset
    Channels <- CanChannels
    MaxMessage = 4
    ping0 = ping0
    ping1 = ping1
    pri = pri
    StratumTasks = {pri}
    TimerDaemon = timer
    JobBuilder = builder
    ResultTask = result_task
    WebServer = web_server
    NetworkTask = network
    Full = 3
    AsicMin = 2
    AsicMax = 8
    PoolDiffs = {5, 16}
    Unknown = 99
    NoPool = NoPool
    MaxTurns = 3
    Space = 4
    SlaveIds = {1, 2, 3}
    Base = 2
    Room = 16
    Protocol = "V1"
    MaxRounds = 4
INVARIANTS
    OneSlotPerSlave
    NeverOverruns
    SplicesNeedLongLoss
    WholeMessagesArrive
    DeadlockNeedsSettingsAndPing
    TurnsFollowBalance
    SharesPassTheMask
    WorkIsDisjoint
CHECK_DEADLOCK FALSE
SYMMETRY Interchangeable
