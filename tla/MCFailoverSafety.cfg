SPECIFICATION RunningSpec
CONSTANTS
    c1 = c1
    c2 = c2
    NoHost = NoHost
    Configs <- OneConfig
    TimerQueueLen = 2
    Events = {"settings", "network", "shares"}
INVARIANTS
    TypeOK
    PrimaryTimerStaysArmed
    JobsBelongToLiveSession
PROPERTIES
    ImplementsPoolSession
