SPECIFICATION Spec
CONSTANTS
    c1 = c1
    c2 = c2
    NoHost = NoHost
    Configs <- OneConfig
    TimerQueueLen = 5
    Events = {}
INVARIANTS
    SecondaryMayTry
