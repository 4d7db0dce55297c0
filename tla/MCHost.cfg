SPECIFICATION MCSpec
CONSTANTS
    Voltages = {1, 2}
    InitVoltage = 1
    AbsMax = 1
    NumChannels = 2
    FanSettings <- TwoFanSettings
    PendingSize = 3
    Targets = {1, 2}
    MaxJob = 6
    MaxPrevHash = 3
    EventQueueLen = 4
    RingSize = 4
    Timespans = {2, 7}
    SamplePeriod = 3
    Delays = {0, 2}
    Rates = {1, 2}
    MaxSamples = 5
INVARIANTS
    TypesOK
    TrippedStaysOff
    ShutdownIsFinal
    UpdatesRunUnpowered
    SelectedImageIsWhole
    NamedJobIsMined
    WorkHasTheChannelsTarget
    FlagsCatchUp
    WindowsAreExact
    ExportIsComplete
PROPERTIES
    HotBoardIsCut
    SwitchedFirmwareBoots
    UpdateEnds
    NetworkComesBack
CHECK_DEADLOCK FALSE
