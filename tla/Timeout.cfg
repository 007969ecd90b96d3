SPECIFICATION TimedSpec
CONSTANTS
    MaxPid = 2
    MaxProcesses = 1
    WaitPidMin = 2
    WaitPidMax = 2
    ExitCodes = {0}
    MaxListed = 1
    TimedPids = {1, 2}
    Limits = {1}
    DefaultLimit = 2
    MaxTicks = 3
    MaxEntries = 2
INVARIANTS
    TimeoutTypeOK
    NoLostWakeup
PROPERTIES
    KilledInTime
    KilledOnlyOverdue
