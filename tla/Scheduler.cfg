SPECIFICATION Spec
CONSTANTS
    MaxPid = 3
    MaxProcesses = 1
    WaitPidMin = 2
    WaitPidMax = 3
    ExitCodes = {0, 300}
    MaxListed = 2
INVARIANTS
    TypeOK
    ListMatchesCpu
    AddressSpaceIsCurrent
    NoLostWakeup
    TreeMatchesRecords
    ChildrenCounted
PROPERTIES
    WakeupsJustified
    ZombiesRest
