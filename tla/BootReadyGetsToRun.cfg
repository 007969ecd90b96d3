SPECIFICATION BootFairSpec
CONSTANTS
    MaxPid = 3
    MaxProcesses = 2
    WaitPidMin = 2
    WaitPidMax = 3
    ExitCodes = {0}
    MaxListed = 2
PROPERTY ReadyGetsToRun
