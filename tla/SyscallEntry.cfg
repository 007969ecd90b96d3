SPECIFICATION Spec
CONSTANTS
    Width = 6
    KernelBase = 40
    Supported = {"getpid", "write"}
    Unsupported = {"other"}
INVARIANTS
    SupportedCallsDispatched
