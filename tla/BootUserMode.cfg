SPECIFICATION Spec
CONSTANTS
    Indexes = {0, 1, 2, 3}
    MemoryMaps <- MCAmpleMap
    KernelPage <- MCKernelPage
    HeapPages <- MCHeapPages
    CodePage <- MCCodePage
    StackPage <- MCStackPage
    Code2Page <- MCCode2Page
    NoFrame = NoFrame
    Pids <- MCPids
PROPERTIES
    KernelModeTestReturns
