SPECIFICATION FairSpec
CONSTANTS
    KernelChunks = 3
    BootChunks = 5
    Configs = 2
INVARIANTS
    MarkerLast
PROPERTIES
    CompleteIsWhole
    InstallEnds
