SPECIFICATION Spec
CONSTANTS
    Unis = {u1}
    Pkgs <- MCAll
    System <- MCSystem
    Paths <- MCPaths
    Dirs <- MCDirs
    Parent <- MCParent
    Base <- MCBase
    Payload <- MCPayload
    Depends <- MCDepends
    Before <- MCBefore
    MaxCreated = 5
    DbCap = 2
    MaxPlan = 2
    MaxFaults = 1
INVARIANT RecordedIsWhole
INVARIANT NothingLeftBehind
INVARIANT DependenciesRecorded
