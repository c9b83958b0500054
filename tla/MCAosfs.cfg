SPECIFICATION Spec
CONSTANTS
    Paths <- SmallTree
    MaxEntries = 2
    Storage = 4
    MinExtent = 1
    MaxFile = 2
    MaxFaults = 1
    MaxInode = 2
INVARIANTS
    ExtentsDisjoint
    NextBootMounts
    TreeOnDevice
PROPERTIES
    OnlyTheNamedFileChanges
