SPECIFICATION Spec
CONSTANTS
  Slots = {s1, s2, s3}
  Spaces = {a1, a2, a3, a4}
  NoSpace = NoSpace
  MaxPid = 5
  CloneKinds <- ThreadKinds
  LoginUid = 65534
  UserUid = 1000
SYMMETRY Symmetry
INVARIANTS
  SpacesAccounted
  HaltsOnlyWithoutSuccessor
CHECK_DEADLOCK FALSE
