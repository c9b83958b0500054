SPECIFICATION Spec
CONSTANTS
  Spaces = {s1, s2}
  Pages = {1, 2}
  Blocks = {b1, b2, b3, b4, b5, b6}
  NoBlock = NoBlock
  MaxRef = 2
  Values = {0, 1}
  Absent = Absent
SYMMETRY Symmetry
INVARIANTS
  RefsCounted
  WritableIsExclusive
  BlockMappedOnce
  PmmRecordsAgree
PROPERTIES
  LostOnlyByMapping
  ImplementsPrivateMemory
