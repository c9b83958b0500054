CONSTANTS
  Procs = {p1, p2}
  Values = {a}
  Size = 2
  MaxLen = 2
SPECIFICATION FairSpec
PROPERTIES
  ImplementsByteStream
  CallsAnswered
