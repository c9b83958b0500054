SPECIFICATION Spec
CONSTANTS
  Procs = {p1, p2}
  PROCESS_FD_MAX = 3
  FirstFd = 1
  MAX_FILE_HANDLES = 1
  MAX_PIPE_OBJECTS = 1
  MAX_EVENTFD_OBJECTS = 1
  MAX_SOCKET_OBJECTS = 0
  SOCKET_ANCILLARY_FD_MAX = 0
SYMMETRY Symmetry
INVARIANTS
  RefsExact
PROPERTIES
  PipeEndFinal
CHECK_DEADLOCK FALSE
