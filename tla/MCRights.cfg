SPECIFICATION Spec
CONSTANTS
  Procs = {p1, p2}
  PROCESS_FD_MAX = 3
  FirstFd = 1
  MAX_FILE_HANDLES = 1
  MAX_PIPE_OBJECTS = 0
  MAX_EVENTFD_OBJECTS = 0
  MAX_SOCKET_OBJECTS = 2
  SOCKET_ANCILLARY_FD_MAX = 1
SYMMETRY Symmetry
INVARIANTS
  RefsExact
CHECK_DEADLOCK FALSE
