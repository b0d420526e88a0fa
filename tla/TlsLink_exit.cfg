SPECIFICATION TlsSpec
CONSTANTS
  Fds = {3, 4}
  MaxConns = 3
  Window = 2
  Backlog = 2
  MaxFaults = 1
INVARIANT OnlyCtrlCExits
CHECK_DEADLOCK FALSE
