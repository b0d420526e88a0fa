SPECIFICATION TlsFairSpec
CONSTANTS
  Fds = {3, 4}
  MaxConns = 5
  Window = 2
  Backlog = 2
  MaxFaults = 2
PROPERTY DeadClientsDropped
PROPERTY TlsRecovers
CHECK_DEADLOCK FALSE
