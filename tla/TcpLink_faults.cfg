SPECIFICATION TcpFairSpec
CONSTANTS
  Fds = {3, 4}
  MaxConns = 4
  Window = 2
  Backlog = 2
  MaxFaults = 3
INVARIANT ReceiverOnItsConnection
INVARIANT NoSocketLeak
PROPERTY OneReceiver
PROPERTY SessionEnds
PROPERTY Recovers
CHECK_DEADLOCK FALSE
