SPECIFICATION FairSpec
CONSTANTS
  FifoDepth = 2
  PayloadAck = TRUE
  MaxArrivals = 3
  SpiFaults = FALSE
  GpioFaults = FALSE
  MaxWrites = 3
INVARIANT VerdictMatches
INVARIANT NothingLeftOver
PROPERTY MailboxSpec
PROPERTY WriteReturns
PROPERTY PacketEndsRead
