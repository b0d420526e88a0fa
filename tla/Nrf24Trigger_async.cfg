SPECIFICATION FairSpec
CONSTANTS
  FifoDepth = 2
  PayloadAck = TRUE
  MaxArrivals = 2
  SpiFaults = FALSE
  GpioFaults = FALSE
  MaxWrites = 3
  QueueLen = 1
  WorkOutranksApp = FALSE
  PromptWork = FALSE
INVARIANT IrqToken
INVARIANT VerdictMatches
INVARIANT TxFifoBound
INVARIANT ReaderListens
PROPERTY MailboxSpec
PROPERTY EdgeAcknowledged
PROPERTY CallsReturn
