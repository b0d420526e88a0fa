SPECIFICATION BootSpec
CONSTANTS
  FifoDepth = 2
  PayloadAck = TRUE
  MaxArrivals = 2
  SpiFaults = TRUE
  GpioFaults = TRUE
  MaxWrites = 0
  QueueLen = 2
  WorkOutranksApp = FALSE
  PromptWork = FALSE
  MaxResets = 1
INVARIANT TransitInOrder
CHECK_DEADLOCK FALSE
