SPECIFICATION Spec
CONSTANTS
  FifoDepth = 2
  PayloadAck = TRUE
  MaxArrivals = 3
  SpiFaults = FALSE
  GpioFaults = FALSE
  MaxWrites = 2
  QueueLen = 1
  WorkOutranksApp = TRUE
  PromptWork = TRUE
INVARIANT PinTriggersRead
