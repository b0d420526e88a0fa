SPECIFICATION BootSpec
CONSTANTS
  FifoDepth = 2
  PayloadAck = TRUE
  MaxArrivals = 2
  SpiFaults = FALSE
  GpioFaults = FALSE
  MaxWrites = 2
  QueueLen = 1
  WorkOutranksApp = FALSE
  PromptWork = FALSE
  MaxResets = 1
INVARIANT QuietBeforeReady
INVARIANT TokenOnceRunning
PROPERTY InitHandsOver
CHECK_DEADLOCK FALSE
