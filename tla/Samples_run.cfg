SPECIFICATION Spec
CONSTANTS
  Copies = 2
  InboxLen = 2
  MaxSaid = 3
  MaxConn = 2
  MaxAccidents = 5
  MaxDigits = 3
  FsMaxBoots = 4
  Cols = 3
  Pages = 2
  MaxWidth = 4
  MaxOps = 2
  I2cFaults = TRUE
  Base = 3
  MaxBoots = 12
  BusFaults = TRUE
INVARIANT StuckExplained
INVARIANT DeafExplained
INVARIANT SessionsAccounted
INVARIANT NothingBeforeWipe
INVARIANT TailIsOlder
INVARIANT FormatShown
INVARIANT CountsEveryBoot
PROPERTY PairProgress
PROPERTY PublisherProgress
PROPERTY WriteLands
PROPERTY Increasing
CHECK_DEADLOCK FALSE
