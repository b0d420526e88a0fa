SPECIFICATION ConfigSpec
CONSTANTS
  Devicetrees <- All
  SpiFaults = TRUE
  MaxResets = 1
  MaxFaults = 1
INVARIANT SettingsRestored
INVARIANT PipesServed
CHECK_DEADLOCK FALSE
