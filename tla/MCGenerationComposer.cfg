SPECIFICATION Spec
CONSTANTS
  MaxGenerations = 2
  MaxSwitches = 0
  MaxTurns = 4
  Stored <- MCStored
INVARIANT
  ComposerIsFree
CHECK_DEADLOCK FALSE
