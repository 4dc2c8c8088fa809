SPECIFICATION FairSpec
CONSTANTS
  MaxGenerations = 3
  MaxSwitches = 1
  MaxTurns = 4
  Stored <- MCStored
INVARIANTS
  ReplyHasItsTurn
  SpinnerHasOwner
  RepliesAreOwn
  StrayWorkersWereTold
  PausedPlanIsShown
PROPERTIES
  FinishedTurnsStay
  StartsEnd
  RepliesEnd
CHECK_DEADLOCK FALSE
