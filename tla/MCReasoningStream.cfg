SPECIFICATION FairSpec
CONSTANTS
  MaxAttempts = 2
  MaxTokens = 2
INVARIANTS
  ReplyIsOneAttempt
  TranscriptFollows
  CompletedIsWhole
PROPERTIES
  EventsInOrder
  StopIsObeyed
  EveryAttemptEnds
  CallsReturn
CHECK_DEADLOCK FALSE
