CONSTANTS
  MaxWebhooks = 4
  Daemons = 3
  MaxFailures = 2
SPECIFICATION FairSpec
INVARIANTS
  SentMeansAnswered
  OneRepeatPerFailure
  OutboxInv
PROPERTIES
  OvertakesOnlyOverlapping
  NoPostAfterMark
  EveryWebhookSent
