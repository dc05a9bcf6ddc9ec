CONSTANTS
  Limit = 2
  MaxTx = 7
  MaxFaults = 2
  Poison = {3}
SPECIFICATION FairSpec
INVARIANTS
  SkipsOnlyPushedOut
  OlderPagesFirst
  PassInv
PROPERTIES
  HandledWithinPage
  LeftBehindInHand
  PassDescends
  EveryPassEnds
  HandledUnlessPushedOutOrBlocked
