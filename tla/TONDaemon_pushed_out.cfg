CONSTANTS
  Limit = 2
  MaxTx = 5
  MaxFaults = 0
  Poison = {}
SPECIFICATION FairSpec
PROPERTIES
  EveryTransactionHandled
