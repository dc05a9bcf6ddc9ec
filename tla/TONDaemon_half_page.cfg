CONSTANTS
  Limit = 2
  MaxTx = 3
  MaxFaults = 1
  Poison = {}
SPECIFICATION FairSpec
PROPERTIES
  EveryTransactionHandledOnQuietAccount
