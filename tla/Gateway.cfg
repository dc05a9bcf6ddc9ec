CONSTANTS
  Limit = 2
  MaxTx = 3
  MaxFaults = 1
  MaxWebhooks = 4
  MaxFailures = 1
  Payments = {1, 3}
  MaxElsewhere = 1
  MaxTroubles = 1
SPECIFICATION FairSpec
INVARIANTS
  ChainOrderUpToPage
  GatewayInv
PROPERTIES
  AccountInOrder
  ImplementsLedger
  PaymentTold
