CONSTANTS
  MaxFaults = 3
  MaxCoins = 40
  Decimals = 2
  Bits = 5
SPECIFICATION FairSpec
INVARIANTS
  CreditOnlyPayments
  PaymentLostOnlyByFault
  ToldIsPaid
  DaemonInv
PROPERTIES
  EventuallyNoted
