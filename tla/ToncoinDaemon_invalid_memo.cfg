CONSTANTS
  MaxFaults = 1
  MaxCoins = 1
  Decimals = 2
  Bits = 5
SPECIFICATION Spec
INVARIANTS
  InvalidMemoMeansNoPayment
