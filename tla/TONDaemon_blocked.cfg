CONSTANTS
  Limit = 2
  MaxTx = 3
  MaxFaults = 0
  Poison = {1}
SPECIFICATION FairSpec
PROPERTIES
  HandledUnlessPushedOut
