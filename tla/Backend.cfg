CONSTANTS
  Clients = {c1, c2}
  Payloads = {"order", "long"}
  LongPayloads = {"long"}
  Limit = 2
  MaxRequests = 2
  MaxFailures = 1
  MaxDeaths = 1
SPECIFICATION FairSpec
INVARIANTS
  BackendInv
  MemoIsKept
  SeedsPileUp
  ListMissesNothing
PROPERTIES
  AlwaysListensAgain
