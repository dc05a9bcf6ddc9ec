CONSTANTS
  MaxWebhooks = 2
  Daemons = 2
  MaxFailures = 0
SPECIFICATION Spec
PROPERTIES
  ProceedOnlyAfterAnswer
