CONSTANTS
  Calls <- SomeCalls
  Options <- SomeOptions
  Depth = 4
  VoidDepth = 2
  Programs <- SomePrograms
  Universe <- Values
SPECIFICATION Spec
INVARIANTS
  VerdictMatchesFate ShortTransfersReported
  DomainsHoldReturns OrderDoesNotMatter
CHECK_DEADLOCK FALSE
