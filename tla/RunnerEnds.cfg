CONSTANTS
  NumUnits = 3
  Jobs = 2
  FailFast = TRUE
  HasTimeout = TRUE
  MaxInterrupts = 2
  ReportFaults = TRUE
  WorkerFaults = FALSE
  Helpers = {}
SPECIFICATION Spec
PROPERTY EveryRunEnds EveryUnitIsReported InterruptEndsRun
