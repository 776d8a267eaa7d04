CONSTANTS
  NumUnits = 1
  Jobs = 1
  FailFast = FALSE
  HasTimeout = TRUE
  MaxInterrupts = 1
  ReportFaults = FALSE
  WorkerFaults = FALSE
  Helpers = {1}
SPECIFICATION Spec
PROPERTY HelpersDoNotSurvive
