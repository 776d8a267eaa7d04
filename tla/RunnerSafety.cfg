CONSTANTS
  NumUnits = 3
  Jobs = 2
  FailFast = TRUE
  HasTimeout = TRUE
  MaxInterrupts = 1
  ReportFaults = FALSE
  WorkerFaults = TRUE
  Helpers = {1}
SPECIFICATION SafetySpec
INVARIANT IInv
INVARIANT ExitZeroMeansAllPassed
INVARIANT NoAnalyzerOutlivesRun
INVARIANT OutputDirOutlivesWorkers
INVARIANT NoCutShortVerdictReported
PROPERTY FailFastStopsSubmitting
PROPERTY ImplementsContract
INVARIANT BoundedFrontends
