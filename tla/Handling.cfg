CONSTANTS
  Evaluations <- SomeEvaluations
  IntStates = 8
  Texts <- SomeTexts
  Result = "x"
SPECIFICATION Spec
INVARIANTS
  SoundTruth TrackedHoldsResult HandledIsDecided IgnoredMeansUnread
  CalleesAnswerForAll
PROPERTY SearchNeverForgets
CHECK_DEADLOCK FALSE
