CONSTANTS
  Blocks <- CaseBlocks
  NoBlock <- MCNoBlock
  Entries <- ReplacedMemberEntries
  Successors <- SuccessorsInCases
  States <- NullStateSet
  EntryState <- EmptyState
  Transfer <- TransferBlock
  OnEdge <- StateForSuccessor
  JoinOutcomes <- Joins
  Decls <- MCDecls
  Members <- MCMembers
  KeyOf <- MCKeyOf
  Body <- BodyInCases
  Condition <- ConditionInCases
SPECIFICATION Spec
PROPERTY AnalysisEnds
CHECK_DEADLOCK FALSE
