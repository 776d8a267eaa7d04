CONSTANTS
  Blocks <- CaseBlocks
  NoBlock <- MCNoBlock
  Entries <- MemberTruthEntries
  Successors <- SuccessorsInCases
  States <- NullStateSet
  EntryState <- EmptyState
  Transfer <- TransferBlock
  OnEdge <- StateForSuccessor
  JoinOutcomes <- Joins
  Decls <- MCDecls
  Members <- MCMembers
  KeyOf <- MCKeyOf
  Body <- BodyInCases
  Condition <- ConditionInCases
SPECIFICATION SafetySpec
INVARIANT UnsafeDerefReported
CHECK_DEADLOCK FALSE
