CONSTANTS
  Blocks <- MCBlocks
  NoBlock <- MCNoBlock
  Entries <- MCEntries
  Successors <- MCSuccessors
  States <- NullStateSet
  EntryState <- EmptyState
  Transfer <- TransferBlock
  OnEdge <- StateForSuccessor
  JoinOutcomes <- Joins
  Decls <- MCDecls
  Members <- MCMembers
  KeyOf <- MCKeyOf
  Body <- MCBody
  Condition <- MCCondition
SPECIFICATION Spec
INVARIANT FixpointReached
INVARIANT UnsafeDerefReported
INVARIANT AliasesAgree
INVARIANT NullResultsKnown
INVARIANT DocumentedVerdicts
PROPERTY AnalysisEnds
CHECK_DEADLOCK FALSE
