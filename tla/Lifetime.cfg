CONSTANTS
  Blocks <- MCBlocks
  NoBlock <- MCNoBlock
  Entries <- MCEntries
  Successors <- MCSuccessors
  States <- LifetimeStates
  EntryState <- FreshParameters
  Transfer <- TransferBlock
  OnEdge <- AlongEdge
  JoinOutcomes <- Join
  Decls <- MCDecls
  Parameters <- MCParameters
  Body <- MCBody
  Condition <- MCCondition
  Opaque <- MCOpaque
  MaxObjects = 3
SPECIFICATION Spec
INVARIANTS FreedTouchReported ReportsAreReal
CHECK_DEADLOCK FALSE
