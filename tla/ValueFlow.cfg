CONSTANTS
  Blocks <- MCBlocks
  NoBlock <- MCNoBlock
  Entries <- MCEntries
  Successors <- MCSuccessors
  States <- ValueFlowStates
  EntryState <- NothingHeld
  Transfer <- TransferBlock
  OnEdge <- AlongEdge
  JoinOutcomes <- Join
  Ints <- MCInts
  Pointers <- MCPointers
  Domain <- MCDomain
  Body <- MCBody
  Terminator <- MCTerminator
  Search <- MCSearch
  Live <- MCLive
  AfterCall <- MCAfterCall
SPECIFICATION Spec
INVARIANTS   TestVerdicts
CHECK_DEADLOCK FALSE
