SPECIFICATION FairSpec
CONSTANTS
  Unit = 2
  BuffLen <- MCBuffLen
  MaxPut = 5
  MaxTotal <- MCMaxTotal
  MaxFlush = 1
  Transient = FALSE
CHECK_DEADLOCK FALSE
INVARIANTS
  BufferHolds
  WellFramed
  ContentInOrder
  RequestEnded
PROPERTIES
  FinishReturns
