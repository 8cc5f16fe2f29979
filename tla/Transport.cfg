SPECIFICATION ApartSpec
CONSTANTS
  a = a
  b = b
  c1 = c1
  c2 = c2
  Node = {a, b}
  Call = {c1, c2}
  ServedBy <- ToB
  OutboundQueue = 1
  RecvQueue = 1
  RequestQueue = 1
  Batches <- FromA
  Stopping = {a, b}
INVARIANTS
  AtMostOnce
  OvertakenWasGivenUp
  ClosedAfterHandlers
  LoopNeverBlocks
PROPERTIES
  Stops
  CallsReturn
  BacklogMoves
CHECK_DEADLOCK FALSE
