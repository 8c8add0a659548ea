SPECIFICATION FairSpec
CONSTANTS
  Node <- Nodes
  Start <- MapStart
  End <- MapEnd
  NULL = NULL
INVARIANTS
  PointersAgree
  RedBlack
  InsertLoopInvariant
  EraseLoopInvariant
  InOrder
  StepIsNeighbour
  FindsTheMap
PROPERTIES
  OnlyArgMoves
  OperationsEnd
