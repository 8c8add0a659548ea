SPECIFICATION FairSpec
CONSTANTS
  w1 = w1
  w2 = w2
  NULL = NULL
  Worker = {w1, w2}
  MaxEvents = 3
  MaxSignals = 2
INVARIANTS
  TypeOK
  NoIdleWorker
  ContextsInOnePlace
PROPERTIES
  ImplementsEventQueue
  QueuedIsResolved
CHECK_DEADLOCK FALSE
