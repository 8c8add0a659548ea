SPECIFICATION FairSpec
CONSTANTS
  w1 = w1
  w2 = w2
  NULL = NULL
  Worker = {w1, w2}
  MaxEvents = 2
  MaxSignals = 1
PROPERTIES
  CtrlCTerminates
CHECK_DEADLOCK FALSE
