SPECIFICATION Spec
CONSTANTS
  c1 = c1
  c2 = c2
  w1 = w1
  NULL = NULL
  Cpu <- TwoCpus
  Worker = {w1}
  HashSize = 2
  RingSlots = 2
  STACK_SIZE = 2
  RedZone = 1
  UserSp = {9}
  StackTop = 10
  MaxProbes = 4
SYMMETRY Symmetry
INVARIANTS
  EntriesAreAccountedFor
  WindowIsTheStack
  StaleOnlyAfterOverrun
PROPERTIES
  LeaksEndTracing
CHECK_DEADLOCK FALSE
