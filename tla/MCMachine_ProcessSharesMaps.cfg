CONSTANTS
  libc = libc
  prog = prog
  NULL = NULL
  Tid = {1, 2, 3}
  Dso = {libc}
  THREADS__TABLE_SIZE = 2
  RefMod = 64
  MaxCalls = 4
  MaxMaps = 1
SPECIFICATION Spec
INVARIANT ProcessSharesMaps
CHECK_DEADLOCK FALSE
