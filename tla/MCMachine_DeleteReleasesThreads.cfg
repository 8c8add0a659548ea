CONSTANTS
  libc = libc
  prog = prog
  NULL = NULL
  Tid = {1, 2}
  Dso = {libc}
  THREADS__TABLE_SIZE = 2
  RefMod = 64
  MaxCalls = 2
  MaxMaps = 1
SPECIFICATION Spec
INVARIANT DeleteReleasesThreads
CHECK_DEADLOCK FALSE
