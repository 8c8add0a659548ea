CONSTANTS
  libc = libc
  prog = prog
  NULL = NULL
  Tid = {1, 2}
  Dso = {libc}
  THREADS__TABLE_SIZE = 2
  RefMod = 64
  MaxCalls = 3
  MaxMaps = 1
SPECIFICATION Spec
INVARIANT TgidChangesOnlyWithoutMaps
CHECK_DEADLOCK FALSE
