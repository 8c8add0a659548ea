CONSTANTS
  libc = libc
  prog = prog
  NULL = NULL
  Tid = {1, 2, 3}
  Dso = {libc, prog}
  THREADS__TABLE_SIZE = 2
  RefMod = 64
  MaxCalls = 4
  MaxMaps = 2
SPECIFICATION Spec
INVARIANTS
  TypeOK
  ThreadRefsExact
  MapsRefsExact
  DsoRefsExact
  LastMatchInTree
  DeleteReleasesTheRest
  NoRefcountError
PROPERTY MappingsNeverLost
CHECK_DEADLOCK FALSE
