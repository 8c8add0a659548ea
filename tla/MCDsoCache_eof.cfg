CONSTANTS
  r1 = r1
  r2 = r2
  NULL = NULL
  Reader = {r1}
  FileSize = 10
  DSO__DATA_CACHE_SIZE = 4
  Request <- AtEof
  U64 = 64
  MaxReads = 2
  Addr <- Addresses
  Malloc <- FirstFit
SPECIFICATION Spec
INVARIANT LinkedChunksLive
CHECK_DEADLOCK FALSE
