CONSTANTS
  r1 = r1
  r2 = r2
  NULL = NULL
  Reader = {r1, r2}
  FileSize = 10
  DSO__DATA_CACHE_SIZE = 4
  Request <- InsideFile
  U64 = 64
  MaxReads = 2
  Addr <- Addresses
  Malloc <- FirstFit
SPECIFICATION FairSpec
INVARIANTS
  ChunksAccountedFor
  ServedByCache
PROPERTIES
  ImplementsFileReads
  ReadsReturn
CHECK_DEADLOCK FALSE
