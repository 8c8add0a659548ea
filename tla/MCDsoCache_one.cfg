CONSTANTS
  r1 = r1
  r2 = r2
  NULL = NULL
  Reader = {r1}
  FileSize = 10
  DSO__DATA_CACHE_SIZE = 4
  Request <- BeforeEof
  U64 = 64
  MaxReads = 3
  Addr <- Addresses
  Malloc <- FirstFit
SPECIFICATION FairSpec
INVARIANTS
  TypeOK
  LinkedChunksLive
  ReadsReturnFileBytes
PROPERTY ReadsReturn
CHECK_DEADLOCK FALSE
