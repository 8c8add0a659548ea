--------------------------- MODULE DsoCacheProofs ---------------------------
(***************************************************************************)
(* Proofs about the dso data cache, for any readers, file, chunk size and  *)
(* requests.                                                               *)
(***************************************************************************)
EXTENDS DsoCache, TLAPS

\* What pread leaves in a chunk: an aligned piece of the file.
GoodChunk(c) ==
  /\ c.offset % DSO__DATA_CACHE_SIZE = 0 /\ c.offset < FileSize
  /\ c.size = Min2(DSO__DATA_CACHE_SIZE, FileSize - c.offset)

\* A reader's locals between two steps.
FrameInv(r) ==
  /\ (lock = r) <=> (rd[r].pc = "unlock")
  /\ rd[r].pc = "lock" =>
       /\ rd[r].new \in Chunk /\ GoodChunk(rd[r].new)
       /\ Covers(rd[r].new, rd[r].offset)
  /\ rd[r].pc \in {"unlock", "memcpy"} =>
       rd[r].cache \in tree /\ Covers(rd[r].cache, rd[r].offset)
  /\ rd[r].pc = "unlock" => rd[r].new \in Chunk
  /\ rd[r].pc \notin {"lock", "unlock"} => rd[r].new = NULL

\* The insertion under the lock keeps one chunk for each piece of the file.
OneChunkPerOffset == \A c, d \in tree : c.offset = d.offset => c = d

CacheInv ==
  /\ TypeOK
  /\ \A c \in tree : GoodChunk(c)
  /\ OneChunkPerOffset
  /\ \A r \in Reader : FrameInv(r)

\* Two aligned offsets less than a chunk apart are equal.
LEMMA AlignedEqual ==
  ASSUME NEW S \in Nat \ {0}, NEW a \in Nat, NEW b \in Nat,
         a % S = 0, b % S = 0, a <= b, b < a + S
  PROVE  a = b
<1>1. a = S * (a \div S) /\ b = S * (b \div S)
  OBVIOUS
<1>2. a \div S \in Int /\ b \div S \in Int
  OBVIOUS
<1> DEFINE j == a \div S
           k == b \div S
<1>3. j \in Int /\ k \in Int /\ a = S * j /\ b = S * k
  BY <1>1, <1>2
<1> HIDE DEF j, k
<1>4. CASE k > j
  <2>1. S * k >= S * (j + 1)
    BY <1>3, <1>4, SMT
  <2>2. S * (j + 1) = S * j + S
    BY <1>3, SMT
  <2> QED BY <2>1, <2>2, <1>3
<1>5. CASE k < j
  <2>1. S * j >= S * (k + 1)
    BY <1>3, <1>5, SMT
  <2>2. S * (k + 1) = S * k + S
    BY <1>3, SMT
  <2> QED BY <2>1, <2>2, <1>3
<1>6. CASE k = j
  BY <1>3, <1>6
<1> QED BY <1>3, <1>4, <1>5, <1>6

\* offset & DSO__DATA_CACHE_MASK is aligned and its chunk covers offset.
LEMMA CacheOffsetAligned ==
  ASSUME NEW o \in Nat
  PROVE  /\ CacheOffset(o) \in Nat /\ CacheOffset(o) % DSO__DATA_CACHE_SIZE = 0
         /\ CacheOffset(o) <= o /\ o < CacheOffset(o) + DSO__DATA_CACHE_SIZE
<1> DEFINE S == DSO__DATA_CACHE_SIZE
           k == o \div S
<1>1. S \in Nat \ {0}
  BY DsoCacheAssumption
<1>2. o = S * k + (o % S) /\ o % S \in 0 .. S - 1 /\ k \in Int
  BY <1>1
<1>3. CacheOffset(o) = S * k
  BY <1>2, <1>1 DEF CacheOffset
<1>4. (S * k) % S = 0
  BY <1>1, <1>2
<1> QED BY <1>1, <1>2, <1>3, <1>4 DEF CacheOffset

\* Of two good chunks, one that covers the other's offset has the same offset.
LEMMA CoversAligned ==
  ASSUME NEW c \in Chunk, NEW d \in Chunk, GoodChunk(c), GoodChunk(d),
         Covers(c, d.offset)
  PROVE  c.offset = d.offset
<1>1. c.offset \in Nat /\ d.offset \in Nat
  BY DEF Chunk
<1> QED BY <1>1, AlignedEqual, DsoCacheAssumption DEF GoodChunk, Covers

\* The bytes copied from a chunk: never more than asked for.
LEMMA CacheSizeBound ==
  ASSUME NEW c \in Chunk, NEW o \in Nat, NEW n \in Nat
  PROVE  CacheSize(c, o, n) \in 0 .. n
<1> DEFINE x == c.size - (o - c.offset)
<1>1. U64 \in Nat \ {0} /\ x \in Int
  BY DsoCacheAssumption DEF Chunk
<1>2. x % U64 \in Nat
  BY <1>1
<1> QED BY <1>2 DEF CacheSize, Min2

\* Inside the file the copy is not empty and ends inside the chunk.
LEMMA CopyInsideChunk ==
  ASSUME NEW c \in Chunk, GoodChunk(c), NEW o \in Nat, NEW n \in Nat \ {0},
         Covers(c, o), o < FileSize
  PROVE  /\ CacheSize(c, o, n) > 0
         /\ (o - c.offset) + CacheSize(c, o, n) <= c.size
<1> DEFINE x == c.size - (o - c.offset)
<1>1. x \in Nat /\ x > 0 /\ x <= DSO__DATA_CACHE_SIZE
  BY DsoCacheAssumption DEF Chunk, GoodChunk, Covers, Min2
<1>2. x % U64 = x
  BY <1>1, DsoCacheAssumption
<1> QED BY <1>1, <1>2, DsoCacheAssumption DEF CacheSize, Min2, Chunk

\* The allocator gives an address that no live chunk has.
LEMMA MallocFresh ==
  ASSUME NEW h \in SUBSET Chunk, NEW a \in Malloc[{c.addr : c \in h}]
  PROVE  a \in Addr /\ \A c \in h : c.addr # a
<1>1. {c.addr : c \in h} \in SUBSET Addr
  BY DEF Chunk
<1> QED BY <1>1, MallocAssumption

\* A reader that has not called yet has a well-typed frame.
LEMMA IdleFrame == Idle \in Frame
<1>1. TRUE \in BOOLEAN /\ FALSE \in BOOLEAN
  OBVIOUS
<1> QED BY <1>1 DEF Idle, Frame, Pc

\* The frames that the actions with several assignments leave.
LEMMA StartFrame ==
  ASSUME NEW q \in Request, NEW p \in Pc, NEW v \in Int
  PROVE  [Idle EXCEPT !.pc = p, !.ret = v, !.req = q, !.offset = q[1], !.size = q[2]]
           \in Frame
<1>1. q[1] \in Nat /\ q[2] \in Nat
  BY DsoCacheAssumption
<1>2. TRUE \in BOOLEAN /\ FALSE \in BOOLEAN
  OBVIOUS
<1> QED BY <1>1, <1>2 DEF Idle, Frame

\* A frame stays well typed when its chunk pointers and location change.
LEMMA ChunkFrame ==
  ASSUME NEW f \in Frame, NEW p \in Pc, NEW b \in BOOLEAN,
         NEW c \in Chunk \cup {NULL}, NEW d \in Chunk \cup {NULL}
  PROVE  /\ [f EXCEPT !.pc = p, !.cache = c, !.miss = b] \in Frame
         /\ [f EXCEPT !.pc = p, !.cache = c, !.new = d] \in Frame
         /\ [f EXCEPT !.pc = p, !.cache = c] \in Frame
         /\ [f EXCEPT !.pc = p, !.new = d] \in Frame
BY DEF Frame

\* The cache invariant holds of an unopened dso.
LEMMA CacheInvInit == Init => CacheInv
<1> SUFFICES ASSUME Init PROVE CacheInv
  OBVIOUS
<1>1. TypeOK
  BY IdleFrame DEF Init, TypeOK
<1>2. \A r \in Reader : FrameInv(r)
  BY DsoCacheAssumption DEF Init, FrameInv, Idle
<1> QED BY <1>1, <1>2 DEF Init, CacheInv, OneChunkPerOffset

\* The outcomes of dso_cache__read's allocation and pread.
LEMMA ReadCases ==
  ASSUME TypeOK, NEW r \in Reader, dso_cache__read(r)
  PROVE  /\ rd[r].pc = "pread"
         /\ UNCHANGED <<fd, nfd, status, file_size, tree, lock, reads>>
         /\ \/ \E c \in Chunk \ heap :
                 /\ GoodChunk(c) /\ Covers(c, rd[r].offset)
                 /\ heap' = heap \cup {c}
                 /\ rd' = [rd EXCEPT ![r].pc = "lock", ![r].new = c]
            \/ heap' = heap /\ Return(r, -1)
            \/ heap' = heap /\ Return(r, rd[r].got) /\ rd[r].offset >= FileSize
<1> DEFINE co == CacheOffset(rd[r].offset)
           n  == IF co < FileSize THEN Min2(DSO__DATA_CACHE_SIZE, FileSize - co) ELSE 0
           c(a) == [addr |-> a, offset |-> co, size |-> n]
<1>1. /\ rd[r].offset \in Nat /\ co \in Nat /\ co % DSO__DATA_CACHE_SIZE = 0
      /\ co <= rd[r].offset /\ rd[r].offset < co + DSO__DATA_CACHE_SIZE
  BY CacheOffsetAligned DEF TypeOK, Frame
<1>2. n \in Nat /\ (n = 0 => rd[r].offset >= FileSize) /\ (n > 0 => co < FileSize)
      /\ (n > 0 => n = Min2(DSO__DATA_CACHE_SIZE, FileSize - co))
  <2> HIDE DEF co
  <2> QED BY <1>1, DsoCacheAssumption DEF Min2
<1>3. /\ rd[r].pc = "pread"
      /\ UNCHANGED <<fd, nfd, status, file_size, tree, lock, reads>>
      /\ \/ /\ n > 0
            /\ \E a \in Malloc[{d.addr : d \in heap}] :
                 /\ heap' = heap \cup {c(a)}
                 /\ rd' = [rd EXCEPT ![r].pc = "lock", ![r].new = c(a)]
         \/ n = 0 /\ Return(r, rd[r].got) /\ UNCHANGED heap
         \/ Return(r, -1) /\ UNCHANGED heap
  BY Zenon DEF dso_cache__read
<1> HIDE DEF co, n
<1>4. ASSUME n > 0, NEW a \in Malloc[{d.addr : d \in heap}]
      PROVE  c(a) \in Chunk \ heap /\ GoodChunk(c(a)) /\ Covers(c(a), rd[r].offset)
  <2>0. heap \in SUBSET Chunk
    BY DEF TypeOK
  <2>1. a \in Addr /\ \A d \in heap : d.addr # a
    BY <1>4, <2>0, MallocFresh, Zenon
  <2>2. c(a) \in Chunk /\ c(a) \notin heap
    BY <1>1, <1>2, <2>1 DEF Chunk
  <2> QED BY <1>1, <1>2, <1>4, <2>2 DEF GoodChunk, Covers
<1> HIDE DEF c
<1> QED BY <1>2, <1>3, <1>4

\* A step of one reader keeps the invariant of the others' locals.
LEMMA OthersKeep ==
  ASSUME CacheInv, NEW r \in Reader, tree \subseteq tree',
         \A s \in Reader \ {r} : rd'[s] = rd[s] /\ ((lock' = s) <=> (lock = s))
  PROVE  \A s \in Reader \ {r} : FrameInv(s)'
BY DEF CacheInv, FrameInv

\* A reader that holds no chunk and goes on, or returns, keeps its locals right.
LEMMA MovesOn ==
  ASSUME CacheInv, NEW r \in Reader, rd[r].pc \notin {"lock", "unlock"},
         tree' = tree, lock' = lock,
         \/ \E l \in {"open", "fstat", "check", "find"} : Goto(r, l)
         \/ \E v \in Int : Return(r, v)
  PROVE  rd' \in [Reader -> Frame] /\ \A s \in Reader : FrameInv(s)'
<1>0. rd \in [Reader -> Frame] /\ rd[r] \in Frame
  BY DEF CacheInv, TypeOK
<1>1. PICK p \in {"open", "fstat", "check", "find", "done"}, v \in Int :
        rd' = [rd EXCEPT ![r] = [rd[r] EXCEPT !.pc = p, !.ret = v]]
  <2>1. CASE \E l \in {"open", "fstat", "check", "find"} : Goto(r, l)
    <3>1. PICK l \in {"open", "fstat", "check", "find"} : Goto(r, l)
      BY <2>1
    <3>2. rd' = [rd EXCEPT ![r] = [rd[r] EXCEPT !.pc = l, !.ret = rd[r].ret]]
      BY <1>0, <3>1 DEF Goto, Frame
    <3>3. rd[r].ret \in Int
      BY <1>0 DEF Frame
    <3> QED BY <3>2, <3>3
  <2>2. CASE \E v \in Int : Return(r, v)
    <3>1. PICK v \in Int : Return(r, v)
      BY <2>2
    <3>2. rd' = [rd EXCEPT ![r] = [rd[r] EXCEPT !.pc = "done", !.ret = v]]
      BY <1>0, <3>1 DEF Return, Frame
    <3> QED BY <3>2
  <2> QED BY <2>1, <2>2
<1>2. [rd[r] EXCEPT !.pc = p, !.ret = v] \in Frame
  BY <1>0 DEF Frame, Pc
<1>3. rd' \in [Reader -> Frame]
  BY <1>0, <1>1, <1>2
<1>4. /\ rd'[r].pc = p /\ rd'[r].new = rd[r].new
      /\ \A s \in Reader \ {r} : rd'[s] = rd[s]
  BY <1>0, <1>1 DEF Frame
<1>5. rd[r].new = NULL /\ lock # r
  BY DEF CacheInv, FrameInv
<1>6. FrameInv(r)'
  BY <1>4, <1>5 DEF FrameInv
<1>7. \A s \in Reader \ {r} : FrameInv(s)'
  BY <1>4, OthersKeep
<1> QED BY <1>3, <1>6, <1>7

\* Every step of every reader of dso.c keeps the cache invariant.
LEMMA CacheInvNext == CacheInv /\ [Next]_vars => CacheInv'
<1> SUFFICES ASSUME CacheInv, [Next]_vars PROVE CacheInv'
  OBVIOUS
<1> USE DsoCacheAssumption DEF CacheInv
<1>1. ASSUME NEW r \in Reader, NEW q \in Request, dso__data_read_offset(r, q)
      PROVE  CacheInv'
  <2>1. TypeOK'
    <3> DEFINE p == IF status = "ERROR" THEN "done" ELSE "file_size"
               v == IF status = "ERROR" THEN -1 ELSE 0
    <3>1. p \in Pc /\ v \in Int
      BY DEF Pc
    <3>2. [Idle EXCEPT !.pc = p, !.ret = v, !.req = q, !.offset = q[1], !.size = q[2]]
            \in Frame
      BY <3>1, StartFrame
    <3> QED BY <1>1, <3>2 DEF dso__data_read_offset, TypeOK
  <2>2. \A s \in Reader : FrameInv(s)'
    BY <1>1 DEF dso__data_read_offset, TypeOK, Frame, Idle, FrameInv
  <2> QED BY <1>1, <2>1, <2>2 DEF dso__data_read_offset, OneChunkPerOffset
<1>2. ASSUME NEW r \in Reader,
             data_file_size(r) \/ try_to_open_dso(r) \/ fstat(r) \/ data_read_offset(r)
      PROVE  CacheInv'
  <2>1. /\ rd[r].pc \notin {"lock", "unlock"} /\ UNCHANGED <<tree, heap, lock, reads>>
        /\ \/ \E l \in {"open", "fstat", "check", "find"} : Goto(r, l)
           \/ Return(r, -1)
    BY <1>2 DEF data_file_size, try_to_open_dso, fstat, data_read_offset
  <2>2. /\ fd' \in BOOLEAN /\ nfd' \in Nat /\ status' \in {"UNKNOWN", "OK", "ERROR"}
        /\ file_size' \in Nat
    <3>1. CASE data_file_size(r) \/ data_read_offset(r)
      BY <3>1 DEF data_file_size, data_read_offset, TypeOK
    <3>2. CASE try_to_open_dso(r)
      BY <3>2 DEF try_to_open_dso, TypeOK
    <3>3. CASE fstat(r)
      BY <3>3 DEF fstat, TypeOK
    <3> QED BY <1>2, <3>1, <3>2, <3>3
  <2>3. rd' \in [Reader -> Frame] /\ \A s \in Reader : FrameInv(s)'
    BY <2>1, MovesOn
  <2>4. TypeOK'
    BY <2>1, <2>2, <2>3 DEF TypeOK
  <2> QED BY <2>1, <2>3, <2>4 DEF OneChunkPerOffset
<1>6. ASSUME NEW r \in Reader, dso_cache__find(r) PROVE CacheInv'
  <2>1. TypeOK'
    <3>1. PICK p \in {"memcpy", "pread"}, c \in Chunk \cup {NULL}, b \in BOOLEAN :
            rd' = [rd EXCEPT ![r].pc = p, ![r].cache = c, ![r].miss = b]
      BY <1>6 DEF dso_cache__find, TypeOK
    <3>2. rd[r] \in Frame /\ p \in Pc
      BY DEF TypeOK, Pc
    <3>3. [rd[r] EXCEPT !.pc = p, !.cache = c, !.miss = b] \in Frame
      BY <3>2, ChunkFrame, Zenon
    <3> QED BY <1>6, <3>1, <3>3 DEF dso_cache__find, TypeOK
  <2>2. \A s \in Reader : FrameInv(s)'
    <3>1. PICK p \in {"memcpy", "pread"}, c \in Chunk \cup {NULL}, b \in BOOLEAN :
            /\ rd' = [rd EXCEPT ![r].pc = p, ![r].cache = c, ![r].miss = b]
            /\ p = "memcpy" => c \in tree /\ Covers(c, rd[r].offset)
      BY <1>6 DEF dso_cache__find, TypeOK
    <3>2. /\ rd'[r] = [rd[r] EXCEPT !.pc = p, !.cache = c, !.miss = b]
          /\ rd'[r].pc = p /\ rd'[r].cache = c
          /\ rd'[r].offset = rd[r].offset /\ rd'[r].new = rd[r].new
      BY <3>1 DEF TypeOK, Frame
    <3>3. FrameInv(r)'
      <4>1. /\ lock # r /\ rd[r].new = NULL
            /\ lock' = lock /\ tree' = tree
        BY <1>6 DEF dso_cache__find, FrameInv
      <4> QED BY <3>1, <3>2, <4>1 DEF FrameInv, Covers
    <3>4. \A s \in Reader \ {r} : FrameInv(s)'
      BY <1>6, <3>1, OthersKeep DEF dso_cache__find, TypeOK
    <3> QED BY <3>3, <3>4
  <2> QED BY <1>6, <2>1, <2>2 DEF dso_cache__find, OneChunkPerOffset
<1>7. ASSUME NEW r \in Reader, dso_cache__read(r) PROVE CacheInv'
  <2>1. /\ rd[r].pc = "pread"
        /\ UNCHANGED <<fd, nfd, status, file_size, tree, lock, reads>>
    BY <1>7, ReadCases
  <2>2. rd \in [Reader -> Frame] /\ rd[r] \in Frame /\ rd[r].got \in Int
    BY DEF TypeOK, Frame
  <2>3. ASSUME NEW c \in Chunk, GoodChunk(c), Covers(c, rd[r].offset),
               heap' = heap \cup {c}, rd' = [rd EXCEPT ![r].pc = "lock", ![r].new = c]
        PROVE  CacheInv'
    <3>1. [rd[r] EXCEPT !.pc = "lock", !.new = c] \in Frame
      BY <2>2, ChunkFrame DEF Pc
    <3>2. TypeOK'
      BY <2>1, <2>3, <3>1 DEF TypeOK
    <3>3. /\ rd'[r].pc = "lock" /\ rd'[r].new = c /\ rd'[r].offset = rd[r].offset
          /\ \A s \in Reader \ {r} : rd'[s] = rd[s]
      BY <2>2, <2>3 DEF Frame
    <3>4. FrameInv(r)'
      BY <2>1, <2>3, <3>3 DEF FrameInv, Covers
    <3>5. \A s \in Reader \ {r} : FrameInv(s)'
      BY <2>1, <3>3, OthersKeep
    <3> QED BY <2>1, <3>2, <3>4, <3>5 DEF OneChunkPerOffset
  <2>4. ASSUME \E v \in Int : Return(r, v), heap' = heap PROVE CacheInv'
    <3>1. rd' \in [Reader -> Frame] /\ \A s \in Reader : FrameInv(s)'
      BY <2>1, <2>4, MovesOn
    <3>2. TypeOK'
      BY <2>1, <2>4, <3>1 DEF TypeOK
    <3> QED BY <2>1, <3>1, <3>2 DEF OneChunkPerOffset
  <2> HIDE DEF CacheInv
  <2>5. TypeOK
    BY DEF CacheInv
  <2> QED BY <1>7, <2>2, <2>3, <2>4, <2>5, ReadCases
<1>8. ASSUME NEW r \in Reader, dso_cache__insert(r) PROVE CacheInv'
  <2> DEFINE n == rd[r].new
  <2>1. n \in Chunk /\ GoodChunk(n) /\ Covers(n, rd[r].offset) /\ rd[r] \in Frame
    BY <1>8 DEF dso_cache__insert, FrameInv, TypeOK
  <2>2. PICK c \in Chunk :
          /\ GoodChunk(c) /\ c.offset = n.offset
          /\ rd' = [rd EXCEPT ![r].pc = "unlock", ![r].cache = c]
          /\ tree' = tree \cup {c}
          /\ c \in tree \/ \A d \in tree : ~Covers(d, c.offset)
    <3>1. ASSUME NEW c \in tree, Covers(c, n.offset)
          PROVE  c \in Chunk /\ GoodChunk(c) /\ c.offset = n.offset
      BY <2>1, <3>1, CoversAligned DEF TypeOK
    <3>2. CASE \E c \in tree : /\ Covers(c, n.offset)
                               /\ rd' = [rd EXCEPT ![r].pc = "unlock", ![r].cache = c]
                               /\ UNCHANGED tree
      BY <3>1, <3>2
    <3>3. CASE /\ \A c \in tree : ~Covers(c, n.offset)
               /\ tree' = tree \cup {n}
               /\ rd' = [rd EXCEPT ![r].pc = "unlock", ![r].cache = n]
      BY <2>1, <3>3
    <3> QED BY <1>8, <3>2, <3>3 DEF dso_cache__insert
  <2>3. [rd[r] EXCEPT !.pc = "unlock", !.cache = c] \in Frame
    BY <2>1, ChunkFrame DEF Pc
  <2>4. TypeOK'
    BY <1>8, <2>2, <2>3 DEF dso_cache__insert, TypeOK
  <2>5. FrameInv(r)'
    <3>1. /\ rd'[r].pc = "unlock" /\ rd'[r].cache = c /\ rd'[r].new = n
          /\ rd'[r].offset = rd[r].offset /\ lock' = r /\ c \in tree'
      BY <1>8, <2>1, <2>2 DEF dso_cache__insert, TypeOK, Frame
    <3>2. Covers(c, rd[r].offset)
      BY <2>1, <2>2 DEF Covers
    <3> HIDE DEF n
    <3> QED BY <2>1, <3>1, <3>2 DEF FrameInv, Covers
  <2>6. \A s \in Reader \ {r} : FrameInv(s)'
    <3>1. lock = NULL /\ lock' = r
      BY <1>8 DEF dso_cache__insert
    <3>2. \A s \in Reader \ {r} : rd'[s] = rd[s]
      BY <2>2 DEF TypeOK
    <3> QED BY <2>2, <3>1, <3>2, OthersKeep
  <2>7. OneChunkPerOffset'
    <3>1. \A d \in tree : d.offset = c.offset => d = c
      BY <2>2 DEF OneChunkPerOffset, Covers, TypeOK, Chunk
    <3> QED BY <2>2, <3>1 DEF OneChunkPerOffset
  <2> QED BY <2>2, <2>4, <2>5, <2>6, <2>7
<1>9. ASSUME NEW r \in Reader, insert_unlock(r) PROVE CacheInv'
  <2>1. TypeOK'
    <3>1. [rd[r] EXCEPT !.pc = "memcpy", !.new = NULL] \in Frame
      BY ChunkFrame DEF TypeOK, Pc
    <3> QED BY <1>9, <3>1 DEF insert_unlock, TypeOK
  <2>2. \A s \in Reader : FrameInv(s)'
    BY <1>9 DEF insert_unlock, TypeOK, Frame, FrameInv
  <2> QED BY <1>9, <2>1, <2>2 DEF insert_unlock, OneChunkPerOffset
<1>10. ASSUME NEW r \in Reader, dso_cache__memcpy(r) PROVE CacheInv'
  <2> DEFINE f   == rd[r]
             ret == CacheSize(f.cache, f.offset, f.size)
  <2>1. f \in Frame /\ f.cache \in Chunk /\ f.offset \in Nat /\ f.size \in Nat
    BY <1>10 DEF dso_cache__memcpy, FrameInv, TypeOK, Frame
  <2>2. ret \in 0 .. f.size
    BY <2>1, CacheSizeBound
  <2>3. PICK p \in {"done", "find"}, v \in Int, b \in BOOLEAN :
          rd' = [rd EXCEPT ![r] =
                   [f EXCEPT !.pc = p, !.ret = v, !.got = f.got + ret,
                             !.offset = f.offset + ret, !.size = f.size - ret,
                             !.cache = NULL, !.good = b]]
    <3> DEFINE end == ret = 0 \/ ret = f.size
               p == IF end THEN "done" ELSE "find"
               v == IF end THEN f.got + ret ELSE 0
               b == /\ f.good /\ f.cache \in heap
                    /\ (f.offset - f.cache.offset) + ret <= f.cache.size
    <3>1. p \in {"done", "find"} /\ v \in Int /\ b \in BOOLEAN
      BY <2>1, <2>2 DEF Frame
    <3>2. rd' = [rd EXCEPT ![r] =
                   [f EXCEPT !.pc = p, !.ret = v, !.got = f.got + ret,
                             !.offset = f.offset + ret, !.size = f.size - ret,
                             !.cache = NULL, !.good = b]]
      BY <1>10 DEF dso_cache__memcpy
    <3> HIDE DEF p, v, b, ret, f
    <3> QED BY <3>1, <3>2
  <2>4. [f EXCEPT !.pc = p, !.ret = v, !.got = f.got + ret, !.offset = f.offset + ret,
                  !.size = f.size - ret, !.cache = NULL, !.good = b] \in Frame
    <3>1. f.got + ret \in Nat /\ f.offset + ret \in Nat /\ f.size - ret \in Nat /\ p \in Pc
      BY <2>1, <2>2, <2>3 DEF Frame, Pc
    <3> HIDE DEF ret, f
    <3> QED BY <2>1, <3>1 DEF Frame
  <2>5. heap' \subseteq Chunk
    BY <1>10 DEF dso_cache__memcpy, TypeOK
  <2>6. TypeOK'
    BY <1>10, <2>3, <2>4, <2>5 DEF dso_cache__memcpy, TypeOK
  <2>7. \A s \in Reader : FrameInv(s)'
    BY <1>10, <2>1, <2>3 DEF dso_cache__memcpy, TypeOK, Frame, FrameInv
  <2> QED BY <1>10, <2>6, <2>7 DEF dso_cache__memcpy, OneChunkPerOffset
<1>11. CASE UNCHANGED vars
  BY <1>11 DEF vars, TypeOK, FrameInv, OneChunkPerOffset
<1> QED BY <1>1, <1>2, <1>6, <1>7, <1>8, <1>9, <1>10, <1>11 DEF Next, Step

\* The cache invariant holds of every behaviour of dso.c's readers.
THEOREM CacheInvariant == Spec => []CacheInv
BY CacheInvInit, CacheInvNext, PTL DEF Spec

\* The locals and fields of dso.c's cache keep their types.
THEOREM TypeCorrect == Spec => []TypeOK
BY CacheInvariant, PTL DEF CacheInv

\* However many readers race to insert chunks, dso_cache__memcpy copies from a
\* linked chunk that covers the offset.
THEOREM CopiesAreServedByCache == Spec => []ServedByCache
<1>1. CacheInv => ServedByCache
  BY DEF CacheInv, FrameInv, ServedByCache
<1> QED BY <1>1, CacheInvariant, PTL

\* However many readers race, every byte of the file is in one linked chunk at
\* most: the search under the lock finds the chunk another reader linked first.
THEOREM OneCopyOfEachByte == Spec => [](\A c, d \in tree : Covers(c, d.offset) => c = d)
<1>1. ASSUME CacheInv, NEW c \in tree, NEW d \in tree, Covers(c, d.offset) PROVE c = d
  BY <1>1, CoversAligned DEF CacheInv, TypeOK, OneChunkPerOffset
<1>2. CacheInv => \A c, d \in tree : Covers(c, d.offset) => c = d
  BY <1>1
<1> QED BY <1>2, CacheInvariant, PTL
-----------------------------------------------------------------------------
(***************************************************************************)
(* Callers that stay inside the file: what they ask for ends before end of *)
(* file. (The error path of dso_cache__read frees a linked chunk otherwise.)*)
(***************************************************************************)
InsideFileRequests == \A q \in Request : q[1] + q[2] <= FileSize

Busy == Pc \ {"idle", "done"}

\* The request is split into what was delivered and what is left, at least one
\* byte of it while the call is running.
ReadInv(r) ==
  LET f == rd[r]
  IN  /\ f.pc \in Busy =>
           /\ f.req \in Request /\ f.offset = f.req[1] + f.got
           /\ f.got + f.size = f.req[2] /\ f.size > 0 /\ f.good
      /\ f.pc = "done" =>
           f.ret = -1 \/ (f.req \in Request /\ f.ret = f.req[2] /\ f.good)

ReadsInv == \A r \in Reader : ReadInv(r)

\* A chunk that is being inserted is not linked before, nor when it loses.
HeldInv(r) ==
  /\ rd[r].pc = "lock" => rd[r].new \notin tree
  /\ rd[r].pc = "unlock" => rd[r].cache = rd[r].new \/ rd[r].new \notin tree

\* The live chunks are the linked ones and the readers' own, each reader's a
\* different one.
HeapInv ==
  /\ heap = tree \cup Private
  /\ \A r \in Reader : HeldInv(r)
  /\ \A r, s \in Reader : r # s /\ rd[r].new # NULL => rd[r].new # rd[s].new

FileInv == ReadsInv /\ HeapInv

\* A step that changes only a reader's location within the call keeps its
\* request.
LEMMA SameRequest ==
  ASSUME NEW r \in Reader, ReadInv(r), rd[r].pc \in Busy,
         rd'[r].req = rd[r].req, rd'[r].offset = rd[r].offset, rd'[r].got = rd[r].got,
         rd'[r].size = rd[r].size, rd'[r].good = rd[r].good,
         rd'[r].pc \in Busy \/ (rd'[r].pc = "done" /\ rd'[r].ret = -1)
  PROVE  ReadInv(r)'
BY DEF ReadInv, Busy, Pc

\* Inside the file a copy takes at least one byte and ends inside its chunk.
LEMMA CopyTakesBytes ==
  ASSUME InsideFileRequests, CacheInv, NEW r \in Reader, ReadInv(r), rd[r].pc = "memcpy"
  PROVE  LET f   == rd[r]
             ret == CacheSize(f.cache, f.offset, f.size)
         IN  /\ f.cache \in tree /\ ret \in 1 .. f.size
             /\ (f.offset - f.cache.offset) + ret <= f.cache.size
             /\ FreedAfter(f.cache, ret, f.miss) = {}
<1> DEFINE f   == rd[r]
           ret == CacheSize(f.cache, f.offset, f.size)
<1>1. /\ f.cache \in tree /\ f.cache \in Chunk /\ GoodChunk(f.cache)
      /\ Covers(f.cache, f.offset)
  BY DEF CacheInv, FrameInv, TypeOK
<1>2. f.offset \in Nat /\ f.size \in Nat \ {0} /\ f.offset < FileSize
  BY DsoCacheAssumption DEF CacheInv, TypeOK, ReadInv, Frame, Busy, Pc, InsideFileRequests
<1>3. ret \in 0 .. f.size
  BY <1>1, <1>2, CacheSizeBound
<1>4. ret > 0 /\ (f.offset - f.cache.offset) + ret <= f.cache.size
  BY <1>1, <1>2, CopyInsideChunk
<1>5. ret \in 1 .. f.size /\ ~(ret <= 0)
  <2> HIDE DEF ret, f
  <2> QED BY <1>2, <1>3, <1>4
<1>6. FreedAfter(f.cache, ret, f.miss) = {}
  BY <1>5 DEF FreedAfter
<1> QED BY <1>1, <1>4, <1>5, <1>6

\* While requests end inside the file, every step keeps the split of every
\* reader's request.
LEMMA ReadsInvNext ==
  ASSUME InsideFileRequests, CacheInv, CacheInv', FileInv, [Next]_vars
  PROVE  ReadsInv'
<1> USE DsoCacheAssumption DEF CacheInv
<1>0. ASSUME NEW r \in Reader
      PROVE  rd[r] \in Frame /\ ReadInv(r) /\ FrameInv(r)
  BY DEF TypeOK, FileInv, ReadsInv
<1>1. ASSUME NEW r \in Reader, ReadInv(r)',
             \A s \in Reader \ {r} : rd'[s] = rd[s]
      PROVE  ReadsInv'
  BY <1>1, <1>0 DEF ReadsInv, ReadInv
<1>2. ASSUME NEW r \in Reader, NEW q \in Request, dso__data_read_offset(r, q)
      PROVE  ReadsInv'
  <2>1. /\ rd'[r] = [Idle EXCEPT !.pc = IF status = "ERROR" THEN "done" ELSE "file_size",
                                 !.ret = IF status = "ERROR" THEN -1 ELSE 0,
                                 !.req = q, !.offset = q[1], !.size = q[2]]
        /\ \A s \in Reader \ {r} : rd'[s] = rd[s]
    BY <1>2 DEF dso__data_read_offset, TypeOK
  <2>2. q[1] \in Nat /\ q[2] \in Nat \ {0}
    OBVIOUS
  <2>3. ReadInv(r)'
    BY <2>1, <2>2 DEF ReadInv, Idle, Busy, Pc
  <2> QED BY <1>1, <2>1, <2>3
<1>3. ASSUME NEW r \in Reader, data_file_size(r) PROVE ReadsInv'
  <2>1. \A s \in Reader \ {r} : rd'[s] = rd[s]
    BY <1>3 DEF data_file_size, Goto, Return, TypeOK
  <2>2. ReadInv(r)'
    BY <1>3, <1>0, SameRequest DEF data_file_size, Goto, Return, TypeOK, Frame, Busy, Pc
  <2> QED BY <1>1, <2>1, <2>2
<1>4. ASSUME NEW r \in Reader, try_to_open_dso(r) PROVE ReadsInv'
  <2>1. \A s \in Reader \ {r} : rd'[s] = rd[s]
    BY <1>4 DEF try_to_open_dso, Goto, TypeOK
  <2>2. ReadInv(r)'
    BY <1>4, <1>0, SameRequest DEF try_to_open_dso, Goto, TypeOK, Frame, Busy, Pc
  <2> QED BY <1>1, <2>1, <2>2
<1>5. ASSUME NEW r \in Reader, fstat(r) PROVE ReadsInv'
  <2>1. \A s \in Reader \ {r} : rd'[s] = rd[s]
    BY <1>5 DEF fstat, Goto, Return, TypeOK
  <2>2. ReadInv(r)'
    BY <1>5, <1>0, SameRequest DEF fstat, Goto, Return, TypeOK, Frame, Busy, Pc
  <2> QED BY <1>1, <2>1, <2>2
<1>6. ASSUME NEW r \in Reader, data_read_offset(r) PROVE ReadsInv'
  <2>1. \A s \in Reader \ {r} : rd'[s] = rd[s]
    BY <1>6 DEF data_read_offset, Goto, Return, TypeOK
  <2>2. ReadInv(r)'
    BY <1>6, <1>0, SameRequest DEF data_read_offset, Goto, Return, TypeOK, Frame, Busy, Pc
  <2> QED BY <1>1, <2>1, <2>2
<1>7. ASSUME NEW r \in Reader, dso_cache__find(r) PROVE ReadsInv'
  <2>1. \A s \in Reader \ {r} : rd'[s] = rd[s]
    BY <1>7 DEF dso_cache__find, TypeOK
  <2>2. PICK p \in {"memcpy", "pread"}, c \in Chunk \cup {NULL}, b \in BOOLEAN :
          rd' = [rd EXCEPT ![r].pc = p, ![r].cache = c, ![r].miss = b]
    BY <1>7, <1>0 DEF dso_cache__find, TypeOK
  <2>3. /\ rd'[r].req = rd[r].req /\ rd'[r].offset = rd[r].offset
        /\ rd'[r].got = rd[r].got /\ rd'[r].size = rd[r].size
        /\ rd'[r].good = rd[r].good /\ rd'[r].pc = p
    BY <1>0, <2>2 DEF TypeOK, Frame
  <2>4. rd[r].pc \in Busy /\ p \in Busy
    BY <1>7 DEF dso_cache__find, Busy, Pc
  <2>5. ReadInv(r)'
    BY <1>0, <2>3, <2>4, SameRequest, Zenon
  <2> QED BY <1>1, <2>1, <2>5
<1>8. ASSUME NEW r \in Reader, dso_cache__read(r) PROVE ReadsInv'
  <2>1. rd[r].pc = "pread" /\ rd \in [Reader -> Frame]
    BY <1>8 DEF dso_cache__read, TypeOK
  <2>2. rd[r].offset < FileSize /\ rd[r].offset \in Nat
    BY <1>0, <2>1 DEF ReadInv, Busy, Pc, Frame, InsideFileRequests
  <2>3. ASSUME NEW c, rd' = [rd EXCEPT ![r].pc = "lock", ![r].new = c] PROVE ReadsInv'
    <3>1. ReadInv(r)' /\ \A s \in Reader \ {r} : rd'[s] = rd[s]
      BY <1>0, <2>1, <2>3, SameRequest DEF Frame, Busy, Pc
    <3> QED BY <1>1, <3>1
  <2>4. ASSUME Return(r, -1) PROVE ReadsInv'
    <3>1. ReadInv(r)' /\ \A s \in Reader \ {r} : rd'[s] = rd[s]
      BY <1>0, <2>1, <2>4, SameRequest DEF Return, Frame, Busy, Pc
    <3> QED BY <1>1, <3>1
  <2>5. ~(rd[r].offset >= FileSize)
    BY <2>2
  <2>6. TypeOK
    OBVIOUS
  <2> HIDE DEF CacheInv
  <2> QED BY <1>8, <2>3, <2>4, <2>5, <2>6, ReadCases
<1>9. ASSUME NEW r \in Reader, dso_cache__insert(r) PROVE ReadsInv'
  <2>1. \A s \in Reader \ {r} : rd'[s] = rd[s]
    BY <1>9 DEF dso_cache__insert, TypeOK
  <2>2. PICK c : rd' = [rd EXCEPT ![r].pc = "unlock", ![r].cache = c]
    BY <1>9 DEF dso_cache__insert
  <2>3. rd[r].pc = "lock" /\ rd[r] \in Frame
    BY <1>9, <1>0 DEF dso_cache__insert
  <2>4. /\ rd'[r].pc = "unlock" /\ rd'[r].req = rd[r].req /\ rd'[r].offset = rd[r].offset
        /\ rd'[r].got = rd[r].got /\ rd'[r].size = rd[r].size /\ rd'[r].good = rd[r].good
    BY <2>2, <2>3 DEF TypeOK, Frame
  <2>5. ReadInv(r)'
    BY <1>0, <2>3, <2>4, SameRequest DEF Busy, Pc
  <2> QED BY <1>1, <2>1, <2>5
<1>10. ASSUME NEW r \in Reader, insert_unlock(r) PROVE ReadsInv'
  <2>1. \A s \in Reader \ {r} : rd'[s] = rd[s]
    BY <1>10 DEF insert_unlock, TypeOK
  <2>2. ReadInv(r)'
    BY <1>10, <1>0, SameRequest DEF insert_unlock, TypeOK, Frame, Busy, Pc
  <2> QED BY <1>1, <2>1, <2>2
<1>11. ASSUME NEW r \in Reader, dso_cache__memcpy(r) PROVE ReadsInv'
  <2> DEFINE f   == rd[r]
             ret == CacheSize(f.cache, f.offset, f.size)
  <2>1. /\ f.offset \in Nat /\ f.size \in Nat \ {0} /\ f.got \in Nat /\ f.good
        /\ f.req \in Request /\ f.offset = f.req[1] + f.got /\ f.got + f.size = f.req[2]
    BY <1>11, <1>0 DEF dso_cache__memcpy, ReadInv, Frame, Busy, Pc
  <2>2. rd[r].pc = "memcpy"
    BY <1>11 DEF dso_cache__memcpy
  <2>3. /\ f.cache \in tree /\ ret \in 1 .. f.size
        /\ (f.offset - f.cache.offset) + ret <= f.cache.size
    BY <1>0, <2>2, CopyTakesBytes
  <2>4. f.cache \in heap
    BY <2>3 DEF FileInv, HeapInv
  <2>5. \A s \in Reader \ {r} : rd'[s] = rd[s]
    BY <1>11 DEF dso_cache__memcpy, TypeOK
  <2>6. /\ rd'[r].pc = (IF ret = f.size THEN "done" ELSE "find")
        /\ rd'[r].ret = (IF ret = f.size THEN f.got + ret ELSE 0)
        /\ rd'[r].got = f.got + ret /\ rd'[r].offset = f.offset + ret
        /\ rd'[r].size = f.size - ret /\ rd'[r].req = f.req /\ rd'[r].good
    <3> DEFINE end == ret = 0 \/ ret = f.size
               good == /\ f.good /\ f.cache \in heap
                       /\ (f.offset - f.cache.offset) + ret <= f.cache.size
    <3>1. rd'[r] = [f EXCEPT !.pc = IF end THEN "done" ELSE "find",
                             !.ret = IF end THEN f.got + ret ELSE 0,
                             !.got = f.got + ret, !.offset = f.offset + ret,
                             !.size = f.size - ret, !.cache = NULL, !.good = good]
      BY <1>11 DEF dso_cache__memcpy, TypeOK
    <3>2. good
      BY <2>1, <2>3, <2>4
    <3>3. end <=> ret = f.size
      BY <2>3
    <3>4. f \in Frame
      BY <1>0
    <3> HIDE DEF ret, f, good, end
    <3> QED BY <3>1, <3>2, <3>3, <3>4 DEF Frame
  <2>7. ReadInv(r)'
    <3> HIDE DEF ret, f
    <3> QED BY <2>1, <2>3, <2>6 DEF ReadInv, Busy, Pc
  <2> QED BY <1>1, <2>5, <2>7
<1>12. CASE UNCHANGED vars
  BY <1>12, <1>0 DEF vars, ReadsInv, ReadInv
<1> QED BY <1>2, <1>3, <1>4, <1>5, <1>6, <1>7, <1>8, <1>9, <1>10, <1>11, <1>12
         DEF Next, Step

\* Steps that touch no chunk and take or leave no lock keep the account.
LEMMA SameChunks ==
  ASSUME HeapInv, tree' = tree, heap' = heap,
         \A s \in Reader :
           /\ rd'[s].new = rd[s].new
           /\ rd'[s].pc \in {"lock", "unlock"} =>
                rd'[s].pc = rd[s].pc /\ rd'[s].cache = rd[s].cache
  PROVE  HeapInv'
<1>1. Private' = Private
  BY DEF Private
<1>2. \A s \in Reader : HeldInv(s)'
  BY DEF HeapInv, HeldInv
<1> QED BY <1>1, <1>2 DEF HeapInv

\* While requests end inside the file, every step keeps the account of chunks.
LEMMA HeapInvNext ==
  ASSUME InsideFileRequests, CacheInv, FileInv, [Next]_vars
  PROVE  HeapInv'
<1> USE DsoCacheAssumption
<1>0. /\ rd \in [Reader -> Frame] /\ \A s \in Reader : FrameInv(s)
      /\ HeapInv /\ ReadsInv /\ heap \in SUBSET Chunk
  BY DEF CacheInv, TypeOK, FileInv
<1>1. ASSUME NEW r \in Reader, NEW q \in Request, dso__data_read_offset(r, q)
      PROVE  HeapInv'
  <2>1. /\ tree' = tree /\ heap' = heap /\ rd[r].new = NULL
        /\ rd'[r].new = NULL /\ rd'[r].pc \in {"done", "file_size"}
        /\ \A s \in Reader \ {r} : rd'[s] = rd[s]
    BY <1>0, <1>1 DEF dso__data_read_offset, Idle, FrameInv
  <2> QED BY <1>0, <2>1, SameChunks
<1>2. ASSUME NEW r \in Reader,
             data_file_size(r) \/ try_to_open_dso(r) \/ fstat(r) \/ data_read_offset(r)
      PROVE  HeapInv'
  <2>1. /\ tree' = tree /\ heap' = heap
        /\ \/ \E l \in {"open", "fstat", "check", "find"} : Goto(r, l)
           \/ Return(r, -1)
    BY <1>2 DEF data_file_size, try_to_open_dso, fstat, data_read_offset
  <2> QED BY <1>0, <2>1, SameChunks DEF Goto, Return, Frame
<1>3. ASSUME NEW r \in Reader, dso_cache__find(r) PROVE HeapInv'
  <2>1. /\ tree' = tree /\ heap' = heap
        /\ \E p \in {"memcpy", "pread"}, c \in tree \cup {NULL}, b \in BOOLEAN :
             rd' = [rd EXCEPT ![r].pc = p, ![r].cache = c, ![r].miss = b]
    BY <1>3 DEF dso_cache__find
  <2>2. PICK p \in {"memcpy", "pread"}, c \in tree \cup {NULL}, b \in BOOLEAN :
             rd' = [rd EXCEPT ![r].pc = p, ![r].cache = c, ![r].miss = b]
    BY <2>1
  <2>3. /\ rd'[r].new = rd[r].new /\ rd'[r].pc \in {"memcpy", "pread"}
        /\ \A s \in Reader \ {r} : rd'[s] = rd[s]
    BY <1>0, <2>2 DEF Frame
  <2> QED BY <1>0, <2>1, <2>3, SameChunks
<1>4. ASSUME NEW r \in Reader, dso_cache__read(r) PROVE HeapInv'
  <2>0. rd[r].new = NULL /\ tree' = tree
    BY <1>0, <1>4 DEF dso_cache__read, FrameInv
  <2>1. ASSUME heap' = heap, \E v : Return(r, v) PROVE HeapInv'
    <3>1. PICK v : rd' = [rd EXCEPT ![r].pc = "done", ![r].ret = v]
      BY <2>1 DEF Return
    <3>2. /\ rd'[r].new = rd[r].new /\ rd'[r].pc = "done"
          /\ \A s \in Reader \ {r} : rd'[s] = rd[s]
      BY <1>0, <3>1 DEF Frame
    <3> QED BY <1>0, <2>0, <2>1, <3>2, SameChunks
  <2>2. ASSUME NEW c, c \notin heap, c # NULL, heap' = heap \cup {c},
               rd' = [rd EXCEPT ![r].pc = "lock", ![r].new = c]
        PROVE  HeapInv'
    <3>1. /\ rd'[r].new = c /\ rd'[r].pc = "lock"
          /\ \A s \in Reader \ {r} : rd'[s] = rd[s]
      BY <1>0, <2>2 DEF Frame
    <3>2. \A s \in Reader : rd[s].new # NULL => rd[s].new \in heap
      BY <1>0 DEF HeapInv, Private
    <3>3. Private' = Private \cup {c}
      <4>1. \A d : d \in Private' <=> \E s \in Reader : rd'[s].new # NULL /\ d = rd'[s].new
        BY Zenon DEF Private
      <4>2. \A d : d \in Private <=> \E s \in Reader : rd[s].new # NULL /\ d = rd[s].new
        BY Zenon DEF Private
      <4>3. c \in Private'
        BY <2>2, <3>1, <4>1
      <4>4. ASSUME NEW d \in Private PROVE d \in Private'
        <5>1. PICK s \in Reader : rd[s].new # NULL /\ d = rd[s].new
          BY <4>2, <4>4
        <5>2. s # r /\ rd'[s] = rd[s]
          BY <2>0, <3>1, <5>1
        <5> QED BY <4>1, <5>1, <5>2
      <4>5. \A d \in Private' : d = c \/ d \in Private
        BY <3>1, <4>1, <4>2
      <4> QED BY <4>3, <4>4, <4>5
    <3>4. c \notin tree
      BY <1>0, <2>2 DEF HeapInv
    <3>5. \A s \in Reader : HeldInv(s)'
      BY <1>0, <2>0, <3>1, <3>4 DEF HeapInv, HeldInv
    <3>6. \A t, s \in Reader : t # s /\ rd'[t].new # NULL => rd'[t].new # rd'[s].new
      BY <1>0, <2>2, <3>1, <3>2 DEF HeapInv
    <3> QED BY <1>0, <2>0, <2>2, <3>3, <3>5, <3>6 DEF HeapInv
  <2>3. TypeOK /\ \A c \in Chunk : c # NULL
    BY DEF CacheInv
  <2> QED BY <1>4, <2>1, <2>2, <2>3, ReadCases
<1>5. ASSUME NEW r \in Reader, dso_cache__insert(r) PROVE HeapInv'
  <2>1. PICK c \in tree \cup {rd[r].new} :
          /\ rd' = [rd EXCEPT ![r].pc = "unlock", ![r].cache = c]
          /\ tree' = tree \cup {c} /\ heap' = heap
    BY <1>5 DEF dso_cache__insert
  <2>2. /\ rd'[r].pc = "unlock" /\ rd'[r].cache = c /\ rd'[r].new = rd[r].new
        /\ \A s \in Reader \ {r} : rd'[s] = rd[s]
    BY <1>0, <2>1 DEF Frame
  <2>3. rd[r].new # NULL /\ rd[r].new \notin tree
    BY <1>0, <1>5 DEF dso_cache__insert, FrameInv, HeapInv, HeldInv
  <2>4. Private' = Private /\ rd[r].new \in Private
    BY <2>2, <2>3 DEF Private
  <2>5. HeldInv(r)'
    BY <2>1, <2>2, <2>3 DEF HeldInv
  <2>6. \A s \in Reader \ {r} : HeldInv(s)'
    BY <1>0, <2>1, <2>2, <2>3 DEF HeldInv, HeapInv
  <2> QED BY <1>0, <2>1, <2>2, <2>4, <2>5, <2>6 DEF HeapInv
<1>6. ASSUME NEW r \in Reader, insert_unlock(r) PROVE HeapInv'
  <2>1. /\ rd'[r].pc = "memcpy" /\ rd'[r].new = NULL /\ tree' = tree
        /\ heap' = heap \ Loser(r) /\ \A s \in Reader \ {r} : rd'[s] = rd[s]
    BY <1>0, <1>6 DEF insert_unlock, Frame
  <2>2. /\ rd[r].new # NULL /\ rd[r].cache \in tree
        /\ rd[r].cache = rd[r].new \/ rd[r].new \notin tree
    BY <1>0, <1>6 DEF insert_unlock, FrameInv, HeapInv, HeldInv
  <2>3. Private' = Private \ {rd[r].new}
    BY <1>0, <2>1, <2>2 DEF Private, HeapInv
  <2>4. heap' = tree' \cup Private'
    BY <1>0, <2>1, <2>2, <2>3 DEF HeapInv, Loser
  <2>5. \A s \in Reader : HeldInv(s)'
    BY <1>0, <2>1 DEF HeapInv, HeldInv
  <2> QED BY <1>0, <2>1, <2>4, <2>5 DEF HeapInv
<1>7. ASSUME NEW r \in Reader, dso_cache__memcpy(r) PROVE HeapInv'
  <2>1. /\ rd'[r].pc \in {"done", "find"} /\ rd'[r].new = rd[r].new
        /\ \A s \in Reader \ {r} : rd'[s] = rd[s]
    BY <1>0, <1>7 DEF dso_cache__memcpy, Frame
  <2>2. tree' = tree /\ heap' = heap
    BY <1>0, <1>7, CopyTakesBytes DEF dso_cache__memcpy, ReadsInv
  <2> QED BY <1>0, <2>1, <2>2, SameChunks
<1>8. CASE UNCHANGED vars
  BY <1>0, <1>8, SameChunks DEF vars
<1> QED BY <1>1, <1>2, <1>3, <1>4, <1>5, <1>6, <1>7, <1>8 DEF Next, Step

\* The file invariant holds of every behaviour with such requests.
THEOREM FileInvariant == InsideFileRequests => (Spec => []FileInv)
<1> SUFFICES ASSUME InsideFileRequests PROVE Spec => []FileInv
  OBVIOUS
<1>1. Init => FileInv
  BY DEF Init, FileInv, ReadsInv, ReadInv, HeapInv, HeldInv, Private, Idle, Busy
<1>2. CacheInv /\ CacheInv' /\ FileInv /\ [Next]_vars => FileInv'
  BY ReadsInvNext, HeapInvNext DEF FileInv
<1> QED BY <1>1, <1>2, CacheInvariant, PTL DEF Spec

\* For requests inside the file no linked chunk is ever freed, whatever races
\* between readers: the cache hands out live memory.
THEOREM CacheStaysLive == InsideFileRequests => (Spec => []LinkedChunksLive)
<1> SUFFICES ASSUME InsideFileRequests PROVE Spec => []LinkedChunksLive
  OBVIOUS
<1>1. FileInv => LinkedChunksLive
  BY DEF FileInv, HeapInv, LinkedChunksLive
<1> QED BY <1>1, FileInvariant, PTL

\* For requests inside the file, however many readers race on a miss, the chunks
\* in memory are the linked ones, one for each piece of the file, and the ones
\* readers are about to insert: the loser's chunk is freed, and only that.
THEOREM NoChunkIsLost == InsideFileRequests => (Spec => []ChunksAccountedFor)
<1> SUFFICES ASSUME InsideFileRequests PROVE Spec => []ChunksAccountedFor
  OBVIOUS
<1>1. FileInv /\ (\A c, d \in tree : Covers(c, d.offset) => c = d) => ChunksAccountedFor
  BY DEF FileInv, HeapInv, ChunksAccountedFor
<1> QED BY <1>1, FileInvariant, OneCopyOfEachByte, PTL

\* For requests inside the file every successful read delivers exactly the
\* bytes asked for, from live memory.
THEOREM ReadsAreTheFile == InsideFileRequests => (Spec => []ReadsReturnFileBytes)
<1> SUFFICES ASSUME InsideFileRequests PROVE Spec => []ReadsReturnFileBytes
  OBVIOUS
<1>1. ASSUME FileInv PROVE ReadsReturnFileBytes
  <2> SUFFICES ASSUME NEW r \in Reader, rd[r].pc = "done", rd[r].ret >= 0
               PROVE  /\ rd[r].ret = Min2(rd[r].req[2], FileSize - rd[r].req[1])
                      /\ rd[r].good
    BY DEF ReadsReturnFileBytes
  <2>1. rd[r].req \in Request /\ rd[r].ret = rd[r].req[2] /\ rd[r].good
    BY <1>1 DEF FileInv, ReadsInv, ReadInv
  <2> QED BY <2>1, DsoCacheAssumption DEF InsideFileRequests, Min2
<1> QED BY <1>1, FileInvariant, PTL
-----------------------------------------------------------------------------
\* A step of a running call changes only that reader's frame, keeps what it was
\* asked, and stays inside the call or returns.
LEMMA StepFrame ==
  ASSUME CacheInv, NEW r \in Reader, Step(r)
  PROVE  /\ rd[r].pc \in Busy /\ rd'[r].pc \in Busy \cup {"done"} /\ rd'[r].req = rd[r].req
         /\ \A s \in Reader \ {r} : rd'[s] = rd[s]
<1> USE DEF Busy, Pc
<1>0. rd \in [Reader -> Frame] /\ rd[r] \in Frame
  BY DEF CacheInv, TypeOK
<1>1. CASE data_file_size(r) \/ try_to_open_dso(r) \/ fstat(r) \/ data_read_offset(r)
  <2>1. /\ rd[r].pc \in {"file_size", "open", "fstat", "check"}
        /\ \/ \E l \in {"open", "fstat", "check", "find"} : Goto(r, l)
           \/ Return(r, -1)
    BY <1>1 DEF data_file_size, try_to_open_dso, fstat, data_read_offset
  <2> QED BY <1>0, <2>1 DEF Goto, Return, Frame
<1>2. CASE dso_cache__find(r)
  <2>1. /\ rd[r].pc = "find"
        /\ \E p \in {"memcpy", "pread"}, c \in tree \cup {NULL}, b \in BOOLEAN :
             rd' = [rd EXCEPT ![r].pc = p, ![r].cache = c, ![r].miss = b]
    BY <1>2 DEF dso_cache__find
  <2>2. PICK p \in {"memcpy", "pread"}, c \in tree \cup {NULL}, b \in BOOLEAN :
             rd' = [rd EXCEPT ![r].pc = p, ![r].cache = c, ![r].miss = b]
    BY <2>1
  <2> QED BY <1>0, <2>1, <2>2 DEF Frame
<1>3. CASE dso_cache__read(r)
  <2>1. /\ rd[r].pc = "pread"
        /\ \/ \E c : rd' = [rd EXCEPT ![r].pc = "lock", ![r].new = c]
           \/ \E a : Return(r, a)
    BY <1>3 DEF dso_cache__read
  <2>2. CASE \E c : rd' = [rd EXCEPT ![r].pc = "lock", ![r].new = c]
    <3>1. PICK c : rd' = [rd EXCEPT ![r].pc = "lock", ![r].new = c]
      BY <2>2
    <3> QED BY <1>0, <2>1, <3>1 DEF Frame
  <2>3. CASE \E a : Return(r, a)
    <3>1. PICK a : rd' = [rd EXCEPT ![r].pc = "done", ![r].ret = a]
      BY <2>3 DEF Return
    <3> QED BY <1>0, <2>1, <3>1 DEF Frame
  <2> QED BY <2>1, <2>2, <2>3
<1>4. CASE dso_cache__insert(r)
  <2>1. /\ rd[r].pc = "lock"
        /\ \E c : rd' = [rd EXCEPT ![r].pc = "unlock", ![r].cache = c]
    BY <1>4 DEF dso_cache__insert
  <2>2. PICK c : rd' = [rd EXCEPT ![r].pc = "unlock", ![r].cache = c]
    BY <2>1
  <2> QED BY <1>0, <2>1, <2>2 DEF Frame
<1>5. CASE insert_unlock(r)
  BY <1>0, <1>5 DEF insert_unlock, Frame
<1>6. CASE dso_cache__memcpy(r)
  <2> DEFINE f    == rd[r]
             ret  == CacheSize(f.cache, f.offset, f.size)
             end  == ret = 0 \/ ret = f.size
             good == /\ f.good /\ f.cache \in heap
                     /\ (f.offset - f.cache.offset) + ret <= f.cache.size
  <2>1. /\ rd[r].pc = "memcpy"
        /\ rd' = [rd EXCEPT ![r] =
             [f EXCEPT !.pc = IF end THEN "done" ELSE "find",
                       !.ret = IF end THEN f.got + ret ELSE 0,
                       !.got = f.got + ret, !.offset = f.offset + ret,
                       !.size = f.size - ret, !.cache = NULL, !.good = good]]
    BY <1>6 DEF dso_cache__memcpy
  <2> HIDE DEF ret, end, good
  <2> QED BY <1>0, <2>1 DEF Frame
<1> QED BY <1>1, <1>2, <1>3, <1>4, <1>5, <1>6 DEF Step

\* What the callers see of the cache's readers.
Calls == [r \in Reader |-> View(rd[r])]

\* A step of the cache is a step of the file reads or invisible.
LEMMA ReadStep ==
  ASSUME InsideFileRequests, CacheInv, CacheInv', FileInv, FileInv', [Next]_vars
  PROVE  [F!Next]_Calls
<1>0. rd \in [Reader -> Frame] /\ rd' \in [Reader -> Frame]
  BY DEF CacheInv, TypeOK
<1>a. ASSUME NEW r \in Reader, Calls[r].state = "busy",
             \E n \in {-1, F!InFile(Calls[r].req)} :
               Calls' = [Calls EXCEPT ![r] = [state |-> "done", req |-> Calls[r].req, ret |-> n]]
      PROVE  F!Answer(r)
  BY <1>a, Zenon DEF F!Answer, Calls
<1>b. ASSUME NEW r \in Reader, NEW q \in Request, Calls[r].state # "busy",
             \/ Calls' = [Calls EXCEPT ![r] = [state |-> "busy", req |-> q, ret |-> 0]]
             \/ Calls' = [Calls EXCEPT ![r] = [state |-> "done", req |-> q, ret |-> -1]]
      PROVE  F!Ask(r, q) \/ F!Refuse(r, q)
  BY <1>b, Zenon DEF F!Ask, F!Refuse, Calls
<1>1. ASSUME NEW r \in Reader, Step(r) PROVE F!Next \/ Calls' = Calls
  <2>1. /\ rd[r].pc \in Busy /\ rd'[r].pc \in Busy \cup {"done"} /\ rd'[r].req = rd[r].req
        /\ \A s \in Reader \ {r} : rd'[s] = rd[s]
    BY <1>1, StepFrame
  <2>2. View(rd[r]) = [state |-> "busy", req |-> rd[r].req, ret |-> 0]
    BY <2>1 DEF View, Busy, Pc
  <2>3. CASE rd'[r].pc \in Busy
    <3>1. View(rd'[r]) = View(rd[r])
      BY <2>1, <2>2, <2>3 DEF View, Busy, Pc
    <3>2. Calls' = Calls
      BY <2>1, <3>1 DEF Calls
    <3> QED BY <3>2
  <2>4. CASE rd'[r].pc = "done"
    <3> DEFINE n == View(rd'[r]).ret
    <3>1. View(rd'[r]) = [state |-> "done", req |-> rd[r].req, ret |-> n]
      BY <2>1, <2>4 DEF View
    <3>2. n \in {-1, F!InFile(rd[r].req)}
      <4>0. \/ rd'[r].ret = -1
            \/ rd'[r].ret = rd[r].req[2] /\ rd'[r].good /\ rd[r].req \in Request
        BY <2>1, <2>4 DEF FileInv, ReadsInv, ReadInv
      <4>1. CASE rd'[r].ret = rd[r].req[2] /\ rd'[r].good /\ rd[r].req \in Request
        <5>1. F!InFile(rd[r].req) = rd[r].req[2]
          BY <4>1 DEF F!InFile, InsideFileRequests
        <5>2. n = rd'[r].ret
          BY <2>4, <4>1 DEF View
        <5> QED BY <4>1, <5>1, <5>2
      <4>2. CASE rd'[r].ret = -1
        BY <2>4, <4>2 DEF View
      <4> QED BY <4>0, <4>1, <4>2
    <3>3. Calls' = [Calls EXCEPT ![r] = [state |-> "done", req |-> rd[r].req, ret |-> n]]
      BY <2>1, <3>1 DEF Calls
    <3>4. Calls[r] = View(rd[r])
      BY DEF Calls
    <3> HIDE DEF n
    <3>5. /\ Calls[r].state = "busy" /\ Calls[r].req = rd[r].req
          /\ Calls' = [Calls EXCEPT ![r] = [state |-> "done", req |-> Calls[r].req, ret |-> n]]
      BY <2>2, <3>3, <3>4
    <3>6. F!Answer(r)
      BY <1>a, <3>2, <3>5
    <3> QED BY <3>6 DEF F!Next
  <2> QED BY <2>1, <2>3, <2>4
<1>2. ASSUME NEW r \in Reader, NEW q \in Request, dso__data_read_offset(r, q) PROVE F!Next
  <2>1. /\ rd[r].pc \in {"idle", "done"}
        /\ rd'[r] = [Idle EXCEPT !.pc = IF status = "ERROR" THEN "done" ELSE "file_size",
                                 !.ret = IF status = "ERROR" THEN -1 ELSE 0,
                                 !.req = q, !.offset = q[1], !.size = q[2]]
        /\ \A s \in Reader \ {r} : rd'[s] = rd[s]
    BY <1>0, <1>2 DEF dso__data_read_offset
  <2>2. View(rd[r]).state # "busy" /\ Calls[r] = View(rd[r])
    BY <2>1 DEF View, Calls
  <2>3. CASE status = "ERROR"
    <3>1. View(rd'[r]) = [state |-> "done", req |-> q, ret |-> -1]
      BY <2>1, <2>3 DEF View, Idle
    <3>2. Calls' = [Calls EXCEPT ![r] = [state |-> "done", req |-> q, ret |-> -1]]
      BY <2>1, <3>1 DEF Calls
    <3> QED BY <1>b, <2>2, <3>2 DEF F!Next
  <2>4. CASE status # "ERROR"
    <3>1. View(rd'[r]) = [state |-> "busy", req |-> q, ret |-> 0]
      BY <2>1, <2>4 DEF View, Idle
    <3>2. Calls' = [Calls EXCEPT ![r] = [state |-> "busy", req |-> q, ret |-> 0]]
      BY <2>1, <3>1 DEF Calls
    <3> QED BY <1>b, <2>2, <3>2 DEF F!Next
  <2> QED BY <2>3, <2>4
<1>3. CASE UNCHANGED vars
  BY <1>3 DEF vars, Calls
<1> QED BY <1>1, <1>2, <1>3 DEF Next

\* For requests inside the file the cache is indistinguishable from the file,
\* for any number of readers.
THEOREM CacheRefinesFile == InsideFileRequests => (Spec => ImplementsFileReads)
<1> SUFFICES ASSUME InsideFileRequests PROVE Spec => ImplementsFileReads
  OBVIOUS
<1>1. Init => F!Init
  BY DEF Init, F!Init, F!NoCall, View, Idle
<1>2. CacheInv /\ CacheInv' /\ FileInv /\ FileInv' /\ [Next]_vars => [F!Next]_Calls
  BY ReadStep
<1> QED BY <1>1, <1>2, CacheInvariant, FileInvariant, PTL DEF Spec, ImplementsFileReads, F!Spec, Calls
=============================================================================
