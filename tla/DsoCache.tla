------------------------------ MODULE DsoCache ------------------------------
(***************************************************************************)
(* The data cache of one dso (dso.c): readers open the file, learn its     *)
(* size, and read it through chunks of DSO__DATA_CACHE_SIZE bytes kept in  *)
(* an rbtree.  Lookups take no lock; insertions hold dso->lock; a reader   *)
(* that finds its chunk already inserted frees its own and uses the other  *)
(* ("we lose the race").                                                   *)
(*                                                                         *)
(* The file does not change while it is traced, so its bytes are their     *)
(* offsets: a copy is right when it stays inside what pread put in the     *)
(* chunk.  A chunk is its address and what is in it: two chunks of the     *)
(* same piece of the file are different chunks.                            *)
(***************************************************************************)
EXTENDS Integers, FiniteSets

CONSTANTS
  Reader,    \* threads that read the dso
  FileSize,  \* size of the file
  DSO__DATA_CACHE_SIZE,
  Request,   \* <<offset, size>> pairs the callers ask for
  U64,       \* u64 arithmetic is modulo U64
  MaxReads,  \* bound: reads per reader
  Addr,      \* addresses of chunks
  Malloc,    \* the allocator: where it may put a chunk, given the ones in use
  NULL

Chunk == [addr : Addr, offset : Nat, size : Nat]

ASSUME DsoCacheAssumption ==
  /\ FileSize \in Nat
  /\ DSO__DATA_CACHE_SIZE \in Nat \ {0}
  /\ Request \subseteq Nat \X (Nat \ {0})
  /\ U64 \in Nat /\ DSO__DATA_CACHE_SIZE < U64 /\ \A q \in Request : q[1] < U64
  /\ MaxReads \in Nat
  /\ NULL \notin Reader /\ NULL \notin Chunk

ASSUME MallocAssumption ==
  /\ Malloc \in [SUBSET Addr -> SUBSET Addr]
  /\ \A used \in SUBSET Addr : Malloc[used] \cap used = {}

VARIABLES
  fd,         \* dso->data.fd >= 0
  nfd,        \* ghost: descriptors opened so far
  status,     \* dso->data.status
  file_size,  \* dso->data.file_size, 0 while unknown
  tree,       \* dso->data.cache: the linked chunks
  heap,       \* the chunks allocated and not freed
  lock,       \* owner of dso->lock
  rd,         \* the readers' local variables
  reads       \* reads started by each reader

vars == <<fd, nfd, status, file_size, tree, heap, lock, rd, reads>>

Min2(a, b) == IF a < b THEN a ELSE b

\* A reader's frame: the request, what is left of it, the bytes delivered,
\* whether they are the file's, the private chunk, the chunk to copy from,
\* whether this iteration came through dso_cache__read, and the result.
Idle == [pc |-> "idle", req |-> NULL, offset |-> 0, size |-> 0, got |-> 0,
         good |-> TRUE, new |-> NULL, cache |-> NULL, miss |-> FALSE, ret |-> 0]

Init ==
  /\ fd = FALSE /\ nfd = 0 /\ status = "UNKNOWN" /\ file_size = 0
  /\ tree = {} /\ heap = {} /\ lock = NULL
  /\ rd = [r \in Reader |-> Idle]
  /\ reads = [r \in Reader |-> 0]

Goto(r, l) == rd' = [rd EXCEPT ![r].pc = l]

Return(r, v) == rd' = [rd EXCEPT ![r].pc = "done", ![r].ret = v]

(***************************************************************************)
(* dso__data_read_offset and data_file_size.                               *)
(***************************************************************************)
dso__data_read_offset(r, q) ==
  /\ rd[r].pc \in {"idle", "done"} /\ reads[r] < MaxReads
  /\ reads' = [reads EXCEPT ![r] = @ + 1]
  /\ rd' = [rd EXCEPT ![r] = [Idle EXCEPT
              !.pc = IF status = "ERROR" THEN "done" ELSE "file_size",
              !.ret = IF status = "ERROR" THEN -1 ELSE 0,
              !.req = q, !.offset = q[1], !.size = q[2]]]
  /\ UNCHANGED <<fd, nfd, status, file_size, tree, heap, lock>>

data_file_size(r) ==
  /\ rd[r].pc = "file_size"
  /\ IF file_size # 0 THEN Goto(r, "check")
     ELSE IF status = "ERROR" THEN Return(r, -1)
     ELSE Goto(r, IF fd THEN "fstat" ELSE "open")
  /\ UNCHANGED <<fd, nfd, status, file_size, tree, heap, lock, reads>>

\* try_to_open_dso after its test of data.fd.  A file that cannot be opened
\* or is not regular fails an assert and ends the process.
try_to_open_dso(r) ==
  /\ rd[r].pc = "open"
  /\ fd' = TRUE /\ nfd' = nfd + 1 /\ status' = "OK"
  /\ Goto(r, "fstat")
  /\ UNCHANGED <<file_size, tree, heap, lock, reads>>

fstat(r) ==
  /\ rd[r].pc = "fstat"
  /\ \/ /\ file_size' = FileSize
        /\ Goto(r, "check")
        /\ UNCHANGED status
     \/ /\ status' = "ERROR"
        /\ Return(r, -1)
        /\ UNCHANGED file_size
  /\ UNCHANGED <<fd, nfd, tree, heap, lock, reads>>

data_read_offset(r) ==
  /\ rd[r].pc = "check"
  /\ LET o == rd[r].offset
     IN  IF o > file_size \/ (o + rd[r].size) % U64 < o
         THEN Return(r, -1) ELSE Goto(r, "find")
  /\ UNCHANGED <<fd, nfd, status, file_size, tree, heap, lock, reads>>

(***************************************************************************)
(* dso_cache_read: one iteration of cached_read's loop.                    *)
(***************************************************************************)
Covers(c, o) == c.offset <= o /\ o < c.offset + DSO__DATA_CACHE_SIZE

\* Some other reader is rebalancing the tree that dso_cache__find walks
\* without the lock: a rotation, which takes three nodes, can hide a subtree.
Rebalancing(r) ==
  /\ Cardinality(tree) > 2
  /\ \E s \in Reader \ {r} : rd[s].pc = "unlock" /\ rd[s].cache = rd[s].new

dso_cache__find(r) ==
  /\ rd[r].pc = "find"
  /\ \/ \E c \in tree :
          /\ Covers(c, rd[r].offset)
          /\ rd' = [rd EXCEPT ![r].pc = "memcpy", ![r].cache = c, ![r].miss = FALSE]
     \/ /\ Rebalancing(r) \/ \A c \in tree : ~Covers(c, rd[r].offset)
        /\ rd' = [rd EXCEPT ![r].pc = "pread", ![r].cache = NULL, ![r].miss = TRUE]
  /\ UNCHANGED <<fd, nfd, status, file_size, tree, heap, lock, reads>>

\* offset & DSO__DATA_CACHE_MASK
CacheOffset(o) == o - (o % DSO__DATA_CACHE_SIZE)

\* The chunk is allocated and filled; a result of 0 or an error frees it and
\* leaves cached_read (0 is end of file: return what we have).
dso_cache__read(r) ==
  /\ rd[r].pc = "pread"
  /\ LET co == CacheOffset(rd[r].offset)
         n  == IF co < FileSize THEN Min2(DSO__DATA_CACHE_SIZE, FileSize - co) ELSE 0
     IN  \/ /\ n > 0
            /\ \E a \in Malloc[{c.addr : c \in heap}] :
                 LET c == [addr |-> a, offset |-> co, size |-> n]
                 IN  /\ heap' = heap \cup {c}
                     /\ rd' = [rd EXCEPT ![r].pc = "lock", ![r].new = c]
         \/ n = 0 /\ Return(r, rd[r].got) /\ UNCHANGED heap
         \/ Return(r, -1) /\ UNCHANGED heap
  /\ UNCHANGED <<fd, nfd, status, file_size, tree, lock, reads>>

\* Mutant: the new chunk is linked without looking again for another.
Mutant_dso_cache__insert(r) ==
  /\ rd[r].pc = "lock" /\ lock = NULL
  /\ lock' = r
  /\ tree' = tree \cup {rd[r].new}
  /\ rd' = [rd EXCEPT ![r].pc = "unlock", ![r].cache = rd[r].new]
  /\ UNCHANGED <<fd, nfd, status, file_size, heap, reads>>

\* dso_cache__insert: take the lock, then either find a chunk that covers the
\* offset or link the new one; rebalancing lasts until the unlock.
dso_cache__insert(r) ==
  /\ rd[r].pc = "lock" /\ lock = NULL
  /\ lock' = r
  /\ \/ \E c \in tree :
          /\ Covers(c, rd[r].new.offset)
          /\ rd' = [rd EXCEPT ![r].pc = "unlock", ![r].cache = c]
          /\ UNCHANGED tree
     \/ /\ \A c \in tree : ~Covers(c, rd[r].new.offset)
        /\ tree' = tree \cup {rd[r].new}
        /\ rd' = [rd EXCEPT ![r].pc = "unlock", ![r].cache = rd[r].new]
  /\ UNCHANGED <<fd, nfd, status, file_size, heap, reads>>

\* The chunk of a reader that lost the race.
Loser(r) == IF rd[r].cache = rd[r].new THEN {} ELSE {rd[r].new}

\* Mutant: the lock is kept.
Mutant_insert_unlock(r) ==
  /\ rd[r].pc = "unlock" /\ lock = r
  /\ heap' = heap \ Loser(r)
  /\ rd' = [rd EXCEPT ![r].pc = "memcpy", ![r].new = NULL]
  /\ UNCHANGED <<fd, nfd, status, file_size, tree, lock, reads>>

\* Mutant: the loser frees its chunk and does not switch to the other.
Mutant_lose_the_race(r) ==
  /\ rd[r].pc = "unlock" /\ lock = r
  /\ lock' = NULL /\ heap' = heap \ Loser(r)
  /\ rd' = [rd EXCEPT ![r].pc = "memcpy", ![r].cache = rd[r].new, ![r].new = NULL]
  /\ UNCHANGED <<fd, nfd, status, file_size, tree, reads>>

\* The unlock, and the free of the loser's own chunk, which was never linked.
insert_unlock(r) ==
  /\ rd[r].pc = "unlock" /\ lock = r
  /\ lock' = NULL /\ heap' = heap \ Loser(r)
  /\ rd' = [rd EXCEPT ![r].pc = "memcpy", ![r].new = NULL]
  /\ UNCHANGED <<fd, nfd, status, file_size, tree, reads>>

\* Mutant: the place of the offset in the chunk is ignored.
Mutant_CacheSize_whole(c, o, n) == Min2(c.size, n)

\* Mutant: the rest of the chunk is copied whatever was asked for.
Mutant_CacheSize_rest(c, o, n) == (c.size - (o - c.offset)) % U64

\* Bytes that dso_cache__memcpy copies: the subtraction is unsigned.
CacheSize(c, o, n) == Min2((c.size - (o - c.offset)) % U64, n)

\* Mutant: freed after every miss.
Mutant_FreedAfter(c, ret, miss) == IF miss THEN {c} ELSE {}

\* What dso_cache__read frees after a copy of ret bytes from linked chunk c.
FreedAfter(c, ret, miss) == IF miss /\ ret <= 0 THEN {c} ELSE {}

\* The copy, the `ret <= 0' test of dso_cache__read, and the bookkeeping of
\* cached_read.
dso_cache__memcpy(r) ==
  /\ rd[r].pc = "memcpy"
  /\ LET f   == rd[r]
         ret == CacheSize(f.cache, f.offset, f.size)
         end == ret = 0 \/ ret = f.size
     IN  /\ heap' = heap \ FreedAfter(f.cache, ret, f.miss)
         /\ rd' = [rd EXCEPT ![r] =
              [f EXCEPT !.pc = IF end THEN "done" ELSE "find",
                        !.ret = IF end THEN f.got + ret ELSE 0,
                        !.got = f.got + ret, !.offset = f.offset + ret,
                        !.size = f.size - ret, !.cache = NULL,
                        !.good = /\ f.good /\ f.cache \in heap
                                 /\ (f.offset - f.cache.offset) + ret <= f.cache.size]]
  /\ UNCHANGED <<fd, nfd, status, file_size, tree, lock, reads>>

Step(r) ==
  \/ data_file_size(r) \/ try_to_open_dso(r) \/ fstat(r) \/ data_read_offset(r)
  \/ dso_cache__find(r) \/ dso_cache__read(r) \/ dso_cache__insert(r)
  \/ insert_unlock(r) \/ dso_cache__memcpy(r)

Next == \E r \in Reader : Step(r) \/ \E q \in Request : dso__data_read_offset(r, q)

Spec == Init /\ [][Next]_vars

\* A thread that has called the library keeps running until the call returns.
FairSpec == Spec /\ \A r \in Reader : WF_vars(Step(r))
-----------------------------------------------------------------------------
(***************************************************************************)
(* Properties.                                                             *)
(***************************************************************************)
Pc == {"idle", "file_size", "open", "fstat", "check", "find", "pread", "lock",
       "unlock", "memcpy", "done"}

Frame == [pc : Pc, req : Request \cup {NULL}, offset : Nat, size : Nat, got : Nat,
          good : BOOLEAN, new : Chunk \cup {NULL}, cache : Chunk \cup {NULL},
          miss : BOOLEAN, ret : Int]

\* Every variable has the type of the field or local it stands for.
TypeOK ==
  /\ fd \in BOOLEAN /\ nfd \in Nat
  /\ status \in {"UNKNOWN", "OK", "ERROR"} /\ file_size \in Nat
  /\ tree \subseteq Chunk /\ heap \subseteq Chunk
  /\ lock \in Reader \cup {NULL}
  /\ rd \in [Reader -> Frame] /\ reads \in [Reader -> Nat]

\* A chunk that lookups can reach is never freed: the `ret <= 0' path of
\* dso_cache__read frees no linked chunk when a read comes to a copy of no
\* bytes at end of file. dso.c: "Any read to already cached data is served by
\* cached data".
LinkedChunksLive == tree \subseteq heap

Private == {rd[r].new : r \in {s \in Reader : rd[s].new # NULL}}

\* However readers race on a miss, every byte of the file is in one linked
\* chunk at most, and every chunk that was allocated is linked, or is the chunk
\* a reader is about to insert, or has been freed: the loser's is not leaked,
\* and no chunk is freed that is linked or that another reader still holds.
ChunksAccountedFor ==
  /\ \A c, d \in tree : Covers(c, d.offset) => c = d
  /\ heap = tree \cup Private

\* A read that succeeds delivers exactly the file's bytes of its range, cut at
\* end of file, assembled from several chunks that are in memory. (Of several
\* readers this is so inside the file; one that misses the short chunk at its
\* end during a rotation comes to the free of dso.c:379.)
ReadsReturnFileBytes ==
  \A r \in Reader : rd[r].pc = "done" /\ rd[r].ret >= 0 =>
    /\ rd[r].ret = Min2(rd[r].req[2], FileSize - rd[r].req[1])
    /\ rd[r].good

\* The copy is always made from a linked chunk that covers the offset: the
\* loser of a race has switched to the winner's chunk before it copies.
ServedByCache ==
  \A r \in Reader : rd[r].pc = "memcpy" =>
    rd[r].cache \in tree /\ Covers(rd[r].cache, rd[r].offset) /\ rd[r].new = NULL

\* A reader's call as its caller sees it; Garbage stands for bytes that are not
\* the file's.
Garbage == -2
View(f) == [state |-> IF f.pc \in {"idle", "done"} THEN f.pc ELSE "busy",
            req   |-> f.req,
            ret   |-> IF f.pc # "done" THEN 0
                      ELSE IF f.ret >= 0 /\ ~f.good THEN Garbage ELSE f.ret]

\* The cache, its lock and its unlocked lookups implement plain reads of the
\* file: no step of one reader is seen by another, and an answer, put together
\* from several chunks, is the file's.
F == INSTANCE FileReads WITH call <- [r \in Reader |-> View(rd[r])]
ImplementsFileReads == F!Spec

\* Every read returns: the loop of cached_read advances or stops, and nobody
\* keeps the lock.
ReadsReturn == \A r \in Reader : rd[r].pc = "find" ~> rd[r].pc = "done"
=============================================================================
