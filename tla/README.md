# A TLA+ verification of libdw-bpf

libdw-bpf unwinds user stacks outside the traced process. A BPF program copies
the registers and the top of the stack of a thread to a perf buffer; a tracing
program takes such a context, and the library turns it into a call chain with
libunwind, which reads memory through callbacks: from the captured stack, or
from the files that are mapped into the traced process.

The modules here model the BPF program, the library and the examples that drive
it at the level at which they can go wrong: reference counts and caches,
pointers of a red-black tree, arithmetic on addresses, threads around a queue,
rings and hashes that fill up. TLC checks
them on small instances; TLAPS proves the most important invariants for every
value of the constants. Paths below are relative to the repository's root.

## 1. Inventory

| part | state | operations | interacts with |
|---|---|---|---|
| machine and threads (`src/machine.c`, `src/thread.c`) | 256 buckets, each with a tree of threads, `last_match`, `nr`, a dead list; per thread `tgid`, `maps`, `addr_space`, `refcnt` | find or create a thread (and its leader), change its tgid, remove, delete the machine | maps, libunwind |
| maps (`src/map.c`) | per address space a tree and a list of maps, a count | new, get, put, insert, find | dsos, tree |
| dso list (`src/dso.c`) | list and name tree, a count per dso | find or create, get, put, purge | maps |
| dso data (`src/dso.c`) | fd, status, file size, tree of 4 KiB chunks, lock | read at an offset, find, insert, copy | file system, tree |
| red-black tree (`src/rbtree*.{c,h}`) | root, children, parent, colour | insert, erase, first/last/next/prev | all the above |
| events (`src/event.c`) | none of its own | `thread_map`, `resolve_callchain`, `dl_iterate_phdr` | machine, unwinding |
| unwinding (`src/unwind_libunwind.c`, `src/symbol_elf.c`, `src/ptrace.h`) | caller's `stacktrace`, `eh_frame_hdr_offset` | `get_entries`; callbacks `access_mem`, `find_proc_info`, `access_reg` | libunwind, maps, dso data |
| tracing program (`examples/syscall_parallel.cc`, `queue.h`, `stoppable.h`) | queue, mutex, condition variable, stop flags | poll, push, pop, resolve, SIGINT | perf buffer, library |
| capture (`bpf/ebpf_get_unwind_ctx.c`, a copy in each example) | a hash entry per capture in progress, a perf ring per cpu | capture, submit, delete; the reader's callback | kernel, bcc, tracing program |

What makes it hard: a thread is created while the creation of another is in
progress (its leader); address spaces are shared, and exchanged when a tid
turns up in another process; one storage is a tree node first and a list node
later; lookups in the chunk cache take no lock; chunks at end of file are
short; addresses and offsets are unsigned and wrap; `st->depth` is capacity and
result at once; a worker sleeps while somebody else decides to stop; it follows
a pointer into a ring that the kernel goes on filling.

What would make each part correct: counts equal the references that exist and
deletion frees the rest (machine, maps, dsos); caches only name live objects
(`last_match`, chunks); a read gives the file's bytes (dso data); the tree
keeps order and balance and lookups find what is there; unwinding reads inside
the capture, writes inside the caller's array and reports this call's frames;
the queue loses, duplicates and reorders nothing and a queued context is
resolved; a context's stack bytes are where its registers say, and a worker
reads the context it was given.

## 2. Modules

| module | models | lines of code |
|---|---|---|
| `Machine` | machine, threads, maps' and dsos' references, events | `machine.c`, `thread.c`, `map.c`, `event.c`, `refcount.h`, lists of `dso.c` |
| `DsoCache` | reading a dso's file through the chunk cache, concurrently | `dso.c` |
| `RbTree` | the tree's pointers and colours, `maps__find` | `rbtree.c`, `rbtree_augmented.h`, `rbtree.h`, `map.c` |
| `FileReads` | what the chunk cache promises to its readers (abstract) | `dso.c` |
| `Unwind` | `get_entries`, the callbacks, the section lookup, the register tables | `unwind_libunwind.c`, `map.h`, `symbol_elf.c`, `ptrace.h` |
| `Capture` | `get_unwind_ctx` on every cpu, hash, rings, the handler and the pointers it queues | `ebpf_get_unwind_ctx.c`, `bpf.patch`, `syscall.cc`, `uprobe.cc`, `pwrite64_event.cc` |
| `EventQueue` | what the queue promises (abstract) | `queue.h` |
| `Pipeline` | poll thread, workers, queue, signal | `syscall_parallel.cc`, `queue.h`, `stoppable.h` |
| `MachineProofs`, `AddressSpaceProofs`, `DsoRefsProofs`, `DsoCacheProofs`, `UnwindProofs`, `PipelineProofs`, `CaptureProofs`, `RbTreeProofs` | theorems | |
| `MC...` | instances for TLC | |

`PROJECT.json` names for every definition the lines it translates. Definitions
called `Mutant_...` stand next to the definition they damage, the way a
plausible mistake would; substituting one makes a named property fail.

### Machine

The C heap is one record `m`; functions of the source are operators from heap
to heap, so that the nesting of calls is the nesting of operators. A thread is
its tid: the table never holds two with one tid and none is removed before
`machine__delete`. A machine is used by one thread (the semaphores do nothing
while `singlethreaded` is true, and nothing clears it), so a call is one step,
except for two loops whose iterations are steps: the lines of the maps file and
the threads that deletion removes. `leak` is a history variable: references
handed out that no code puts. A failed `assert` ends the behaviour (`abort`).
`findnew_leader` is the nested call of `__machine__findnew_thread`; it cannot
nest further, which its comment explains. Abstracted: names, lines that are not
executable, allocation failure (`xmalloc` ends the process).

### DsoCache

Each reader has a record of locals with a program counter; a step is what
happens between two accesses to shared state. `dso_cache__find` runs without
the lock: while another reader's insertion is rotating a tree of three or more
chunks, the lookup may miss a chunk that is there (the outcome of the data race
that the build can produce). A chunk is an address from the allocator `Malloc`
(any function that gives an address not in use; a freed one may come again) with
its offset and size, so that the loser's chunk and the winner's are two chunks
even though they hold the same bytes; `heap` is the set of chunks allocated and
not freed. `good` records whether the bytes copied were the file's and were
copied from a chunk that is still in memory. A file that cannot be opened ends
the process and is not a step.

`FileReads` is the promise: a call is answered once, with an error or with the
bytes of its range that the file has. `DsoCache` refines it with the mapping
`View`, which shows of a reader only the call, its request and its answer.

### RbTree

One step per loop iteration; left and right mirror images are one definition
with a side. `arg` is the node inserted or removed, `node` and `up` the locals
of the loop. A removed node is cleared when it is unlinked; its stale children
are forgotten, since `rb_link_node` overwrites them before they are read.

### Unwind

libunwind is external: while `unw_step` runs it may call back with any address,
then says whether there is a frame. After a step that found one, `unw_get_reg` is
assumed to write the slot it is given: the code ignores its result
(`unwind_libunwind.c:483`), so a call that failed would leave what an earlier
one stored. Words have a provenance (an offset of the
stack, an offset in a dso) instead of contents. `ips` records for each slot
which call wrote it. The caller is the examples' loop: one `stacktrace`, exit
on error. A file is its sequence of section headers (`Section`), through which
`elf_section_by_name` looks for `.eh_frame_hdr`. Registers go through three
orders: libunwind's numbers (`unw_regs`, external), the enum that
`LIBUNWIND__ARCH_REG_ID` answers with, and the offsets in `struct pt_regs`; a
register that is not among them gives `-EINVAL`, which as an index fails the
assert of `reg_value`.

### Capture

Each cpu runs one `get_unwind_ctx` at a time, in four steps: up to
`lookup_or_init`, the copies into the hash entry, `perf_submit`, `delete`; other
cpus, the poll thread and the workers run in between. Every return of the
source is there: no user registers, an unreadable stack pointer, a full hash
(nothing is left behind), a failed copy of the registers (the entry stays).
`prog` is the example that runs; they differ in where the registers come from,
in the 16 bytes a kprobe subtracts from the stack pointer, and in the handler's
filter. A ring has `RingSlots` records; `sent` is the history of a cpu's
submissions and serves as `data_head`. The handler pushes a pointer, i.e. a cpu
and a position; what a worker reads through it is whatever the slot then holds.
The queue is `EventQueue`, so the module composes with `Pipeline` through the
abstract specification that `Pipeline` is shown to implement.
`bpf_probe_read_stack` (the kernel patch) returns the number of bytes it could
not copy and is never negative, so the test of its result never fires.

### Pipeline and EventQueue

A context is its number. `push` (to the unlock), `notify_one`, `pop` (lock,
test, wait) and the unlocked `push_back` of the workers' registration are steps
of their own; spurious wakeups happen. The first SIGINT sets the flags of the
threads registered so far; a second one sets a promise twice, which ends the
process. `EventQueue` is a fifo with a history of takes; `Pipeline` refines it
with `contents <- queue`.

## 3. Runs

Passing runs:

| run | instance | shows |
|---|---|---|
| `machine` | 3 tids in 2 buckets, 2 dsos, 4 calls, 2 maps lines | exact counts of threads, address spaces and dsos; `last_match` linked; deletion frees all that is not leaked; mappings are never lost before deletion |
| `dso_cache_one` | 1 reader, 3 reads, file of 10 bytes in chunks of 4, the end of file included | file bytes, live chunks, termination, for ranges that begin before end of file |
| `dso_cache_two` | 2 readers, 2 reads each, ranges inside the file | refinement of `FileReads` under races, every copy from a linked chunk that covers it, one linked chunk for each piece of the file, the loser's chunk freed and nothing else freed or leaked, termination |
| `rbtree` | 10 maps, one of them there twice | red-black properties between operations, the comments' loop invariants inside them; order, `maps__find`, first/last/next/prev, only the argument enters or leaves, termination |
| `unwind` | 5-bit addresses, 2-byte words, 3 maps, 2 files | reads inside the capture, fresh frames, table addresses that read back, each register from its own field |
| `capture` | 2 cpus, rings of 2 contexts, a hash of 2 entries, 4 probes | the hash holds captures in progress and failed ones only, and full of the latter it ends tracing; stack bytes begin at `uregs.sp`; a pointer is good until the ring has gone round |
| `pipeline` | 2 workers, 3 contexts, 2 signals | refinement of `EventQueue`, no lost wakeup, each context in one place, a queued context is resolved |

Runs in which the code contradicts its own text:

| run | text | what happens |
|---|---|---|
| `machine_tgid_assert` | assert in `machine__update_thread_tgid` | a leader with maps reappears under another tgid: abort |
| `machine_release` | README: `machine__delete` releases resources | `resolve_callchain` never puts its thread |
| `machine_sharing` | README: threads of a process share the address space of the tgid | a tid that leads its own process again keeps the address space of the process it was a thread of |
| `dso_cache_eof` | comment of `cached_read` | a read at exactly end of file frees the linked short chunk |
| `pipeline_ctrl_c` | "hit Ctrl-C to terminate" | a worker asleep in `pop` is never woken |

`machine_tgid_assert` and `machine_sharing` need the kernel to recycle a tid
while the machine still knows its former owner. In the latter, thread 1 joins
process 2, tid 2 turns up as a thread of process 3 and takes 3's address space;
when it is a leader again, `machine__update_thread_tgid` returns early
(`machine.c:154-155`), and the maps `thread_map` reads for process 2 go to 3's
address space, which thread 1 does not have.

Five more observations follow from the models and have no run of their own.

* A capture that fails after `lookup_or_init` (`ebpf_get_unwind_ctx.c:73-74`)
  leaves its entry in the hash for good. `EntriesAreAccountedFor` says these are
  the only ones; `LeaksEndTracing` what becomes of the program when there are
  enough of them.
* A worker that lags by more than a ring reads another context than its own, or
  one that is being written (`StaleOnlyAfterOverrun` is tight: it fails when
  `RingSlots` is replaced by `RingSlots + 1`).
* References that are never put make an `atomic_uint` wrap after 2^32 contexts
  of one thread, and the assert in `__machine__remove_thread` then fails: with a
  small `RefMod`, `NoRefcountError` is violated.
* `dso__delete` is empty, so dsos, their chunks and their files outlive the
  machine, although the comment in `__dsos__add` speaks of "end of life".
* Two readers of one dso that go past end of file reach the free of
  `dso.c:379` too, when the lookup misses the short chunk during a rotation. The
  examples give each worker its own machine; the lock in `dso_cache__insert` is
  for programs that do not.

### Bounds

* Machine: three tids are a leader, a second leader and a thread that moves
  between them, two of which collide in a bucket; four calls suffice for
  create, map, move and move back. `RefMod = 64` is out of reach of four calls.
* DsoCache: 10 bytes in chunks of 4 give two full chunks and a short one;
  the two readers can each hold a chunk beside the three that may be linked, and
  the allocator gives the lowest free address, so that the address of a freed
  chunk is used again at once (the proofs are for any allocator).
  `U64 = 64` is far from the offsets, as 2^64 is from file offsets, but a
  subtraction below zero wraps to a large number.
* RbTree: ten nodes reach black height 3 and every case of both fix-up loops,
  with their repetition one level up; some of the maps are adjacent, and the
  repeated one is what a second `thread_map` of a process gives.
* Unwind: 32 addresses, with stack pointers that put the capture below, at and
  across the wrap-around; maps with the header behind and in front of `pgoff`.
* Capture: a hash of two is filled by two failed captures, by two captures in
  progress or by one of each; four probes send a ring of two round twice on one
  cpu. The stack ends one byte above the stack pointer, so that copies are
  short. A red zone of 1 stands for 16.
* Pipeline: two workers are one that is notified and one that takes the lock
  first; with three contexts both sleep and wake more than once. For more
  workers there are the proofs.

### Fairness and deadlock

`DsoCache!FairSpec`: weak fairness of each reader's steps; a reader holds no
resource when it blocks except the mutex, which it releases in its next step.
`RbTree!FairSpec`: an operation in progress goes on. `Pipeline!FairSpec`: weak
fairness of the poll thread and of each worker, i.e. the operating system runs
what can run; nothing is assumed of probes, signals or spurious wakeups. Runs
have `CHECK_DEADLOCK FALSE` where the program really may stop (bounded inputs,
abort, exit, a bounded number of probes); RbTree's run checks deadlock.

## 4. Proofs

All proofs are checked by TLAPS with SMT, Zenon and LS4.

**MachineProofs** (any finite set of integer tids, any table size, any bounds
with `NoWrap`: `MaxCalls + MaxMaps + 3 < RefMod`, i.e. fewer references than
the count can hold). `ThreadRefsExact` is not inductive: inside a handler a
thread may be linked without maps and references are in hand. The predicate
`Table(s, held, bare, bound)` says what holds of a heap in the middle of a
handler: `held` are the references the code holds, `bare` the threads whose
maps are yet to come, `bound` limits the leaked references. One lemma per
function of the source says how it changes `held` and `bare`; a handler's lemma
chains them. Between handlers nothing is held and nothing is bare (`Rest`), and
`MachineInv` adds the types, the counters' bounds and where threads can be
while the machine serves calls. From it: `MachineTypes`,
`ThreadCountsAreExact`, `LastMatchIsLinked`, `CountsNeverFail`. `NoWrap` is
needed: without it leaked references can bring a count round to zero.

**AddressSpaceProofs** (the same, and `ThreadsFit`: `maps->refcnt` can count as
many users as there are tids). `MapsRefsExact` compares a count with the
cardinality of a set of threads that handlers change two at a time. `Spaces(s,
bare)` says of a heap inside a handler that every count is that cardinality,
that threads without maps have a fresh space and that only used spaces have
entries; `Access` that a freed thread has no libunwind space. The lemmas follow
the functions of the source, as in `MachineProofs`, whose `Table` they use;
`Kept` and `Grows` carry what a function leaves of the mappings. `SpacesInv`
adds what deletion needs: a thread on the dead list has a reference left. From
it: `MapCountsAreExact`, `DeletionReleases`, `MappingsAreKept`.

**DsoRefsProofs** (the same hypotheses). `DsoRefsExact` compares a dso's count
with the number of entries, over all address spaces, that name it. `mmap` adds
one such entry, but `maps__delete` removes a whole address space and puts every
dso it names once per entry. `Held(s, lines)` is the inductive form: the counts
are exact; an entry's own count is 1, so that a put of the entry frees it and
reaches its dso; a named dso is on the machine's list until the machine is
freed, so that its last reference is never an entry's; and after `lines` lines
of maps no dso is named, and no space filled, more than `lines` times, so that
no count wraps. The lemmas say for each function of the source which of the
dsos and entries it leaves alone (`SameDsos`) and what it does to the others.
From it: `DsoCountsAreExact`.

**DsoCacheProofs** (any readers, file, chunk size, requests, allocator).
`CacheInv`: linked chunks are aligned pieces of the file, no two of the same
piece; a reader's private chunk, the chunk it copies from and the lock agree
with its program counter. This gives `TypeCorrect`, `CopiesAreServedByCache`,
`OneCopyOfEachByte`. Under `InsideFileRequests` (`q[1] + q[2] <= FileSize`)
`FileInv` adds that an unfinished read has something left to copy, so that a
copy is never empty and frees nothing (`ReadsInv`), and the account of the
chunks (`HeapInv`): those in memory are the linked ones and the readers' own,
each reader's a different one, and one that is waiting for the lock or has lost
is not linked. Freshness of the allocator's address makes a new chunk differ
from all of them. From it: `CacheStaysLive`, `NoChunkIsLost`, `ReadsAreTheFile`. With it every step of a reader is a step
of `FileReads` or leaves `View` as it was: `CacheRefinesFile`. Without the
hypothesis `LinkedChunksLive` fails, as the run `dso_cache_eof` shows.

**UnwindProofs** (any address width, maps, encodings, depth). `UnwindInv`:
during a step at least one slot is filled, all filled slots were filled by this
call and the index is at most `depth`. With arithmetic lemmas on wrapping
addition: `WritesStayInArray`, `StackReadsAreCaptured`, `FramesAreFresh`,
`TablesReadBack`, `RegistersMatch`, `DepthShrinks`; `HeaderFits` shows that
`dw_read`'s end test never fires for two values of any encoding.

**PipelineProofs** (any finite set of workers, any contexts and signals).
`PlaceInv` adds to the types who holds a context between the queue's
operations: `OnePlace`. For `NoLostWakeup` the proof counts the workers on
their way to the queue (`Near`) and the wakeup a push still owes (`Owed`)
against the length of the queue, action by action. `QueueRefinement` maps
`push` and `pop` to the fifo's steps and all others to stuttering.

**CaptureProofs** (any cpus, hash and ring sizes, stack bounds). `CaptureInv`:
keys in the hash are not younger than the clock, so a new one is new; a stack
pointer to be adjusted is one of the traced thread's; the ring holds the last
`RingSlots` submissions, those not consumed among them. An arithmetic lemma
says that positions less than a ring apart have different slots. From it:
`HashAccounting`, `CapturedWindow`, `PointerLifetime`, `LeaksAreFatal`.

**RbTreeProofs** (any finite set of nodes, any intervals). What the lookups
return, in every tree that satisfies the checked invariants `PointersAgree` and
`InOrder`: `FindIsCorrect` (`FindsTheMap`, for maps as in `MapsDisjoint`) and
`StepsAreNeighbours` (`StepIsNeighbour`). The walks are recursive functions, so
first they must have values at all: `LoopHasResult` builds a solution of their
equations from what is reachable, whatever the pointers are. `Shape` and
`Ordered` restate the two invariants as conditions on a node and its children;
induction over subtrees is the existence of a minimal subtree among those that
violate a claim (`MinimalSet`, `SubtreeInduction`, `TopDown`). A step down ends
at the last node of a subtree (`EdgeIsLast`), from which the way up leads back
(`UpIsBack`); a node outside a subtree is on one side of all of it
(`OutsideIsAside`), so nothing lies between. The theorems are about states: that
every state of the program has such a tree is what the run `rbtree` checks.

**Only model-checked**: liveness (`ReadsReturn`, `OperationsEnd`,
`QueuedIsResolved`), which is out of the prover's reach. Of RbTree, that
insertion and removal keep `PointersAgree`, `InOrder`, `RedBlack` and the two
loop invariants, and `OnlyArgMoves`: the removal's rotations dereference a
sibling that exists only because of the black heights, so that pointers, order
and colours form one inductive invariant, which twenty cases of pointer
assignments preserve. The obligations are first-order and can be discharged one
by one, but a module with all of them is too large for the provers' front end.

## 5. Not modelled

* libunwind, libelf, bcc and the kernel: external; what the code assumes of
  them is nondeterminism or a constant. In particular nothing is said about
  which frames libunwind finds, nor about libunwind's own cache, which
  `thread__set_comm` flushes when the name stays the same (`thread.c:99`).
* `list.h`, `src/queue.h`, `stdatomic.h`, `utility.c`: macros over a list, an
  atomic, an allocation; the models have sequences, sets and numbers instead.
  `rwsem.c`: its operations do nothing while `singlethreaded` is true, and
  nothing clears it.
* `rb_replace_node`, postorder walks, `map__next`: no caller; `maps__first`
  only as the test `maps__empty`.
* The name tree of dsos: a dso is its long name; a duplicate cannot arise since
  every insertion follows a failed lookup.
* Parsing a line of the maps file (`sscanf`), names of threads and files,
  symbol lookup, output: data that no property tells apart.
* Files that cannot be opened: the assert at `dso.c:198` ends the process, and
  no state follows.
* The set-up and tear-down of the BPF program in each `main`, and the bodies of
  the other examples' threads, which are those of `syscall_parallel.cc` with
  one worker.

## 6. What is left

The parts that remain outside the models are the external ones above. Two
extensions would need a model of something that is not in the repository: how
the executable lines of `/proc/<pid>/maps` relate to the segment that holds
`.eh_frame_hdr` (`unwind_libunwind.c:272`), which depends on the linker, and how
mappings change between two readings of that file, which is the only way to
maps that overlap in part. A proof that insertion and removal keep the tree's
invariants would complete `RbTreeProofs`.
