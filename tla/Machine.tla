------------------------------- MODULE Machine -------------------------------
(***************************************************************************)
(* The object graph behind a machine_t: the table of threads, the maps     *)
(* (address space) a thread shares with its leader, the map entries of an  *)
(* address space and the dsos they name, all kept alive by reference       *)
(* counts.  Sources: machine.c, thread.c, map.c, event.c, dso.c (dsos) and *)
(* refcount.h.                                                             *)
(*                                                                         *)
(* A machine is used by one thread (every rwsem is a no-op while           *)
(* `singlethreaded' is true, and nothing clears it), so a handler is one   *)
(* step, except for the two loops: the lines of /proc/<tgid>/task/<tgid>/  *)
(* maps and the threads machine__delete removes, whose iterations are      *)
(* steps that the program counter `pc' puts in order.                      *)
(*                                                                         *)
(* The C heap is the record m.  A thread object is named by its tid (the   *)
(* table never holds two threads with one tid, and none is removed before  *)
(* machine__delete), a maps object by the tid of the leader whose creation *)
(* allocated it, a dso by its long name.  Functions of the source become   *)
(* operators from a heap s to the heap they leave.                         *)
(***************************************************************************)
EXTENDS Integers, Sequences, FiniteSets

CONSTANTS
  Tid,                  \* the tids and tgids that occur (pid_t)
  Dso,                  \* the file names that occur in maps lines
  THREADS__TABLE_SIZE,  \* buckets of the thread table (256 in machine.h)
  NULL,                 \* the null pointer
  RefMod,               \* refcounts are atomic_uint: arithmetic is modulo RefMod
  MaxCalls,             \* bound: library calls made on the machine
  MaxMaps               \* bound: executable maps lines read

ASSUME MachineAssumption ==
  /\ IsFiniteSet(Tid) /\ Tid \subseteq Int
  /\ THREADS__TABLE_SIZE \in Nat \ {0}
  /\ RefMod \in Nat \ {0}
  /\ MaxCalls \in Nat /\ MaxMaps \in Nat
  /\ NULL \notin Tid /\ NULL \notin Tid \X Tid

VARIABLES
  m,      \* the heap
  pc,     \* what the program is doing: idle, reading maps lines, deleting
  arg,    \* <<tgid, tid>> of the thread_map call in progress
  calls,  \* library calls made so far
  lines   \* executable maps lines read so far

vars == <<m, pc, arg, calls, lines>>

Bucket == 0 .. (THREADS__TABLE_SIZE - 1)

\* Where a thread object is: not allocated, linked in its bucket's rbtree, on
\* the bucket's dead list, or freed.
Where == {"none", "tree", "dead", "freed"}

\* Why the process stopped: a failed assert() of the source, or (corrupt,
\* null_flush) an operation on memory that is not what the code takes it for.
Abort == {"no", "tgid_change", "insert_map", "refcnt_zero", "corrupt", "null_flush"}

MapEntry == [dso : Dso, refs : Nat]

(***************************************************************************)
(* machine__new: an empty table and no dsos.                               *)
(***************************************************************************)
machine__new ==
  [where   |-> [t \in Tid |-> "none"],
   tgid    |-> [t \in Tid |-> t],
   refs    |-> [t \in Tid |-> 0],        \* thread->refcnt
   maps    |-> [t \in Tid |-> NULL],     \* thread->maps
   aspace  |-> [t \in Tid |-> FALSE],    \* thread->addr_space # NULL
   ulops   |-> [t \in Tid |-> FALSE],    \* thread->ulops # NULL
   last    |-> [b \in Bucket |-> NULL],  \* threads->last_match
   nr      |-> [b \in Bucket |-> 0],     \* threads->nr
   mrefs   |-> [t \in Tid |-> 0],        \* maps->refcnt
   ments   |-> [t \in Tid |-> <<>>],     \* maps->head, in insertion order
   drefs   |-> [d \in Dso |-> 0],        \* dso->refcnt
   dlisted |-> [d \in Dso |-> FALSE],    \* linked in dsos->head and dsos->root
   leak    |-> [t \in Tid |-> 0],        \* ghost: references handed out and never put
   freed   |-> FALSE,                    \* free(machine) was reached
   abort   |-> "no"]

(***************************************************************************)
(* refcount.h                                                              *)
(***************************************************************************)
refcount_inc(n) == (n + 1) % RefMod
refcount_dec(n) == (n - 1) % RefMod

Stop(s, why) == [s EXCEPT !.abort = why]

(***************************************************************************)
(* dso.c: references and the list of dsos.                                 *)
(***************************************************************************)
dso__get(s, d) == [s EXCEPT !.drefs[d] = refcount_inc(@)]

\* The body of dso__delete is empty: the objects stay allocated.
dso__delete(s, dead) == s

\* n[d] dso__puts on every d; dso__delete for those whose last reference went.
dso__puts(s, n) ==
  LET s1 == [s EXCEPT !.drefs = [d \in Dso |-> (s.drefs[d] - n[d]) % RefMod]]
  IN  dso__delete(s1, {d \in Dso : n[d] > 0 /\ s1.drefs[d] = 0})

dso__put(s, d) == dso__puts(s, [e \in Dso |-> IF e = d THEN 1 ELSE 0])

\* dso__new (one reference), __dsos__add (the list's reference), dso__put.
dsos__addnew(s, d) ==
  dso__put(dso__get([s EXCEPT !.drefs[d] = 1, !.dlisted[d] = TRUE], d), d)

dsos__findnew(s, d) ==
  dso__get(IF s.dlisted[d] THEN s ELSE dsos__addnew(s, d), d)

(***************************************************************************)
(* map.c: an address space and its entries.                                *)
(***************************************************************************)
\* maps__new, stored in thread t's maps field by its caller.
maps__new(s, t) == [s EXCEPT !.mrefs[t] = 1, !.ments[t] = <<>>, !.maps[t] = t]

\* Mutant: the reference is not counted.
Mutant_maps__get(s, g) == s

maps__get(s, g) == [s EXCEPT !.mrefs[g] = refcount_inc(@)]

\* __maps__purge puts every entry; an entry whose last reference this is puts
\* its dso (map__exit).
maps__delete(s, g) ==
  LET dying(d) == {i \in DOMAIN s.ments[g] :
                     /\ s.ments[g][i].dso = d
                     /\ refcount_dec(s.ments[g][i].refs) = 0}
  IN  dso__puts([s EXCEPT !.ments[g] = <<>>],
                [d \in Dso |-> Cardinality(dying(d))])

maps__put(s, g) ==
  LET s1 == [s EXCEPT !.mrefs[g] = refcount_dec(@)]
  IN  IF s1.mrefs[g] = 0 THEN maps__delete(s1, g) ELSE s1

\* Mutant: the reference of machine__findnew_dso is kept.
Mutant_map__new(s, d) == dso__get(dsos__findnew(s, d), d)

\* map__new: the dso found or created, referenced by map__init, and the
\* reference of machine__findnew_dso put.  The map's own count starts at 1.
map__new(s, d) == dso__put(dso__get(dsos__findnew(s, d), d), d)

\* maps__insert takes a reference on the entry it links at the list's tail.
maps__insert(s, g, d) ==
  [s EXCEPT !.ments[g] = Append(@, [dso |-> d, refs |-> refcount_inc(1)])]

\* The caller's map__put on the entry it has just inserted.
map__put_inserted(s, g) ==
  [s EXCEPT !.ments[g][Len(s.ments[g])].refs = refcount_dec(@)]

(***************************************************************************)
(* unwind_libunwind.c: the libunwind address space of a thread.  ok says   *)
(* whether unw_create_addr_space succeeds.                                 *)
(***************************************************************************)
unwind__prepare_access(s, t, ok) ==
  IF s.aspace[t] THEN s
  ELSE [s EXCEPT !.ulops[t] = TRUE, !.aspace[t] = ok]

\* unw_flush_cache dereferences the address space.
unwind__flush_access(s, t) ==
  IF s.ulops[t] /\ ~s.aspace[t] THEN Stop(s, "null_flush") ELSE s

unwind__finish_access(s, t) ==
  IF s.ulops[t] THEN [s EXCEPT !.aspace[t] = FALSE] ELSE s

(***************************************************************************)
(* thread.c                                                                *)
(***************************************************************************)
thread__new(s, g, t) ==
  [s EXCEPT !.tgid[t] = g, !.refs[t] = 1, !.maps[t] = NULL,
            !.aspace[t] = FALSE, !.ulops[t] = FALSE]

thread__get(s, t) == [s EXCEPT !.refs[t] = refcount_inc(@)]

\* Mutant: the libunwind address space is forgotten.
Mutant_thread__delete(s, t) ==
  [maps__put(s, s.maps[t]) EXCEPT !.maps[t] = NULL, !.where[t] = "freed"]

thread__delete(s, t) ==
  LET s1 == [maps__put(s, s.maps[t]) EXCEPT !.maps[t] = NULL]
  IN  [unwind__finish_access(s1, t) EXCEPT !.where[t] = "freed"]

\* The node that list_del_init unlinks shares its storage with the rb_node:
\* only on the dead list is it a list node.
thread__put(s, t) ==
  LET s1 == [s EXCEPT !.refs[t] = refcount_dec(@)]
  IN  IF s1.refs[t] # 0 THEN s1
      ELSE IF s.where[t] = "dead" THEN thread__delete(s1, t)
      ELSE Stop(s1, "corrupt")

(***************************************************************************)
(* machine.c: looking up a thread, creating it on a miss.                  *)
(***************************************************************************)
\* The cast to unsigned before the remainder is TLA+'s % on a negative tid.
machine__threads(t) == t % THREADS__TABLE_SIZE

\* The front-end cache, then the bucket's tree.
Hit(s, t) == s.last[machine__threads(t)] = t \/ s.where[t] = "tree"

SetLastMatch(s, t) == [s EXCEPT !.last[machine__threads(t)] = t]

\* thread__new, linked in the tree before its maps are initialised.
NewLinked(s, g, t) == [thread__new(s, g, t) EXCEPT !.where[t] = "tree"]

\* The table's reference, the cache and the count, once the maps are there.
Enter(s, t) ==
  [SetLastMatch(thread__get(s, t), t) EXCEPT !.nr[machine__threads(t)] = @ + 1]

\* __machine__findnew_thread(machine, g, g), the call that the two operators
\* below make for a leader.  It cannot call them again: on a hit
\* machine__update_thread_tgid stops at `th->tgid == th->tid', on a miss
\* thread__init_maps takes its first branch.
findnew_leader(s, g) ==
  IF Hit(s, g)
  THEN thread__get([SetLastMatch(s, g) EXCEPT !.tgid[g] = g], g)
  ELSE Enter(maps__new(NewLinked(s, g, g), g), g)

\* Mutant: the leader's reference is not put.
Mutant_thread__init_maps(s, t) ==
  IF s.tgid[t] = t THEN maps__new(s, t)
  ELSE LET l == findnew_leader(s, s.tgid[t])
           g == l.maps[s.tgid[t]]
       IN  maps__get([l EXCEPT !.maps[t] = g], g)

thread__init_maps(s, t) ==
  IF s.tgid[t] = t THEN maps__new(s, t)
  ELSE LET g == s.tgid[t]
           l == findnew_leader(s, g)
       IN  thread__put(maps__get([l EXCEPT !.maps[t] = l.maps[g]], l.maps[g]), g)

\* Mutant: no test that the old address space is empty.
Mutant_update_thread_tgid(s, t, g) ==
  IF s.tgid[t] = g THEN s
  ELSE IF g = t THEN [s EXCEPT !.tgid[t] = g]
  ELSE LET l   == findnew_leader([s EXCEPT !.tgid[t] = g], g)
           new == l.maps[g]
       IN  IF l.maps[t] = new THEN [l EXCEPT !.leak[g] = @ + 1]
           ELSE thread__put(maps__get([maps__put(l, l.maps[t]) EXCEPT !.maps[t] = new], new), g)

\* The return at `th->maps == leader->maps' keeps the leader's reference.
machine__update_thread_tgid(s, t, g) ==
  IF s.tgid[t] = g THEN s
  ELSE IF g = t THEN [s EXCEPT !.tgid[t] = g]
  ELSE LET l   == findnew_leader([s EXCEPT !.tgid[t] = g], g)
           old == l.maps[t]
           new == l.maps[g]
       IN  IF old = new THEN [l EXCEPT !.leak[g] = @ + 1]
           ELSE IF l.ments[old] # <<>> THEN Stop(l, "tgid_change")
           ELSE thread__put(maps__get([maps__put(l, old) EXCEPT !.maps[t] = new], new), g)

machine__findnew_thread(s, g, t) ==
  IF Hit(s, t)
  THEN thread__get(machine__update_thread_tgid(SetLastMatch(s, t), t, g), t)
  ELSE Enter(thread__init_maps(NewLinked(s, g, t), t), t)

(***************************************************************************)
(* event.c                                                                 *)
(***************************************************************************)
\* Mutant: the thread is put twice.
Mutant_process_mmap(s, g, t, d, ok) ==
  LET s1 == map__new(machine__findnew_thread(s, g, t), d)
      s2 == unwind__prepare_access(s1, t, ok)
      as == s2.maps[t]
  IN  IF s1.abort # "no" THEN s1
      ELSE IF ~s2.aspace[t] THEN Stop(s2, "insert_map")
      ELSE map__put_inserted(thread__put(thread__put(maps__insert(s2, as, d), t), t), as)

\* One executable line: the thread, a map for the line's file, the insertion
\* (inside an assert), and the two puts.
bpf_unwind_ctx__process_mmap(s, g, t, d, ok) ==
  LET s1 == map__new(machine__findnew_thread(s, g, t), d)
      s2 == unwind__prepare_access(s1, t, ok)
      as == s2.maps[t]
  IN  IF s1.abort # "no" THEN s1
      ELSE IF ~s2.aspace[t] THEN Stop(s2, "insert_map")
      ELSE map__put_inserted(thread__put(maps__insert(s2, as, d), t), as)

\* thread__set_comm copies and flushes when the names are EQUAL; thread->name
\* is zeroed by thread__new, so it stays empty and `same' is `comm is empty'.
thread__set_comm(s, t, same) == IF same THEN unwind__flush_access(s, t) ELSE s

\* No thread__put follows the lookup: its reference is never dropped.
resolve(s, g, t, ok, same) ==
  LET s1 == machine__findnew_thread(s, g, t)
      s2 == thread__set_comm(unwind__prepare_access(s1, t, ok), t, same)
  IN  IF s1.abort # "no" THEN s1 ELSE [s2 EXCEPT !.leak[t] = @ + 1]

iterate(s, g) == [machine__findnew_thread(s, g, g) EXCEPT !.leak[g] = @ + 1]

(***************************************************************************)
(* machine.c: deletion.                                                    *)
(***************************************************************************)
\* Mutant: last_match is not invalidated.
Mutant_remove_thread(s, t) ==
  thread__put([s EXCEPT !.where[t] = "dead", !.nr[machine__threads(t)] = @ - 1], t)

machine__remove_thread(s, t) ==
  LET b  == machine__threads(t)
      s1 == [s EXCEPT !.last[b] = IF @ = t THEN NULL ELSE @,
                      !.where[t] = "dead", !.nr[b] = @ - 1]
  IN  IF s.refs[t] = 0 THEN Stop(s, "refcnt_zero") ELSE thread__put(s1, t)

\* dsos__purge unlinks every listed dso and puts the list's reference.
dsos__purge(s) ==
  dso__puts([s EXCEPT !.dlisted = [d \in Dso |-> FALSE]],
            [d \in Dso |-> IF s.dlisted[d] THEN 1 ELSE 0])

(***************************************************************************)
(* The machine's life: library calls in any order, then machine__delete.   *)
(***************************************************************************)
Init ==
  /\ m = machine__new
  /\ pc = "idle" /\ arg = NULL /\ calls = 0 /\ lines = 0

\* A handler that runs into a failed assert leaves no heap behind.
Becomes(s) == m' = IF s.abort = "no" THEN s ELSE [m EXCEPT !.abort = s.abort]

Call ==
  /\ m.abort = "no" /\ pc = "idle" /\ ~m.freed
  /\ calls < MaxCalls
  /\ calls' = calls + 1

\* fopen of the maps file fails: the call returns -1.
thread_map_no_file ==
  /\ Call
  /\ UNCHANGED <<m, pc, arg, lines>>

\* Mutant: the lines are read before the ids are stored.
Mutant_thread_map(g, t) ==
  /\ Call
  /\ pc' = "lines"
  /\ UNCHANGED <<m, arg, lines>>

bpf_unwind_ctx__thread_map(g, t) ==
  /\ Call
  /\ pc' = "lines" /\ arg' = <<g, t>>
  /\ UNCHANGED <<m, lines>>

\* Lines without an inode field or execute permission change nothing.
prepare_mmap_line(d, ok) ==
  /\ m.abort = "no" /\ pc = "lines" /\ lines < MaxMaps
  /\ Becomes(bpf_unwind_ctx__process_mmap(m, arg[1], arg[2], d, ok))
  /\ lines' = lines + 1
  /\ UNCHANGED <<pc, arg, calls>>

prepare_mmap_eof ==
  /\ m.abort = "no" /\ pc = "lines"
  /\ pc' = "idle" /\ arg' = NULL
  /\ UNCHANGED <<m, calls, lines>>

bpf_unwind_ctx__resolve_callchain(g, t, ok, same) ==
  /\ Call
  /\ Becomes(resolve(m, g, t, ok, same))
  /\ UNCHANGED <<pc, arg, lines>>

bpf_dl_iterate_phdr(g) ==
  /\ Call
  /\ Becomes(iterate(m, g))
  /\ UNCHANGED <<pc, arg, lines>>

machine__delete ==
  /\ m.abort = "no" /\ pc = "idle" /\ ~m.freed
  /\ pc' = "delete_threads"
  /\ UNCHANGED <<m, arg, calls, lines>>

InTree(s) == {t \in Tid : s.where[t] = "tree"}

\* machine__delete_threads goes through the buckets, and a bucket's tree, in
\* ascending order.
Before(t, u) ==
  LET b == machine__threads(t)
      c == machine__threads(u)
  IN  b < c \/ (b = c /\ t < u)

machine__delete_threads(t) ==
  /\ m.abort = "no" /\ pc = "delete_threads"
  /\ t \in InTree(m) /\ \A u \in InTree(m) \ {t} : Before(t, u)
  /\ Becomes(machine__remove_thread(m, t))
  /\ UNCHANGED <<pc, arg, calls, lines>>

machine__exit ==
  /\ m.abort = "no" /\ pc = "delete_threads" /\ InTree(m) = {}
  /\ m' = [dsos__purge(m) EXCEPT !.freed = TRUE]
  /\ pc' = "idle"
  /\ UNCHANGED <<arg, calls, lines>>

Next ==
  \/ thread_map_no_file
  \/ \E g, t \in Tid : bpf_unwind_ctx__thread_map(g, t)
  \/ \E d \in Dso, ok \in BOOLEAN : prepare_mmap_line(d, ok)
  \/ prepare_mmap_eof
  \/ \E g, t \in Tid, ok, same \in BOOLEAN :
       bpf_unwind_ctx__resolve_callchain(g, t, ok, same)
  \/ \E g \in Tid : bpf_dl_iterate_phdr(g)
  \/ machine__delete
  \/ \E t \in Tid : machine__delete_threads(t)
  \/ machine__exit

Spec == Init /\ [][Next]_vars
-----------------------------------------------------------------------------
(***************************************************************************)
(* Properties.                                                             *)
(***************************************************************************)
Heap ==
  [where : [Tid -> Where], tgid : [Tid -> Tid], refs : [Tid -> Nat],
   maps : [Tid -> Tid \cup {NULL}], aspace : [Tid -> BOOLEAN], ulops : [Tid -> BOOLEAN],
   last : [Bucket -> Tid \cup {NULL}], nr : [Bucket -> Int],
   mrefs : [Tid -> Nat], ments : [Tid -> Seq(MapEntry)],
   drefs : [Dso -> Nat], dlisted : [Dso -> BOOLEAN],
   leak : [Tid -> Nat], freed : BOOLEAN, abort : Abort]

\* Every field of the heap has the type of the C field it stands for.
TypeOK ==
  /\ m \in Heap
  /\ pc \in {"idle", "lines", "delete_threads"}
  /\ arg \in (Tid \X Tid) \cup {NULL}
  /\ pc = "lines" => arg # NULL
  /\ calls \in Nat /\ lines \in Nat

Allocated(s) == {t \in Tid : s.where[t] \in {"tree", "dead"}}

\* A thread's count is the table's reference plus the references that
\* resolve_callchain, dl_iterate_phdr and the early return of
\* machine__update_thread_tgid left behind: no path puts a reference it does
\* not own, so a linked thread is never freed.
ThreadRefsExact ==
  \A t \in Tid :
    m.refs[t] = m.leak[t] + (IF m.where[t] = "tree" THEN 1 ELSE 0)

\* The count of an address space is the number of allocated threads that
\* point to it, through every re-parenting machine__update_thread_tgid makes:
\* maps__put frees it exactly when the last such thread lets go.
MapsRefsExact ==
  \A g \in Tid :
    m.mrefs[g] = Cardinality({t \in Allocated(m) : m.maps[t] = g})

\* A dso's count is the list's reference plus one for each map entry that
\* names it: map__new, maps__delete and dsos__purge balance.
DsoRefsExact ==
  \A d \in Dso :
    m.drefs[d] = (IF m.dlisted[d] THEN 1 ELSE 0)
                 + Cardinality({p \in Tid \X (1 .. MaxMaps) :
                                  /\ p[2] \in DOMAIN m.ments[p[1]]
                                  /\ m.ments[p[1]][p[2]].dso = d})

\* A cached last_match is always a thread linked in that bucket's tree, so
\* the cache hit in ____machine__findnew_thread never returns a removed thread.
LastMatchInTree ==
  \A b \in Bucket : m.last[b] # NULL =>
    m.where[m.last[b]] = "tree" /\ machine__threads(m.last[b]) = b

\* Once machine__delete has finished, a thread is still allocated only if one
\* of its references was handed out and never put, an address space only if
\* such a thread uses it; every other one is freed with its libunwind space.
DeleteReleasesTheRest ==
  m.freed =>
    /\ \A t \in Allocated(m) : m.leak[t] > 0
    /\ \A t \in Tid : m.where[t] = "freed" => ~m.aspace[t] /\ m.maps[t] = NULL
    /\ \A g \in Tid : m.ments[g] # <<>> =>
         \E t \in Allocated(m) : m.maps[t] = g /\ m.leak[t] > 0

\* No thread__put reaches zero on a thread that is still linked (its
\* list_del_init would treat tree pointers as list pointers) and the assert
\* on the count in __machine__remove_thread holds.
NoRefcountError == m.abort \notin {"corrupt", "refcnt_zero"}

\* Until machine__delete, no call loses the mapping of an address space: its
\* entries only grow, whatever re-parenting of threads happens in between.
MappingsNeverLost ==
  [][pc # "delete_threads" =>
       \A g \in Tid : \E n \in 0 .. Len(m'.ments[g]) :
         SubSeq(m'.ments[g], 1, n) = m.ments[g]]_vars
-----------------------------------------------------------------------------
(***************************************************************************)
(* What the documentation and the assertions say and the code does not do. *)
(***************************************************************************)
\* machine.c asserts that a thread which changes its tgid has no map yet.
TgidChangesOnlyWithoutMaps == m.abort # "tgid_change"

\* README.md: after one thread_map call "other threads of the process will share
\* these info with the tgid": the threads of a process whose mappings were read
\* use the address space of its leader.
ProcessSharesMaps ==
  \A t \in Tid :
    LET g == m.tgid[t] IN
      /\ m.abort = "no" /\ m.where[t] = "tree" /\ m.where[g] = "tree"
      /\ m.tgid[g] = g /\ m.ments[m.maps[g]] # <<>>
      => m.maps[t] = m.maps[g]

\* README.md: "Call `machine__delete` to release resources".
DeleteReleasesThreads == m.freed => Allocated(m) = {}
=============================================================================
