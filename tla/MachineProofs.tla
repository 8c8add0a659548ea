---------------------------- MODULE MachineProofs ----------------------------
(***************************************************************************)
(* Proofs about the machine's reference counts, for any tids, dsos, bucket *)
(* count and number of calls that does not wrap a count.                   *)
(***************************************************************************)
EXTENDS Machine, FiniteSetTheorems, TLAPS

\* What a heap operation on maps and dsos leaves alone: the table of threads.
SameTable(s, u) ==
  /\ u.where = s.where /\ u.refs = s.refs /\ u.maps = s.maps /\ u.last = s.last
  /\ u.leak = s.leak /\ u.freed = s.freed /\ u.abort = s.abort

\* SameTable composes along a sequence of heap operations.
LEMMA SameTableTransitive ==
  ASSUME NEW s, NEW u, NEW v, SameTable(s, u), SameTable(u, v)
  PROVE  SameTable(s, v)
BY DEF SameTable

\* refcount.h: counts are naturals, and exact below the width.
LEMMA Counting ==
  ASSUME NEW n \in Int
  PROVE  /\ n % RefMod \in Nat
         /\ refcount_inc(n) \in Nat /\ refcount_dec(n) \in Nat
         /\ 0 <= n /\ n + 1 < RefMod => refcount_inc(n) = n + 1
         /\ 0 < n /\ n <= RefMod => refcount_dec(n) = n - 1
<1>1. RefMod \in Nat \ {0}
  BY MachineAssumption
<1>2. n % RefMod \in Nat /\ (n + 1) % RefMod \in Nat /\ (n - 1) % RefMod \in Nat
  BY <1>1
<1>3. ASSUME 0 <= n, n + 1 < RefMod PROVE (n + 1) % RefMod = n + 1
  BY <1>1, <1>3
<1>4. ASSUME 0 < n, n <= RefMod PROVE (n - 1) % RefMod = n - 1
  BY <1>1, <1>4
<1> QED BY <1>2, <1>3, <1>4 DEF refcount_inc, refcount_dec

-----------------------------------------------------------------------------
(***************************************************************************)
(* dsos and maps.                                                          *)
(***************************************************************************)
\* dso__get touches the count of one dso only.
LEMMA DsoGet ==
  ASSUME NEW s \in Heap, NEW d \in Dso
  PROVE  dso__get(s, d) \in Heap /\ SameTable(s, dso__get(s, d))
<1>1. s.drefs \in [Dso -> Nat]
  BY DEF Heap
<1>2. [s.drefs EXCEPT ![d] = refcount_inc(@)] \in [Dso -> Nat]
  BY <1>1, Counting
<1>3. dso__get(s, d) = [s EXCEPT !.drefs = [s.drefs EXCEPT ![d] = refcount_inc(@)]]
  BY DEF dso__get, Heap
<1> QED BY <1>2, <1>3 DEF Heap, SameTable

\* dso__puts touches the counts of dsos only.
LEMMA DsoPuts ==
  ASSUME NEW s \in Heap, NEW n \in [Dso -> Int]
  PROVE  dso__puts(s, n) \in Heap /\ SameTable(s, dso__puts(s, n))
<1> DEFINE f == [d \in Dso |-> (s.drefs[d] - n[d]) % RefMod]
<1>1. f \in [Dso -> Nat]
  <2>1. s.drefs \in [Dso -> Nat]
    BY DEF Heap
  <2>2. \A d \in Dso : s.drefs[d] - n[d] \in Int
    BY <2>1
  <2> QED BY <2>2, Counting
<1>2. dso__puts(s, n) = [s EXCEPT !.drefs = f]
  BY DEF dso__puts, dso__delete
<1> HIDE DEF f
<1> QED BY <1>1, <1>2 DEF Heap, SameTable

\* dso__put, one of them.
LEMMA DsoPut ==
  ASSUME NEW s \in Heap, NEW d \in Dso
  PROVE  dso__put(s, d) \in Heap /\ SameTable(s, dso__put(s, d))
BY DsoPuts DEF dso__put

\* map__new, with the dso it finds or creates, leaves the threads alone.
LEMMA MapNew ==
  ASSUME NEW s \in Heap, NEW d \in Dso
  PROVE  map__new(s, d) \in Heap /\ SameTable(s, map__new(s, d))
<1> DEFINE a == [s EXCEPT !.drefs[d] = 1, !.dlisted[d] = TRUE]
           b == dsos__addnew(s, d)
           c == dsos__findnew(s, d)
<1>1. a \in Heap /\ SameTable(s, a)
  <2>1. [s.drefs EXCEPT ![d] = 1] \in [Dso -> Nat]
    BY DEF Heap
  <2>2. [s.dlisted EXCEPT ![d] = TRUE] \in [Dso -> BOOLEAN]
    BY DEF Heap
  <2>3. a = [s EXCEPT !.drefs = [s.drefs EXCEPT ![d] = 1],
                      !.dlisted = [s.dlisted EXCEPT ![d] = TRUE]]
    BY DEF Heap
  <2> QED BY <2>1, <2>2, <2>3 DEF Heap, SameTable
<1>2. b \in Heap /\ SameTable(s, b)
  <2> HIDE DEF a
  <2>1. b = dso__put(dso__get(a, d), d)
    BY DEF dsos__addnew, a
  <2> QED BY <1>1, <2>1, DsoGet, DsoPut, SameTableTransitive
<1>3. c \in Heap /\ SameTable(s, c)
  <2> HIDE DEF b
  <2>1. c = dso__get(s, d) \/ c = dso__get(b, d)
    BY DEF dsos__findnew, b
  <2> QED BY <1>2, <2>1, DsoGet, SameTableTransitive
<1> HIDE DEF c
<1>4. map__new(s, d) = dso__put(dso__get(c, d), d)
  BY DEF map__new, c
<1> QED BY <1>3, <1>4, DsoGet, DsoPut, SameTableTransitive

\* maps__put may delete the address space; the table of threads is untouched.
LEMMA MapsPut ==
  ASSUME NEW s \in Heap, NEW g \in Tid
  PROVE  maps__put(s, g) \in Heap /\ SameTable(s, maps__put(s, g))
<1> DEFINE a == [s EXCEPT !.mrefs[g] = refcount_dec(@)]
           b == [a EXCEPT !.ments[g] = <<>>]
           dying(d) == {i \in DOMAIN a.ments[g] :
                          /\ a.ments[g][i].dso = d
                          /\ refcount_dec(a.ments[g][i].refs) = 0}
           n == [d \in Dso |-> Cardinality(dying(d))]
<1>1. a \in Heap /\ SameTable(s, a)
  <2>1. [s.mrefs EXCEPT ![g] = refcount_dec(@)] \in [Tid -> Nat]
    <3>1. s.mrefs \in [Tid -> Nat]
      BY DEF Heap
    <3> QED BY <3>1, Counting
  <2>2. a = [s EXCEPT !.mrefs = [s.mrefs EXCEPT ![g] = refcount_dec(@)]]
    BY DEF Heap
  <2> QED BY <2>1, <2>2 DEF Heap, SameTable
<1> HIDE DEF a
<1>2. b \in Heap /\ SameTable(s, b)
  <2>1. [a.ments EXCEPT ![g] = <<>>] \in [Tid -> Seq(MapEntry)]
    BY <1>1 DEF Heap
  <2>2. b = [a EXCEPT !.ments = [a.ments EXCEPT ![g] = <<>>]]
    BY <1>1 DEF Heap
  <2> QED BY <1>1, <2>1, <2>2 DEF Heap, SameTable
<1>3. n \in [Dso -> Int]
  <2> SUFFICES ASSUME NEW d \in Dso PROVE Cardinality(dying(d)) \in Int
    OBVIOUS
  <2>1. a.ments[g] \in Seq(MapEntry)
    BY <1>1 DEF Heap
  <2>2. DOMAIN a.ments[g] = 1 .. Len(a.ments[g]) /\ Len(a.ments[g]) \in Nat
    BY <2>1
  <2>3. IsFiniteSet(DOMAIN a.ments[g])
    BY <2>2, FS_Interval
  <2>4. IsFiniteSet(dying(d))
    BY <2>3, FS_Subset
  <2> QED BY <2>4, FS_CardinalityType
<1>4. maps__put(s, g) = a \/ maps__put(s, g) = dso__puts(b, n)
  BY DEF maps__put, maps__delete, a
<1> HIDE DEF b, n
<1> QED BY <1>1, <1>2, <1>3, <1>4, DsoPuts, SameTableTransitive

\* maps__get touches the count of one address space only.
LEMMA MapsGet ==
  ASSUME NEW s \in Heap, NEW g \in Tid
  PROVE  maps__get(s, g) \in Heap /\ SameTable(s, maps__get(s, g))
<1>1. s.mrefs \in [Tid -> Nat]
  BY DEF Heap
<1>2. [s.mrefs EXCEPT ![g] = refcount_inc(@)] \in [Tid -> Nat]
  BY <1>1, Counting
<1>3. maps__get(s, g) = [s EXCEPT !.mrefs = [s.mrefs EXCEPT ![g] = refcount_inc(@)]]
  BY DEF maps__get, Heap
<1> QED BY <1>2, <1>3 DEF Heap, SameTable

\* maps__insert leaves the threads alone and its list not empty.
LEMMA MapsInsert ==
  ASSUME NEW s \in Heap, NEW g \in Tid, NEW d \in Dso
  PROVE  /\ maps__insert(s, g, d) \in Heap
         /\ SameTable(s, maps__insert(s, g, d))
         /\ maps__insert(s, g, d).ments[g] # <<>>
<1> DEFINE e == [dso |-> d, refs |-> refcount_inc(1)]
           f == [s.ments EXCEPT ![g] = Append(@, e)]
<1>1. e \in MapEntry
  BY Counting DEF MapEntry
<1>2. s.ments \in [Tid -> Seq(MapEntry)]
  BY DEF Heap
<1> HIDE DEF e
<1>3. Append(s.ments[g], e) \in Seq(MapEntry) /\ Append(s.ments[g], e) # <<>>
  BY <1>1, <1>2
<1>4. f \in [Tid -> Seq(MapEntry)] /\ f[g] # <<>>
  BY <1>2, <1>3
<1>5. maps__insert(s, g, d) = [s EXCEPT !.ments = f]
  BY DEF maps__insert, e, Heap
<1> HIDE DEF f
<1> QED BY <1>4, <1>5 DEF Heap, SameTable

\* The put on the entry just inserted finds an entry to put.
LEMMA MapPutInserted ==
  ASSUME NEW s \in Heap, NEW g \in Tid, s.ments[g] # <<>>
  PROVE  map__put_inserted(s, g) \in Heap /\ SameTable(s, map__put_inserted(s, g))
<1> DEFINE q == s.ments[g]
           e == [q[Len(q)] EXCEPT !.refs = refcount_dec(@)]
           f == [s.ments EXCEPT ![g] = [q EXCEPT ![Len(q)] = e]]
<1>1. s.ments \in [Tid -> Seq(MapEntry)] /\ q \in Seq(MapEntry)
  BY DEF Heap
<1>2. Len(q) \in 1 .. Len(q) /\ q[Len(q)] \in MapEntry
  BY <1>1
<1>3. e \in MapEntry
  BY <1>2, Counting DEF MapEntry
<1>4. map__put_inserted(s, g) = [s EXCEPT !.ments = f]
  BY <1>1, <1>2 DEF map__put_inserted, Heap, MapEntry
<1> HIDE DEF e
<1>5. [q EXCEPT ![Len(q)] = e] \in Seq(MapEntry)
  BY <1>1, <1>2, <1>3
<1>6. f \in [Tid -> Seq(MapEntry)]
  BY <1>1, <1>5
<1> HIDE DEF f
<1> QED BY <1>4, <1>6 DEF Heap, SameTable
-----------------------------------------------------------------------------
(***************************************************************************)
(* The table of threads inside a handler.  held are the threads the        *)
(* handler holds one reference to, bare those whose maps are not set yet;  *)
(* no thread has leaked more than bound references.                        *)
(***************************************************************************)
Table(s, held, bare, bound) ==
  /\ s \in Heap
  /\ \A t \in Tid :
       /\ s.refs[t] = s.leak[t] + (IF s.where[t] = "tree" THEN 1 ELSE 0)
                                + (IF t \in held THEN 1 ELSE 0)
       /\ s.where[t] \in {"none", "tree"}
       /\ s.where[t] = "none" => s.leak[t] = 0
       /\ s.where[t] = "tree" /\ t \notin bare => s.maps[t] \in Tid
       /\ s.leak[t] <= bound
  /\ \A b \in Bucket : s.last[b] # NULL =>
       s.where[s.last[b]] = "tree" /\ machine__threads(s.last[b]) = b

\* A handler keeps every thread linked and stops for no reason of its own.
Keeps(s, u) ==
  /\ \A t \in Tid : s.where[t] = "tree" => u.where[t] = "tree"
  /\ u.abort = s.abort

\* The table's invariant survives any operation that leaves the table alone.
LEMMA TableFrame ==
  ASSUME NEW s, NEW u \in Heap, NEW held, NEW bare, NEW bound,
         Table(s, held, bare, bound), SameTable(s, u)
  PROVE  Table(u, held, bare, bound) /\ Keeps(s, u)
BY DEF Table, SameTable, Keeps

\* Keeps composes along a sequence of heap operations.
LEMMA KeepsTransitive ==
  ASSUME NEW s, NEW u, NEW v, Keeps(s, u), Keeps(u, v)
  PROVE  Keeps(s, v)
BY DEF Keeps

\* machine__threads hashes every tid, negative ones too, to a bucket.
LEMMA BucketOf ==
  ASSUME NEW t \in Tid
  PROVE  machine__threads(t) \in Bucket
<1>1. t \in Int /\ THREADS__TABLE_SIZE \in Nat \ {0}
  BY MachineAssumption
<1> QED BY <1>1 DEF machine__threads, Bucket

\* thread__get on a linked thread adds one held reference.
LEMMA ThreadGet ==
  ASSUME NEW held, NEW bare, NEW bound \in Nat, NEW s, NEW t \in Tid,
         Table(s, held, bare, bound), s.where[t] = "tree", t \notin held,
         bound + 2 < RefMod
  PROVE  /\ Table(thread__get(s, t), held \cup {t}, bare, bound)
         /\ Keeps(s, thread__get(s, t))
         /\ thread__get(s, t).leak = s.leak
<1> DEFINE f == [s.refs EXCEPT ![t] = refcount_inc(@)]
<1>1. s \in Heap /\ RefMod \in Nat
  BY MachineAssumption DEF Table
<1>2. s.refs \in [Tid -> Nat] /\ s.leak \in [Tid -> Nat]
  BY <1>1 DEF Heap
<1>3. s.refs[t] = s.leak[t] + 1 /\ s.leak[t] <= bound
  BY <1>2 DEF Table
<1>4. refcount_inc(s.refs[t]) = s.refs[t] + 1
  BY <1>1, <1>2, <1>3, Counting
<1>5. f \in [Tid -> Nat] /\ f[t] = s.refs[t] + 1 /\ \A u \in Tid \ {t} : f[u] = s.refs[u]
  BY <1>2, <1>4
<1>6. thread__get(s, t) = [s EXCEPT !.refs = f]
  BY <1>1 DEF thread__get, Heap
<1> HIDE DEF f
<1>7. thread__get(s, t) \in Heap /\ thread__get(s, t).refs = f
  BY <1>1, <1>5, <1>6 DEF Heap
<1>8. /\ thread__get(s, t).where = s.where /\ thread__get(s, t).leak = s.leak
      /\ thread__get(s, t).maps = s.maps /\ thread__get(s, t).last = s.last
      /\ thread__get(s, t).abort = s.abort
  BY <1>1, <1>6 DEF Heap
<1> HIDE DEF thread__get
<1> QED BY <1>2, <1>3, <1>5, <1>7, <1>8 DEF Table, Keeps

\* A held reference is never the last one of a linked thread.
LEMMA ThreadPut ==
  ASSUME NEW held, NEW bare, NEW bound \in Nat, NEW s, NEW t \in Tid,
         Table(s, held, bare, bound), s.where[t] = "tree", t \in held,
         bound + 2 < RefMod
  PROVE  /\ Table(thread__put(s, t), held \ {t}, bare, bound)
         /\ Keeps(s, thread__put(s, t))
         /\ thread__put(s, t).maps = s.maps /\ thread__put(s, t).ments = s.ments
         /\ thread__put(s, t).leak = s.leak
<1> DEFINE f == [s.refs EXCEPT ![t] = refcount_dec(@)]
           u == [s EXCEPT !.refs = f]
<1>1. s \in Heap /\ RefMod \in Nat
  BY MachineAssumption DEF Table
<1>2. s.refs \in [Tid -> Nat] /\ s.leak \in [Tid -> Nat]
  BY <1>1 DEF Heap
<1>3. s.refs[t] = s.leak[t] + 2 /\ s.leak[t] <= bound
  BY <1>2 DEF Table
<1>4. refcount_dec(s.refs[t]) = s.refs[t] - 1
  BY <1>1, <1>2, <1>3, Counting
<1>5. f \in [Tid -> Nat] /\ f[t] = s.leak[t] + 1 /\ \A v \in Tid \ {t} : f[v] = s.refs[v]
  BY <1>2, <1>3, <1>4
<1>6. u = [s EXCEPT !.refs[t] = refcount_dec(@)]
  BY <1>1 DEF Heap
<1> HIDE DEF f
<1>7. u \in Heap /\ u.refs = f
  BY <1>1, <1>5 DEF Heap
<1>8. /\ u.where = s.where /\ u.leak = s.leak /\ u.maps = s.maps
      /\ u.last = s.last /\ u.abort = s.abort /\ u.ments = s.ments
  BY <1>1 DEF Heap
<1> HIDE DEF u
<1>9. thread__put(s, t) = u
  <2>1. u.refs[t] # 0
    BY <1>2, <1>5, <1>7
  <2> QED BY <1>6, <2>1 DEF thread__put
<1>10. Table(u, held \ {t}, bare, bound) /\ Keeps(s, u)
  BY <1>2, <1>3, <1>5, <1>7, <1>8 DEF Table, Keeps
<1> QED BY <1>8, <1>9, <1>10

\* Caching a linked thread in its bucket keeps the table.
LEMMA LastMatch ==
  ASSUME NEW held, NEW bare, NEW bound, NEW s, NEW t \in Tid,
         Table(s, held, bare, bound), s.where[t] = "tree"
  PROVE  /\ Table(SetLastMatch(s, t), held, bare, bound)
         /\ Keeps(s, SetLastMatch(s, t))
         /\ SetLastMatch(s, t).tgid = s.tgid
<1> DEFINE b == machine__threads(t)
           f == [s.last EXCEPT ![b] = t]
           u == [s EXCEPT !.last = f]
<1>1. s \in Heap /\ b \in Bucket
  BY BucketOf DEF Table
<1>2. s.last \in [Bucket -> Tid \cup {NULL}]
  BY <1>1 DEF Heap
<1>3. f \in [Bucket -> Tid \cup {NULL}] /\ f[b] = t /\ \A c \in Bucket \ {b} : f[c] = s.last[c]
  BY <1>1, <1>2
<1>4. SetLastMatch(s, t) = u
  BY <1>1 DEF SetLastMatch, Heap
<1> HIDE DEF f
<1>5. u \in Heap /\ u.last = f
  BY <1>1, <1>3 DEF Heap
<1>6. /\ u.where = s.where /\ u.leak = s.leak /\ u.maps = s.maps /\ u.tgid = s.tgid
      /\ u.refs = s.refs /\ u.abort = s.abort
  BY <1>1 DEF Heap
<1> HIDE DEF u
<1>7. Table(u, held, bare, bound) /\ Keeps(s, u)
  BY <1>3, <1>5, <1>6 DEF Table, Keeps
<1> QED BY <1>4, <1>6, <1>7

\* A tid that is not linked has no object and no leaked reference.
LEMMA Creation ==
  ASSUME NEW held, NEW bare, NEW bound, NEW s, NEW g \in Tid, NEW t \in Tid,
         Table(s, held, bare, bound), s.where[t] # "tree", t \notin held
  PROVE  /\ Table(NewLinked(s, g, t), held, bare \cup {t}, bound)
         /\ Keeps(s, NewLinked(s, g, t))
         /\ NewLinked(s, g, t).where[t] = "tree" /\ NewLinked(s, g, t).tgid[t] = g
<1> DEFINE w == [s.where EXCEPT ![t] = "tree"]
           r == [s.refs EXCEPT ![t] = 1]
           p == [s.maps EXCEPT ![t] = NULL]
           q == [s.tgid EXCEPT ![t] = g]
           x == [s.aspace EXCEPT ![t] = FALSE]
           y == [s.ulops EXCEPT ![t] = FALSE]
           u == [s EXCEPT !.where = w, !.refs = r, !.maps = p, !.tgid = q,
                          !.aspace = x, !.ulops = y]
<1>1. s \in Heap
  BY DEF Table
<1>2. /\ s.where \in [Tid -> Where] /\ s.refs \in [Tid -> Nat]
      /\ s.maps \in [Tid -> Tid \cup {NULL}] /\ s.leak \in [Tid -> Nat]
      /\ s.tgid \in [Tid -> Tid]
  BY <1>1 DEF Heap
<1>3. /\ w \in [Tid -> Where] /\ r \in [Tid -> Nat]
      /\ p \in [Tid -> Tid \cup {NULL}] /\ q \in [Tid -> Tid] /\ q[t] = g
  BY <1>2 DEF Where
<1>4. /\ w[t] = "tree" /\ r[t] = 1
      /\ \A v \in Tid \ {t} : w[v] = s.where[v] /\ r[v] = s.refs[v] /\ p[v] = s.maps[v]
  BY <1>2
<1>5. x \in [Tid -> BOOLEAN] /\ y \in [Tid -> BOOLEAN]
  BY <1>1 DEF Heap
<1>6. NewLinked(s, g, t) = u
  BY <1>1 DEF NewLinked, thread__new, Heap
<1> HIDE DEF w, r, p, q, x, y
<1>7. u \in Heap
  BY <1>1, <1>3, <1>5 DEF Heap
<1>8. /\ u.where = w /\ u.refs = r /\ u.maps = p /\ u.tgid = q
      /\ u.leak = s.leak /\ u.last = s.last /\ u.abort = s.abort
  BY <1>1 DEF Heap
<1> HIDE DEF u
<1>9. s.leak[t] = 0
  BY DEF Table
<1>10. \A v \in Tid :
         /\ u.refs[v] = u.leak[v] + (IF u.where[v] = "tree" THEN 1 ELSE 0)
                                  + (IF v \in held THEN 1 ELSE 0)
         /\ u.where[v] \in {"none", "tree"}
         /\ u.where[v] = "none" => u.leak[v] = 0
         /\ u.where[v] = "tree" /\ v \notin bare \cup {t} => u.maps[v] \in Tid
         /\ u.leak[v] <= bound
  BY <1>2, <1>4, <1>8, <1>9 DEF Table
<1>11. \A b \in Bucket : u.last[b] # NULL =>
         u.where[u.last[b]] = "tree" /\ machine__threads(u.last[b]) = b
  <2> SUFFICES ASSUME NEW b \in Bucket, u.last[b] # NULL
               PROVE  u.where[u.last[b]] = "tree" /\ machine__threads(u.last[b]) = b
    OBVIOUS
  <2>1. s.last[b] \in Tid
    BY <1>1, <1>8 DEF Heap
  <2> QED BY <1>4, <1>8, <2>1 DEF Table
<1>12. Keeps(s, u)
  BY <1>4, <1>8 DEF Keeps
<1>13. Table(u, held, bare \cup {t}, bound)
  BY <1>7, <1>10, <1>11 DEF Table
<1> QED BY <1>3, <1>4, <1>6, <1>8, <1>12, <1>13

\* A thread whose maps pointer is set is no longer bare.
LEMMA MapsSet ==
  ASSUME NEW held, NEW bare, NEW bound, NEW s, NEW t \in Tid, NEW g \in Tid,
         Table(s, held, bare, bound)
  PROVE  /\ Table([s EXCEPT !.maps[t] = g], held, bare \ {t}, bound)
         /\ Keeps(s, [s EXCEPT !.maps[t] = g])
<1> DEFINE p == [s.maps EXCEPT ![t] = g]
           u == [s EXCEPT !.maps = p]
<1>1. s \in Heap
  BY DEF Table
<1>2. s.maps \in [Tid -> Tid \cup {NULL}]
  BY <1>1 DEF Heap
<1>3. p \in [Tid -> Tid \cup {NULL}] /\ p[t] = g /\ \A v \in Tid \ {t} : p[v] = s.maps[v]
  BY <1>2
<1>4. u = [s EXCEPT !.maps[t] = g]
  BY <1>1 DEF Heap
<1> HIDE DEF p
<1>5. u \in Heap /\ u.maps = p
  BY <1>1, <1>3 DEF Heap
<1>6. /\ u.where = s.where /\ u.leak = s.leak /\ u.last = s.last
      /\ u.refs = s.refs /\ u.abort = s.abort
  BY <1>1 DEF Heap
<1> HIDE DEF u
<1>7. Table(u, held, bare \ {t}, bound) /\ Keeps(s, u)
  BY <1>3, <1>5, <1>6 DEF Table, Keeps
<1> QED BY <1>4, <1>7

\* maps__new gives a thread an address space of its own.
LEMMA MapsNew ==
  ASSUME NEW held, NEW bare, NEW bound, NEW s, NEW t \in Tid,
         Table(s, held, bare, bound)
  PROVE  /\ Table(maps__new(s, t), held, bare \ {t}, bound)
         /\ Keeps(s, maps__new(s, t))
<1> DEFINE a == [s EXCEPT !.mrefs = [s.mrefs EXCEPT ![t] = 1],
                          !.ments = [s.ments EXCEPT ![t] = <<>>]]
<1>1. s \in Heap
  BY DEF Table
<1>2. /\ [s.mrefs EXCEPT ![t] = 1] \in [Tid -> Nat]
      /\ [s.ments EXCEPT ![t] = <<>>] \in [Tid -> Seq(MapEntry)]
  BY <1>1 DEF Heap
<1>3. a \in Heap /\ SameTable(s, a)
  BY <1>1, <1>2 DEF Heap, SameTable
<1>4. maps__new(s, t) = [a EXCEPT !.maps[t] = t]
  BY <1>1 DEF maps__new, Heap
<1> HIDE DEF a
<1>5. Table(a, held, bare, bound) /\ Keeps(s, a)
  BY <1>3, TableFrame
<1> QED BY <1>4, <1>5, MapsSet, KeepsTransitive

\* The reference, the cache entry and the count taken for a created thread.
LEMMA Entering ==
  ASSUME NEW held, NEW bare, NEW bound \in Nat, NEW s, NEW t \in Tid,
         Table(s, held, bare, bound), s.where[t] = "tree", t \notin held,
         bound + 2 < RefMod
  PROVE  /\ Table(Enter(s, t), held \cup {t}, bare, bound)
         /\ Keeps(s, Enter(s, t)) /\ Enter(s, t).where[t] = "tree"
<1> DEFINE a == thread__get(s, t)
           b == SetLastMatch(a, t)
           f == [b.nr EXCEPT ![machine__threads(t)] = @ + 1]
           c == [b EXCEPT !.nr = f]
<1>1. Table(a, held \cup {t}, bare, bound) /\ Keeps(s, a) /\ a.where[t] = "tree"
  <2>1. Table(a, held \cup {t}, bare, bound) /\ Keeps(s, a)
    BY ThreadGet
  <2> QED BY <2>1 DEF Keeps
<1>2. Table(b, held \cup {t}, bare, bound) /\ Keeps(s, b)
  <2> HIDE DEF a
  <2>1. Table(b, held \cup {t}, bare, bound) /\ Keeps(a, b)
    BY <1>1, LastMatch
  <2> HIDE DEF b
  <2> QED BY <1>1, <2>1, KeepsTransitive
<1>3. Enter(s, t) = [b EXCEPT !.nr[machine__threads(t)] = @ + 1]
  BY DEF Enter
<1> HIDE DEF b
<1>4. b \in Heap /\ b.nr \in [Bucket -> Int]
  BY <1>2 DEF Table, Heap
<1>5. f \in [Bucket -> Int]
  BY <1>4, BucketOf
<1>6. Enter(s, t) = c
  BY <1>3, <1>4 DEF Heap
<1>7. c \in Heap /\ SameTable(b, c)
  <2> HIDE DEF f
  <2> QED BY <1>4, <1>5 DEF Heap, SameTable
<1> HIDE DEF c
<1>8. Table(c, held \cup {t}, bare, bound) /\ Keeps(b, c)
  BY <1>2, <1>7, TableFrame
<1>9. Keeps(s, c)
  BY <1>2, <1>8, KeepsTransitive
<1>10. c.where[t] = "tree"
  BY <1>9 DEF Keeps
<1> QED BY <1>6, <1>8, <1>9, <1>10

\* Setting a tgid, which the table's invariant does not look at.
LEMMA TgidSet ==
  ASSUME NEW s \in Heap, NEW t \in Tid, NEW g \in Tid
  PROVE  /\ [s EXCEPT !.tgid[t] = g] \in Heap
         /\ SameTable(s, [s EXCEPT !.tgid[t] = g])
<1>1. [s.tgid EXCEPT ![t] = g] \in [Tid -> Tid]
  BY DEF Heap
<1>2. [s EXCEPT !.tgid[t] = g] = [s EXCEPT !.tgid = [s.tgid EXCEPT ![t] = g]]
  BY DEF Heap
<1> QED BY <1>1, <1>2 DEF Heap, SameTable

\* The front-end cache and the tree agree on which threads are linked.
LEMMA HitIsLinked ==
  ASSUME NEW held, NEW bare, NEW bound, NEW s, NEW t \in Tid,
         Table(s, held, bare, bound)
  PROVE  Hit(s, t) <=> s.where[t] = "tree"
<1>1. ASSUME s.last[machine__threads(t)] = t PROVE s.where[t] = "tree"
  <2>1. machine__threads(t) \in Bucket /\ t # NULL
    BY BucketOf, MachineAssumption
  <2> QED BY <1>1, <2>1 DEF Table
<1> QED BY <1>1 DEF Hit

\* The nested lookup hands out one reference to a linked leader.
LEMMA FindnewLeader ==
  ASSUME NEW held, NEW bare, NEW bound \in Nat, NEW s, NEW g \in Tid,
         Table(s, held, bare, bound), g \notin held, g \notin bare,
         bound + 2 < RefMod
  PROVE  /\ Table(findnew_leader(s, g), held \cup {g}, bare, bound)
         /\ Keeps(s, findnew_leader(s, g))
         /\ findnew_leader(s, g).where[g] = "tree"
         /\ findnew_leader(s, g).maps[g] \in Tid
<1> DEFINE l == findnew_leader(s, g)
<1>1. ASSUME Hit(s, g)
      PROVE  Table(l, held \cup {g}, bare, bound) /\ Keeps(s, l) /\ l.where[g] = "tree"
  <2> DEFINE a == SetLastMatch(s, g)
             b == [a EXCEPT !.tgid[g] = g]
  <2>1. s.where[g] = "tree"
    BY <1>1, HitIsLinked
  <2>2. Table(a, held, bare, bound) /\ Keeps(s, a)
    BY <2>1, LastMatch
  <2>3. l = thread__get(b, g)
    BY <1>1 DEF findnew_leader
  <2> HIDE DEF a
  <2>4. b \in Heap /\ SameTable(a, b)
    <3>1. a \in Heap
      BY <2>2 DEF Table
    <3> QED BY <3>1, TgidSet
  <2> HIDE DEF b, l
  <2>5. Table(b, held, bare, bound) /\ Keeps(s, b)
    BY <2>2, <2>4, TableFrame, KeepsTransitive
  <2>6. b.where[g] = "tree"
    BY <2>1, <2>5 DEF Keeps
  <2>7. Table(l, held \cup {g}, bare, bound) /\ Keeps(b, l)
    BY <2>3, <2>5, <2>6, ThreadGet
  <2>8. l.where[g] = "tree"
    BY <2>6, <2>7 DEF Keeps
  <2> QED BY <2>5, <2>7, <2>8, KeepsTransitive
<1>2. ASSUME ~Hit(s, g)
      PROVE  Table(l, held \cup {g}, bare, bound) /\ Keeps(s, l) /\ l.where[g] = "tree"
  <2> DEFINE a == NewLinked(s, g, g)
             b == maps__new(a, g)
  <2>1. s.where[g] # "tree"
    BY <1>2, HitIsLinked
  <2>2. Table(a, held, bare \cup {g}, bound) /\ Keeps(s, a) /\ a.where[g] = "tree"
    BY <2>1, Creation
  <2>3. l = Enter(b, g)
    BY <1>2 DEF findnew_leader
  <2> HIDE DEF a, l
  <2>4. Table(b, held, (bare \cup {g}) \ {g}, bound) /\ Keeps(a, b)
    BY <2>2, MapsNew
  <2>5. (bare \cup {g}) \ {g} = bare
    OBVIOUS
  <2> HIDE DEF b
  <2>6. Table(b, held, bare, bound) /\ Keeps(s, b) /\ b.where[g] = "tree"
    <3>1. Keeps(s, b)
      BY <2>2, <2>4, KeepsTransitive
    <3>2. b.where[g] = "tree"
      BY <2>2, <2>4 DEF Keeps
    <3> QED BY <2>4, <2>5, <3>1, <3>2
  <2> QED BY <2>3, <2>6, Entering, KeepsTransitive
<1>3. Table(l, held \cup {g}, bare, bound) /\ Keeps(s, l) /\ l.where[g] = "tree"
  BY <1>1, <1>2
<1> HIDE DEF l
<1>4. l.maps[g] \in Tid
  BY <1>3 DEF Table
<1> QED BY <1>3, <1>4 DEF l

\* A new thread takes its own address space or its leader's.
LEMMA InitMaps ==
  ASSUME NEW bound \in Nat, NEW s, NEW t \in Tid,
         Table(s, {}, {t}, bound), s.where[t] = "tree", bound + 2 < RefMod
  PROVE  /\ Table(thread__init_maps(s, t), {}, {}, bound)
         /\ Keeps(s, thread__init_maps(s, t))
<1> DEFINE r == thread__init_maps(s, t)
<1>0. s \in Heap /\ s.tgid[t] \in Tid /\ {t} \ {t} = {}
  BY DEF Table, Heap
<1>1. ASSUME s.tgid[t] = t PROVE Table(r, {}, {}, bound) /\ Keeps(s, r)
  <2>1. r = maps__new(s, t)
    BY <1>1 DEF thread__init_maps
  <2>2. Table(maps__new(s, t), {}, {t} \ {t}, bound) /\ Keeps(s, maps__new(s, t))
    BY MapsNew
  <2> QED BY <1>0, <2>1, <2>2
<1>2. ASSUME s.tgid[t] # t PROVE Table(r, {}, {}, bound) /\ Keeps(s, r)
  <2> DEFINE g == s.tgid[t]
             l == findnew_leader(s, g)
             a == [l EXCEPT !.maps[t] = l.maps[g]]
             b == maps__get(a, l.maps[g])
  <2>1. r = thread__put(b, g)
    BY <1>2 DEF thread__init_maps
  <2>2. g \in Tid /\ g \notin {t} /\ g \notin {}
    BY <1>0, <1>2
  <2> HIDE DEF g, r
  <2>3. /\ Table(l, {} \cup {g}, {t}, bound) /\ Keeps(s, l)
        /\ l.where[g] = "tree" /\ l.maps[g] \in Tid
    <3> DEFINE none == {}
               one == {t}
    <3>1. Table(s, none, one, bound) /\ g \notin none /\ g \notin one
      BY <2>2
    <3> HIDE DEF none, one
    <3>2. /\ Table(l, none \cup {g}, one, bound) /\ Keeps(s, l)
          /\ l.where[g] = "tree" /\ l.maps[g] \in Tid
      BY <2>2, <3>1, FindnewLeader
    <3> QED BY <3>2 DEF none, one
  <2> HIDE DEF l
  <2>4. Table(a, {} \cup {g}, {t} \ {t}, bound) /\ Keeps(l, a)
    BY <2>3, MapsSet
  <2>5. a \in Heap
    BY <2>4 DEF Table
  <2> HIDE DEF a
  <2>6. b \in Heap /\ SameTable(a, b)
    BY <2>3, <2>5, MapsGet
  <2> HIDE DEF b
  <2>7. Table(b, {} \cup {g}, {t} \ {t}, bound) /\ Keeps(a, b)
    BY <2>4, <2>6, TableFrame
  <2>8. Keeps(s, b)
    BY <2>3, <2>4, <2>7, KeepsTransitive
  <2>9. b.where[g] = "tree"
    BY <2>2, <2>3, <2>4, <2>7 DEF Keeps
  <2>10. {} \cup {g} = {g} /\ {g} \ {g} = {} /\ g \in {g}
    OBVIOUS
  <2>11. Table(b, {g}, {}, bound)
    BY <1>0, <2>7, <2>10
  <2>12. Table(r, {g} \ {g}, {}, bound) /\ Keeps(b, r)
    BY <2>1, <2>2, <2>9, <2>10, <2>11, ThreadPut
  <2> QED BY <2>8, <2>10, <2>12, KeepsTransitive
<1> QED BY <1>1, <1>2

\* A handler's result: the process stopped at the tgid assertion, or the
\* table is as it was, with at most one more leaked reference and none for t.
Outcome(s, u, held, bound, t) ==
  /\ u \in Heap
  /\ \/ u.abort = "tgid_change"
     \/ /\ Table(u, held, {}, bound + 1) /\ Keeps(s, u)
        /\ u.leak[t] <= bound

\* A table without a new leak.
LEMMA NoNewLeak ==
  ASSUME NEW held, NEW bare, NEW bound \in Nat, NEW s, NEW t \in Tid,
         Table(s, held, bare, bound)
  PROVE  Table(s, held, bare, bound + 1) /\ s.leak[t] <= bound
<1>1. \A v \in Tid : s.leak[v] \in Nat /\ s.leak[v] <= bound
  BY DEF Table, Heap
<1>2. \A v \in Tid : s.leak[v] <= bound + 1
  BY <1>1
<1> QED BY <1>1, <1>2 DEF Table

\* Moving a thread to another tgid leaks at most its new leader's reference.
LEMMA UpdateTgid ==
  ASSUME NEW bound \in Nat, NEW s, NEW t \in Tid, NEW g \in Tid,
         Table(s, {}, {}, bound), s.where[t] = "tree", bound + 3 < RefMod
  PROVE  Outcome(s, machine__update_thread_tgid(s, t, g), {}, bound, t)
<1> DEFINE r == machine__update_thread_tgid(s, t, g)
           c == [s EXCEPT !.tgid[t] = g]
           l == findnew_leader(c, g)
           old == l.maps[t]
           new == l.maps[g]
           a == maps__put(l, old)
           b == [a EXCEPT !.maps[t] = new]
           d == maps__get(b, new)
<1>0. s \in Heap
  BY DEF Table
<1>1. bound + 2 < RefMod /\ RefMod \in Nat
  BY MachineAssumption
<1>2. c \in Heap /\ SameTable(s, c)
  BY <1>0, TgidSet
<1>3. \/ s.tgid[t] = g /\ r = s
      \/ g = t /\ r = c
      \/ g # t /\ old = new /\ r = [l EXCEPT !.leak[g] = @ + 1]
      \/ g # t /\ r = Stop(l, "tgid_change")
      \/ g # t /\ r = thread__put(d, g)
  BY DEF machine__update_thread_tgid
<1> HIDE DEF c, r
<1>4. Table(c, {}, {}, bound) /\ Keeps(s, c)
  BY <1>2, TableFrame
<1>5. /\ Table(l, {} \cup {g}, {}, bound) /\ Keeps(c, l)
      /\ l.where[g] = "tree" /\ new \in Tid
  BY <1>1, <1>4, FindnewLeader
<1> HIDE DEF l
<1>6. Keeps(s, l) /\ {} \cup {g} = {g} /\ {g} \ {g} = {}
  BY <1>4, <1>5, KeepsTransitive
<1>7. Table(l, {g}, {}, bound) /\ l.where[t] = "tree"
  BY <1>5, <1>6 DEF Keeps
<1>8. l \in Heap /\ old \in Tid
  BY <1>7 DEF Table
<1>9. ASSUME r = s PROVE Outcome(s, r, {}, bound, t)
  <2>1. Table(s, {}, {}, bound + 1) /\ s.leak[t] <= bound
    BY NoNewLeak
  <2> QED BY <1>0, <1>9, <2>1 DEF Outcome, Keeps
<1>10. ASSUME r = c PROVE Outcome(s, r, {}, bound, t)
  <2>1. Table(c, {}, {}, bound + 1) /\ c.leak[t] <= bound
    BY <1>4, NoNewLeak
  <2> QED BY <1>2, <1>4, <1>10, <2>1 DEF Outcome
<1>11. ASSUME g # t, r = [l EXCEPT !.leak[g] = @ + 1] PROVE Outcome(s, r, {}, bound, t)
  <2> DEFINE f == [l.leak EXCEPT ![g] = @ + 1]
             u == [l EXCEPT !.leak = f]
  <2>1. l.leak \in [Tid -> Nat]
    BY <1>8 DEF Heap
  <2>2. f \in [Tid -> Nat] /\ f[g] = l.leak[g] + 1 /\ \A v \in Tid \ {g} : f[v] = l.leak[v]
    BY <2>1
  <2>3. r = u
    BY <1>8, <1>11 DEF Heap
  <2> HIDE DEF f
  <2>4. u \in Heap
    BY <1>8, <2>2 DEF Heap
  <2>5. /\ u.leak = f /\ u.where = l.where /\ u.refs = l.refs /\ u.maps = l.maps
        /\ u.last = l.last /\ u.abort = l.abort
    BY <1>8 DEF Heap
  <2> HIDE DEF u
  <2>6. \A v \in Tid : l.leak[v] <= bound /\ l.leak[v] \in Nat
    BY <1>7, <2>1 DEF Table
  <2>7. Table(u, {}, {}, bound + 1)
    <3>1. \A v \in Tid : f[v] <= bound + 1
      BY <2>1, <2>2, <2>6
    <3>2. \A v \in Tid : u.where[v] = "none" => f[v] = 0
      BY <1>5, <1>7, <2>2, <2>5 DEF Table
    <3>3. \A v \in Tid : u.refs[v] = f[v] + (IF u.where[v] = "tree" THEN 1 ELSE 0)
                                          + (IF v \in {} THEN 1 ELSE 0)
      BY <1>7, <2>1, <2>2, <2>5 DEF Table
    <3> QED BY <1>7, <2>4, <2>5, <3>1, <3>2, <3>3 DEF Table
  <2>8. u.leak[t] <= bound
    BY <1>11, <2>2, <2>5, <2>6
  <2>9. Keeps(s, u)
    BY <1>6, <2>5 DEF Keeps
  <2> QED BY <2>3, <2>4, <2>7, <2>8, <2>9 DEF Outcome
<1>12. ASSUME r = Stop(l, "tgid_change") PROVE Outcome(s, r, {}, bound, t)
  BY <1>8, <1>12 DEF Outcome, Stop, Heap, Abort
<1>13. ASSUME g # t, r = thread__put(d, g) PROVE Outcome(s, r, {}, bound, t)
  <2>1. a \in Heap /\ SameTable(l, a)
    BY <1>8, MapsPut
  <2> HIDE DEF a, old, new
  <2>2. Table(a, {g}, {}, bound) /\ Keeps(l, a)
    BY <1>7, <2>1, TableFrame
  <2>3. Table(b, {g}, {} \ {t}, bound) /\ Keeps(a, b)
    BY <1>5, <2>2, MapsSet
  <2> HIDE DEF b
  <2>4. Table(b, {g}, {}, bound) /\ b \in Heap
    <3>1. {} \ {t} = {}
      OBVIOUS
    <3> QED BY <2>3, <3>1 DEF Table
  <2>5. d \in Heap /\ SameTable(b, d)
    BY <1>5, <2>4, MapsGet
  <2> HIDE DEF d
  <2>6. Table(d, {g}, {}, bound) /\ Keeps(b, d)
    BY <2>4, <2>5, TableFrame
  <2>7. Keeps(s, d) /\ d.where[g] = "tree"
    BY <1>5, <1>6, <2>2, <2>3, <2>6 DEF Keeps
  <2>8. Table(r, {g} \ {g}, {}, bound) /\ Keeps(d, r)
    BY <1>1, <1>13, <2>6, <2>7, ThreadPut
  <2>9. Table(r, {}, {}, bound + 1) /\ r.leak[t] <= bound
    BY <1>6, <2>8, NoNewLeak
  <2>10. r \in Heap
    BY <2>9 DEF Table
  <2> QED BY <2>7, <2>8, <2>9, <2>10, KeepsTransitive DEF Outcome
<1>14. Outcome(s, r, {}, bound, t)
  BY <1>3, <1>9, <1>10, <1>11, <1>12, <1>13
<1> QED BY <1>14 DEF r

\* machine__findnew_thread hands out one reference to a linked thread.
LEMMA FindnewThread ==
  ASSUME NEW bound \in Nat, NEW s, NEW g \in Tid, NEW t \in Tid,
         Table(s, {}, {}, bound), bound + 3 < RefMod
  PROVE  /\ Outcome(s, machine__findnew_thread(s, g, t), {t}, bound, t)
         /\ \/ machine__findnew_thread(s, g, t).abort = "tgid_change"
            \/ machine__findnew_thread(s, g, t).where[t] = "tree"
<1> DEFINE r == machine__findnew_thread(s, g, t)
           Good == /\ Outcome(s, r, {t}, bound, t)
                   /\ r.abort = "tgid_change" \/ r.where[t] = "tree"
<1>0. /\ bound + 2 < RefMod /\ (bound + 1) + 2 < RefMod /\ bound + 1 \in Nat
      /\ t \notin {} /\ {} \cup {t} = {t} /\ RefMod \in Nat
  BY MachineAssumption
<1>1. ASSUME Hit(s, t) PROVE Good
  <2> DEFINE a == SetLastMatch(s, t)
             u == machine__update_thread_tgid(a, t, g)
  <2>1. s.where[t] = "tree"
    BY <1>1, HitIsLinked
  <2>2. Table(a, {}, {}, bound) /\ Keeps(s, a)
    BY <2>1, LastMatch
  <2>3. r = thread__get(u, t)
    BY <1>1 DEF machine__findnew_thread
  <2> HIDE DEF a, r
  <2>4. a.where[t] = "tree"
    BY <2>1, <2>2 DEF Keeps
  <2>5. Outcome(a, u, {}, bound, t)
    BY <2>2, <2>4, UpdateTgid
  <2> HIDE DEF u
  <2>6. ASSUME u.abort = "tgid_change" PROVE Good
    <3> DEFINE f == [u.refs EXCEPT ![t] = refcount_inc(@)]
    <3>1. u \in Heap /\ u.refs \in [Tid -> Nat]
      BY <2>5 DEF Outcome, Heap
    <3>2. f \in [Tid -> Nat]
      BY <3>1, Counting
    <3>3. r = [u EXCEPT !.refs = f]
      BY <2>3, <3>1 DEF thread__get, Heap
    <3> HIDE DEF f
    <3>4. r \in Heap /\ r.abort = "tgid_change"
      BY <2>6, <3>1, <3>2, <3>3 DEF Heap
    <3> QED BY <3>4 DEF Outcome
  <2>7. ASSUME u.abort # "tgid_change" PROVE Good
    <3>1. Table(u, {}, {}, bound + 1) /\ Keeps(a, u) /\ u.leak[t] <= bound
      BY <2>5, <2>7 DEF Outcome
    <3>2. u.where[t] = "tree" /\ Keeps(s, u)
      <4>1. u.where[t] = "tree"
        BY <2>4, <3>1 DEF Keeps
      <4> QED BY <2>2, <3>1, <4>1, KeepsTransitive
    <3>3. Table(r, {} \cup {t}, {}, bound + 1) /\ Keeps(u, r) /\ r.leak = u.leak
      <4> DEFINE none == {}
      <4>1. Table(u, none, none, bound + 1) /\ t \notin none
        BY <3>1
      <4> HIDE DEF none
      <4>2. Table(r, none \cup {t}, none, bound + 1) /\ Keeps(u, r) /\ r.leak = u.leak
        BY <1>0, <2>3, <3>2, <4>1, ThreadGet
      <4> QED BY <4>2 DEF none
    <3>4. Table(r, {t}, {}, bound + 1) /\ Keeps(s, r) /\ r.leak[t] <= bound
      BY <1>0, <3>1, <3>2, <3>3, KeepsTransitive
    <3>5. r.where[t] = "tree"
      BY <3>2, <3>3 DEF Keeps
    <3>6. r \in Heap
      BY <3>4 DEF Table
    <3> QED BY <3>4, <3>5, <3>6 DEF Outcome
  <2> QED BY <2>6, <2>7
<1>2. ASSUME ~Hit(s, t) PROVE Good
  <2> DEFINE a == NewLinked(s, g, t)
             b == thread__init_maps(a, t)
  <2>1. s.where[t] # "tree"
    BY <1>2, HitIsLinked
  <2>2. Table(a, {}, {} \cup {t}, bound) /\ Keeps(s, a) /\ a.where[t] = "tree"
    <3> DEFINE none == {}
    <3>1. Table(s, none, none, bound) /\ t \notin none
      OBVIOUS
    <3> HIDE DEF none
    <3>2. Table(a, none, none \cup {t}, bound) /\ Keeps(s, a) /\ a.where[t] = "tree"
      BY <2>1, <3>1, Creation
    <3> QED BY <3>2 DEF none
  <2>3. r = Enter(b, t)
    BY <1>2 DEF machine__findnew_thread
  <2> HIDE DEF a, r
  <2>4. Table(a, {}, {t}, bound)
    BY <1>0, <2>2
  <2>5. Table(b, {}, {}, bound) /\ Keeps(a, b)
    BY <1>0, <2>2, <2>4, InitMaps
  <2> HIDE DEF b
  <2>6. b.where[t] = "tree" /\ Keeps(s, b)
    <3>1. b.where[t] = "tree"
      BY <2>2, <2>5 DEF Keeps
    <3> QED BY <2>2, <2>5, <3>1, KeepsTransitive
  <2>7. Table(r, {} \cup {t}, {}, bound) /\ Keeps(b, r) /\ r.where[t] = "tree"
    <3> DEFINE none == {}
    <3>1. /\ Table(b, none, none, bound) /\ t \notin none
          /\ bound + 2 < RefMod /\ b.where[t] = "tree"
      BY <1>0, <2>5, <2>6
    <3> HIDE DEF none
    <3>2. /\ Table(Enter(b, t), none \cup {t}, none, bound)
          /\ Keeps(b, Enter(b, t)) /\ Enter(b, t).where[t] = "tree"
      BY <3>1, Entering
    <3> QED BY <2>3, <3>2 DEF none
  <2>8. Table(r, {t}, {}, bound) /\ Keeps(s, r)
    BY <1>0, <2>6, <2>7, KeepsTransitive
  <2>9. Table(r, {t}, {}, bound + 1) /\ r.leak[t] <= bound
    BY <2>8, NoNewLeak
  <2>10. r \in Heap
    BY <2>8 DEF Table
  <2> QED BY <2>7, <2>8, <2>9, <2>10 DEF Outcome
<1>3. Good
  BY <1>1, <1>2
<1> QED BY <1>3
-----------------------------------------------------------------------------
(***************************************************************************)
(* The handlers.                                                           *)
(***************************************************************************)
\* A handler stopped for a reason other than a reference count, or dropped
\* all the references it held but one, which it leaked.
Finished(u, bound) ==
  \/ u.abort \in {"tgid_change", "insert_map", "null_flush"}
  \/ u.abort = "no" /\ Table(u, {}, {}, bound + 1)

\* unwind__prepare_access leaves the table of threads alone.
LEMMA PrepareAccess ==
  ASSUME NEW s \in Heap, NEW t \in Tid, NEW ok \in BOOLEAN
  PROVE  /\ unwind__prepare_access(s, t, ok) \in Heap
         /\ SameTable(s, unwind__prepare_access(s, t, ok))
<1> DEFINE x == [s.ulops EXCEPT ![t] = TRUE]
           y == [s.aspace EXCEPT ![t] = ok]
           u == [s EXCEPT !.ulops = x, !.aspace = y]
<1>1. x \in [Tid -> BOOLEAN] /\ y \in [Tid -> BOOLEAN]
  BY DEF Heap
<1>2. [s EXCEPT !.ulops[t] = TRUE, !.aspace[t] = ok] = u
  BY DEF Heap
<1> HIDE DEF x, y
<1>3. u \in Heap /\ SameTable(s, u)
  BY <1>1 DEF Heap, SameTable
<1>4. unwind__prepare_access(s, t, ok) = s \/ unwind__prepare_access(s, t, ok) = u
  BY <1>2 DEF unwind__prepare_access
<1> HIDE DEF u
<1>5. SameTable(s, s)
  BY DEF SameTable
<1> QED BY <1>3, <1>4, <1>5

\* Handing out a held reference for good.
LEMMA Leaking ==
  ASSUME NEW bound \in Nat, NEW s, NEW t \in Tid,
         Table(s, {t}, {}, bound + 1), s.leak[t] <= bound, s.where[t] = "tree"
  PROVE  /\ Table([s EXCEPT !.leak[t] = @ + 1], {}, {}, bound + 1)
         /\ [s EXCEPT !.leak[t] = @ + 1].abort = s.abort
<1> DEFINE f == [s.leak EXCEPT ![t] = @ + 1]
           u == [s EXCEPT !.leak = f]
<1>1. s \in Heap /\ s.leak \in [Tid -> Nat]
  BY DEF Table, Heap
<1>2. f \in [Tid -> Nat] /\ f[t] = s.leak[t] + 1 /\ \A v \in Tid \ {t} : f[v] = s.leak[v]
  BY <1>1
<1>3. u = [s EXCEPT !.leak[t] = @ + 1]
  BY <1>1 DEF Heap
<1> HIDE DEF f
<1>4. u \in Heap
  BY <1>1, <1>2 DEF Heap
<1>5. /\ u.leak = f /\ u.where = s.where /\ u.refs = s.refs /\ u.maps = s.maps
      /\ u.last = s.last /\ u.abort = s.abort
  BY <1>1 DEF Heap
<1> HIDE DEF u
<1>6. \A v \in Tid : u.refs[v] = f[v] + (IF u.where[v] = "tree" THEN 1 ELSE 0)
                                      + (IF v \in {} THEN 1 ELSE 0)
  BY <1>1, <1>2, <1>5 DEF Table
<1>7. \A v \in Tid : f[v] <= bound + 1 /\ (u.where[v] = "none" => f[v] = 0)
  <2>1. f[t] <= bound + 1
    BY <1>1, <1>2
  <2> QED BY <1>2, <1>5, <2>1 DEF Table
<1>8. Table(u, {}, {}, bound + 1)
  BY <1>4, <1>5, <1>6, <1>7 DEF Table
<1> QED BY <1>3, <1>5, <1>8

\* bpf_unwind_ctx__resolve_callchain finishes with one leaked reference.
LEMMA Resolve ==
  ASSUME NEW bound \in Nat, NEW s, NEW g \in Tid, NEW t \in Tid,
         NEW ok \in BOOLEAN, NEW same \in BOOLEAN,
         Table(s, {}, {}, bound), s.abort = "no", bound + 3 < RefMod
  PROVE  Finished(resolve(s, g, t, ok, same), bound)
<1> DEFINE r == resolve(s, g, t, ok, same)
           a == machine__findnew_thread(s, g, t)
           b == unwind__prepare_access(a, t, ok)
           c == thread__set_comm(b, t, same)
           d == [b EXCEPT !.leak[t] = @ + 1]
<1>1. Outcome(s, a, {t}, bound, t) /\ (a.abort = "tgid_change" \/ a.where[t] = "tree")
  BY FindnewThread
<1>2. \/ a.abort # "no" /\ r = a
      \/ a.abort = "no" /\ r = [c EXCEPT !.leak[t] = @ + 1]
  BY DEF resolve
<1> HIDE DEF a
<1>3. a \in Heap
  BY <1>1 DEF Outcome
<1>4. b \in Heap /\ SameTable(a, b)
  BY <1>3, PrepareAccess
<1>5. c = b \/ c = Stop(b, "null_flush")
  BY DEF thread__set_comm, unwind__flush_access
<1> HIDE DEF b, c, r
<1>6. ASSUME a.abort = "tgid_change" PROVE Finished(r, bound)
  BY <1>2, <1>6 DEF Finished
<1>7. ASSUME a.abort # "tgid_change" PROVE Finished(r, bound)
  <2>1. Table(a, {t}, {}, bound + 1) /\ Keeps(s, a) /\ a.leak[t] <= bound
    BY <1>1, <1>7 DEF Outcome
  <2>2. a.abort = "no" /\ a.where[t] = "tree"
    BY <1>1, <1>7, <2>1 DEF Keeps
  <2>3. Table(b, {t}, {}, bound + 1)
    BY <1>4, <2>1, TableFrame
  <2>4. b.leak[t] <= bound /\ b.where[t] = "tree" /\ b.abort = "no"
    BY <1>4, <2>1, <2>2 DEF SameTable
  <2>5. Table(d, {}, {}, bound + 1) /\ d.abort = "no"
    BY <2>3, <2>4, Leaking
  <2>6. ASSUME c = Stop(b, "null_flush") PROVE r.abort = "null_flush"
    BY <1>2, <1>4, <2>2, <2>6 DEF Stop, Heap
  <2>7. ASSUME c = b PROVE r = d
    BY <1>2, <2>2, <2>7
  <2> HIDE DEF d
  <2> QED BY <1>5, <2>5, <2>6, <2>7 DEF Finished
<1> QED BY <1>6, <1>7 DEF r

\* bpf_dl_iterate_phdr finishes with one leaked reference.
LEMMA Iterate ==
  ASSUME NEW bound \in Nat, NEW s, NEW g \in Tid,
         Table(s, {}, {}, bound), s.abort = "no", bound + 3 < RefMod
  PROVE  Finished(iterate(s, g), bound)
<1> DEFINE r == iterate(s, g)
           a == machine__findnew_thread(s, g, g)
<1>1. Outcome(s, a, {g}, bound, g) /\ (a.abort = "tgid_change" \/ a.where[g] = "tree")
  BY FindnewThread
<1>2. r = [a EXCEPT !.leak[g] = @ + 1]
  BY DEF iterate
<1> HIDE DEF a, r
<1>3. ASSUME a.abort = "tgid_change" PROVE Finished(r, bound)
  <2>1. a \in Heap
    BY <1>1 DEF Outcome
  <2>2. r.abort = "tgid_change"
    BY <1>2, <1>3, <2>1 DEF Heap
  <2> QED BY <2>2 DEF Finished
<1>4. ASSUME a.abort # "tgid_change" PROVE Finished(r, bound)
  <2>1. Table(a, {g}, {}, bound + 1) /\ Keeps(s, a) /\ a.leak[g] <= bound
    BY <1>1, <1>4 DEF Outcome
  <2>2. a.abort = "no" /\ a.where[g] = "tree"
    BY <1>1, <1>4, <2>1 DEF Keeps
  <2>3. Table(r, {}, {}, bound + 1) /\ r.abort = "no"
    BY <1>2, <2>1, <2>2, Leaking
  <2> QED BY <2>3 DEF Finished
<1> QED BY <1>3, <1>4 DEF r

\* bpf_unwind_ctx__process_mmap puts the reference it was given.
LEMMA ProcessMmap ==
  ASSUME NEW bound \in Nat, NEW s, NEW g \in Tid, NEW t \in Tid,
         NEW d \in Dso, NEW ok \in BOOLEAN,
         Table(s, {}, {}, bound), s.abort = "no", bound + 3 < RefMod
  PROVE  Finished(bpf_unwind_ctx__process_mmap(s, g, t, d, ok), bound)
<1> DEFINE r == bpf_unwind_ctx__process_mmap(s, g, t, d, ok)
           a == machine__findnew_thread(s, g, t)
           b == map__new(a, d)
           c == unwind__prepare_access(b, t, ok)
           as == c.maps[t]
           e == maps__insert(c, as, d)
           p == thread__put(e, t)
           q == map__put_inserted(p, as)
<1>1. Outcome(s, a, {t}, bound, t) /\ (a.abort = "tgid_change" \/ a.where[t] = "tree")
  BY FindnewThread
<1>2. \/ b.abort # "no" /\ r = b
      \/ r = Stop(c, "insert_map")
      \/ b.abort = "no" /\ r = q
  BY DEF bpf_unwind_ctx__process_mmap
<1> HIDE DEF a, r
<1>3. a \in Heap
  BY <1>1 DEF Outcome
<1>4. b \in Heap /\ SameTable(a, b)
  BY <1>3, MapNew
<1> HIDE DEF b
<1>5. c \in Heap /\ SameTable(b, c)
  BY <1>4, PrepareAccess
<1> HIDE DEF c
<1>6. SameTable(a, c)
  BY <1>4, <1>5, SameTableTransitive
<1>7. ASSUME r = Stop(c, "insert_map") PROVE Finished(r, bound)
  BY <1>5, <1>7 DEF Stop, Heap, Finished
<1>8. ASSUME b.abort # "no", r = b PROVE Finished(r, bound)
  <2>1. a.abort # "no"
    BY <1>4, <1>8 DEF SameTable
  <2>2. a.abort = "tgid_change"
    BY <1>1, <2>1 DEF Outcome, Keeps
  <2> QED BY <1>4, <1>8, <2>2 DEF SameTable, Finished
<1>9. ASSUME b.abort = "no", r = q PROVE Finished(r, bound)
  <2>1. a.abort = "no" /\ c.abort = "no"
    BY <1>4, <1>5, <1>9 DEF SameTable
  <2>2. Table(a, {t}, {}, bound + 1) /\ a.where[t] = "tree"
    BY <1>1, <2>1 DEF Outcome
  <2>3. Table(c, {t}, {}, bound + 1) /\ c.where[t] = "tree"
    <3>1. Table(c, {t}, {}, bound + 1)
      BY <1>5, <1>6, <2>2, TableFrame
    <3> QED BY <1>6, <2>2, <3>1 DEF SameTable
  <2>4. as \in Tid
    BY <2>3 DEF Table
  <2> HIDE DEF as
  <2>5. e \in Heap /\ SameTable(c, e) /\ e.ments[as] # <<>>
    BY <1>5, <2>4, MapsInsert
  <2> HIDE DEF e
  <2>6. Table(e, {t}, {}, bound + 1) /\ e.where[t] = "tree" /\ e.abort = "no"
    <3>1. Table(e, {t}, {}, bound + 1)
      BY <2>3, <2>5, TableFrame
    <3> QED BY <2>1, <2>3, <2>5, <3>1 DEF SameTable
  <2>7. Table(p, {}, {}, bound + 1) /\ Keeps(e, p) /\ p.ments = e.ments
    <3> DEFINE one == {t}
               none == {}
    <3>1. /\ Table(e, one, none, bound + 1) /\ t \in one /\ one \ {t} = none
          /\ (bound + 1) + 2 < RefMod /\ bound + 1 \in Nat
      BY <2>6, MachineAssumption
    <3> HIDE DEF one, none
    <3>2. Table(p, one \ {t}, none, bound + 1) /\ Keeps(e, p) /\ p.ments = e.ments
      BY <2>6, <3>1, ThreadPut
    <3>3. Table(p, none, none, bound + 1)
      BY <3>1, <3>2
    <3> QED BY <3>2, <3>3 DEF none
  <2> HIDE DEF p
  <2>8. p \in Heap /\ p.ments[as] # <<>> /\ p.abort = "no"
    BY <2>5, <2>6, <2>7 DEF Table, Keeps
  <2>9. q \in Heap /\ SameTable(p, q)
    BY <2>4, <2>8, MapPutInserted
  <2> HIDE DEF q
  <2>10. Table(q, {}, {}, bound + 1)
    BY <2>7, <2>9, TableFrame
  <2>11. q.abort = "no"
    BY <2>8, <2>9 DEF SameTable
  <2> QED BY <1>9, <2>10, <2>11 DEF Finished
<1> HIDE DEF q
<1>10. Finished(r, bound)
  BY <1>2, <1>7, <1>8, <1>9
<1> QED BY <1>10 DEF r

(***************************************************************************)
(* Deletion, which takes threads out of the table.                         *)
(***************************************************************************)
Rest(s, bound) ==
  /\ s \in Heap
  /\ \A t \in Tid :
       /\ s.refs[t] = s.leak[t] + (IF s.where[t] = "tree" THEN 1 ELSE 0)
       /\ s.where[t] = "none" => s.leak[t] = 0
       /\ s.where[t] = "tree" => s.maps[t] \in Tid
       /\ s.leak[t] <= bound
  /\ \A b \in Bucket : s.last[b] # NULL =>
       s.where[s.last[b]] = "tree" /\ machine__threads(s.last[b]) = b

\* Between handlers no reference is held and no thread is bare.
LEMMA RestIsTable ==
  ASSUME NEW s, NEW bound
  PROVE  Table(s, {}, {}, bound)
           <=> Rest(s, bound) /\ \A t \in Tid : s.where[t] \in {"none", "tree"}
<1>1. ASSUME s \in Heap, NEW t \in Tid
      PROVE  (s.leak[t] + (IF s.where[t] = "tree" THEN 1 ELSE 0)
                        + (IF t \in {} THEN 1 ELSE 0))
             = s.leak[t] + (IF s.where[t] = "tree" THEN 1 ELSE 0)
  BY <1>1 DEF Heap
<1> QED BY <1>1 DEF Table, Rest

\* thread__delete frees its thread and changes no count of another.
LEMMA ThreadDelete ==
  ASSUME NEW s \in Heap, NEW t \in Tid, s.maps[t] \in Tid
  PROVE  /\ thread__delete(s, t) \in Heap
         /\ thread__delete(s, t).where = [s.where EXCEPT ![t] = "freed"]
         /\ \A v \in Tid \ {t} : thread__delete(s, t).maps[v] = s.maps[v]
         /\ thread__delete(s, t).refs = s.refs /\ thread__delete(s, t).leak = s.leak
         /\ thread__delete(s, t).last = s.last /\ thread__delete(s, t).abort = s.abort
<1> DEFINE a == maps__put(s, s.maps[t])
           f == [a.maps EXCEPT ![t] = NULL]
           b == [a EXCEPT !.maps = f]
           y == [b.aspace EXCEPT ![t] = FALSE]
           c == unwind__finish_access(b, t)
           w == [c.where EXCEPT ![t] = "freed"]
           u == [c EXCEPT !.where = w]
<1>1. a \in Heap /\ SameTable(s, a)
  BY MapsPut
<1> HIDE DEF a
<1>2. f \in [Tid -> Tid \cup {NULL}] /\ \A v \in Tid \ {t} : f[v] = s.maps[v]
  BY <1>1 DEF Heap, SameTable
<1>3. b = [a EXCEPT !.maps[t] = NULL]
  BY <1>1 DEF Heap
<1> HIDE DEF f
<1>4. /\ b \in Heap /\ b.maps = f /\ b.where = s.where /\ b.refs = s.refs
      /\ b.leak = s.leak /\ b.last = s.last /\ b.abort = s.abort
  BY <1>1, <1>2 DEF Heap, SameTable
<1> HIDE DEF b
<1>5. y \in [Tid -> BOOLEAN] /\ [b EXCEPT !.aspace = y] = [b EXCEPT !.aspace[t] = FALSE]
  BY <1>4 DEF Heap
<1> HIDE DEF y
<1>6. c = b \/ c = [b EXCEPT !.aspace = y]
  BY <1>5 DEF unwind__finish_access
<1>7. /\ c \in Heap /\ c.maps = f /\ c.where = s.where /\ c.refs = s.refs
      /\ c.leak = s.leak /\ c.last = s.last /\ c.abort = s.abort
  <2> DEFINE z == [b EXCEPT !.aspace = y]
  <2>1. /\ z \in Heap /\ z.maps = f /\ z.where = s.where /\ z.refs = s.refs
        /\ z.leak = s.leak /\ z.last = s.last /\ z.abort = s.abort
    BY <1>4, <1>5 DEF Heap
  <2> HIDE DEF z, c
  <2>2. c = b \/ c = z
    BY <1>6 DEF z
  <2> QED BY <1>4, <2>1, <2>2
<1>8. thread__delete(s, t) = u
  <2>1. thread__delete(s, t) = [c EXCEPT !.where[t] = "freed"]
    BY <1>3 DEF thread__delete, a
  <2> HIDE DEF c
  <2> QED BY <1>7, <2>1 DEF Heap
<1> HIDE DEF c
<1>9. w \in [Tid -> Where] /\ w = [s.where EXCEPT ![t] = "freed"]
  BY <1>7 DEF Heap, Where
<1> HIDE DEF w
<1>10. /\ u \in Heap /\ u.where = w /\ u.maps = f /\ u.refs = s.refs
       /\ u.leak = s.leak /\ u.last = s.last /\ u.abort = s.abort
  BY <1>7, <1>9 DEF Heap
<1> HIDE DEF u
<1> QED BY <1>2, <1>8, <1>9, <1>10

\* Removing a linked thread drops the table's reference only.
LEMMA RemoveThread ==
  ASSUME NEW bound \in Nat, NEW s, NEW t \in Tid, Rest(s, bound),
         s.where[t] = "tree", s.abort = "no", bound + 2 < RefMod
  PROVE  /\ Rest(machine__remove_thread(s, t), bound)
         /\ machine__remove_thread(s, t).abort = "no"
<1> DEFINE c == machine__threads(t)
           x == [s.last EXCEPT ![c] = IF @ = t THEN NULL ELSE @]
           w == [s.where EXCEPT ![t] = "dead"]
           n == [s.nr EXCEPT ![c] = @ - 1]
           a == [s EXCEPT !.last = x, !.where = w, !.nr = n]
           f == [a.refs EXCEPT ![t] = refcount_dec(@)]
           b == [a EXCEPT !.refs = f]
           r == machine__remove_thread(s, t)
<1>1. s \in Heap /\ c \in Bucket /\ RefMod \in Nat
  BY BucketOf, MachineAssumption DEF Rest
<1>2. /\ s.last \in [Bucket -> Tid \cup {NULL}] /\ s.where \in [Tid -> Where]
      /\ s.nr \in [Bucket -> Int] /\ s.refs \in [Tid -> Nat] /\ s.leak \in [Tid -> Nat]
  BY <1>1 DEF Heap
<1>3. x \in [Bucket -> Tid \cup {NULL}] /\ w \in [Tid -> Where] /\ n \in [Bucket -> Int]
  BY <1>1, <1>2 DEF Where
<1>4. w[t] = "dead" /\ \A v \in Tid \ {t} : w[v] = s.where[v]
  BY <1>2
<1>5. a = [s EXCEPT !.last[c] = IF @ = t THEN NULL ELSE @,
                    !.where[t] = "dead", !.nr[c] = @ - 1]
  BY <1>1 DEF Heap
<1>6. \A d \in Bucket : x[d] # NULL => x[d] = s.last[d] /\ x[d] # t
  <2> SUFFICES ASSUME NEW d \in Bucket, x[d] # NULL PROVE x[d] = s.last[d] /\ x[d] # t
    OBVIOUS
  <2>1. CASE d = c
    BY <1>1, <1>2, <2>1
  <2>2. CASE d # c
    <3>1. x[d] = s.last[d]
      BY <1>2, <2>2
    <3>2. s.last[d] = t => c = d
      BY <3>1 DEF Rest
    <3> QED BY <2>2, <3>1, <3>2
  <2> QED BY <2>1, <2>2
<1> HIDE DEF x, w, n
<1>7. /\ a \in Heap /\ a.last = x /\ a.where = w /\ a.refs = s.refs /\ a.leak = s.leak
      /\ a.maps = s.maps /\ a.abort = s.abort
  BY <1>1, <1>3 DEF Heap
<1>8. s.refs[t] = s.leak[t] + 1 /\ s.leak[t] <= bound /\ s.maps[t] \in Tid
  BY <1>2 DEF Rest
<1>9. refcount_dec(s.refs[t]) = s.leak[t]
  BY <1>1, <1>2, <1>8, Counting
<1>10. s.refs[t] # 0
  BY <1>2, <1>8
<1>11. r = thread__put(a, t)
  BY <1>5, <1>10 DEF machine__remove_thread
<1> HIDE DEF a, r
<1>12. f \in [Tid -> Nat] /\ f[t] = s.leak[t] /\ \A v \in Tid \ {t} : f[v] = s.refs[v]
  BY <1>2, <1>7, <1>9
<1>13. b = [a EXCEPT !.refs[t] = refcount_dec(@)]
  BY <1>7 DEF Heap
<1> HIDE DEF f
<1>14. /\ b \in Heap /\ b.refs = f /\ b.last = x /\ b.where = w /\ b.leak = s.leak
       /\ b.maps = s.maps /\ b.abort = s.abort
  BY <1>7, <1>12 DEF Heap
<1> HIDE DEF b
<1>15. r = b \/ r = thread__delete(b, t)
  BY <1>4, <1>7, <1>11, <1>13 DEF thread__put
<1>16. /\ r \in Heap /\ r.refs = f /\ r.leak = s.leak /\ r.last = x /\ r.abort = s.abort
       /\ r.where[t] \in {"dead", "freed"}
       /\ \A v \in Tid \ {t} : r.where[v] = s.where[v] /\ r.maps[v] = s.maps[v]
  <2> DEFINE z == thread__delete(b, t)
  <2>1. /\ z \in Heap /\ z.where = [b.where EXCEPT ![t] = "freed"]
        /\ \A v \in Tid \ {t} : z.maps[v] = b.maps[v]
        /\ z.refs = b.refs /\ z.leak = b.leak /\ z.last = b.last /\ z.abort = b.abort
    BY <1>8, <1>14, ThreadDelete
  <2> HIDE DEF z
  <2>2. z.where[t] = "freed" /\ \A v \in Tid \ {t} : z.where[v] = s.where[v]
    BY <1>2, <1>3, <1>4, <1>14, <2>1
  <2>3. r = b \/ r = z
    BY <1>15 DEF z
  <2>4. CASE r = b
    BY <1>4, <1>14, <2>4
  <2>5. CASE r = z
    BY <1>14, <2>1, <2>2, <2>5
  <2> QED BY <2>3, <2>4, <2>5
<1>17. \A v \in Tid :
         /\ r.refs[v] = r.leak[v] + (IF r.where[v] = "tree" THEN 1 ELSE 0)
         /\ r.where[v] = "none" => r.leak[v] = 0
         /\ r.where[v] = "tree" => r.maps[v] \in Tid
         /\ r.leak[v] <= bound
  <2> SUFFICES ASSUME NEW v \in Tid
               PROVE  /\ r.refs[v] = r.leak[v] + (IF r.where[v] = "tree" THEN 1 ELSE 0)
                      /\ r.where[v] = "none" => r.leak[v] = 0
                      /\ r.where[v] = "tree" => r.maps[v] \in Tid
                      /\ r.leak[v] <= bound
    OBVIOUS
  <2>1. CASE v = t
    BY <1>2, <1>8, <1>12, <1>16, <2>1
  <2>2. CASE v # t
    BY <1>12, <1>16, <2>2 DEF Rest
  <2> QED BY <2>1, <2>2
<1>18. \A d \in Bucket : r.last[d] # NULL =>
         r.where[r.last[d]] = "tree" /\ machine__threads(r.last[d]) = d
  <2> SUFFICES ASSUME NEW d \in Bucket, r.last[d] # NULL
               PROVE  r.where[r.last[d]] = "tree" /\ machine__threads(r.last[d]) = d
    OBVIOUS
  <2>1. x[d] = s.last[d] /\ x[d] # t /\ x[d] \in Tid
    BY <1>3, <1>6, <1>16
  <2>2. s.where[x[d]] = "tree" /\ machine__threads(x[d]) = d
    BY <1>16, <2>1 DEF Rest
  <2> QED BY <1>16, <2>1, <2>2
<1>19. Rest(r, bound) /\ r.abort = "no"
  BY <1>16, <1>17, <1>18 DEF Rest
<1> QED BY <1>19 DEF r

\* Freeing the machine's dsos leaves the table of threads alone.
LEMMA DsosPurge ==
  ASSUME NEW s \in Heap
  PROVE  /\ [dsos__purge(s) EXCEPT !.freed = TRUE] \in Heap
         /\ [dsos__purge(s) EXCEPT !.freed = TRUE].where = s.where
         /\ [dsos__purge(s) EXCEPT !.freed = TRUE].refs = s.refs
         /\ [dsos__purge(s) EXCEPT !.freed = TRUE].leak = s.leak
         /\ [dsos__purge(s) EXCEPT !.freed = TRUE].maps = s.maps
         /\ [dsos__purge(s) EXCEPT !.freed = TRUE].last = s.last
         /\ [dsos__purge(s) EXCEPT !.freed = TRUE].abort = s.abort
         /\ [dsos__purge(s) EXCEPT !.freed = TRUE].freed = TRUE
<1> DEFINE a == [s EXCEPT !.dlisted = [d \in Dso |-> FALSE]]
           n == [d \in Dso |-> IF s.dlisted[d] THEN 1 ELSE 0]
           b == dso__puts(a, n)
<1>1. a \in Heap /\ SameTable(s, a)
  BY DEF Heap, SameTable
<1>2. n \in [Dso -> Int]
  OBVIOUS
<1>3. dsos__purge(s) = b
  BY DEF dsos__purge
<1> HIDE DEF a, n
<1>4. b \in Heap /\ SameTable(s, b)
  BY <1>1, <1>2, DsoPuts, SameTableTransitive
<1> HIDE DEF b
<1> QED BY <1>3, <1>4 DEF Heap, SameTable
-----------------------------------------------------------------------------
(***************************************************************************)
(* The inductive invariant.                                                *)
(***************************************************************************)
\* Every call and every line leak at most one reference of a thread, so with
\* this many no count wraps.
NoWrap == MaxCalls + MaxMaps + 3 < RefMod

\* The machine answers calls: machine__delete has not begun.
Serving == pc = "lines" \/ (pc = "idle" /\ ~m.freed)

\* The counts are exact, the cache points into the table, every linked thread
\* has an address space, and no thread has left the table before deletion.
MachineInv ==
  /\ TypeOK
  /\ calls <= MaxCalls /\ lines <= MaxMaps
  /\ Rest(m, calls + lines)
  /\ Serving => \A t \in Tid : m.where[t] \in {"none", "tree"}
  /\ NoRefcountError

\* machine__new establishes the invariant.
LEMMA MachineInvInit == Init => MachineInv
<1> SUFFICES ASSUME Init PROVE MachineInv
  OBVIOUS
<1>1. m = machine__new /\ pc = "idle" /\ arg = NULL /\ calls = 0 /\ lines = 0
  BY DEF Init
<1>2. m \in Heap
  <2>1. \A t \in Tid : <<>> \in Seq(MapEntry)
    OBVIOUS
  <2> QED BY <1>1, <2>1 DEF machine__new, Heap, Where, Abort
<1>3. Rest(m, 0)
  BY <1>1, <1>2 DEF Rest, machine__new
<1>4. TypeOK
  BY <1>1, <1>2 DEF TypeOK
<1>5. calls <= MaxCalls /\ lines <= MaxMaps
  BY <1>1, MachineAssumption
<1>6. \A t \in Tid : m.where[t] \in {"none", "tree"}
  BY <1>1 DEF machine__new
<1>7. NoRefcountError
  BY <1>1 DEF NoRefcountError, machine__new
<1>8. calls + lines = 0
  BY <1>1
<1> QED BY <1>3, <1>4, <1>5, <1>6, <1>7, <1>8 DEF MachineInv

\* Stopping the process touches no count.
LEMMA Stopped ==
  ASSUME NEW s, NEW bound \in Nat, Rest(s, bound),
         NEW why \in {"tgid_change", "insert_map", "null_flush"}
  PROVE  /\ Rest([s EXCEPT !.abort = why], bound + 1)
         /\ [s EXCEPT !.abort = why].where = s.where
         /\ [s EXCEPT !.abort = why].freed = s.freed
         /\ [s EXCEPT !.abort = why].abort = why
<1> DEFINE u == [s EXCEPT !.abort = why]
<1>1. s \in Heap
  BY DEF Rest
<1>2. /\ u \in Heap /\ u.where = s.where /\ u.refs = s.refs /\ u.leak = s.leak
      /\ u.maps = s.maps /\ u.last = s.last /\ u.abort = why /\ u.freed = s.freed
  BY <1>1 DEF Heap, Abort
<1> HIDE DEF u
<1>3. \A t \in Tid : s.leak[t] \in Nat /\ s.leak[t] <= bound
  BY <1>1 DEF Rest, Heap
<1>4. \A t \in Tid : s.leak[t] <= bound + 1
  BY <1>3
<1>5. Rest(u, bound + 1)
  BY <1>2, <1>4 DEF Rest
<1> QED BY <1>2, <1>5 DEF u

\* A handler that finished, or stopped, re-establishes the invariant.
LEMMA HandlerStep ==
  ASSUME MachineInv, Serving, NEW u, Finished(u, calls + lines), Becomes(u),
         pc' = pc, arg' = arg, calls' \in Nat, lines' \in Nat,
         calls' <= MaxCalls, lines' <= MaxMaps,
         calls' + lines' = (calls + lines) + 1
  PROVE  MachineInv'
<1> DEFINE bound == calls + lines
<1>1. calls \in Nat /\ lines \in Nat /\ bound \in Nat
  BY DEF MachineInv, TypeOK
<1> HIDE DEF bound
<1>2. /\ Rest(m', bound + 1) /\ NoRefcountError'
      /\ \A t \in Tid : m'.where[t] \in {"none", "tree"}
  <2>1. CASE u.abort \in {"tgid_change", "insert_map", "null_flush"}
    <3>1. m' = [m EXCEPT !.abort = u.abort]
      BY <2>1 DEF Becomes
    <3>2. Rest(m, bound) /\ \A t \in Tid : m.where[t] \in {"none", "tree"}
      BY DEF MachineInv, bound
    <3>3. Rest(m', bound + 1) /\ m'.where = m.where /\ m'.abort = u.abort
      BY <1>1, <2>1, <3>1, <3>2, Stopped
    <3>4. NoRefcountError'
      BY <2>1, <3>3 DEF NoRefcountError
    <3> QED BY <3>2, <3>3, <3>4
  <2>2. CASE u.abort = "no" /\ Table(u, {}, {}, bound + 1)
    <3>1. m' = u
      BY <2>2 DEF Becomes
    <3>2. Rest(u, bound + 1) /\ \A t \in Tid : u.where[t] \in {"none", "tree"}
      BY <2>2, RestIsTable
    <3>3. NoRefcountError'
      BY <2>2, <3>1 DEF NoRefcountError
    <3> QED BY <3>1, <3>2, <3>3
  <2> QED BY <2>1, <2>2 DEF Finished, bound
<1>3. TypeOK'
  <2>1. m' \in Heap
    BY <1>2 DEF Rest
  <2> QED BY <2>1 DEF MachineInv, TypeOK
<1>4. calls' + lines' = bound + 1
  BY DEF bound
<1>5. Rest(m, calls + lines)'
  BY <1>2, <1>4
<1> QED BY <1>2, <1>3, <1>5 DEF MachineInv

\* Every library call, maps line and step of machine__delete keeps it.
LEMMA MachineInvNext ==
  ASSUME NoWrap, MachineInv, [Next]_vars
  PROVE  MachineInv'
<1> DEFINE bound == calls + lines
<1>0. /\ TypeOK /\ calls \in Nat /\ lines \in Nat /\ bound \in Nat
      /\ MaxCalls \in Nat /\ MaxMaps \in Nat /\ RefMod \in Nat
      /\ calls <= MaxCalls /\ lines <= MaxMaps /\ bound <= MaxCalls + MaxMaps
  BY MachineAssumption DEF MachineInv, TypeOK
<1>1. bound + 3 < RefMod /\ bound + 2 < RefMod
  BY <1>0 DEF NoWrap
<1>2. Serving => Table(m, {}, {}, bound)
  BY RestIsTable DEF MachineInv
<1>3. ASSUME Call PROVE /\ Serving /\ m.abort = "no" /\ pc = "idle" /\ ~m.freed
                        /\ calls' \in Nat /\ calls' <= MaxCalls
                        /\ calls' + lines = bound + 1
  BY <1>0, <1>3 DEF Call, Serving
<1>4. ASSUME m' = m, calls' \in Nat, calls' <= MaxCalls, calls <= calls', lines' = lines,
             pc' \in {"idle", "lines", "delete_threads"}, Serving' => Serving,
             arg' \in (Tid \X Tid) \cup {NULL}, pc' = "lines" => arg' # NULL
      PROVE  MachineInv'
  <2>1. TypeOK'
    BY <1>0, <1>4 DEF TypeOK
  <2>2. Rest(m, calls + lines)'
    <3>1. \A t \in Tid : m.leak[t] \in Nat /\ m.leak[t] <= calls + lines
      BY DEF MachineInv, Rest, Heap
    <3>2. \A t \in Tid : m.leak[t] <= calls' + lines'
      BY <1>0, <1>4, <3>1
    <3> QED BY <1>4, <3>2 DEF MachineInv, Rest
  <2> QED BY <1>0, <1>4, <2>1, <2>2 DEF MachineInv, NoRefcountError
<1> HIDE DEF bound
<1>5. CASE thread_map_no_file
  <2>1. /\ Call /\ m' = m /\ pc' = pc /\ arg' = arg /\ lines' = lines
    BY <1>5 DEF thread_map_no_file
  <2>2. calls <= calls'
    BY <1>0, <2>1 DEF Call
  <2>3. Serving' => Serving
    BY <2>1 DEF Serving
  <2> QED BY <1>0, <1>3, <1>4, <2>1, <2>2, <2>3 DEF TypeOK
<1>6. ASSUME NEW g \in Tid, NEW t \in Tid, bpf_unwind_ctx__thread_map(g, t)
      PROVE  MachineInv'
  <2>1. /\ Call /\ m' = m /\ pc' = "lines" /\ arg' = <<g, t>> /\ lines' = lines
    BY <1>6 DEF bpf_unwind_ctx__thread_map
  <2>2. calls <= calls'
    BY <1>0, <2>1 DEF Call
  <2>3. <<g, t>> \in Tid \X Tid
    OBVIOUS
  <2>4. <<g, t>> # NULL
    BY <2>3, MachineAssumption
  <2> QED BY <1>0, <1>3, <1>4, <2>1, <2>2, <2>3, <2>4
<1>7. ASSUME NEW d \in Dso, NEW ok \in BOOLEAN, prepare_mmap_line(d, ok)
      PROVE  MachineInv'
  <2> DEFINE u == bpf_unwind_ctx__process_mmap(m, arg[1], arg[2], d, ok)
  <2>1. /\ m.abort = "no" /\ pc = "lines" /\ lines < MaxMaps /\ Becomes(u)
        /\ lines' = lines + 1 /\ pc' = pc /\ arg' = arg /\ calls' = calls
    BY <1>7 DEF prepare_mmap_line
  <2>2. arg[1] \in Tid /\ arg[2] \in Tid /\ Serving
    BY <1>0, <2>1 DEF TypeOK, Serving
  <2>3. Finished(u, bound)
    BY <1>0, <1>1, <1>2, <2>1, <2>2, ProcessMmap
  <2> HIDE DEF u
  <2>4. /\ lines' \in Nat /\ lines' <= MaxMaps /\ calls' \in Nat /\ calls' <= MaxCalls
        /\ calls' + lines' = (calls + lines) + 1
    BY <1>0, <2>1
  <2> QED BY <2>1, <2>2, <2>3, <2>4, HandlerStep DEF bound
<1>8. CASE prepare_mmap_eof
  <2>1. /\ pc = "lines" /\ pc' = "idle" /\ arg' = NULL
        /\ m' = m /\ calls' = calls /\ lines' = lines
    BY <1>8 DEF prepare_mmap_eof
  <2> QED BY <1>0, <1>4, <2>1 DEF Serving
<1>9. ASSUME NEW g \in Tid, NEW t \in Tid, NEW ok \in BOOLEAN, NEW same \in BOOLEAN,
             bpf_unwind_ctx__resolve_callchain(g, t, ok, same)
      PROVE  MachineInv'
  <2> DEFINE u == resolve(m, g, t, ok, same)
  <2>1. Call /\ Becomes(u) /\ pc' = pc /\ arg' = arg /\ lines' = lines
    BY <1>9 DEF bpf_unwind_ctx__resolve_callchain
  <2>2. Finished(u, bound)
    BY <1>0, <1>1, <1>2, <1>3, <2>1, Resolve
  <2> HIDE DEF u
  <2> QED BY <1>0, <1>3, <2>1, <2>2, HandlerStep DEF bound
<1>10. ASSUME NEW g \in Tid, bpf_dl_iterate_phdr(g) PROVE MachineInv'
  <2> DEFINE u == iterate(m, g)
  <2>1. Call /\ Becomes(u) /\ pc' = pc /\ arg' = arg /\ lines' = lines
    BY <1>10 DEF bpf_dl_iterate_phdr
  <2>2. Finished(u, bound)
    BY <1>0, <1>1, <1>2, <1>3, <2>1, Iterate
  <2> HIDE DEF u
  <2> QED BY <1>0, <1>3, <2>1, <2>2, HandlerStep DEF bound
<1>11. CASE machine__delete
  <2>1. /\ pc = "idle" /\ pc' = "delete_threads"
        /\ m' = m /\ arg' = arg /\ calls' = calls /\ lines' = lines
    BY <1>11 DEF machine__delete
  <2> QED BY <1>0, <1>4, <2>1 DEF Serving, TypeOK
<1>12. ASSUME NEW t \in Tid, machine__delete_threads(t) PROVE MachineInv'
  <2> DEFINE u == machine__remove_thread(m, t)
  <2>1. /\ m.abort = "no" /\ pc = "delete_threads" /\ m.where[t] = "tree" /\ Becomes(u)
        /\ pc' = pc /\ arg' = arg /\ calls' = calls /\ lines' = lines
    BY <1>12 DEF machine__delete_threads, InTree
  <2>2. Rest(u, bound) /\ u.abort = "no"
    BY <1>0, <1>1, <2>1, RemoveThread DEF MachineInv, bound
  <2> HIDE DEF u
  <2>3. m' = u /\ u \in Heap
    BY <2>1, <2>2 DEF Becomes, Rest
  <2>4. TypeOK' /\ ~Serving' /\ NoRefcountError'
    BY <1>0, <2>1, <2>2, <2>3 DEF TypeOK, Serving, NoRefcountError
  <2>5. Rest(m, calls + lines)'
    BY <2>1, <2>2, <2>3 DEF bound
  <2> QED BY <1>0, <2>1, <2>4, <2>5 DEF MachineInv
<1>13. CASE machine__exit
  <2> DEFINE u == [dsos__purge(m) EXCEPT !.freed = TRUE]
  <2>1. /\ m.abort = "no" /\ m' = u /\ pc' = "idle"
        /\ arg' = arg /\ calls' = calls /\ lines' = lines
    BY <1>13 DEF machine__exit
  <2>2. /\ u \in Heap /\ u.where = m.where /\ u.refs = m.refs /\ u.leak = m.leak
        /\ u.maps = m.maps /\ u.last = m.last /\ u.abort = m.abort /\ u.freed = TRUE
    BY <1>0, DsosPurge DEF TypeOK
  <2> HIDE DEF u
  <2>3. TypeOK' /\ ~Serving' /\ NoRefcountError'
    BY <1>0, <2>1, <2>2 DEF TypeOK, Serving, NoRefcountError
  <2>4. Rest(m, calls + lines)'
    BY <2>1, <2>2 DEF MachineInv, Rest
  <2> QED BY <1>0, <2>1, <2>3, <2>4 DEF MachineInv
<1>14. CASE UNCHANGED vars
  BY <1>0, <1>4, <1>14 DEF vars, TypeOK, Serving
<1> QED BY <1>5, <1>6, <1>7, <1>8, <1>9, <1>10, <1>11, <1>12, <1>13, <1>14 DEF Next

\* The invariant holds of every behaviour in which no count can wrap.
THEOREM MachineInvariant ==
  ASSUME NoWrap
  PROVE  Spec => []MachineInv
<1>1. Init => MachineInv
  BY MachineInvInit
<1>2. MachineInv /\ [Next]_vars => MachineInv'
  BY MachineInvNext
<1> QED BY <1>1, <1>2, PTL DEF Spec

\* Every field of machine.c's, thread.c's, map.c's and dso.c's objects keeps
\* its type.
THEOREM MachineTypes ==
  ASSUME NoWrap
  PROVE  Spec => []TypeOK
<1>1. MachineInv => TypeOK
  BY DEF MachineInv
<1> QED BY <1>1, MachineInvariant, PTL

\* thread->refcnt is the table's reference plus the leaked ones: no path of
\* machine.c or event.c puts a reference it does not own.
THEOREM ThreadCountsAreExact ==
  ASSUME NoWrap
  PROVE  Spec => []ThreadRefsExact
<1>1. MachineInv => ThreadRefsExact
  BY DEF MachineInv, Rest, ThreadRefsExact
<1> QED BY <1>1, MachineInvariant, PTL

\* threads->last_match is NULL or a thread linked in that bucket's tree.
THEOREM LastMatchIsLinked ==
  ASSUME NoWrap
  PROVE  Spec => []LastMatchInTree
<1>1. MachineInv => LastMatchInTree
  BY DEF MachineInv, Rest, LastMatchInTree
<1> QED BY <1>1, MachineInvariant, PTL

\* No thread__put frees a linked thread, and the assertion on the count in
\* __machine__remove_thread never fails.
THEOREM CountsNeverFail ==
  ASSUME NoWrap
  PROVE  Spec => []NoRefcountError
<1>1. MachineInv => NoRefcountError
  BY DEF MachineInv
<1> QED BY <1>1, MachineInvariant, PTL
=============================================================================
