------------------------- MODULE AddressSpaceProofs -------------------------
(***************************************************************************)
(* Proofs about the address spaces that threads share: maps->refcnt counts *)
(* the threads that use it through every re-parenting, no mapping is lost  *)
(* before machine__delete, and machine__delete leaves behind only what a   *)
(* leaked reference keeps.                                                 *)
(***************************************************************************)
EXTENDS MachineProofs

\* The threads whose maps field is f's that point to address space g.
Users(f, g) == {v \in Tid : f[v] = g}

\* Address space t does not exist yet and thread t has none.
Fresh(f, t) == f[t] = NULL /\ \A v \in Tid : f[v] # t

\* The address spaces inside a handler: exact counts, and no entries without a
\* user; bare are the threads whose maps are not set yet.
Spaces(s, bare) ==
  /\ \A g \in Tid : s.mrefs[g] = Cardinality(Users(s.maps, g))
  /\ \A t \in Tid : s.where[t] = "none" \/ t \in bare => Fresh(s.maps, t)
  /\ \A t \in Tid : s.where[t] = "freed" => s.maps[t] = NULL
  /\ \A g \in Tid : s.ments[g] # <<>> => s.mrefs[g] > 0

\* A thread with a libunwind space has ulops, a freed one has no such space.
Access(s) ==
  \A t \in Tid : (s.aspace[t] => s.ulops[t]) /\ (s.where[t] = "freed" => ~s.aspace[t])

\* What an operation on counts of threads and dsos leaves alone.
SameSpaces(s, u) ==
  /\ u.where = s.where /\ u.maps = s.maps /\ u.mrefs = s.mrefs /\ u.ments = s.ments
  /\ u.aspace = s.aspace /\ u.ulops = s.ulops /\ u.freed = s.freed

\* From s to u no mapping changed and the address spaces are in order.
Kept(s, u, bare) ==
  Spaces(u, bare) /\ Access(u) /\ u.ments = s.ments /\ u.freed = s.freed

\* As many threads as there are tids can share an address space.
ThreadsFit == Cardinality(Tid) + 1 < RefMod
-----------------------------------------------------------------------------
(***************************************************************************)
(* Counting users.                                                         *)
(***************************************************************************)
\* An address space has at most as many users as there are tids.
LEMMA UsersFinite ==
  ASSUME NEW f, NEW g
  PROVE  /\ IsFiniteSet(Users(f, g)) /\ Cardinality(Users(f, g)) \in Nat
         /\ Cardinality(Tid) \in Nat
         /\ Cardinality(Users(f, g)) <= Cardinality(Tid)
<1>1. IsFiniteSet(Tid) /\ Users(f, g) \in SUBSET Tid
  BY MachineAssumption DEF Users
<1> QED BY <1>1, FS_Subset, FS_CardinalityType

\* A user makes the count positive, and a positive count has a user.
LEMMA UsedIsCounted ==
  ASSUME NEW f, NEW g
  PROVE  Cardinality(Users(f, g)) > 0 <=> \E v \in Tid : f[v] = g
<1>1. IsFiniteSet(Users(f, g)) /\ Cardinality(Users(f, g)) \in Nat
  BY UsersFinite
<1>2. Cardinality(Users(f, g)) = 0 <=> Users(f, g) = {}
  BY <1>1, FS_EmptySet
<1>3. Users(f, g) # {} <=> \E v \in Tid : f[v] = g
  BY DEF Users
<1> QED BY <1>1, <1>2, <1>3

\* Moving a thread from one address space to another moves one user.
LEMMA Moving ==
  ASSUME NEW f \in [Tid -> Tid \cup {NULL}], NEW t \in Tid, NEW x \in Tid \cup {NULL},
         x # f[t], NEW g \in Tid, NEW h, h[t] = x, \A v \in Tid \ {t} : h[v] = f[v]
  PROVE  /\ g = x => Cardinality(Users(h, g)) = Cardinality(Users(f, g)) + 1
         /\ g = f[t] => Cardinality(Users(h, g)) = Cardinality(Users(f, g)) - 1
         /\ g # x /\ g # f[t] => Cardinality(Users(h, g)) = Cardinality(Users(f, g))
<1>1. IsFiniteSet(Users(f, g)) /\ Cardinality(Users(f, g)) \in Nat
  BY UsersFinite
<1>3. CASE g = x
  <2>1. Users(h, g) = Users(f, g) \cup {t} /\ t \notin Users(f, g)
    BY <1>3 DEF Users
  <2> QED BY <1>1, <1>3, <2>1, FS_AddElement
<1>4. CASE g # x /\ g = f[t]
  <2>1. Users(h, g) = Users(f, g) \ {t} /\ t \in Users(f, g)
    BY <1>4 DEF Users
  <2> QED BY <1>1, <1>4, <2>1, FS_RemoveElement
<1>5. CASE g # x /\ g # f[t]
  <2>1. Users(h, g) = Users(f, g)
    BY <1>5 DEF Users
  <2> QED BY <1>5, <2>1
<1> QED BY <1>3, <1>4, <1>5
-----------------------------------------------------------------------------
(***************************************************************************)
(* Operations that touch no address space.                                 *)
(***************************************************************************)
\* SameSpaces composes and carries the facts about address spaces along.
LEMMA SpacesFrame ==
  ASSUME NEW s, NEW u, SameSpaces(s, u)
  PROVE  /\ \A bare : Spaces(s, bare) => Spaces(u, bare)
         /\ Access(s) => Access(u)
         /\ \A v : SameSpaces(u, v) => SameSpaces(s, v)
BY DEF SameSpaces, Spaces, Access

\* thread__get, SetLastMatch, the leak count and the count of a bucket.
LEMMA PlainSame ==
  ASSUME NEW s \in Heap, NEW t \in Tid
  PROVE  /\ SameSpaces(s, thread__get(s, t)) /\ SameSpaces(s, SetLastMatch(s, t))
         /\ SameSpaces(s, [s EXCEPT !.leak[t] = @ + 1])
         /\ \A g : SameSpaces(s, [s EXCEPT !.tgid[t] = g])
         /\ \A why : SameSpaces(s, Stop(s, why))
BY DEF thread__get, SetLastMatch, Stop, Heap, SameSpaces

\* thread__put of a linked thread frees nothing.
LEMMA PutSame ==
  ASSUME NEW s \in Heap, NEW t \in Tid, s.where[t] = "tree"
  PROVE  SameSpaces(s, thread__put(s, t))
<1> DEFINE u == [s EXCEPT !.refs[t] = refcount_dec(@)]
<1>1. thread__put(s, t) = u \/ thread__put(s, t) = Stop(u, "corrupt")
  BY DEF thread__put
<1>2. SameSpaces(s, u) /\ SameSpaces(s, [u EXCEPT !.abort = "corrupt"])
  BY DEF Heap, SameSpaces
<1> QED BY <1>1, <1>2 DEF Stop

\* Enter counts the table's reference and sets the cache.
LEMMA EnterSame ==
  ASSUME NEW s \in Heap, NEW t \in Tid, thread__get(s, t) \in Heap,
         SetLastMatch(thread__get(s, t), t) \in Heap
  PROVE  SameSpaces(s, Enter(s, t))
<1> DEFINE a == thread__get(s, t)
           b == SetLastMatch(a, t)
<1>1. SameSpaces(s, a) /\ SameSpaces(a, b)
  BY PlainSame
<1>2. SameSpaces(s, b)
  BY <1>1, SpacesFrame
<1>3. Enter(s, t) = [b EXCEPT !.nr[machine__threads(t)] = @ + 1]
  BY DEF Enter
<1> HIDE DEF a, b
<1>4. b \in Heap
  BY DEF a, b
<1>5. SameSpaces(b, Enter(s, t))
  BY <1>3, <1>4 DEF Heap, SameSpaces
<1> QED BY <1>2, <1>5, SpacesFrame

\* A dso's count is no address space's.
LEMMA DsoSame ==
  ASSUME NEW s \in Heap, NEW d \in Dso, NEW n
  PROVE  /\ SameSpaces(s, dso__get(s, d)) /\ SameSpaces(s, dso__puts(s, n))
         /\ SameSpaces(s, dso__put(s, d))
BY DEF dso__get, dso__put, dso__puts, dso__delete, Heap, SameSpaces

\* map__new works on dsos only.
LEMMA MapNewSame ==
  ASSUME NEW s \in Heap, NEW d \in Dso
  PROVE  SameSpaces(s, map__new(s, d))
<1> DEFINE a == [s EXCEPT !.drefs[d] = 1, !.dlisted[d] = TRUE]
           b == dsos__addnew(s, d)
           c == dsos__findnew(s, d)
<1>1. a \in Heap /\ SameSpaces(s, a)
  <2>1. [s.drefs EXCEPT ![d] = 1] \in [Dso -> Nat]
    BY DEF Heap
  <2>2. [s.dlisted EXCEPT ![d] = TRUE] \in [Dso -> BOOLEAN]
    BY DEF Heap
  <2>3. a = [s EXCEPT !.drefs = [s.drefs EXCEPT ![d] = 1],
                      !.dlisted = [s.dlisted EXCEPT ![d] = TRUE]]
    BY DEF Heap
  <2> QED BY <2>1, <2>2, <2>3 DEF Heap, SameSpaces
<1>2. b \in Heap /\ SameSpaces(s, b)
  <2> HIDE DEF a
  <2>1. b = dso__put(dso__get(a, d), d)
    BY DEF dsos__addnew, a
  <2> QED BY <1>1, <2>1, DsoGet, DsoPut, DsoSame, SpacesFrame
<1>3. c \in Heap /\ SameSpaces(s, c)
  <2> HIDE DEF b
  <2>1. c = dso__get(s, d) \/ c = dso__get(b, d)
    BY DEF dsos__findnew, b
  <2> QED BY <1>2, <2>1, DsoGet, DsoSame, SpacesFrame
<1> HIDE DEF c
<1>4. map__new(s, d) = dso__put(dso__get(c, d), d)
  BY DEF map__new, c
<1> QED BY <1>3, <1>4, DsoGet, DsoPut, DsoSame, SpacesFrame
-----------------------------------------------------------------------------
(***************************************************************************)
(* Operations on address spaces.                                           *)
(***************************************************************************)
\* An address space that does not exist yet has no users and no entries.
LEMMA FreshIsEmpty ==
  ASSUME NEW s, NEW bare, NEW t \in Tid, Spaces(s, bare), Fresh(s.maps, t)
  PROVE  s.mrefs[t] = 0 /\ s.ments[t] = <<>>
<1>1. Cardinality(Users(s.maps, t)) \in Nat /\ ~(Cardinality(Users(s.maps, t)) > 0)
  BY UsersFinite, UsedIsCounted DEF Fresh
<1>2. s.mrefs[t] = 0
  BY <1>1 DEF Spaces
<1> QED BY <1>2 DEF Spaces

\* Storing what is there already changes nothing.
LEMMA SameValue ==
  ASSUME NEW S, NEW f \in [Tid -> S], NEW t \in Tid, NEW x, f[t] = x
  PROVE  [f EXCEPT ![t] = x] = f
OBVIOUS

\* Counts that follow a thread from its address space to x, which may be
\* NULL, stay exact.
LEMMA MovedCounts ==
  ASSUME NEW s \in Heap, NEW bare, Spaces(s, bare), NEW u,
         NEW t \in Tid, NEW x \in Tid \cup {NULL}, x # s.maps[t],
         u.maps[t] = x, \A v \in Tid \ {t} : u.maps[v] = s.maps[v],
         \A g \in Tid : /\ g = x => u.mrefs[g] = s.mrefs[g] + 1
                        /\ g = s.maps[t] => u.mrefs[g] = s.mrefs[g] - 1
                        /\ g # x /\ g # s.maps[t] => u.mrefs[g] = s.mrefs[g]
  PROVE  \A g \in Tid : u.mrefs[g] = Cardinality(Users(u.maps, g))
<1> SUFFICES ASSUME NEW g \in Tid PROVE u.mrefs[g] = Cardinality(Users(u.maps, g))
  OBVIOUS
<1> DEFINE f == s.maps
           h == u.maps
<1>1. /\ f \in [Tid -> Tid \cup {NULL}] /\ x # f[t]
      /\ t \in Tid /\ g \in Tid /\ x \in Tid \cup {NULL}
      /\ h[t] = x /\ \A v \in Tid \ {t} : h[v] = f[v]
  BY DEF Heap
<1>2. s.mrefs[g] = Cardinality(Users(f, g))
  BY DEF Spaces
<1> HIDE DEF f, h
<1>3. /\ g = x => Cardinality(Users(h, g)) = Cardinality(Users(f, g)) + 1
      /\ g = f[t] => Cardinality(Users(h, g)) = Cardinality(Users(f, g)) - 1
      /\ g # x /\ g # f[t] => Cardinality(Users(h, g)) = Cardinality(Users(f, g))
  BY ONLY <1>1, Moving
<1> QED BY <1>2, <1>3 DEF f, h

\* A thread being created has no address space and there is none of its name.
LEMMA CreationSpaces ==
  ASSUME NEW s \in Heap, NEW bare, NEW g \in Tid, NEW t \in Tid,
         Spaces(s, bare), Access(s), s.where[t] = "none"
  PROVE  Kept(s, NewLinked(s, g, t), bare \cup {t})
<1> DEFINE u == NewLinked(s, g, t)
<1>1. /\ u.where = [s.where EXCEPT ![t] = "tree"] /\ u.maps = [s.maps EXCEPT ![t] = NULL]
      /\ u.mrefs = s.mrefs /\ u.ments = s.ments
      /\ u.aspace = [s.aspace EXCEPT ![t] = FALSE] /\ u.ulops = [s.ulops EXCEPT ![t] = FALSE]
      /\ u.freed = s.freed
  BY DEF NewLinked, thread__new, Heap
<1>2. /\ s.where \in [Tid -> Where] /\ s.maps \in [Tid -> Tid \cup {NULL}]
      /\ s.aspace \in [Tid -> BOOLEAN] /\ s.ulops \in [Tid -> BOOLEAN]
  BY DEF Heap
<1> HIDE DEF u
<1>3. Fresh(s.maps, t)
  BY DEF Spaces
<1>4. u.maps = s.maps
  BY <1>1, <1>2, <1>3 DEF Fresh
<1>5. Spaces(u, bare \cup {t})
  BY <1>1, <1>2, <1>3, <1>4 DEF Spaces
<1>6. Access(u)
  BY <1>1, <1>2, Zenon DEF Access
<1> QED BY <1>1, <1>5, <1>6 DEF Kept, u

\* maps__new gives a created leader an address space with one user.
LEMMA MapsNewSpaces ==
  ASSUME NEW s \in Heap, NEW bare, NEW t \in Tid,
         Spaces(s, bare), Access(s), t \in bare, s.where[t] = "tree"
  PROVE  Kept(s, maps__new(s, t), bare \ {t})
<1> DEFINE u == maps__new(s, t)
<1>1. /\ u.where = s.where /\ u.aspace = s.aspace /\ u.ulops = s.ulops /\ u.freed = s.freed
      /\ u.maps = [s.maps EXCEPT ![t] = t]
      /\ u.mrefs = [s.mrefs EXCEPT ![t] = 1] /\ u.ments = [s.ments EXCEPT ![t] = <<>>]
  BY DEF maps__new, Heap
<1>2. /\ s.maps \in [Tid -> Tid \cup {NULL}] /\ s.mrefs \in [Tid -> Nat]
      /\ s.ments \in [Tid -> Seq(MapEntry)]
  BY DEF Heap
<1>3. Fresh(s.maps, t)
  BY DEF Spaces
<1>4. s.mrefs[t] = 0 /\ s.ments[t] = <<>>
  BY <1>3, FreshIsEmpty
<1> HIDE DEF u
<1>5. u.ments = s.ments
  <2>1. [s.ments EXCEPT ![t] = <<>>] = s.ments
    BY <1>2, <1>4, SameValue, Zenon
  <2> QED BY <1>1, <2>1
<1>6. \A g \in Tid : u.mrefs[g] = Cardinality(Users(u.maps, g))
  <2>1. s.maps[t] = NULL /\ NULL \notin Tid
    BY <1>3, MachineAssumption DEF Fresh
  <2>2. u.maps[t] = t /\ \A v \in Tid \ {t} : u.maps[v] = s.maps[v]
    BY <1>1, <1>2
  <2>3. \A g \in Tid : /\ g = t => u.mrefs[g] = s.mrefs[g] + 1
                       /\ g # t => u.mrefs[g] = s.mrefs[g]
    BY <1>1, <1>2, <1>4
  <2> QED BY <2>1, <2>2, <2>3, MovedCounts
<1>7. \A v \in Tid : u.where[v] = "none" \/ v \in bare \ {t} => Fresh(u.maps, v)
  <2> SUFFICES ASSUME NEW v \in Tid, u.where[v] = "none" \/ v \in bare \ {t}
               PROVE  Fresh(u.maps, v)
    OBVIOUS
  <2>1. Fresh(s.maps, v) /\ v # t
    BY <1>1 DEF Spaces
  <2> QED BY <1>1, <1>2, <2>1 DEF Fresh
<1>8. \A v \in Tid : u.where[v] = "freed" => u.maps[v] = NULL
  BY <1>1, <1>2 DEF Spaces
<1>9. \A g \in Tid : u.ments[g] # <<>> => u.mrefs[g] > 0
  BY <1>1, <1>2, <1>5 DEF Spaces
<1>10. Access(u)
  BY <1>1 DEF Access
<1>11. Spaces(u, bare \ {t})
  BY <1>6, <1>7, <1>8, <1>9 DEF Spaces
<1> QED BY <1>1, <1>5, <1>10, <1>11 DEF Kept, u

\* What maps__put does to the counts and the entries: one user less, and no
\* entries left when it was the last.
PutEffect(s, g, u) ==
  /\ u.where = s.where /\ u.maps = s.maps /\ u.aspace = s.aspace /\ u.ulops = s.ulops
  /\ u.freed = s.freed
  /\ u.mrefs[g] = s.mrefs[g] - 1 /\ \A h \in Tid \ {g} : u.mrefs[h] = s.mrefs[h]
  /\ \A h \in Tid \ {g} : u.ments[h] = s.ments[h]
  /\ (u.ments[g] = s.ments[g] /\ u.mrefs[g] > 0) \/ u.ments[g] = <<>>
  /\ s.ments[g] = <<>> => u.ments = s.ments

\* maps__put while the count is exact.
LEMMA MapsPutSpaces ==
  ASSUME NEW s \in Heap, NEW g \in Tid, s.mrefs[g] > 0, s.mrefs[g] <= RefMod
  PROVE  PutEffect(s, g, maps__put(s, g))
<1> DEFINE u == maps__put(s, g)
           a == [s EXCEPT !.mrefs[g] = refcount_dec(@)]
           b == [a EXCEPT !.ments[g] = <<>>]
<1>1. s.mrefs \in [Tid -> Nat] /\ refcount_dec(s.mrefs[g]) = s.mrefs[g] - 1
  <2>1. s.mrefs \in [Tid -> Nat]
    BY DEF Heap
  <2> QED BY <2>1, Counting
<1>2. /\ a.where = s.where /\ a.maps = s.maps /\ a.ments = s.ments
      /\ a.aspace = s.aspace /\ a.ulops = s.ulops /\ a.freed = s.freed
      /\ a.mrefs = [s.mrefs EXCEPT ![g] = s.mrefs[g] - 1]
  BY <1>1 DEF Heap
<1>3. /\ b.where = s.where /\ b.maps = s.maps /\ b.ments = [s.ments EXCEPT ![g] = <<>>]
      /\ b.aspace = s.aspace /\ b.ulops = s.ulops /\ b.freed = s.freed
      /\ b.mrefs = [s.mrefs EXCEPT ![g] = s.mrefs[g] - 1]
  BY <1>1 DEF Heap
<1>4. \/ u = a /\ a.mrefs[g] # 0
      \/ \E n : u = dso__puts(b, n)
  BY DEF maps__put, maps__delete
<1>5. \A n : /\ dso__puts(b, n).where = b.where /\ dso__puts(b, n).maps = b.maps
             /\ dso__puts(b, n).aspace = b.aspace /\ dso__puts(b, n).ulops = b.ulops
             /\ dso__puts(b, n).freed = b.freed
             /\ dso__puts(b, n).mrefs = b.mrefs /\ dso__puts(b, n).ments = b.ments
  BY DEF dso__puts, dso__delete, Heap
<1>6. a.mrefs[g] \in Nat
  BY <1>1, <1>2
<1> HIDE DEF a, b, u
<1>7. /\ s.ments \in [Tid -> Seq(MapEntry)]
      /\ s.ments[g] = <<>> => [s.ments EXCEPT ![g] = <<>>] = s.ments
  <2>1. s.ments \in [Tid -> Seq(MapEntry)]
    BY DEF Heap
  <2> QED BY <2>1, SameValue, Zenon
<1>8. ASSUME u = a, a.mrefs[g] # 0 PROVE PutEffect(s, g, u)
  <2>1. a.mrefs[g] > 0
    BY <1>6, <1>8
  <2>2. a.mrefs[g] = s.mrefs[g] - 1 /\ \A h \in Tid \ {g} : a.mrefs[h] = s.mrefs[h]
    BY <1>1, <1>2
  <2> QED BY <1>2, <1>8, <2>1, <2>2, Zenon DEF PutEffect
<1>9. ASSUME \E n : u = dso__puts(b, n) PROVE PutEffect(s, g, u)
  <2>1. PICK n : u = dso__puts(b, n)
    BY <1>9
  <2>2. /\ u.where = s.where /\ u.maps = s.maps /\ u.ments = [s.ments EXCEPT ![g] = <<>>]
        /\ u.aspace = s.aspace /\ u.ulops = s.ulops /\ u.freed = s.freed
        /\ u.mrefs = [s.mrefs EXCEPT ![g] = s.mrefs[g] - 1]
    BY <1>3, <1>5, <2>1
  <2>3. u.mrefs[g] = s.mrefs[g] - 1 /\ \A h \in Tid \ {g} : u.mrefs[h] = s.mrefs[h]
    BY <1>1, <2>2
  <2>4. u.ments[g] = <<>> /\ \A h \in Tid \ {g} : u.ments[h] = s.ments[h]
    BY <1>7, <2>2
  <2> QED BY <1>7, <2>2, <2>3, <2>4, Zenon DEF PutEffect
<1> QED BY <1>4, <1>8, <1>9 DEF u

\* No count of users is near its limit.
LEMMA RoomToCount ==
  ASSUME ThreadsFit, NEW s \in Heap, NEW bare, Spaces(s, bare), NEW g \in Tid
  PROVE  /\ s.mrefs[g] \in Nat /\ s.mrefs[g] <= RefMod
         /\ refcount_inc(s.mrefs[g]) = s.mrefs[g] + 1
<1> DEFINE n == s.mrefs[g]
           c == Cardinality(Tid)
<1>1. n \in Nat /\ c \in Nat /\ RefMod \in Nat
  BY UsersFinite, MachineAssumption DEF Heap
<1>2. n <= c
  BY UsersFinite DEF Spaces
<1>3. c + 1 < RefMod
  BY DEF ThreadsFit
<1> HIDE DEF n, c
<1>4. n <= RefMod /\ refcount_inc(n) = n + 1
  BY <1>1, <1>2, <1>3, Counting
<1> QED BY <1>1, <1>4 DEF n

\* Thread t of s takes the address space sp; or gives up old for new.
Share(s, t, sp) == maps__get([s EXCEPT !.maps[t] = sp], sp)
Switch(s, t, old, new) == Share(maps__put(s, old), t, new)

\* A thread without an address space shares the one of its leader.
LEMMA ShareSpaces ==
  ASSUME ThreadsFit, NEW s \in Heap, NEW bare, NEW t \in Tid, NEW g \in Tid, NEW sp \in Tid,
         Spaces(s, bare), Access(s), t \in bare, s.where[t] = "tree", s.maps[g] = sp
  PROVE  Kept(s, Share(s, t, sp), bare \ {t})
<1> DEFINE u == Share(s, t, sp)
<1>1. /\ s.maps \in [Tid -> Tid \cup {NULL}] /\ s.mrefs \in [Tid -> Nat] /\ NULL \notin Tid
  BY MachineAssumption DEF Heap
<1>2. /\ \A v \in Tid : s.where[v] = "none" \/ v \in bare => Fresh(s.maps, v)
      /\ \A v \in Tid : s.where[v] = "freed" => s.maps[v] = NULL
      /\ \A h \in Tid : s.ments[h] # <<>> => s.mrefs[h] > 0
  BY DEF Spaces
<1>3. refcount_inc(s.mrefs[sp]) = s.mrefs[sp] + 1
  BY RoomToCount
<1>4. /\ u.where = s.where /\ u.aspace = s.aspace /\ u.ulops = s.ulops
      /\ u.freed = s.freed /\ u.ments = s.ments
      /\ u.maps = [s.maps EXCEPT ![t] = sp]
      /\ u.mrefs = [s.mrefs EXCEPT ![sp] = s.mrefs[sp] + 1]
  BY <1>1, <1>3 DEF Share, maps__get, Heap
<1> HIDE DEF u
<1>5. /\ s.maps[t] = NULL /\ sp # s.maps[t] /\ u.where = s.where
      /\ u.maps[t] = sp /\ \A v \in Tid \ {t} : u.maps[v] = s.maps[v]
  <2>1. u.maps[t] = sp /\ \A v \in Tid \ {t} : u.maps[v] = s.maps[v]
    BY <1>1, <1>4
  <2>2. s.maps[t] = NULL
    BY <1>2 DEF Fresh
  <2>3. sp # s.maps[t]
    BY <1>1, <2>2
  <2> QED BY <1>4, <2>1, <2>2, <2>3
<1>6. \A h \in Tid : /\ s.maps[t] # h /\ s.mrefs[h] \in Nat
                     /\ h = sp => u.mrefs[h] = s.mrefs[h] + 1
                     /\ h # sp => u.mrefs[h] = s.mrefs[h]
  BY <1>1, <1>4, <1>5
<1>7. \A h \in Tid : u.mrefs[h] = Cardinality(Users(u.maps, h))
  <2>1. \A h \in Tid : /\ h = sp => u.mrefs[h] = s.mrefs[h] + 1
                       /\ h = s.maps[t] => u.mrefs[h] = s.mrefs[h] - 1
                       /\ h # sp /\ h # s.maps[t] => u.mrefs[h] = s.mrefs[h]
    BY <1>6
  <2>2. s \in Heap /\ Spaces(s, bare) /\ t \in Tid /\ sp \in Tid \cup {NULL}
    OBVIOUS
  <2> QED BY ONLY <1>5, <2>1, <2>2, MovedCounts
<1>8. \A v \in Tid : u.where[v] = "none" \/ v \in bare \ {t} => Fresh(u.maps, v)
  <2> SUFFICES ASSUME NEW v \in Tid, u.where[v] = "none" \/ v \in bare \ {t}
               PROVE  Fresh(u.maps, v)
    OBVIOUS
  <2>1. Fresh(s.maps, v) /\ v # t
    BY <1>2, <1>5
  <2> QED BY <1>5, <2>1 DEF Fresh
<1>9. \A v \in Tid : u.where[v] = "freed" => u.maps[v] = NULL
  BY <1>2, <1>5
<1>10. \A h \in Tid : u.ments[h] # <<>> => u.mrefs[h] > 0
  <2>1. \A h \in Tid : s.mrefs[h] > 0 => u.mrefs[h] > 0
    BY ONLY <1>6
  <2>2. u.ments = s.ments
    BY <1>4
  <2> QED BY <1>2, <2>1, <2>2
<1>11. Access(u)
  BY <1>4 DEF Access
<1>12. Spaces(u, bare \ {t})
  BY <1>7, <1>8, <1>9, <1>10 DEF Spaces
<1> QED BY <1>4, <1>11, <1>12 DEF Kept, u

\* A thread that changes its process leaves an address space without entries
\* for the one of its new leader.
LEMMA SwitchSpaces ==
  ASSUME ThreadsFit, NEW s \in Heap, NEW t \in Tid, NEW g \in Tid,
         NEW old \in Tid, NEW new \in Tid, Spaces(s, {}), Access(s),
         s.where[t] = "tree", s.maps[t] = old, s.maps[g] = new, old # new,
         s.ments[old] = <<>>
  PROVE  Kept(s, Switch(s, t, old, new), {})
<1> DEFINE a == maps__put(s, old)
           u == Share(a, t, new)
<1>1. /\ s.maps \in [Tid -> Tid \cup {NULL}] /\ s.mrefs \in [Tid -> Nat]
      /\ s.ments \in [Tid -> Seq(MapEntry)] /\ NULL \notin Tid
  BY MachineAssumption DEF Heap
<1>2. /\ \A v \in Tid : s.where[v] = "none" => Fresh(s.maps, v)
      /\ \A v \in Tid : s.where[v] = "freed" => s.maps[v] = NULL
      /\ \A h \in Tid : s.ments[h] # <<>> => s.mrefs[h] > 0
  BY DEF Spaces
<1>3. s.mrefs[old] > 0 /\ s.mrefs[old] <= RefMod
  <2>1. Cardinality(Users(s.maps, old)) > 0
    BY UsedIsCounted
  <2>2. s.mrefs[old] > 0
    BY <2>1 DEF Spaces
  <2> QED BY <2>2, RoomToCount
<1>4. a \in Heap /\ PutEffect(s, old, a)
  BY <1>3, MapsPut, MapsPutSpaces
<1> HIDE DEF a
<1>5. /\ a.where = s.where /\ a.maps = s.maps /\ a.aspace = s.aspace /\ a.ulops = s.ulops
      /\ a.freed = s.freed
      /\ a.ments = s.ments /\ a.mrefs[old] = s.mrefs[old] - 1
      /\ \A h \in Tid \ {old} : a.mrefs[h] = s.mrefs[h]
  BY <1>4, Zenon DEF PutEffect
<1>6. /\ u.where = a.where /\ u.aspace = a.aspace /\ u.ulops = a.ulops
      /\ u.freed = a.freed /\ u.ments = a.ments
      /\ u.maps = [a.maps EXCEPT ![t] = new]
      /\ u.mrefs = [a.mrefs EXCEPT ![new] = refcount_inc(a.mrefs[new])]
      /\ a.mrefs \in [Tid -> Nat]
  BY <1>4 DEF Share, maps__get, Heap
<1> HIDE DEF u
<1>7. a.mrefs[new] = s.mrefs[new] /\ refcount_inc(s.mrefs[new]) = s.mrefs[new] + 1
  <2>1. a.mrefs[new] = s.mrefs[new]
    BY <1>5
  <2> QED BY <2>1, RoomToCount
<1>8. /\ u.where = s.where /\ u.aspace = s.aspace /\ u.ulops = s.ulops
      /\ u.freed = s.freed /\ u.ments = s.ments
      /\ u.maps[t] = new /\ \A v \in Tid \ {t} : u.maps[v] = s.maps[v]
  <2>1. u.maps[t] = new /\ \A v \in Tid \ {t} : u.maps[v] = s.maps[v]
    BY <1>1, <1>5, <1>6
  <2> QED BY <1>5, <1>6, <2>1
<1>9. \A h \in Tid : /\ h = new => u.mrefs[h] = s.mrefs[h] + 1
                     /\ h = old => u.mrefs[h] = s.mrefs[h] - 1
                     /\ h # new /\ h # old => u.mrefs[h] = s.mrefs[h]
  BY <1>5, <1>6, <1>7
<1>10. \A h \in Tid : u.mrefs[h] = Cardinality(Users(u.maps, h))
  BY <1>8, <1>9, MovedCounts
<1>11. \A v \in Tid : u.where[v] = "none" \/ v \in {} => Fresh(u.maps, v)
  <2> SUFFICES ASSUME NEW v \in Tid, u.where[v] = "none" PROVE Fresh(u.maps, v)
    OBVIOUS
  <2>1. Fresh(s.maps, v) /\ v # t
    BY <1>2, <1>8
  <2> QED BY <1>8, <2>1 DEF Fresh
<1>12. \A v \in Tid : u.where[v] = "freed" => u.maps[v] = NULL
  BY <1>2, <1>8
<1>13. \A h \in Tid : u.ments[h] # <<>> => u.mrefs[h] > 0
  <2>1. \A h \in Tid : s.mrefs[h] \in Nat
    BY <1>1
  <2> QED BY <1>2, <1>8, <1>9, <2>1
<1>14. Access(u)
  BY <1>8 DEF Access
<1>15. Spaces(u, {})
  BY <1>10, <1>11, <1>12, <1>13 DEF Spaces
<1> QED BY <1>8, <1>14, <1>15 DEF Kept, Switch, a, u
-----------------------------------------------------------------------------
(***************************************************************************)
(* Finding and creating threads.                                           *)
(***************************************************************************)
\* Kept through an operation that touches no address space.
LEMMA KeptFrame ==
  ASSUME NEW s, NEW u, NEW v, NEW bare, Kept(s, u, bare), SameSpaces(u, v)
  PROVE  Kept(s, v, bare)
<1>1. Spaces(v, bare) /\ Access(v)
  BY SpacesFrame DEF Kept
<1> QED BY <1>1 DEF Kept, SameSpaces

\* Entering a created thread in the table leaves its address space alone.
LEMMA EnterTable ==
  ASSUME NEW held, NEW bare, NEW bound \in Nat, NEW s, NEW t \in Tid,
         Table(s, held, bare, bound), s.where[t] = "tree", t \notin held,
         bound + 2 < RefMod
  PROVE  SameSpaces(s, Enter(s, t))
<1>1. Table(thread__get(s, t), held \cup {t}, bare, bound) /\ Keeps(s, thread__get(s, t))
  BY ThreadGet
<1> DEFINE a == thread__get(s, t)
<1>2. a \in Heap /\ a.where[t] = "tree" /\ s \in Heap
  BY <1>1 DEF Table, Keeps
<1> HIDE DEF a
<1>3. Table(SetLastMatch(a, t), held \cup {t}, bare, bound)
  BY <1>1, <1>2, LastMatch DEF a
<1>4. SetLastMatch(a, t) \in Heap
  BY <1>3 DEF Table
<1> QED BY <1>2, <1>4, EnterSame DEF a

\* The leader that __machine__findnew_thread returns has its address space, and
\* those of the others are as before.
LEMMA LeaderSpaces ==
  ASSUME NEW held, NEW bare, NEW bound \in Nat, NEW s, NEW g \in Tid,
         Table(s, held, bare, bound), g \notin held, g \notin bare,
         bound + 2 < RefMod, Spaces(s, bare), Access(s)
  PROVE  Kept(s, findnew_leader(s, g), bare)
<1> DEFINE l == findnew_leader(s, g)
<1>0. s \in Heap /\ Kept(s, s, bare)
  BY DEF Table, Kept
<1>1. ASSUME Hit(s, g) PROVE Kept(s, l, bare)
  <2> DEFINE a == SetLastMatch(s, g)
             b == [a EXCEPT !.tgid[g] = g]
  <2>1. s.where[g] = "tree"
    BY <1>1, HitIsLinked
  <2>2. Table(a, held, bare, bound)
    BY <2>1, LastMatch
  <2>3. l = thread__get(b, g)
    BY <1>1 DEF findnew_leader
  <2>4. SameSpaces(s, a) /\ a \in Heap
    BY <1>0, <2>2, PlainSame DEF Table
  <2> HIDE DEF a
  <2>5. SameSpaces(a, b) /\ b \in Heap
    BY <2>4, PlainSame, TgidSet
  <2> HIDE DEF b, l
  <2>6. SameSpaces(b, l)
    BY <2>3, <2>5, PlainSame
  <2>7. Kept(s, a, bare)
    BY <1>0, <2>4, KeptFrame
  <2>8. Kept(s, b, bare)
    BY <2>5, <2>7, KeptFrame
  <2> QED BY <2>6, <2>8, KeptFrame
<1>2. ASSUME ~Hit(s, g) PROVE Kept(s, l, bare)
  <2> DEFINE a == NewLinked(s, g, g)
             b == maps__new(a, g)
  <2>1. s.where[g] = "none"
    BY <1>2, HitIsLinked DEF Table
  <2>2. Table(a, held, bare \cup {g}, bound) /\ a.where[g] = "tree"
    BY <2>1, Creation
  <2>3. l = Enter(b, g)
    BY <1>2 DEF findnew_leader
  <2>4. Kept(s, a, bare \cup {g})
    BY <1>0, <2>1, CreationSpaces
  <2> HIDE DEF a
  <2>5. Table(b, held, (bare \cup {g}) \ {g}, bound) /\ Keeps(a, b)
    BY <2>2, MapsNew
  <2>6. a \in Heap /\ g \in bare \cup {g}
    BY <2>2 DEF Table
  <2>7. Kept(a, b, (bare \cup {g}) \ {g})
    BY <2>2, <2>4, <2>6, MapsNewSpaces DEF Kept
  <2>8. (bare \cup {g}) \ {g} = bare
    OBVIOUS
  <2>9. b.where[g] = "tree"
    BY <2>2, <2>5 DEF Keeps
  <2> HIDE DEF b, l
  <2>10. Kept(s, b, bare)
    BY <2>4, <2>7, <2>8 DEF Kept
  <2>11. SameSpaces(b, l)
    BY <2>3, <2>5, <2>9, EnterTable
  <2> QED BY <2>10, <2>11, KeptFrame
<1> QED BY <1>1, <1>2

\* A new thread gets an address space of its own or shares its leader's.
LEMMA InitMapsSpaces ==
  ASSUME ThreadsFit, NEW bound \in Nat, NEW s, NEW t \in Tid,
         Table(s, {}, {t}, bound), s.where[t] = "tree", bound + 2 < RefMod,
         Spaces(s, {t}), Access(s)
  PROVE  Kept(s, thread__init_maps(s, t), {})
<1> DEFINE r == thread__init_maps(s, t)
<1>0. s \in Heap /\ s.tgid[t] \in Tid /\ t \in {t} /\ {t} \ {t} = {}
  BY DEF Table, Heap
<1>1. ASSUME s.tgid[t] = t PROVE Kept(s, r, {})
  <2>1. r = maps__new(s, t)
    BY <1>1 DEF thread__init_maps
  <2>2. Kept(s, maps__new(s, t), {t} \ {t})
    BY <1>0, MapsNewSpaces
  <2> QED BY <1>0, <2>1, <2>2 DEF Kept
<1>2. ASSUME s.tgid[t] # t PROVE Kept(s, r, {})
  <2> DEFINE g == s.tgid[t]
             l == findnew_leader(s, g)
             b == Share(l, t, l.maps[g])
  <2>1. r = thread__put(b, g)
    BY <1>2 DEF thread__init_maps, Share
  <2>2. g \in Tid /\ g \notin {} /\ g \notin {t}
    BY <1>0, <1>2
  <2> HIDE DEF g
  <2>3. /\ Table(l, {} \cup {g}, {t}, bound) /\ Keeps(s, l)
        /\ l.where[g] = "tree" /\ l.maps[g] \in Tid
    <3> DEFINE none == {}
               one == {t}
    <3>1. Table(s, none, one, bound) /\ g \notin none /\ g \notin one
      BY <2>2
    <3> HIDE DEF none, one
    <3>2. /\ Table(l, none \cup {g}, one, bound) /\ Keeps(s, l)
          /\ l.where[g] = "tree" /\ l.maps[g] \in Tid
      BY <2>2, <3>1, FindnewLeader
    <3> QED BY <3>2 DEF none, one
  <2>4. Kept(s, l, {t})
    BY <2>2, LeaderSpaces
  <2> HIDE DEF l
  <2>5. l \in Heap /\ l.where[t] = "tree"
    BY <2>3 DEF Table, Keeps
  <2>6. Kept(l, b, {t} \ {t})
    <3> DEFINE one == {t}
               sp == l.maps[g]
    <3>1. /\ Spaces(l, one) /\ Access(l) /\ t \in one /\ l \in Heap /\ g \in Tid
          /\ sp \in Tid /\ l.maps[g] = sp /\ l.where[t] = "tree"
      BY <1>0, <2>2, <2>3, <2>4, <2>5 DEF Kept
    <3> HIDE DEF one, sp
    <3>2. Kept(l, Share(l, t, sp), one \ {t})
      BY <3>1, ShareSpaces
    <3> QED BY <3>2 DEF one, sp
  <2>7. b \in Heap /\ b.where[g] = "tree"
    <3> DEFINE a == [l EXCEPT !.maps[t] = l.maps[g]]
    <3>1. Table(a, {} \cup {g}, {t} \ {t}, bound) /\ Keeps(l, a)
      BY <2>3, MapsSet
    <3>2. a \in Heap /\ a.where[g] = "tree"
      BY <2>2, <2>3, <3>1 DEF Table, Keeps
    <3> HIDE DEF a
    <3>3. maps__get(a, l.maps[g]) \in Heap /\ SameTable(a, maps__get(a, l.maps[g]))
      BY <2>3, <3>2, MapsGet
    <3> QED BY <3>2, <3>3 DEF a, SameTable, Share
  <2> HIDE DEF b, r
  <2>8. Kept(s, b, {})
    BY <1>0, <2>4, <2>6 DEF Kept
  <2>9. SameSpaces(b, r)
    BY <2>1, <2>2, <2>7, PutSame
  <2> QED BY <2>8, <2>9, KeptFrame
<1> QED BY <1>1, <1>2

\* The assertion stopped the process, or the address spaces are in order and
\* no mapping changed.
Fine(s, u) == u.abort # "no" \/ Kept(s, u, {})

\* Moving a thread to another tgid moves a reference from one address space to
\* another, and only out of one without entries.
LEMMA UpdateTgidSpaces ==
  ASSUME ThreadsFit, NEW bound \in Nat, NEW s, NEW t \in Tid, NEW g \in Tid,
         Table(s, {}, {}, bound), s.where[t] = "tree", bound + 2 < RefMod,
         Spaces(s, {}), Access(s)
  PROVE  Fine(s, machine__update_thread_tgid(s, t, g))
<1> DEFINE r == machine__update_thread_tgid(s, t, g)
           c == [s EXCEPT !.tgid[t] = g]
           l == findnew_leader(c, g)
           old == l.maps[t]
           new == l.maps[g]
           d == Switch(l, t, old, new)
<1>0. s \in Heap /\ Kept(s, s, {})
  BY DEF Table, Kept
<1>1. \/ r = s
      \/ r = c
      \/ r = [l EXCEPT !.leak[g] = @ + 1]
      \/ r = Stop(l, "tgid_change")
      \/ old # new /\ l.ments[old] = <<>> /\ r = thread__put(d, g)
  BY DEF machine__update_thread_tgid, Switch, Share
<1>2. c \in Heap /\ SameTable(s, c) /\ SameSpaces(s, c)
  BY <1>0, TgidSet, PlainSame
<1> HIDE DEF c, r
<1>3. Table(c, {}, {}, bound) /\ Keeps(s, c)
  BY <1>2, TableFrame
<1>4. Kept(s, c, {})
  BY <1>0, <1>2, KeptFrame
<1>5. /\ Table(l, {} \cup {g}, {}, bound) /\ Keeps(c, l)
      /\ l.where[g] = "tree" /\ new \in Tid
  BY <1>3, FindnewLeader
<1>6. Kept(s, l, {})
  <2> DEFINE none == {}
  <2>1. Table(c, none, none, bound) /\ g \notin none /\ Spaces(c, none) /\ Access(c)
    BY <1>3, <1>4 DEF Kept
  <2> HIDE DEF none
  <2>2. Kept(c, l, none)
    BY <2>1, LeaderSpaces
  <2> QED BY <1>4, <2>2 DEF Kept, none
<1> HIDE DEF l
<1>7. l \in Heap /\ l.where[t] = "tree" /\ old \in Tid
  BY <1>3, <1>5 DEF Table, Keeps
<1>8. ASSUME r = [l EXCEPT !.leak[g] = @ + 1] PROVE Kept(s, r, {})
  BY <1>6, <1>7, <1>8, PlainSame, KeptFrame
<1>9. ASSUME r = Stop(l, "tgid_change") PROVE r.abort # "no"
  BY <1>7, <1>9 DEF Stop, Heap
<1>10. ASSUME old # new, l.ments[old] = <<>>, r = thread__put(d, g) PROVE Kept(s, r, {})
  <2>1. d \in Heap /\ d.where = l.where
    <3> DEFINE a == maps__put(l, old)
               b == [a EXCEPT !.maps[t] = new]
    <3>1. a \in Heap /\ SameTable(l, a)
      BY <1>7, MapsPut
    <3> HIDE DEF a, old, new
    <3>2. b \in Heap /\ b.where = a.where
      BY <1>5, <3>1 DEF Heap
    <3>3. d = maps__get(b, new)
      BY DEF Switch, Share, a
    <3> HIDE DEF b
    <3>4. maps__get(b, new) \in Heap /\ SameTable(b, maps__get(b, new))
      BY <1>5, <3>2, MapsGet
    <3> QED BY <3>1, <3>2, <3>3, <3>4 DEF SameTable
  <2>2. Kept(l, d, {})
    BY <1>5, <1>6, <1>7, <1>10, SwitchSpaces DEF Kept
  <2> HIDE DEF d
  <2>3. Kept(s, d, {})
    BY <1>6, <2>2 DEF Kept
  <2>4. SameSpaces(d, r)
    BY <1>5, <1>10, <2>1, PutSame
  <2> QED BY <2>3, <2>4, KeptFrame
<1> HIDE DEF d, old, new
<1>11. Fine(s, r)
  BY <1>0, <1>1, <1>4, <1>8, <1>9, <1>10 DEF Fine
<1> QED BY <1>11 DEF r

\* Looking up or creating a thread loses no mapping.
LEMMA FindnewSpaces ==
  ASSUME ThreadsFit, NEW bound \in Nat, NEW s, NEW g \in Tid, NEW t \in Tid,
         Table(s, {}, {}, bound), bound + 3 < RefMod, Spaces(s, {}), Access(s)
  PROVE  Fine(s, machine__findnew_thread(s, g, t))
<1> DEFINE r == machine__findnew_thread(s, g, t)
<1>0. s \in Heap /\ Kept(s, s, {}) /\ bound + 2 < RefMod /\ RefMod \in Nat
  BY MachineAssumption DEF Table, Kept
<1>1. ASSUME Hit(s, t) PROVE Fine(s, r)
  <2> DEFINE a == SetLastMatch(s, t)
             u == machine__update_thread_tgid(a, t, g)
  <2>1. s.where[t] = "tree"
    BY <1>1, HitIsLinked
  <2>2. Table(a, {}, {}, bound) /\ Keeps(s, a) /\ SameSpaces(s, a)
    BY <1>0, <2>1, LastMatch, PlainSame
  <2>3. r = thread__get(u, t)
    BY <1>1 DEF machine__findnew_thread
  <2> HIDE DEF a, r
  <2>4. a.where[t] = "tree" /\ Kept(s, a, {})
    BY <1>0, <2>1, <2>2, KeptFrame DEF Keeps
  <2>5. Fine(a, u)
    BY <1>0, <2>2, <2>4, UpdateTgidSpaces DEF Kept
  <2>6. u \in Heap
    BY <2>2, <2>4, UpdateTgid DEF Outcome
  <2> HIDE DEF u
  <2>7. SameSpaces(u, r) /\ r.abort = u.abort
    BY <2>3, <2>6, PlainSame DEF thread__get, Heap
  <2>8. ASSUME Kept(a, u, {}) PROVE Kept(s, r, {})
    <3>1. Kept(s, u, {})
      BY <2>4, <2>8 DEF Kept
    <3> QED BY <2>7, <3>1, KeptFrame
  <2> QED BY <2>5, <2>7, <2>8 DEF Fine
<1>2. ASSUME ~Hit(s, t) PROVE Fine(s, r)
  <2> DEFINE a == NewLinked(s, g, t)
             b == thread__init_maps(a, t)
  <2>0. s.where[t] # "tree"
    BY <1>2, HitIsLinked
  <2>1. s.where[t] = "none" /\ s.where[t] # "tree"
    BY <2>0 DEF Table
  <2>2. /\ Table(a, {}, {t}, bound) /\ Keeps(s, a) /\ a.where[t] = "tree"
        /\ Kept(s, a, {t})
    <3> DEFINE none == {}
    <3>1. Table(s, none, none, bound) /\ t \notin none /\ Spaces(s, none) /\ none \cup {t} = {t}
      OBVIOUS
    <3>2. s \in Heap /\ Access(s) /\ t \in Tid /\ g \in Tid
      BY <1>0
    <3> HIDE DEF none, a
    <3>3. /\ Table(NewLinked(s, g, t), none, none \cup {t}, bound)
          /\ Keeps(s, NewLinked(s, g, t)) /\ NewLinked(s, g, t).where[t] = "tree"
      BY <2>1, <3>1, Creation
    <3>4. Kept(s, NewLinked(s, g, t), none \cup {t})
      BY <2>1, <3>1, <3>2, CreationSpaces
    <3> QED BY <3>1, <3>3, <3>4 DEF none, a
  <2>3. r = Enter(b, t)
    BY <1>2 DEF machine__findnew_thread
  <2> HIDE DEF a, r
  <2>4. Table(b, {}, {}, bound) /\ Keeps(a, b)
    BY <1>0, <2>2, InitMaps
  <2>5. Kept(a, b, {})
    BY <1>0, <2>2, InitMapsSpaces DEF Kept
  <2> HIDE DEF b
  <2>6. b.where[t] = "tree" /\ Kept(s, b, {})
    BY <2>2, <2>4, <2>5 DEF Keeps, Kept
  <2>7. SameSpaces(b, r)
    <3> DEFINE none == {}
    <3>1. Table(b, none, none, bound) /\ t \notin none
      BY <2>4
    <3> HIDE DEF none
    <3> QED BY <1>0, <2>3, <2>6, <3>1, EnterTable
  <2> QED BY <2>6, <2>7, KeptFrame DEF Fine
<1> QED BY <1>1, <1>2
-----------------------------------------------------------------------------
(***************************************************************************)
(* The handlers.                                                           *)
(***************************************************************************)
\* The entries of every address space of s are the first ones of u's.
Grows(s, u) ==
  \A g \in Tid : \E n \in 0 .. Len(u.ments[g]) : SubSeq(u.ments[g], 1, n) = s.ments[g]

\* A sequence is the beginning of itself.
LEMMA WholePrefix ==
  ASSUME NEW S, NEW q \in Seq(S)
  PROVE  Len(q) \in 0 .. Len(q) /\ SubSeq(q, 1, Len(q)) = q
OBVIOUS

\* No mapping changed, so none was lost.
LEMMA SameGrows ==
  ASSUME NEW s \in Heap, NEW u, u.ments = s.ments
  PROVE  Grows(s, u)
<1> SUFFICES ASSUME NEW g \in Tid
             PROVE  \E n \in 0 .. Len(u.ments[g]) : SubSeq(u.ments[g], 1, n) = s.ments[g]
  BY DEF Grows
<1>1. s.ments[g] \in Seq(MapEntry)
  BY DEF Heap
<1> QED BY <1>1, WholePrefix

\* unwind__prepare_access creates the libunwind space of an allocated thread.
LEMMA PrepareSpaces ==
  ASSUME NEW s \in Heap, NEW t \in Tid, NEW ok \in BOOLEAN, s.where[t] = "tree",
         Spaces(s, {}), Access(s)
  PROVE  Kept(s, unwind__prepare_access(s, t, ok), {})
<1> DEFINE u == [s EXCEPT !.ulops[t] = TRUE, !.aspace[t] = ok]
<1>1. unwind__prepare_access(s, t, ok) = s \/ unwind__prepare_access(s, t, ok) = u
  BY DEF unwind__prepare_access
<1>2. /\ u.where = s.where /\ u.maps = s.maps /\ u.mrefs = s.mrefs /\ u.ments = s.ments
      /\ u.ulops = [s.ulops EXCEPT ![t] = TRUE] /\ u.aspace = [s.aspace EXCEPT ![t] = ok]
      /\ u.freed = s.freed
      /\ s.ulops \in [Tid -> BOOLEAN] /\ s.aspace \in [Tid -> BOOLEAN]
  BY DEF Heap
<1> HIDE DEF u
<1>3. u.ulops[t] = TRUE /\ \A v \in Tid \ {t} : u.ulops[v] = s.ulops[v] /\ u.aspace[v] = s.aspace[v]
  BY <1>2
<1>4. Access(u)
  BY <1>2, <1>3 DEF Access
<1>5. Spaces(u, {})
  BY <1>2 DEF Spaces
<1> QED BY <1>1, <1>2, <1>4, <1>5 DEF Kept

\* bpf_unwind_ctx__resolve_callchain keeps every mapping.
LEMMA ResolveSpaces ==
  ASSUME ThreadsFit, NEW bound \in Nat, NEW s, NEW g \in Tid, NEW t \in Tid,
         NEW ok \in BOOLEAN, NEW same \in BOOLEAN, Table(s, {}, {}, bound),
         s.abort = "no", bound + 3 < RefMod, Spaces(s, {}), Access(s)
  PROVE  Fine(s, resolve(s, g, t, ok, same))
<1> DEFINE r == resolve(s, g, t, ok, same)
           a == machine__findnew_thread(s, g, t)
           b == unwind__prepare_access(a, t, ok)
           c == thread__set_comm(b, t, same)
<1>1. Outcome(s, a, {t}, bound, t) /\ (a.abort = "tgid_change" \/ a.where[t] = "tree")
  BY FindnewThread
<1>2. Fine(s, a)
  BY FindnewSpaces
<1>3. \/ a.abort # "no" /\ r = a
      \/ a.abort = "no" /\ r = [c EXCEPT !.leak[t] = @ + 1]
  BY DEF resolve
<1>4. c = b \/ c = Stop(b, "null_flush")
  BY DEF thread__set_comm, unwind__flush_access
<1> HIDE DEF a, r
<1>5. a \in Heap
  BY <1>1 DEF Outcome
<1>6. b \in Heap
  BY <1>5, PrepareAccess
<1>7. ASSUME a.abort = "no" PROVE Fine(s, r)
  <2>1. a.where[t] = "tree" /\ Kept(s, a, {})
    BY <1>1, <1>2, <1>7 DEF Fine
  <2>2. Kept(a, b, {})
    BY <1>5, <2>1, PrepareSpaces DEF Kept
  <2> HIDE DEF b, c
  <2>3. Kept(s, b, {})
    BY <2>1, <2>2 DEF Kept
  <2>4. ASSUME c = b PROVE Kept(s, r, {})
    BY <1>3, <1>6, <1>7, <2>3, <2>4, PlainSame, KeptFrame
  <2>5. ASSUME c = Stop(b, "null_flush") PROVE r.abort # "no"
    BY <1>3, <1>6, <1>7, <2>5 DEF Stop, Heap
  <2> QED BY <1>4, <2>4, <2>5 DEF Fine
<1>8. ASSUME a.abort # "no" PROVE Fine(s, r)
  BY <1>3, <1>8 DEF Fine
<1> QED BY <1>7, <1>8 DEF r

\* bpf_dl_iterate_phdr keeps every mapping.
LEMMA IterateSpaces ==
  ASSUME ThreadsFit, NEW bound \in Nat, NEW s, NEW g \in Tid, Table(s, {}, {}, bound),
         s.abort = "no", bound + 3 < RefMod, Spaces(s, {}), Access(s)
  PROVE  Fine(s, iterate(s, g))
<1> DEFINE r == iterate(s, g)
           a == machine__findnew_thread(s, g, g)
<1>1. a \in Heap
  BY FindnewThread DEF Outcome
<1>2. Fine(s, a)
  BY FindnewSpaces
<1>3. r = [a EXCEPT !.leak[g] = @ + 1]
  BY DEF iterate
<1> HIDE DEF a, r
<1>4. SameSpaces(a, r) /\ r.abort = a.abort
  BY <1>1, <1>3, PlainSame DEF Heap
<1>5. Kept(s, a, {}) => Kept(s, r, {})
  BY <1>4, KeptFrame
<1> QED BY <1>2, <1>4, <1>5 DEF Fine, r

\* Appending an entry and then changing it leaves the entries before it.
LEMMA TailChanged ==
  ASSUME NEW S, NEW q \in Seq(S), NEW x \in S, NEW y \in S
  PROVE  LET w == [Append(q, x) EXCEPT ![Len(Append(q, x))] = y]
         IN  Len(q) \in 0 .. Len(w) /\ SubSeq(w, 1, Len(q)) = q /\ w # <<>>
<1> DEFINE z == Append(q, x)
           w == [z EXCEPT ![Len(z)] = y]
<1>1. z \in Seq(S) /\ Len(z) = Len(q) + 1 /\ \A i \in 1 .. Len(q) : z[i] = q[i]
  OBVIOUS
<1> HIDE DEF z
<1>2. w \in Seq(S) /\ Len(w) = Len(q) + 1 /\ \A i \in 1 .. Len(q) : w[i] = q[i]
  BY <1>1
<1> HIDE DEF w
<1>3. Len(q) \in Nat /\ Len(q) \in 0 .. Len(w) /\ w # <<>>
  BY <1>2
<1>4. SubSeq(w, 1, Len(q)) = q
  BY <1>2, <1>3
<1> QED BY <1>3, <1>4 DEF w, z

\* What the two halves of an insertion do to the entries of address space g.
LEMMA Inserted ==
  ASSUME NEW s \in Heap, NEW g \in Tid, NEW d \in Dso, NEW p \in Heap,
         p.ments = maps__insert(s, g, d).ments
  PROVE  LET u == map__put_inserted(p, g)
         IN  /\ u.where = p.where /\ u.maps = p.maps /\ u.mrefs = p.mrefs
             /\ u.aspace = p.aspace /\ u.ulops = p.ulops /\ u.freed = p.freed
             /\ \A h \in Tid \ {g} : u.ments[h] = s.ments[h]
             /\ \E n \in 0 .. Len(u.ments[g]) : SubSeq(u.ments[g], 1, n) = s.ments[g]
<1> DEFINE x == [dso |-> d, refs |-> refcount_inc(1)]
           q == s.ments[g]
           z == Append(q, x)
           y == [z[Len(z)] EXCEPT !.refs = refcount_dec(@)]
           w == [z EXCEPT ![Len(z)] = y]
           u == map__put_inserted(p, g)
<1>1. s.ments \in [Tid -> Seq(MapEntry)] /\ q \in Seq(MapEntry)
  BY DEF Heap
<1>2. x \in MapEntry /\ y \in MapEntry
  <2>1. refcount_inc(1) \in Nat
    BY Counting
  <2>2. x \in MapEntry
    BY <2>1 DEF MapEntry
  <2> HIDE DEF x
  <2>3. z[Len(z)] = x
    BY <1>1, <2>2
  <2>4. refcount_dec(x.refs) \in Nat
    BY <2>2, Counting DEF MapEntry
  <2> QED BY <2>2, <2>3, <2>4 DEF MapEntry
<1>3. p.ments = [s.ments EXCEPT ![g] = z]
  BY DEF maps__insert, Heap
<1>4. p.ments[g] = z
  BY <1>1, <1>3
<1> HIDE DEF x, q
<1>5. u.ments = [p.ments EXCEPT ![g] = w]
  BY <1>4 DEF map__put_inserted, Heap
<1>6. /\ u.where = p.where /\ u.maps = p.maps /\ u.mrefs = p.mrefs
      /\ u.aspace = p.aspace /\ u.ulops = p.ulops /\ u.freed = p.freed
  BY DEF map__put_inserted, Heap
<1>7. Len(q) \in 0 .. Len(w) /\ SubSeq(w, 1, Len(q)) = q
  <2> HIDE DEF y
  <2> QED BY <1>1, <1>2, TailChanged
<1> HIDE DEF u, w, z
<1>8. u.ments[g] = w /\ \A h \in Tid \ {g} : u.ments[h] = s.ments[h]
  BY <1>1, <1>3, <1>5
<1>9. \E n \in 0 .. Len(u.ments[g]) : SubSeq(u.ments[g], 1, n) = s.ments[g]
  BY <1>7, <1>8 DEF q
<1> QED BY <1>6, <1>8, <1>9 DEF u

\* A handler that ran to its end has the address spaces in order and lost no
\* mapping.
Ran(s, u) ==
  u.abort # "no" \/ (Spaces(u, {}) /\ Access(u) /\ Grows(s, u) /\ u.freed = s.freed)

\* bpf_unwind_ctx__process_mmap adds one mapping to an address space in use.
LEMMA MmapSpaces ==
  ASSUME ThreadsFit, NEW bound \in Nat, NEW s, NEW g \in Tid, NEW t \in Tid,
         NEW d \in Dso, NEW ok \in BOOLEAN, Table(s, {}, {}, bound),
         s.abort = "no", bound + 3 < RefMod, Spaces(s, {}), Access(s)
  PROVE  Ran(s, bpf_unwind_ctx__process_mmap(s, g, t, d, ok))
<1> DEFINE r == bpf_unwind_ctx__process_mmap(s, g, t, d, ok)
           a == machine__findnew_thread(s, g, t)
           b == map__new(a, d)
           c == unwind__prepare_access(b, t, ok)
           as == c.maps[t]
           e == maps__insert(c, as, d)
           p == thread__put(e, t)
           q == map__put_inserted(p, as)
<1>1. Outcome(s, a, {t}, bound, t) /\ (a.abort = "tgid_change" \/ a.where[t] = "tree")
  BY FindnewThread
<1>2. Fine(s, a)
  BY FindnewSpaces
<1>3. \/ b.abort # "no" /\ r = b
      \/ r = Stop(c, "insert_map")
      \/ b.abort = "no" /\ r = q
  BY DEF bpf_unwind_ctx__process_mmap
<1> HIDE DEF a, r
<1>4. a \in Heap
  BY <1>1 DEF Outcome
<1>5. b \in Heap /\ SameTable(a, b) /\ SameSpaces(a, b)
  BY <1>4, MapNew, MapNewSame
<1> HIDE DEF b
<1>6. c \in Heap /\ SameTable(b, c)
  BY <1>5, PrepareAccess
<1>7. ASSUME r = Stop(c, "insert_map") PROVE Ran(s, r)
  BY <1>6, <1>7 DEF Stop, Heap, Ran
<1>8. ASSUME b.abort # "no", r = b PROVE Ran(s, r)
  BY <1>8 DEF Ran
<1>9. ASSUME b.abort = "no", r = q PROVE Ran(s, r)
  <2>1. a.abort = "no"
    BY <1>5, <1>9 DEF SameTable
  <2>2. a.where[t] = "tree" /\ Kept(s, a, {}) /\ Table(a, {t}, {}, bound + 1)
    BY <1>1, <1>2, <2>1 DEF Fine, Outcome
  <2>3. Kept(s, b, {}) /\ b.where[t] = "tree"
    BY <1>5, <2>2, KeptFrame DEF SameSpaces
  <2>4. Kept(b, c, {})
    BY <1>5, <2>3, PrepareSpaces DEF Kept
  <2> HIDE DEF c
  <2>5. Kept(s, c, {}) /\ c.where[t] = "tree" /\ as \in Tid
    <3>1. c.where = b.where /\ c.maps = a.maps
      BY <1>5, <1>6 DEF SameTable
    <3>2. a.maps[t] \in Tid
      BY <2>2 DEF Table
    <3> QED BY <2>3, <2>4, <3>1, <3>2 DEF Kept
  <2>6. c.mrefs[as] > 0
    <3>1. Cardinality(Users(c.maps, as)) > 0
      BY UsedIsCounted
    <3> QED BY <2>5, <3>1 DEF Kept, Spaces
  <2> HIDE DEF as
  <2>7. e \in Heap /\ SameTable(c, e)
    BY <1>6, <2>5, MapsInsert
  <2>8. /\ e.where = c.where /\ e.maps = c.maps /\ e.mrefs = c.mrefs
        /\ e.aspace = c.aspace /\ e.ulops = c.ulops /\ e.freed = c.freed
    BY <1>6 DEF maps__insert, Heap
  <2>9. p \in Heap /\ SameSpaces(e, p)
    <3>1. SameTable(a, e)
      BY <1>5, <1>6, <2>7, SameTableTransitive
    <3> DEFINE one == {t}
               none == {}
    <3>2. Table(e, one, none, bound + 1)
      BY <2>2, <2>7, <3>1, TableFrame
    <3>3. t \in one /\ (bound + 1) + 2 < RefMod /\ bound + 1 \in Nat /\ e.where[t] = "tree"
      BY <2>5, <2>8, MachineAssumption
    <3> HIDE DEF one, none, e
    <3>4. Table(p, one \ {t}, none, bound + 1)
      BY <3>2, <3>3, ThreadPut
    <3>5. SameSpaces(e, p)
      BY <2>7, <3>3, PutSame
    <3> QED BY <3>4, <3>5 DEF Table
  <2>10. p.ments = e.ments
    BY <2>9 DEF SameSpaces
  <2> HIDE DEF p
  <2>11. /\ q.where = p.where /\ q.maps = p.maps /\ q.mrefs = p.mrefs
         /\ q.aspace = p.aspace /\ q.ulops = p.ulops /\ q.freed = p.freed
         /\ \A h \in Tid \ {as} : q.ments[h] = c.ments[h]
         /\ \E n \in 0 .. Len(q.ments[as]) : SubSeq(q.ments[as], 1, n) = c.ments[as]
    BY <1>6, <2>5, <2>9, <2>10, Inserted
  <2> HIDE DEF q, e
  <2>12. /\ q.where = c.where /\ q.maps = c.maps /\ q.mrefs = c.mrefs
         /\ q.aspace = c.aspace /\ q.ulops = c.ulops /\ q.freed = c.freed
    BY <2>8, <2>9, <2>11 DEF SameSpaces
  <2>13. Access(q)
    BY <2>5, <2>12 DEF Kept, Access
  <2>14. \A h \in Tid : q.ments[h] # <<>> => q.mrefs[h] > 0
    BY <2>5, <2>6, <2>11, <2>12 DEF Kept, Spaces
  <2>15. Spaces(q, {})
    BY <2>5, <2>12, <2>14 DEF Kept, Spaces
  <2>16. Grows(s, q)
    <3>1. s \in Heap /\ c.ments = s.ments
      BY <2>5 DEF Table, Kept
    <3>2. Grows(s, c)
      BY <3>1, SameGrows
    <3> QED BY <2>11, <3>1, <3>2 DEF Grows
  <2> QED BY <1>9, <2>5, <2>12, <2>13, <2>15, <2>16 DEF Ran, Kept
<1> HIDE DEF q, c
<1>10. Ran(s, r)
  BY <1>3, <1>7, <1>8, <1>9
<1> QED BY <1>10 DEF r
-----------------------------------------------------------------------------
(***************************************************************************)
(* Deletion.                                                               *)
(***************************************************************************)
\* thread__delete lets go of the thread's address spaces, both kinds.
LEMMA DeleteSpaces ==
  ASSUME ThreadsFit, NEW s \in Heap, NEW t \in Tid, NEW sp \in Tid, s.maps[t] = sp,
         Spaces(s, {}), Access(s), s.where[t] = "dead"
  PROVE  /\ Spaces(thread__delete(s, t), {}) /\ Access(thread__delete(s, t))
         /\ thread__delete(s, t).freed = s.freed
<1> DEFINE a == maps__put(s, sp)
           b == [a EXCEPT !.maps[t] = NULL]
           c == unwind__finish_access(b, t)
           u == [c EXCEPT !.where[t] = "freed"]
<1>1. /\ s.maps \in [Tid -> Tid \cup {NULL}] /\ s.mrefs \in [Tid -> Nat]
      /\ s.where \in [Tid -> Where] /\ NULL \notin Tid
  BY MachineAssumption DEF Heap
<1>2. /\ \A v \in Tid : s.where[v] = "none" => Fresh(s.maps, v)
      /\ \A v \in Tid : s.where[v] = "freed" => s.maps[v] = NULL
      /\ \A h \in Tid : s.ments[h] # <<>> => s.mrefs[h] > 0
  BY DEF Spaces
<1>3. s.mrefs[sp] > 0 /\ s.mrefs[sp] <= RefMod
  <2>1. Cardinality(Users(s.maps, sp)) > 0
    BY UsedIsCounted
  <2>2. s.mrefs[sp] > 0
    BY <2>1 DEF Spaces
  <2> QED BY <2>2, RoomToCount
<1>4. a \in Heap /\ PutEffect(s, sp, a)
  BY <1>3, MapsPut, MapsPutSpaces
<1>5. thread__delete(s, t) = u
  BY DEF thread__delete
<1> HIDE DEF a
<1>6. /\ a.where = s.where /\ a.maps = s.maps /\ a.aspace = s.aspace /\ a.ulops = s.ulops
      /\ a.freed = s.freed
      /\ a.mrefs[sp] = s.mrefs[sp] - 1
      /\ \A h \in Tid \ {sp} : a.mrefs[h] = s.mrefs[h] /\ a.ments[h] = s.ments[h]
      /\ a.mrefs[sp] > 0 \/ a.ments[sp] = <<>>
  BY <1>4, Zenon DEF PutEffect
<1>7. /\ b \in Heap /\ b.where = a.where /\ b.mrefs = a.mrefs /\ b.ments = a.ments
      /\ b.aspace = a.aspace /\ b.ulops = a.ulops
      /\ b.freed = a.freed /\ b.maps = [a.maps EXCEPT ![t] = NULL]
  BY <1>4 DEF Heap
<1> HIDE DEF b
<1>8. /\ c \in Heap /\ c.where = b.where /\ c.mrefs = b.mrefs /\ c.ments = b.ments
      /\ c.ulops = b.ulops /\ c.freed = b.freed /\ c.maps = b.maps /\ ~c.aspace[t]
      /\ \A v \in Tid \ {t} : c.aspace[v] = b.aspace[v]
  <2> DEFINE z == [b EXCEPT !.aspace[t] = FALSE]
  <2>1. /\ z \in Heap /\ z.where = b.where /\ z.mrefs = b.mrefs /\ z.ments = b.ments
        /\ z.ulops = b.ulops
        /\ z.freed = b.freed /\ z.maps = b.maps /\ z.aspace = [b.aspace EXCEPT ![t] = FALSE]
        /\ b.aspace \in [Tid -> BOOLEAN]
    BY <1>7 DEF Heap
  <2>2. c = z \/ (c = b /\ ~b.ulops[t])
    BY DEF unwind__finish_access
  <2>3. b.aspace[t] => b.ulops[t]
    BY <1>6, <1>7 DEF Access
  <2> HIDE DEF z, c
  <2>4. ~z.aspace[t] /\ \A v \in Tid \ {t} : z.aspace[v] = b.aspace[v]
    BY <2>1
  <2>5. CASE c = z
    BY <2>1, <2>4, <2>5
  <2>6. CASE c = b /\ ~b.ulops[t]
    BY <1>7, <2>3, <2>6
  <2> QED BY <2>2, <2>5, <2>6
<1> HIDE DEF c
<1>9. /\ u.where = [c.where EXCEPT ![t] = "freed"] /\ u.mrefs = c.mrefs /\ u.ments = c.ments
      /\ u.ulops = c.ulops /\ u.freed = c.freed /\ u.maps = c.maps /\ u.aspace = c.aspace
  BY <1>8 DEF Heap
<1> HIDE DEF u
<1>10. /\ u.where[t] = "freed" /\ \A v \in Tid \ {t} : u.where[v] = s.where[v]
       /\ u.maps[t] = NULL /\ \A v \in Tid \ {t} : u.maps[v] = s.maps[v]
  <2>1. u.where[t] = "freed" /\ \A v \in Tid \ {t} : u.where[v] = s.where[v]
    BY <1>1, <1>6, <1>7, <1>8, <1>9
  <2>2. u.maps[t] = NULL /\ \A v \in Tid \ {t} : u.maps[v] = s.maps[v]
    BY <1>1, <1>6, <1>7, <1>8, <1>9
  <2> QED BY <2>1, <2>2
<1>11. /\ u.ulops = s.ulops
       /\ u.freed = s.freed /\ ~u.aspace[t] /\ \A v \in Tid \ {t} : u.aspace[v] = s.aspace[v]
  BY <1>6, <1>7, <1>8, <1>9
<1>12. /\ u.mrefs[sp] = s.mrefs[sp] - 1
       /\ \A h \in Tid \ {sp} : u.mrefs[h] = s.mrefs[h] /\ u.ments[h] = s.ments[h]
       /\ u.mrefs[sp] > 0 \/ u.ments[sp] = <<>>
  BY <1>6, <1>7, <1>8, <1>9
<1>13. \A h \in Tid : u.mrefs[h] = Cardinality(Users(u.maps, h))
  <2>1. \A h \in Tid : /\ h = NULL => u.mrefs[h] = s.mrefs[h] + 1
                       /\ h = s.maps[t] => u.mrefs[h] = s.mrefs[h] - 1
                       /\ h # NULL /\ h # s.maps[t] => u.mrefs[h] = s.mrefs[h]
    BY <1>1, <1>12
  <2>2. s \in Heap /\ Spaces(s, {}) /\ t \in Tid /\ NULL \in Tid \cup {NULL} /\ NULL # s.maps[t]
    BY <1>1
  <2>3. u.maps[t] = NULL /\ \A v \in Tid \ {t} : u.maps[v] = s.maps[v]
    BY <1>10
  <2> QED BY ONLY <2>1, <2>2, <2>3, MovedCounts
<1>14. \A v \in Tid : u.where[v] = "none" \/ v \in {} => Fresh(u.maps, v)
  <2> SUFFICES ASSUME NEW v \in Tid, u.where[v] = "none" PROVE Fresh(u.maps, v)
    OBVIOUS
  <2>1. Fresh(s.maps, v) /\ v # t
    BY <1>2, <1>10
  <2> QED BY <1>1, <1>10, <2>1 DEF Fresh
<1>15. \A v \in Tid : u.where[v] = "freed" => u.maps[v] = NULL
  BY <1>2, <1>10
<1>16. \A h \in Tid : u.ments[h] # <<>> => u.mrefs[h] > 0
  BY <1>2, <1>12
<1>17. Access(u)
  BY <1>10, <1>11 DEF Access
<1>18. Spaces(u, {})
  BY <1>13, <1>14, <1>15, <1>16 DEF Spaces
<1> QED BY <1>5, <1>11, <1>17, <1>18 DEF u

\* Removing a linked thread frees it, or keeps it for a leaked reference.
LEMMA RemoveSpaces ==
  ASSUME ThreadsFit, NEW bound \in Nat, NEW s, NEW t \in Tid, Rest(s, bound),
         s.where[t] = "tree", s.abort = "no", bound + 2 < RefMod, Spaces(s, {}), Access(s)
  PROVE  LET r == machine__remove_thread(s, t)
         IN  /\ Spaces(r, {}) /\ Access(r) /\ r.freed = s.freed
             /\ r.where[t] = "dead" => r.refs[t] > 0
             /\ \A v \in Tid \ {t} : r.where[v] = s.where[v] /\ r.refs[v] = s.refs[v]
<1> DEFINE c == machine__threads(t)
           a == [s EXCEPT !.last[c] = IF @ = t THEN NULL ELSE @,
                          !.where[t] = "dead", !.nr[c] = @ - 1]
           b == [a EXCEPT !.refs[t] = refcount_dec(@)]
           z == thread__delete(b, t)
           r == machine__remove_thread(s, t)
<1>1. s \in Heap /\ c \in Bucket /\ RefMod \in Nat
  BY BucketOf, MachineAssumption DEF Rest
<1>2. /\ s.where \in [Tid -> Where] /\ s.refs \in [Tid -> Nat] /\ s.leak \in [Tid -> Nat]
      /\ s.last \in [Bucket -> Tid \cup {NULL}] /\ s.nr \in [Bucket -> Int]
  BY <1>1 DEF Heap
<1>3. s.refs[t] = s.leak[t] + 1 /\ s.leak[t] <= bound /\ s.maps[t] \in Tid
  BY <1>2 DEF Rest
<1>4. s.refs[t] # 0 /\ refcount_dec(s.refs[t]) = s.leak[t]
  BY <1>1, <1>2, <1>3, Counting
<1>5. /\ a \in Heap /\ a.where = [s.where EXCEPT ![t] = "dead"] /\ a.refs = s.refs
      /\ a.maps = s.maps /\ a.mrefs = s.mrefs /\ a.ments = s.ments
      /\ a.aspace = s.aspace /\ a.ulops = s.ulops /\ a.freed = s.freed
  <2> DEFINE x == [s.last EXCEPT ![c] = IF @ = t THEN NULL ELSE @]
             w == [s.where EXCEPT ![t] = "dead"]
             n == [s.nr EXCEPT ![c] = @ - 1]
  <2>1. x \in [Bucket -> Tid \cup {NULL}] /\ w \in [Tid -> Where] /\ n \in [Bucket -> Int]
    BY <1>1, <1>2 DEF Where
  <2>2. a = [s EXCEPT !.last = x, !.where = w, !.nr = n]
    BY <1>1 DEF Heap
  <2> HIDE DEF x, n, a
  <2> QED BY <1>1, <2>1, <2>2 DEF Heap
<1>6. r = thread__put(a, t)
  BY <1>4 DEF machine__remove_thread
<1> HIDE DEF a
<1>7. /\ b \in Heap /\ b.where = a.where /\ b.refs = [s.refs EXCEPT ![t] = s.leak[t]]
      /\ b.maps = s.maps /\ b.mrefs = s.mrefs /\ b.ments = s.ments
      /\ b.aspace = s.aspace /\ b.ulops = s.ulops /\ b.freed = s.freed
  <2> DEFINE f == [s.refs EXCEPT ![t] = s.leak[t]]
  <2>1. f \in [Tid -> Nat]
    BY <1>2
  <2>2. b = [a EXCEPT !.refs = f]
    BY <1>4, <1>5 DEF Heap
  <2> HIDE DEF f, b
  <2>3. /\ b \in Heap /\ b.where = a.where /\ b.refs = f
        /\ b.maps = s.maps /\ b.mrefs = s.mrefs /\ b.ments = s.ments
        /\ b.aspace = s.aspace /\ b.ulops = s.ulops /\ b.freed = s.freed
    BY <1>5, <2>1, <2>2 DEF Heap
  <2> QED BY <2>3 DEF f
<1>8. (r = b /\ b.refs[t] # 0) \/ r = z
  BY <1>2, <1>5, <1>6 DEF thread__put
<1> HIDE DEF b, r
<1>9. /\ b.where[t] = "dead" /\ b.refs[t] \in Nat
      /\ \A v \in Tid \ {t} : b.where[v] = s.where[v] /\ b.refs[v] = s.refs[v]
  BY <1>2, <1>5, <1>7
<1>10. Spaces(b, {})
  <2>1. \A v \in Tid : b.where[v] = "none" => s.where[v] = "none"
    BY <1>9
  <2>2. \A v \in Tid : b.where[v] = "freed" => s.where[v] = "freed"
    BY <1>9
  <2> QED BY <1>7, <2>1, <2>2 DEF Spaces
<1>11. Access(b)
  <2>1. \A v \in Tid : b.where[v] = "freed" => s.where[v] = "freed"
    BY <1>9
  <2> QED BY <1>7, <2>1 DEF Access
<1>12. /\ Spaces(z, {}) /\ Access(z) /\ z.freed = b.freed
       /\ z.where = [b.where EXCEPT ![t] = "freed"] /\ z.refs = b.refs
  <2>1. b.maps[t] \in Tid /\ b \in Heap
    BY <1>3, <1>7
  <2>2. z.where = [b.where EXCEPT ![t] = "freed"] /\ z.refs = b.refs
    BY <2>1, ThreadDelete
  <2>3. Spaces(z, {}) /\ Access(z) /\ z.freed = b.freed
    BY <1>9, <1>10, <1>11, <2>1, DeleteSpaces
  <2> QED BY <2>2, <2>3
<1> HIDE DEF z
<1>13. z.where[t] = "freed" /\ \A v \in Tid \ {t} : z.where[v] = s.where[v]
  <2>1. b.where \in [Tid -> Where]
    BY <1>7 DEF Heap
  <2> QED BY <1>9, <1>12, <2>1
<1>14. /\ Spaces(r, {}) /\ Access(r) /\ r.freed = s.freed
       /\ r.where[t] = "dead" => r.refs[t] > 0
       /\ \A v \in Tid \ {t} : r.where[v] = s.where[v] /\ r.refs[v] = s.refs[v]
  <2>1. CASE r = b /\ b.refs[t] # 0
    <3>1. b.refs[t] > 0
      BY <1>9, <2>1
    <3> QED BY <1>7, <1>9, <1>10, <1>11, <2>1, <3>1
  <2>2. CASE r = z
    BY <1>7, <1>9, <1>12, <1>13, <2>2
  <2> QED BY <1>8, <2>1, <2>2
<1> QED BY <1>14 DEF r
-----------------------------------------------------------------------------
(***************************************************************************)
(* The inductive invariant, beside MachineInv.                             *)
(***************************************************************************)
\* Between handlers the address spaces are in order, a machine that is freed
\* has an empty table, and a thread outlives its removal only for a reference.
SpacesInv ==
  /\ Spaces(m, {}) /\ Access(m)
  /\ m.freed => pc = "idle" /\ InTree(m) = {}
  /\ \A t \in Tid : m.where[t] = "dead" => m.refs[t] > 0

\* machine__new establishes the invariant.
LEMMA SpacesInvInit == Init => SpacesInv
<1> SUFFICES ASSUME Init PROVE SpacesInv
  OBVIOUS
<1>1. m = machine__new /\ NULL \notin Tid
  BY MachineAssumption DEF Init
<1>2. \A g \in Tid : m.mrefs[g] = 0 /\ m.maps[g] = NULL /\ m.ments[g] = <<>>
                     /\ m.where[g] = "none" /\ ~m.aspace[g]
  BY <1>1 DEF machine__new
<1>3. m.freed = FALSE
  BY <1>1 DEF machine__new
<1>4. \A g \in Tid : m.mrefs[g] = Cardinality(Users(m.maps, g))
  <2> SUFFICES ASSUME NEW g \in Tid PROVE Cardinality(Users(m.maps, g)) = 0
    BY <1>2
  <2>1. Users(m.maps, g) = {}
    BY <1>1, <1>2 DEF Users
  <2> QED BY <2>1, FS_EmptySet
<1>5. \A t \in Tid : Fresh(m.maps, t)
  BY <1>1, <1>2 DEF Fresh
<1>6. Spaces(m, {})
  BY <1>2, <1>4, <1>5 DEF Spaces
<1>7. Access(m)
  BY <1>2 DEF Access
<1> QED BY <1>2, <1>3, <1>6, <1>7 DEF SpacesInv

\* A handler that ran or stopped keeps it and loses no mapping.
LEMMA HandlerSpaces ==
  ASSUME MachineInv, SpacesInv, Serving, NEW u, NEW bound, Finished(u, bound),
         Ran(m, u), Becomes(u), pc' = pc
  PROVE  SpacesInv' /\ Grows(m, m')
<1>0. m \in Heap
  BY DEF MachineInv, TypeOK
<1>1. m.freed = FALSE
  BY <1>0 DEF Serving, SpacesInv, Heap
<1>2. CASE u.abort = "no"
  <2>1. m' = u
    BY <1>2 DEF Becomes
  <2>2. Table(u, {}, {}, bound + 1) /\ Spaces(u, {}) /\ Access(u) /\ Grows(m, u)
        /\ u.freed = FALSE
    BY <1>1, <1>2 DEF Finished, Ran
  <2>3. \A t \in Tid : u.where[t] # "dead"
    BY <2>2 DEF Table
  <2> QED BY <2>1, <2>2, <2>3 DEF SpacesInv
<1>3. CASE u.abort # "no"
  <2>1. m' = [m EXCEPT !.abort = u.abort]
    BY <1>3 DEF Becomes
  <2>2. SameSpaces(m, m') /\ m'.refs = m.refs /\ m'.freed = FALSE
    BY <1>0, <1>1, <2>1 DEF Heap, SameSpaces
  <2>3. Spaces(m', {}) /\ Access(m')
    BY <2>2, SpacesFrame DEF SpacesInv
  <2>4. \A t \in Tid : m'.where[t] = "dead" => m'.refs[t] > 0
    BY <2>2 DEF SpacesInv, SameSpaces
  <2>5. Grows(m, m')
    BY <1>0, <2>2, SameGrows DEF SameSpaces
  <2> QED BY <2>2, <2>3, <2>4, <2>5 DEF SpacesInv
<1> QED BY <1>2, <1>3

\* Every library call, maps line and step of machine__delete keeps it, and
\* before machine__delete none loses a mapping.
LEMMA SpacesInvNext ==
  ASSUME NoWrap, ThreadsFit, MachineInv, SpacesInv, [Next]_vars
  PROVE  SpacesInv' /\ (pc # "delete_threads" => Grows(m, m'))
<1> DEFINE bound == calls + lines
           Goal == SpacesInv' /\ (pc # "delete_threads" => Grows(m, m'))
<1>0. /\ m \in Heap /\ TypeOK /\ calls \in Nat /\ lines \in Nat /\ bound \in Nat
      /\ MaxCalls \in Nat /\ MaxMaps \in Nat /\ RefMod \in Nat
      /\ calls <= MaxCalls /\ lines <= MaxMaps /\ bound <= MaxCalls + MaxMaps
  BY MachineAssumption DEF MachineInv, TypeOK
<1>1. bound + 3 < RefMod /\ bound + 2 < RefMod
  BY <1>0 DEF NoWrap
<1>2. Serving => Table(m, {}, {}, bound)
  BY RestIsTable DEF MachineInv
<1>3. Spaces(m, {}) /\ Access(m)
  BY DEF SpacesInv
<1>4. ASSUME Call PROVE Serving /\ m.abort = "no"
  BY <1>4 DEF Call, Serving
<1>5. ASSUME m' = m, pc' = pc \/ ~m.freed PROVE Goal
  <2>1. Grows(m, m')
    BY <1>0, <1>5, SameGrows
  <2> QED BY <1>5, <2>1 DEF SpacesInv, InTree
<1> HIDE DEF bound
<1>6. CASE thread_map_no_file
  BY <1>5, <1>6 DEF thread_map_no_file
<1>7. ASSUME NEW g \in Tid, NEW t \in Tid, bpf_unwind_ctx__thread_map(g, t) PROVE Goal
  BY <1>5, <1>7 DEF bpf_unwind_ctx__thread_map, Call
<1>8. ASSUME NEW d \in Dso, NEW ok \in BOOLEAN, prepare_mmap_line(d, ok) PROVE Goal
  <2> DEFINE u == bpf_unwind_ctx__process_mmap(m, arg[1], arg[2], d, ok)
  <2>1. m.abort = "no" /\ pc = "lines" /\ Becomes(u) /\ pc' = pc
    BY <1>8 DEF prepare_mmap_line
  <2>2. arg[1] \in Tid /\ arg[2] \in Tid /\ Serving
    BY <1>0, <2>1 DEF TypeOK, Serving
  <2>3. Finished(u, bound)
    BY <1>0, <1>1, <1>2, <2>1, <2>2, ProcessMmap
  <2>4. Ran(m, u)
    BY <1>0, <1>1, <1>2, <1>3, <2>1, <2>2, MmapSpaces
  <2> HIDE DEF u
  <2> QED BY <2>1, <2>2, <2>3, <2>4, HandlerSpaces
<1>9. CASE prepare_mmap_eof
  <2>1. m' = m /\ pc = "lines"
    BY <1>9 DEF prepare_mmap_eof
  <2>2. ~m.freed
    BY <2>1 DEF SpacesInv
  <2> QED BY <1>5, <2>1, <2>2
<1>10. ASSUME NEW u, Fine(m, u) PROVE Ran(m, u)
  BY <1>0, <1>10, SameGrows DEF Fine, Kept, Ran
<1>11. ASSUME NEW g \in Tid, NEW t \in Tid, NEW ok \in BOOLEAN, NEW same \in BOOLEAN,
              bpf_unwind_ctx__resolve_callchain(g, t, ok, same)
       PROVE  Goal
  <2> DEFINE u == resolve(m, g, t, ok, same)
  <2>1. Call /\ Becomes(u) /\ pc' = pc
    BY <1>11 DEF bpf_unwind_ctx__resolve_callchain
  <2>2. Finished(u, bound)
    BY <1>0, <1>1, <1>2, <1>4, <2>1, Resolve
  <2>3. Fine(m, u)
    BY <1>0, <1>1, <1>2, <1>3, <1>4, <2>1, ResolveSpaces
  <2> HIDE DEF u
  <2> QED BY <1>4, <1>10, <2>1, <2>2, <2>3, HandlerSpaces
<1>12. ASSUME NEW g \in Tid, bpf_dl_iterate_phdr(g) PROVE Goal
  <2> DEFINE u == iterate(m, g)
  <2>1. Call /\ Becomes(u) /\ pc' = pc
    BY <1>12 DEF bpf_dl_iterate_phdr
  <2>2. Finished(u, bound)
    BY <1>0, <1>1, <1>2, <1>4, <2>1, Iterate
  <2>3. Fine(m, u)
    BY <1>0, <1>1, <1>2, <1>3, <1>4, <2>1, IterateSpaces
  <2> HIDE DEF u
  <2> QED BY <1>4, <1>10, <2>1, <2>2, <2>3, HandlerSpaces
<1>13. CASE machine__delete
  BY <1>5, <1>13 DEF machine__delete
<1>14. ASSUME NEW t \in Tid, machine__delete_threads(t) PROVE Goal
  <2> DEFINE u == machine__remove_thread(m, t)
  <2>1. /\ m.abort = "no" /\ pc = "delete_threads" /\ m.where[t] = "tree" /\ Becomes(u)
        /\ pc' = pc
    BY <1>14 DEF machine__delete_threads, InTree
  <2>2. u.abort = "no"
    BY <1>0, <1>1, <2>1, RemoveThread DEF MachineInv, bound
  <2>3. /\ Spaces(u, {}) /\ Access(u) /\ u.freed = m.freed
        /\ u.where[t] = "dead" => u.refs[t] > 0
        /\ \A v \in Tid \ {t} : u.where[v] = m.where[v] /\ u.refs[v] = m.refs[v]
    <3>1. Rest(m, bound)
      BY DEF MachineInv, bound
    <3> QED BY <1>0, <1>1, <1>3, <2>1, <3>1, RemoveSpaces
  <2> HIDE DEF u
  <2>4. m' = u /\ ~m.freed
    BY <2>1, <2>2 DEF Becomes, SpacesInv
  <2>5. \A v \in Tid : u.where[v] = "dead" => u.refs[v] > 0
    BY <2>3 DEF SpacesInv
  <2> QED BY <2>1, <2>3, <2>4, <2>5 DEF SpacesInv
<1>15. CASE machine__exit
  <2> DEFINE u == [dsos__purge(m) EXCEPT !.freed = TRUE]
  <2>1. m' = u /\ pc' = "idle" /\ pc = "delete_threads" /\ InTree(m) = {}
    BY <1>15 DEF machine__exit
  <2>2. /\ u.where = m.where /\ u.refs = m.refs /\ u.maps = m.maps
        /\ u.mrefs = m.mrefs /\ u.ments = m.ments
        /\ u.aspace = m.aspace /\ u.ulops = m.ulops
    BY <1>0 DEF dsos__purge, dso__puts, dso__delete, Heap
  <2> HIDE DEF u
  <2>3. Spaces(u, {})
    BY <1>3, <2>2 DEF Spaces
  <2>4. Access(u)
    BY <1>3, <2>2 DEF Access
  <2>5. InTree(u) = {} /\ \A v \in Tid : u.where[v] = "dead" => u.refs[v] > 0
    BY <2>1, <2>2 DEF InTree, SpacesInv
  <2> QED BY <2>1, <2>3, <2>4, <2>5 DEF SpacesInv
<1>16. CASE UNCHANGED vars
  BY <1>5, <1>16 DEF vars
<1>17. Goal
  BY <1>6, <1>7, <1>8, <1>9, <1>11, <1>12, <1>13, <1>14, <1>15, <1>16 DEF Next
<1> QED BY <1>17
-----------------------------------------------------------------------------
(***************************************************************************)
(* The theorems.                                                           *)
(***************************************************************************)
\* Both invariants hold of every behaviour in which no count can wrap.
THEOREM SpacesInvariant ==
  ASSUME NoWrap, ThreadsFit
  PROVE  Spec => [](MachineInv /\ SpacesInv)
<1>1. Init => MachineInv /\ SpacesInv
  BY MachineInvInit, SpacesInvInit
<1>2. (MachineInv /\ SpacesInv) /\ [Next]_vars => (MachineInv /\ SpacesInv)'
  BY MachineInvNext, SpacesInvNext
<1> QED BY <1>1, <1>2, PTL DEF Spec

\* Only an allocated thread points to an address space.
LEMMA UsersAreAllocated ==
  ASSUME MachineInv, SpacesInv, NEW g \in Tid, NEW t \in Tid, m.maps[t] = g
  PROVE  t \in Allocated(m)
<1>1. m.where[t] \in {"none", "tree", "dead", "freed"} /\ NULL \notin Tid
  BY MachineAssumption DEF MachineInv, TypeOK, Heap, Where
<1>2. m.where[t] = "none" => m.maps[t] = NULL
  BY DEF SpacesInv, Spaces, Fresh
<1>3. m.where[t] = "freed" => m.maps[t] = NULL
  BY DEF SpacesInv, Spaces
<1> QED BY <1>1, <1>2, <1>3 DEF Allocated

\* maps->refcnt is the number of allocated threads that point to the maps,
\* whatever machine__update_thread_tgid re-parents.
THEOREM MapCountsAreExact ==
  ASSUME NoWrap, ThreadsFit
  PROVE  Spec => []MapsRefsExact
<1>1. MachineInv /\ SpacesInv => MapsRefsExact
  <2> SUFFICES ASSUME MachineInv, SpacesInv, NEW g \in Tid
               PROVE  m.mrefs[g] = Cardinality({t \in Allocated(m) : m.maps[t] = g})
    BY DEF MapsRefsExact
  <2>2. \A t \in Tid : m.maps[t] = g => t \in Allocated(m)
    BY UsersAreAllocated
  <2>3. {t \in Allocated(m) : m.maps[t] = g} = Users(m.maps, g)
    BY <2>2 DEF Users, Allocated
  <2> QED BY <2>3 DEF SpacesInv, Spaces
<1> QED BY <1>1, SpacesInvariant, PTL

\* After machine__delete only a leaked reference keeps a thread, and only such
\* a thread keeps mappings; everything else is gone.
THEOREM DeletionReleases ==
  ASSUME NoWrap, ThreadsFit
  PROVE  Spec => []DeleteReleasesTheRest
<1>1. MachineInv /\ SpacesInv => DeleteReleasesTheRest
  <2> SUFFICES ASSUME MachineInv, SpacesInv, m.freed
               PROVE  /\ \A t \in Allocated(m) : m.leak[t] > 0
                      /\ \A t \in Tid : m.where[t] = "freed" => ~m.aspace[t] /\ m.maps[t] = NULL
                      /\ \A g \in Tid : m.ments[g] # <<>> =>
                           \E t \in Allocated(m) : m.maps[t] = g /\ m.leak[t] > 0
    BY DEF DeleteReleasesTheRest
  <2>1. m.leak \in [Tid -> Nat]
    BY DEF MachineInv, TypeOK, Heap
  <2>2. \A t \in Allocated(m) : m.leak[t] > 0
    <3> SUFFICES ASSUME NEW t \in Tid, m.where[t] \in {"tree", "dead"} PROVE m.leak[t] > 0
      BY DEF Allocated
    <3>1. m.where[t] = "dead"
      BY DEF SpacesInv, InTree
    <3>2. m.refs[t] > 0
      BY <3>1 DEF SpacesInv
    <3>3. m.refs[t] = m.leak[t] + (IF m.where[t] = "tree" THEN 1 ELSE 0)
      BY DEF MachineInv, Rest
    <3> QED BY <2>1, <3>1, <3>2, <3>3
  <2>3. \A t \in Tid : m.where[t] = "freed" => ~m.aspace[t] /\ m.maps[t] = NULL
    BY DEF SpacesInv, Spaces, Access
  <2>4. ASSUME NEW g \in Tid, m.ments[g] # <<>>
        PROVE  \E t \in Allocated(m) : m.maps[t] = g /\ m.leak[t] > 0
    <3>1. Cardinality(Users(m.maps, g)) > 0
      BY <2>4 DEF SpacesInv, Spaces
    <3>2. PICK t \in Tid : m.maps[t] = g
      BY <3>1, UsedIsCounted
    <3>3. t \in Allocated(m)
      BY <3>2, UsersAreAllocated
    <3> QED BY <2>2, <3>2, <3>3
  <2> QED BY <2>2, <2>3, <2>4
<1> QED BY <1>1, SpacesInvariant, PTL

\* Until machine__delete the mappings of an address space only grow.
THEOREM MappingsAreKept ==
  ASSUME NoWrap, ThreadsFit
  PROVE  Spec => MappingsNeverLost
<1>1. MachineInv /\ SpacesInv /\ [Next]_vars
        => [pc # "delete_threads" =>
              \A g \in Tid : \E n \in 0 .. Len(m'.ments[g]) :
                SubSeq(m'.ments[g], 1, n) = m.ments[g]]_vars
  BY SpacesInvNext DEF Grows
<1> QED BY <1>1, SpacesInvariant, PTL DEF Spec, MappingsNeverLost
=============================================================================
