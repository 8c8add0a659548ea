---------------------------- MODULE DsoRefsProofs ----------------------------
(***************************************************************************)
(* Proofs about the references of dsos: dso->refcnt is the list's          *)
(* reference plus one for each map entry, through every handler and        *)
(* through machine__delete.                                                *)
(***************************************************************************)
EXTENDS AddressSpaceProofs

\* The map entries of the address spaces e that name dso d.
Refers(e, d) ==
  {p \in Tid \X (1 .. MaxMaps) : p[2] \in DOMAIN e[p[1]] /\ e[p[1]][p[2]].dso = d}

\* The dsos after k maps lines: exact counts, at most one entry a line, every
\* entry with the list's reference only, and its dso listed while the machine
\* lives.
Held(s, k) ==
  /\ \A d \in Dso :
       /\ s.drefs[d] = (IF s.dlisted[d] THEN 1 ELSE 0) + Cardinality(Refers(s.ments, d))
       /\ Cardinality(Refers(s.ments, d)) <= k
  /\ \A g \in Tid :
       /\ Len(s.ments[g]) <= k
       /\ \A i \in DOMAIN s.ments[g] :
            s.ments[g][i].refs = 1 /\ (s.freed \/ s.dlisted[s.ments[g][i].dso])

\* What an operation on threads leaves alone.
SameDsos(s, u) == u.drefs = s.drefs /\ u.dlisted = s.dlisted

\* No dso's count is about to wrap.
Small(s) == \A d \in Dso : s.drefs[d] < RefMod
-----------------------------------------------------------------------------
\* Putting references that are counted does not wrap.
LEMMA Unwrapped ==
  ASSUME NEW n \in Nat, NEW k \in Nat, k <= n, n < RefMod
  PROVE  (n - k) % RefMod = n - k
<1>1. RefMod \in Nat \ {0} /\ n - k \in 0 .. (RefMod - 1)
  BY MachineAssumption
<1> QED BY <1>1

(***************************************************************************)
(* Operations that change no count of a dso.                               *)
(***************************************************************************)
\* The operations on a thread's own fields.
LEMMA PlainDsos ==
  ASSUME NEW s \in Heap, NEW t \in Tid
  PROVE  /\ SameDsos(s, thread__get(s, t)) /\ SameDsos(s, SetLastMatch(s, t))
         /\ SameDsos(s, Enter(s, t)) /\ SameDsos(s, maps__new(s, t))
         /\ \A g : SameDsos(s, maps__get(s, g)) /\ SameDsos(s, NewLinked(s, g, t))
         /\ \A g : SameDsos(s, [s EXCEPT !.tgid[t] = g]) /\ SameDsos(s, [s EXCEPT !.maps[t] = g])
         /\ SameDsos(s, [s EXCEPT !.leak[t] = @ + 1])
         /\ \A why : SameDsos(s, Stop(s, why))
         /\ \A ok : SameDsos(s, unwind__prepare_access(s, t, ok))
BY DEF thread__get, SetLastMatch, Enter, maps__new, maps__get, NewLinked, thread__new, Stop,
       unwind__prepare_access, Heap, SameDsos

\* thread__put of a linked thread frees nothing.
LEMMA PutDsos ==
  ASSUME NEW s \in Heap, NEW t \in Tid, s.where[t] = "tree"
  PROVE  SameDsos(s, thread__put(s, t))
<1> DEFINE u == [s EXCEPT !.refs[t] = refcount_dec(@)]
<1>1. thread__put(s, t) = u \/ thread__put(s, t) = Stop(u, "corrupt")
  BY DEF thread__put
<1>2. SameDsos(s, u) /\ SameDsos(s, [u EXCEPT !.abort = "corrupt"])
  BY DEF Heap, SameDsos
<1> QED BY <1>1, <1>2 DEF Stop

\* The nested lookup of a leader.
LEMMA LeaderDsos ==
  ASSUME NEW s \in Heap, NEW g \in Tid
  PROVE  SameDsos(s, findnew_leader(s, g))
<1>1. SameDsos(s, thread__get([SetLastMatch(s, g) EXCEPT !.tgid[g] = g], g))
  BY DEF thread__get, SetLastMatch, Heap, SameDsos
<1>2. SameDsos(s, Enter(maps__new(NewLinked(s, g, g), g), g))
  BY DEF thread__get, SetLastMatch, Enter, maps__new, NewLinked, thread__new, Heap, SameDsos
<1> QED BY <1>1, <1>2 DEF findnew_leader

\* Letting go of an address space without entries puts no dso.
LEMMA EmptyPutDsos ==
  ASSUME NEW s \in Heap, NEW g \in Tid, s.ments[g] = <<>>, Small(s)
  PROVE  SameDsos(s, maps__put(s, g))
<1> DEFINE a == [s EXCEPT !.mrefs[g] = refcount_dec(@)]
           dying(d) == {i \in DOMAIN a.ments[g] :
                          /\ a.ments[g][i].dso = d
                          /\ refcount_dec(a.ments[g][i].refs) = 0}
           n == [d \in Dso |-> Cardinality(dying(d))]
           f == [d \in Dso |-> (a.drefs[d] - n[d]) % RefMod]
<1>1. SameDsos(s, a) /\ a.ments = s.ments /\ s.drefs \in [Dso -> Nat]
  BY DEF Heap, SameDsos
<1>2. \A d \in Dso : n[d] = 0
  <2>1. \A d \in Dso : dying(d) = {}
    BY <1>1
  <2> QED BY <2>1, FS_EmptySet
<1>3. f = s.drefs
  <2>1. \A d \in Dso : (s.drefs[d] - 0) % RefMod = s.drefs[d]
    BY <1>1, Unwrapped DEF Small
  <2>2. \A d \in Dso : (a.drefs[d] - n[d]) % RefMod = s.drefs[d]
    BY <1>1, <1>2, <2>1 DEF SameDsos
  <2> HIDE DEF a, n
  <2> QED BY <1>1, <2>2
<1>4. maps__put(s, g) = a \/ maps__put(s, g) = maps__delete(a, g)
  BY DEF maps__put
<1>5. maps__delete(a, g) = [[a EXCEPT !.ments[g] = <<>>] EXCEPT !.drefs = f]
  <2>1. [a EXCEPT !.ments[g] = <<>>].drefs = a.drefs
    BY DEF Heap
  <2>2. maps__delete(a, g) = dso__puts([a EXCEPT !.ments[g] = <<>>], n)
    BY DEF maps__delete
  <2> HIDE DEF a, n
  <2> QED BY <2>1, <2>2 DEF dso__puts, dso__delete
<1> HIDE DEF n, f
<1>6. maps__delete(a, g).drefs = f /\ maps__delete(a, g).dlisted = s.dlisted
  BY <1>5 DEF Heap
<1> QED BY <1>1, <1>3, <1>4, <1>6 DEF SameDsos

\* SameDsos composes along a sequence of heap operations.
LEMMA DsosTransitive ==
  ASSUME NEW s, NEW u, NEW v, SameDsos(s, u), SameDsos(u, v)
  PROVE  SameDsos(s, v) /\ (Small(s) => Small(u))
BY DEF SameDsos, Small

\* A new thread takes its own address space or its leader's.
LEMMA InitMapsDsos ==
  ASSUME NEW bound \in Nat, NEW s, NEW t \in Tid,
         Table(s, {}, {t}, bound), s.where[t] = "tree", bound + 2 < RefMod
  PROVE  SameDsos(s, thread__init_maps(s, t))
<1>0. s \in Heap /\ s.tgid[t] \in Tid
  BY DEF Table, Heap
<1>1. ASSUME s.tgid[t] = t PROVE SameDsos(s, thread__init_maps(s, t))
  BY <1>0, <1>1, PlainDsos DEF thread__init_maps
<1>2. ASSUME s.tgid[t] # t PROVE SameDsos(s, thread__init_maps(s, t))
  <2> DEFINE g == s.tgid[t]
             l == findnew_leader(s, g)
             a == [l EXCEPT !.maps[t] = l.maps[g]]
             b == maps__get(a, l.maps[g])
  <2>1. thread__init_maps(s, t) = thread__put(b, g)
    BY <1>2 DEF thread__init_maps
  <2>2. g \in Tid /\ g \notin {t} /\ g \notin {}
    BY <1>0, <1>2
  <2> HIDE DEF g
  <2>3. /\ l \in Heap /\ l.where[g] = "tree" /\ l.maps[g] \in Tid
    <3> DEFINE none == {}
               one == {t}
    <3>1. Table(s, none, one, bound) /\ g \notin none /\ g \notin one
      BY <2>2
    <3> HIDE DEF none, one
    <3>2. Table(l, none \cup {g}, one, bound) /\ l.where[g] = "tree" /\ l.maps[g] \in Tid
      BY <2>2, <3>1, FindnewLeader
    <3> QED BY <3>2 DEF Table
  <2>4. SameDsos(s, l)
    BY <1>0, <2>2, LeaderDsos
  <2> HIDE DEF l
  <2>5. a \in Heap /\ a.where = l.where /\ SameDsos(l, a)
    BY <2>2, <2>3 DEF Heap, SameDsos
  <2> HIDE DEF a
  <2>6. b \in Heap /\ SameTable(a, b) /\ SameDsos(a, b)
    BY <2>3, <2>5, MapsGet, PlainDsos
  <2> HIDE DEF b
  <2>7. SameDsos(b, thread__put(b, g))
    BY <2>2, <2>3, <2>5, <2>6, PutDsos DEF SameTable
  <2> QED BY <2>1, <2>4, <2>5, <2>6, <2>7, DsosTransitive
<1> QED BY <1>1, <1>2

\* Moving a thread to another tgid lets go of an address space without entries.
LEMMA UpdateTgidDsos ==
  ASSUME NEW bound \in Nat, NEW s, NEW t \in Tid, NEW g \in Tid,
         Table(s, {}, {}, bound), s.where[t] = "tree", bound + 3 < RefMod, Small(s)
  PROVE  SameDsos(s, machine__update_thread_tgid(s, t, g))
<1> DEFINE r == machine__update_thread_tgid(s, t, g)
           c == [s EXCEPT !.tgid[t] = g]
           l == findnew_leader(c, g)
           old == l.maps[t]
           new == l.maps[g]
           a == maps__put(l, old)
           b == [a EXCEPT !.maps[t] = new]
           d == maps__get(b, new)
<1>0. s \in Heap
  BY DEF Table
<1>1. bound + 2 < RefMod /\ RefMod \in Nat
  BY MachineAssumption
<1>2. c \in Heap /\ SameTable(s, c) /\ SameDsos(s, c) /\ SameDsos(s, s)
  BY <1>0, TgidSet, PlainDsos DEF SameDsos
<1>3. \/ r = s \/ r = c
      \/ r = [l EXCEPT !.leak[g] = @ + 1]
      \/ r = Stop(l, "tgid_change")
      \/ l.ments[old] = <<>> /\ r = thread__put(d, g)
  BY DEF machine__update_thread_tgid
<1> HIDE DEF c, r
<1>4. Table(c, {}, {}, bound) /\ Keeps(s, c)
  BY <1>2, TableFrame
<1>5. /\ Table(l, {} \cup {g}, {}, bound) /\ Keeps(c, l)
      /\ l.where[g] = "tree" /\ new \in Tid
  BY <1>1, <1>4, FindnewLeader
<1>6. SameDsos(s, l)
  BY <1>2, LeaderDsos, DsosTransitive
<1> HIDE DEF l
<1>7. l \in Heap /\ old \in Tid
  <2>1. l.where[t] = "tree" /\ t \notin {}
    BY <1>4, <1>5 DEF Keeps
  <2> QED BY <1>5, <2>1 DEF Table
<1>8. SameDsos(l, [l EXCEPT !.leak[g] = @ + 1]) /\ SameDsos(l, Stop(l, "tgid_change"))
  BY <1>7, PlainDsos
<1>9. ASSUME l.ments[old] = <<>>, r = thread__put(d, g) PROVE SameDsos(s, r)
  <2> HIDE DEF old, new
  <2>1. Small(l)
    BY <1>6 DEF Small, SameDsos
  <2>2. a \in Heap /\ SameTable(l, a) /\ SameDsos(l, a)
    BY <1>7, <1>9, <2>1, MapsPut, EmptyPutDsos
  <2> HIDE DEF a
  <2>3. b \in Heap /\ b.where = a.where /\ SameDsos(a, b)
    BY <1>5, <2>2 DEF Heap, SameDsos
  <2> HIDE DEF b
  <2>4. d \in Heap /\ SameTable(b, d) /\ SameDsos(b, d)
    BY <1>5, <2>3, MapsGet, PlainDsos
  <2> HIDE DEF d
  <2>5. SameDsos(d, r)
    BY <1>5, <1>9, <2>2, <2>3, <2>4, PutDsos DEF SameTable
  <2> QED BY <1>6, <2>2, <2>3, <2>4, <2>5, DsosTransitive
<1>10. SameDsos(s, r)
  BY <1>2, <1>3, <1>6, <1>8, <1>9, DsosTransitive
<1> QED BY <1>10 DEF r

\* Looking up or creating a thread.
LEMMA FindnewDsos ==
  ASSUME NEW bound \in Nat, NEW s, NEW g \in Tid, NEW t \in Tid,
         Table(s, {}, {}, bound), bound + 3 < RefMod, Small(s)
  PROVE  SameDsos(s, machine__findnew_thread(s, g, t))
<1> DEFINE r == machine__findnew_thread(s, g, t)
<1>0. s \in Heap /\ bound + 2 < RefMod /\ RefMod \in Nat
  BY MachineAssumption DEF Table
<1>1. ASSUME Hit(s, t) PROVE SameDsos(s, r)
  <2> DEFINE a == SetLastMatch(s, t)
             u == machine__update_thread_tgid(a, t, g)
  <2>1. s.where[t] = "tree"
    BY <1>1, HitIsLinked
  <2>2. Table(a, {}, {}, bound) /\ Keeps(s, a) /\ SameDsos(s, a)
    BY <1>0, <2>1, LastMatch, PlainDsos
  <2>3. r = thread__get(u, t)
    BY <1>1 DEF machine__findnew_thread
  <2> HIDE DEF a, r
  <2>7. a.where[t] = "tree"
    BY <2>1, <2>2 DEF Keeps
  <2>4. u \in Heap
    BY <2>2, <2>7, UpdateTgid DEF Outcome
  <2>5. SameDsos(a, u)
    <3>1. Small(a)
      BY <2>2 DEF SameDsos, Small
    <3> QED BY <2>2, <2>7, <3>1, UpdateTgidDsos
  <2> HIDE DEF u
  <2>6. SameDsos(u, r)
    BY <2>3, <2>4, PlainDsos
  <2> QED BY <2>2, <2>5, <2>6, DsosTransitive
<1>2. ASSUME ~Hit(s, t) PROVE SameDsos(s, r)
  <2> DEFINE a == NewLinked(s, g, t)
             b == thread__init_maps(a, t)
  <2>1. s.where[t] # "tree"
    BY <1>2, HitIsLinked
  <2>2. Table(a, {}, {t}, bound) /\ a.where[t] = "tree" /\ SameDsos(s, a)
    <3> DEFINE none == {}
    <3>1. Table(s, none, none, bound) /\ t \notin none /\ none \cup {t} = {t}
      OBVIOUS
    <3> HIDE DEF none
    <3>2. Table(a, none, none \cup {t}, bound) /\ a.where[t] = "tree"
      BY <2>1, <3>1, Creation
    <3>3. SameDsos(s, a)
      BY <1>0, PlainDsos
    <3> QED BY <3>1, <3>2, <3>3 DEF none
  <2>3. r = Enter(b, t)
    BY <1>2 DEF machine__findnew_thread
  <2> HIDE DEF a, r
  <2>4. b \in Heap
    BY <1>0, <2>2, InitMaps DEF Table
  <2>5. SameDsos(a, b)
    BY <1>0, <2>2, InitMapsDsos
  <2> HIDE DEF b
  <2>6. SameDsos(b, r)
    BY <2>3, <2>4, PlainDsos
  <2> QED BY <2>2, <2>5, <2>6, DsosTransitive
<1> QED BY <1>1, <1>2
-----------------------------------------------------------------------------
(***************************************************************************)
(* A maps line: one more entry and one more reference.                     *)
(***************************************************************************)
\* Taking a reference and putting it again.
LEMMA GetPut ==
  ASSUME NEW s \in Heap, NEW d \in Dso, Small(s), s.drefs[d] + 1 < RefMod
  PROVE  /\ dso__get(s, d).drefs = [s.drefs EXCEPT ![d] = s.drefs[d] + 1]
         /\ dso__get(s, d).dlisted = s.dlisted
         /\ SameDsos(s, dso__put(dso__get(s, d), d))
<1> DEFINE a == dso__get(s, d)
           k == [e \in Dso |-> IF e = d THEN 1 ELSE 0]
           f == [e \in Dso |-> (a.drefs[e] - k[e]) % RefMod]
<1>1. s.drefs \in [Dso -> Nat] /\ s.drefs[d] \in Nat /\ RefMod \in Nat
  BY MachineAssumption DEF Heap
<1>2. refcount_inc(s.drefs[d]) = s.drefs[d] + 1
  BY <1>1, Counting
<1>3. a.drefs = [s.drefs EXCEPT ![d] = s.drefs[d] + 1] /\ a.dlisted = s.dlisted
  BY <1>2 DEF dso__get, Heap
<1>4. a \in Heap
  BY DsoGet
<1>5. dso__put(a, d) = [a EXCEPT !.drefs = f]
  BY DEF dso__put, dso__puts, dso__delete
<1> HIDE DEF a
<1>6. \A e \in Dso : f[e] = s.drefs[e]
  <2> SUFFICES ASSUME NEW e \in Dso PROVE (a.drefs[e] - k[e]) % RefMod = s.drefs[e]
    OBVIOUS
  <2>1. a.drefs[e] \in Nat /\ k[e] \in Nat /\ k[e] <= a.drefs[e] /\ a.drefs[e] < RefMod
        /\ a.drefs[e] - k[e] = s.drefs[e]
    BY <1>1, <1>3 DEF Small
  <2> HIDE DEF k
  <2> QED BY <2>1, Unwrapped
<1>7. f = s.drefs
  <2> HIDE DEF k
  <2>1. f = [e \in Dso |-> s.drefs[e]]
    BY <1>6
  <2> QED BY <1>1, <2>1
<1> HIDE DEF f
<1>8. SameDsos(s, dso__put(a, d))
  BY <1>3, <1>4, <1>5, <1>7 DEF SameDsos, Heap
<1> QED BY <1>3, <1>8 DEF a

\* map__new ends with one more reference of a listed dso, or lists the dso and
\* has the first one.
LEMMA MapNewDsos ==
  ASSUME NEW s \in Heap, NEW d \in Dso, Small(s), 3 < RefMod,
         s.dlisted[d] => s.drefs[d] + 2 < RefMod
  PROVE  /\ map__new(s, d).dlisted = [s.dlisted EXCEPT ![d] = TRUE]
         /\ map__new(s, d).drefs =
              [s.drefs EXCEPT ![d] = IF s.dlisted[d] THEN s.drefs[d] + 1 ELSE 2]
<1> DEFINE x == [s.drefs EXCEPT ![d] = 1]
           y == [s.dlisted EXCEPT ![d] = TRUE]
           a == [s EXCEPT !.drefs = x, !.dlisted = y]
           n == IF s.dlisted[d] THEN s.drefs[d] ELSE 1
           b == IF s.dlisted[d] THEN s ELSE dsos__addnew(s, d)
           c == dso__get(b, d)
<1>1. /\ s.drefs \in [Dso -> Nat] /\ s.drefs[d] \in Nat /\ RefMod \in Nat
      /\ s.dlisted \in [Dso -> BOOLEAN]
  BY MachineAssumption DEF Heap
<1>2. x \in [Dso -> Nat] /\ x[d] = 1 /\ y \in [Dso -> BOOLEAN]
      /\ \A e \in Dso \ {d} : x[e] = s.drefs[e]
  BY <1>1
<1>3. [s EXCEPT !.drefs[d] = 1, !.dlisted[d] = TRUE] = a
  BY DEF Heap
<1> HIDE DEF x, y
<1>4. a \in Heap /\ a.drefs = x /\ a.dlisted = y
  BY <1>2 DEF Heap
<1> HIDE DEF a
<1>5. Small(a) /\ a.drefs[d] + 1 < RefMod
  BY <1>1, <1>2, <1>4 DEF Small
<1>6. ASSUME ~s.dlisted[d] PROVE b \in Heap /\ b.drefs = x /\ b.dlisted = y
  <2>1. b = dso__put(dso__get(a, d), d)
    BY <1>3, <1>6 DEF dsos__addnew
  <2>2. b \in Heap
    BY <1>4, <2>1, DsoGet, DsoPut
  <2>3. SameDsos(a, b)
    BY <1>4, <1>5, <2>1, GetPut
  <2> QED BY <1>4, <2>2, <2>3 DEF SameDsos
<1>7. ASSUME s.dlisted[d] PROVE b \in Heap /\ b.drefs = s.drefs /\ b.dlisted = y
  BY <1>1, <1>7 DEF y
<1>8. map__new(s, d) = dso__put(dso__get(c, d), d)
  BY DEF map__new, dsos__findnew
<1> HIDE DEF b
<1>9. b \in Heap /\ b.dlisted = y /\ b.drefs = [s.drefs EXCEPT ![d] = n]
  BY <1>1, <1>6, <1>7 DEF x
<1>10. n \in Nat /\ n + 2 < RefMod
  BY <1>1
<1> HIDE DEF n
<1>11. Small(b) /\ b.drefs[d] = n
  BY <1>1, <1>9, <1>10 DEF Small
<1>12. c \in Heap /\ c.drefs = [s.drefs EXCEPT ![d] = n + 1] /\ c.dlisted = y
  <2>0. b.drefs[d] + 1 < RefMod
    BY <1>1, <1>10, <1>11
  <2>1. c.drefs = [b.drefs EXCEPT ![d] = b.drefs[d] + 1] /\ c.dlisted = b.dlisted
    BY <1>9, <1>11, <2>0, GetPut
  <2> QED BY <1>1, <1>9, <1>11, <2>1, DsoGet
<1> HIDE DEF c
<1>13. Small(c) /\ c.drefs[d] + 1 < RefMod
  BY <1>1, <1>10, <1>12 DEF Small
<1>14. SameDsos(c, map__new(s, d))
  BY <1>8, <1>12, <1>13, GetPut
<1> QED BY <1>12, <1>14 DEF SameDsos, y, n

\* The entries that name a dso are finitely many.
LEMMA RefersFinite ==
  ASSUME NEW e, NEW d
  PROVE  IsFiniteSet(Refers(e, d)) /\ Cardinality(Refers(e, d)) \in Nat
<1>0. IsFiniteSet(Tid) /\ MaxMaps \in Int /\ 1 \in Int
  BY MachineAssumption
<1>1. IsFiniteSet(1 .. MaxMaps)
  BY <1>0, FS_Interval
<1>2. IsFiniteSet(Tid \X (1 .. MaxMaps))
  BY <1>0, <1>1, FS_Product
<1>3. Refers(e, d) \in SUBSET (Tid \X (1 .. MaxMaps))
  BY DEF Refers
<1> QED BY <1>2, <1>3, FS_Subset, FS_CardinalityType

\* The entries f are e with one more in address space g, for dso d and with the
\* list's reference.
Appended(e, f, g, d) ==
  /\ \A h \in Tid \ {g} : f[h] = e[h]
  /\ Len(f[g]) = Len(e[g]) + 1 /\ f[g][Len(e[g]) + 1] = [dso |-> d, refs |-> 1]
  /\ \A i \in 1 .. Len(e[g]) : f[g][i] = e[g][i]

\* An entry appended for d is one more entry that names d.
LEMMA RefersAppend ==
  ASSUME NEW e \in [Tid -> Seq(MapEntry)], NEW f \in [Tid -> Seq(MapEntry)],
         NEW g \in Tid, NEW d \in Dso, NEW c \in Dso, Len(e[g]) < MaxMaps,
         Appended(e, f, g, d)
  PROVE  /\ c = d => Cardinality(Refers(f, c)) = Cardinality(Refers(e, c)) + 1
         /\ c # d => Cardinality(Refers(f, c)) = Cardinality(Refers(e, c))
<1> DEFINE n == Len(e[g])
           x == <<g, n + 1>>
<1>1. /\ n \in Nat /\ DOMAIN e[g] = 1 .. n /\ DOMAIN f[g] = 1 .. (n + 1)
      /\ MaxMaps \in Nat /\ n + 1 \in 1 .. MaxMaps /\ f[g][n + 1].dso = d
  BY MachineAssumption DEF Appended
<1> HIDE DEF n
<1>2. x \notin Refers(e, c)
  BY <1>1 DEF Refers
<1>3. ASSUME NEW p \in Tid \X (1 .. MaxMaps), p # x
      PROVE  p \in Refers(f, c) <=> p \in Refers(e, c)
  <2>1. CASE p[1] = g
    <3>1. p[2] \in Int /\ p[2] # n + 1
      BY <1>3, <2>1
    <3>2. p[2] \in 1 .. (n + 1) <=> p[2] \in 1 .. n
      BY <1>1, <3>1
    <3>3. p[2] \in 1 .. n => f[g][p[2]] = e[g][p[2]]
      BY DEF n, Appended
    <3> QED BY <1>1, <2>1, <3>2, <3>3 DEF Refers
  <2>2. CASE p[1] # g
    <3>1. p[1] \in Tid /\ f[p[1]] = e[p[1]]
      BY <2>2 DEF Appended
    <3> QED BY <3>1 DEF Refers
  <2> QED BY <2>1, <2>2
<1>4. x \in Tid \X (1 .. MaxMaps) /\ x[1] = g /\ x[2] = n + 1
  BY <1>1
<1>5. x \in Refers(f, c) <=> c = d
  BY <1>1, <1>4 DEF Refers
<1> HIDE DEF x
<1>6. \A q : q \in Refers(e, c) \/ q \in Refers(f, c) => q \in Tid \X (1 .. MaxMaps)
  BY DEF Refers
<1> DEFINE F == Refers(f, c)
           E == Refers(e, c)
<1>7. (c = d => F = E \cup {x}) /\ (c # d => F = E)
  <2>1. \A q : q # x => (q \in F <=> q \in E)
    BY <1>3, <1>6
  <2>2. (x \in F <=> c = d) /\ x \notin E
    BY <1>2, <1>5
  <2> HIDE DEF E, F
  <2>3. ASSUME c = d PROVE F = E \cup {x}
    BY <2>1, <2>2, <2>3
  <2>4. ASSUME c # d PROVE F = E
    <3>1. \A q : q \in F <=> q \in E
      BY <2>1, <2>2, <2>4
    <3> QED BY <3>1
  <2> QED BY <2>3, <2>4
<1>8. IsFiniteSet(Refers(e, c)) /\ Cardinality(Refers(e, c)) \in Nat
  BY RefersFinite
<1>9. Cardinality(E \cup {x}) = Cardinality(E) + 1
  BY <1>2, <1>8, FS_AddElement
<1>10. c = d => Cardinality(F) = Cardinality(E) + 1
  BY <1>7, <1>9
<1>11. c # d => Cardinality(F) = Cardinality(E)
  BY <1>7
<1> QED BY <1>10, <1>11

\* maps__insert and the caller's map__put leave one entry, with one reference.
LEMMA InsertedEntry ==
  ASSUME NEW s \in Heap, NEW g \in Tid, NEW d \in Dso, NEW p \in Heap, 3 < RefMod,
         p.ments = maps__insert(s, g, d).ments
  PROVE  LET u == map__put_inserted(p, g)
         IN  Appended(s.ments, u.ments, g, d) /\ SameDsos(p, u) /\ u.freed = p.freed
<1> DEFINE x == [dso |-> d, refs |-> refcount_inc(1)]
           q == s.ments[g]
           z == Append(q, x)
           y == [z[Len(z)] EXCEPT !.refs = refcount_dec(@)]
           w == [z EXCEPT ![Len(z)] = y]
           u == map__put_inserted(p, g)
<1>1. s.ments \in [Tid -> Seq(MapEntry)] /\ q \in Seq(MapEntry) /\ Len(q) \in Nat
  BY DEF Heap
<1>2. x \in MapEntry /\ x = [dso |-> d, refs |-> 2] /\ refcount_dec(2) = 1
  <2>1. RefMod \in Nat /\ refcount_inc(1) = 2 /\ refcount_dec(2) = 1
    BY MachineAssumption, Counting
  <2> QED BY <2>1 DEF MapEntry
<1>3. p.ments = [s.ments EXCEPT ![g] = z]
  BY DEF maps__insert, Heap
<1>4. p.ments[g] = z
  BY <1>1, <1>3
<1> HIDE DEF x, q
<1>5. u.ments = [p.ments EXCEPT ![g] = w]
  BY <1>4 DEF map__put_inserted, Heap
<1>6. SameDsos(p, u) /\ u.freed = p.freed
  BY DEF map__put_inserted, Heap, SameDsos
<1>7. Len(z) = Len(q) + 1 /\ z[Len(q) + 1] = x /\ z \in Seq(MapEntry)
      /\ \A i \in 1 .. Len(q) : z[i] = q[i]
  BY <1>1, <1>2
<1> HIDE DEF z
<1>8. y = [dso |-> d, refs |-> 1]
  BY <1>2, <1>7
<1>9. y \in MapEntry
  BY <1>8 DEF MapEntry
<1> HIDE DEF y
<1>10. Len(w) = Len(q) + 1 /\ w[Len(q) + 1] = y /\ \A i \in 1 .. Len(q) : w[i] = q[i]
  BY <1>1, <1>7, <1>9
<1> HIDE DEF u, w
<1>11. u.ments[g] = w /\ \A h \in Tid \ {g} : u.ments[h] = s.ments[h]
  BY <1>1, <1>3, <1>5
<1>12. Appended(s.ments, u.ments, g, d)
  BY <1>8, <1>10, <1>11 DEF Appended, q
<1> QED BY <1>6, <1>12 DEF u

\* The facts about dsos depend on the entries, the counts and the list only.
LEMMA HeldFrame ==
  ASSUME NEW s, NEW u, NEW k, Held(s, k), SameDsos(s, u), u.ments = s.ments,
         u.freed = s.freed
  PROVE  Held(u, k)
BY DEF Held, SameDsos

\* No count is near the width, and a dso that is not listed has no entry.
LEMMA HeldSmall ==
  ASSUME NEW s \in Heap, NEW k \in Nat, Held(s, k), k <= MaxMaps, MaxMaps + 3 < RefMod
  PROVE  /\ Small(s) /\ \A d \in Dso : s.drefs[d] + 2 < RefMod
         /\ \A d \in Dso : ~s.freed /\ ~s.dlisted[d] => Cardinality(Refers(s.ments, d)) = 0
<1>1. s.drefs \in [Dso -> Nat] /\ MaxMaps \in Nat /\ RefMod \in Nat
  BY MachineAssumption DEF Heap
<1>2. \A d \in Dso : s.drefs[d] \in Nat /\ s.drefs[d] + 2 < RefMod
  <2> SUFFICES ASSUME NEW d \in Dso PROVE s.drefs[d] \in Nat /\ s.drefs[d] + 2 < RefMod
    OBVIOUS
  <2> DEFINE c == Cardinality(Refers(s.ments, d))
  <2>1. c \in Nat /\ c <= k /\ s.drefs[d] = (IF s.dlisted[d] THEN 1 ELSE 0) + c
    BY RefersFinite DEF Held
  <2> HIDE DEF c
  <2> QED BY <1>1, <2>1
<1>3. Small(s)
  BY <1>1, <1>2 DEF Small
<1>4. ASSUME NEW d \in Dso, ~s.freed, ~s.dlisted[d]
      PROVE  Cardinality(Refers(s.ments, d)) = 0
  <2>1. \A g \in Tid : \A i \in DOMAIN s.ments[g] : s.ments[g][i].dso # d
    BY <1>4 DEF Held
  <2>2. Refers(s.ments, d) = {}
    BY <2>1 DEF Refers
  <2> QED BY <2>2, FS_EmptySet
<1> QED BY <1>2, <1>3, <1>4

\* One more entry for d and one more reference keep the counts exact.
LEMMA HeldInsert ==
  ASSUME NEW s \in Heap, NEW u \in Heap, NEW k \in Nat, Held(s, k), k < MaxMaps,
         MaxMaps + 3 < RefMod, s.freed = FALSE, u.freed = FALSE,
         NEW g \in Tid, NEW d \in Dso,
         u.dlisted = [s.dlisted EXCEPT ![d] = TRUE],
         u.drefs = [s.drefs EXCEPT ![d] = IF s.dlisted[d] THEN s.drefs[d] + 1 ELSE 2],
         Appended(s.ments, u.ments, g, d)
  PROVE  Held(u, k + 1)
<1> DEFINE e == s.ments
           f == u.ments
<1>1. /\ s.drefs \in [Dso -> Nat] /\ s.dlisted \in [Dso -> BOOLEAN]
      /\ e \in [Tid -> Seq(MapEntry)] /\ f \in [Tid -> Seq(MapEntry)]
      /\ MaxMaps \in Nat /\ RefMod \in Nat /\ k + 1 \in Nat /\ k <= MaxMaps
  BY MachineAssumption DEF Heap
<1>2. \A h \in Tid : Len(e[h]) \in Nat /\ Len(e[h]) <= k /\ Len(e[h]) < MaxMaps
  BY <1>1 DEF Held
<1>3. /\ \A h \in Tid \ {g} : f[h] = e[h]
      /\ Len(f[g]) = Len(e[g]) + 1 /\ \A i \in 1 .. Len(e[g]) : f[g][i] = e[g][i]
      /\ f[g][Len(e[g]) + 1].dso = d /\ f[g][Len(e[g]) + 1].refs = 1
  BY DEF Appended
<1>4. \A c \in Dso : /\ c = d => Cardinality(Refers(f, c)) = Cardinality(Refers(e, c)) + 1
                     /\ c # d => Cardinality(Refers(f, c)) = Cardinality(Refers(e, c))
  <2>1. Appended(e, f, g, d)
    OBVIOUS
  <2>2. e \in [Tid -> Seq(MapEntry)] /\ f \in [Tid -> Seq(MapEntry)] /\ Len(e[g]) < MaxMaps
    BY <1>1, <1>2
  <2>3. g \in Tid /\ d \in Dso
    OBVIOUS
  <2> HIDE DEF e, f
  <2> QED BY ONLY <2>1, <2>2, <2>3, RefersAppend, Zenon
<1>5. ASSUME NEW c \in Dso
      PROVE  /\ u.drefs[c] = (IF u.dlisted[c] THEN 1 ELSE 0) + Cardinality(Refers(f, c))
             /\ Cardinality(Refers(f, c)) <= k + 1
  <2> DEFINE x == Cardinality(Refers(e, c))
             y == Cardinality(Refers(f, c))
  <2>1. x \in Nat /\ x <= k /\ s.drefs[c] = (IF s.dlisted[c] THEN 1 ELSE 0) + x
    BY RefersFinite DEF Held
  <2>2. (c = d => y = x + 1) /\ (c # d => y = x)
    BY <1>4
  <2>3. ~s.dlisted[c] => x = 0
    BY <1>1, HeldSmall
  <2> HIDE DEF x, y, e, f
  <2>4. CASE c = d
    <3>1. u.dlisted[c] /\ u.drefs[c] = IF s.dlisted[c] THEN s.drefs[c] + 1 ELSE 2
      BY <1>1, <2>4
    <3>2. u.drefs[c] = 1 + y
      BY <2>1, <2>2, <2>3, <2>4, <3>1
    <3>3. y <= k + 1
      BY <2>1, <2>2, <2>4
    <3> QED BY <3>1, <3>2, <3>3 DEF y
  <2>5. CASE c # d
    <3>1. u.dlisted[c] = s.dlisted[c] /\ u.drefs[c] = s.drefs[c]
      BY <1>1, <2>5
    <3> QED BY <1>1, <2>1, <2>2, <2>5, <3>1 DEF y
  <2> QED BY <2>4, <2>5
<1>6. \A c \in Dso : s.dlisted[c] => u.dlisted[c]
  BY <1>1
<1>7. ASSUME NEW h \in Tid
      PROVE  /\ Len(f[h]) <= k + 1
             /\ \A i \in DOMAIN f[h] : f[h][i].refs = 1 /\ u.dlisted[f[h][i].dso]
  <2>1. \A i \in DOMAIN e[h] : e[h][i].refs = 1 /\ e[h][i].dso \in Dso /\ u.dlisted[e[h][i].dso]
    <3>1. \A i \in DOMAIN e[h] : e[h][i] \in MapEntry
      BY <1>1
    <3>2. \A i \in DOMAIN e[h] : e[h][i].refs = 1 /\ s.dlisted[e[h][i].dso]
      BY DEF Held
    <3> QED BY <1>6, <3>1, <3>2 DEF MapEntry
  <2>2. CASE h # g
    BY <1>1, <1>2, <1>3, <2>1, <2>2
  <2>3. CASE h = g
    <3>1. DOMAIN f[g] = 1 .. (Len(e[g]) + 1) /\ DOMAIN e[g] = 1 .. Len(e[g])
      BY <1>1, <1>3
    <3>2. u.dlisted[d]
      BY <1>1
    <3>3. ASSUME NEW i \in DOMAIN f[g] PROVE f[g][i].refs = 1 /\ u.dlisted[f[g][i].dso]
      <4>1. i \in DOMAIN e[g] \/ i = Len(e[g]) + 1
        BY <1>2, <3>1
      <4>2. ASSUME i \in DOMAIN e[g] PROVE f[g][i] = e[g][i]
        BY <1>3, <3>1, <4>2
      <4> HIDE DEF e, f
      <4> QED BY <1>3, <2>1, <2>3, <3>2, <4>1, <4>2
    <3> QED BY <1>2, <1>3, <2>3, <3>3
  <2> QED BY <2>2, <2>3
<1> QED BY <1>5, <1>7 DEF Held

\* bpf_unwind_ctx__process_mmap adds one entry and one reference for it.
LEMMA MmapDsos ==
  ASSUME ThreadsFit, NEW bound \in Nat, NEW s, NEW g \in Tid, NEW t \in Tid,
         NEW d \in Dso, NEW ok \in BOOLEAN, Table(s, {}, {}, bound),
         s.abort = "no", bound + 3 < RefMod, Spaces(s, {}), Access(s),
         NEW k \in Nat, Held(s, k), k < MaxMaps, MaxMaps + 3 < RefMod, s.freed = FALSE
  PROVE  \/ bpf_unwind_ctx__process_mmap(s, g, t, d, ok).abort # "no"
         \/ Held(bpf_unwind_ctx__process_mmap(s, g, t, d, ok), k + 1)
<1> DEFINE r == bpf_unwind_ctx__process_mmap(s, g, t, d, ok)
           a == machine__findnew_thread(s, g, t)
           b == map__new(a, d)
           c == unwind__prepare_access(b, t, ok)
           as == c.maps[t]
           e == maps__insert(c, as, d)
           p == thread__put(e, t)
           q == map__put_inserted(p, as)
<1>0. s \in Heap /\ MaxMaps \in Nat /\ RefMod \in Nat /\ k <= MaxMaps /\ 3 < RefMod
  BY MachineAssumption DEF Table
<1>1. Small(s)
  BY <1>0, HeldSmall
<1>2. /\ Outcome(s, a, {t}, bound, t) /\ (a.abort = "tgid_change" \/ a.where[t] = "tree")
      /\ Fine(s, a) /\ SameDsos(s, a)
  BY <1>1, FindnewThread, FindnewSpaces, FindnewDsos
<1>3. \/ b.abort # "no" /\ r = b
      \/ r = Stop(c, "insert_map")
      \/ b.abort = "no" /\ r = q
  BY DEF bpf_unwind_ctx__process_mmap
<1> HIDE DEF a, r
<1>4. a \in Heap
  BY <1>2 DEF Outcome
<1>5. b \in Heap /\ SameTable(a, b) /\ SameSpaces(a, b)
  BY <1>4, MapNew, MapNewSame
<1>6. ASSUME b.abort = "no", r = q PROVE Held(r, k + 1)
  <2>1. a.abort = "no"
    BY <1>5, <1>6 DEF SameTable
  <2>2. a.where[t] = "tree" /\ Kept(s, a, {}) /\ Table(a, {t}, {}, bound + 1)
    BY <1>2, <2>1 DEF Fine, Outcome
  <2>3. Held(a, k) /\ a.freed = FALSE /\ a.maps[t] \in Tid
    <3>1. a.ments = s.ments /\ a.freed = s.freed
      BY <2>2 DEF Kept
    <3>2. Held(a, k)
      BY <1>2, <3>1, HeldFrame
    <3>3. a.maps[t] \in Tid
      BY <2>2 DEF Table
    <3> QED BY <3>1, <3>2, <3>3
  <2>4. /\ b.dlisted = [a.dlisted EXCEPT ![d] = TRUE]
        /\ b.drefs = [a.drefs EXCEPT ![d] = IF a.dlisted[d] THEN a.drefs[d] + 1 ELSE 2]
    <3>1. Small(a) /\ a.drefs[d] + 2 < RefMod
      BY <1>0, <1>4, <2>3, HeldSmall
    <3> QED BY <1>0, <1>4, <3>1, MapNewDsos
  <2> HIDE DEF b
  <2>5. c \in Heap /\ SameTable(b, c) /\ SameDsos(b, c)
    BY <1>5, PrepareAccess, PlainDsos
  <2>6. c.ments = a.ments /\ c.freed = a.freed /\ c.where[t] = "tree" /\ as \in Tid
    <3>1. c.ments = b.ments
      BY <1>5 DEF unwind__prepare_access, Heap
    <3> HIDE DEF c
    <3> QED BY <1>5, <2>2, <2>3, <2>5, <3>1 DEF SameTable, SameSpaces
  <2> HIDE DEF c, as
  <2>7. e \in Heap /\ SameTable(c, e) /\ SameDsos(c, e)
    BY <2>5, <2>6, MapsInsert DEF maps__insert, Heap, SameDsos
  <2>8. e.where[t] = "tree" /\ e.freed = FALSE
    BY <2>3, <2>6, <2>7 DEF SameTable
  <2>9. SameSpaces(e, p) /\ SameDsos(e, p)
    BY <2>7, <2>8, PutSame, PutDsos
  <2>10. p \in Heap
    <3>1. SameTable(a, e)
      BY <1>5, <2>5, <2>7, SameTableTransitive
    <3> DEFINE one == {t}
               none == {}
    <3>2. Table(e, one, none, bound + 1)
      BY <2>2, <2>7, <3>1, TableFrame
    <3>3. t \in one /\ (bound + 1) + 2 < RefMod /\ bound + 1 \in Nat
      BY <1>0
    <3> HIDE DEF one, none, e
    <3>4. Table(p, one \ {t}, none, bound + 1)
      BY <2>8, <3>2, <3>3, ThreadPut
    <3> QED BY <3>4 DEF Table
  <2>11. p.ments = maps__insert(c, as, d).ments
    BY <2>9 DEF SameSpaces
  <2> HIDE DEF p
  <2>12. Appended(c.ments, q.ments, as, d) /\ SameDsos(p, q) /\ q.freed = p.freed
    BY <1>0, <2>5, <2>6, <2>10, <2>11, InsertedEntry
  <2>13. q \in Heap
    <3>1. e.ments[as] # <<>>
      BY <2>5, <2>6, MapsInsert
    <3> QED BY <2>6, <2>10, <2>11, <3>1, MapPutInserted
  <2> HIDE DEF e, q
  <2>14. /\ q.dlisted = [a.dlisted EXCEPT ![d] = TRUE]
         /\ q.drefs = [a.drefs EXCEPT ![d] = IF a.dlisted[d] THEN a.drefs[d] + 1 ELSE 2]
         /\ q.freed = FALSE /\ Appended(a.ments, q.ments, as, d)
    BY <2>4, <2>5, <2>6, <2>7, <2>8, <2>9, <2>12 DEF SameDsos, SameSpaces
  <2> QED BY <1>4, <1>6, <2>3, <2>6, <2>13, <2>14, HeldInsert
<1>7. ASSUME r = Stop(c, "insert_map") PROVE r.abort # "no"
  <2> HIDE DEF b
  <2>1. c \in Heap
    BY <1>5, PrepareAccess
  <2> HIDE DEF c
  <2> QED BY <1>7, <2>1 DEF Stop, Heap
<1> HIDE DEF b, c, q
<1>8. r.abort # "no" \/ Held(r, k + 1)
  BY <1>3, <1>6, <1>7
<1> QED BY <1>8 DEF r

\* bpf_unwind_ctx__resolve_callchain and bpf_dl_iterate_phdr change no count of
\* a dso.
LEMMA LookupDsos ==
  ASSUME NEW bound \in Nat, NEW s, NEW g \in Tid, NEW t \in Tid,
         NEW ok \in BOOLEAN, NEW same \in BOOLEAN,
         Table(s, {}, {}, bound), bound + 3 < RefMod, Small(s)
  PROVE  SameDsos(s, resolve(s, g, t, ok, same)) /\ SameDsos(s, iterate(s, g))
<1> DEFINE a == machine__findnew_thread(s, g, t)
           b == unwind__prepare_access(a, t, ok)
           c == thread__set_comm(b, t, same)
           i == machine__findnew_thread(s, g, g)
<1>1. a \in Heap /\ i \in Heap /\ SameDsos(s, a) /\ SameDsos(s, i)
  BY FindnewThread, FindnewDsos DEF Outcome
<1>2. resolve(s, g, t, ok, same) = a \/ resolve(s, g, t, ok, same) = [c EXCEPT !.leak[t] = @ + 1]
  BY DEF resolve
<1>3. iterate(s, g) = [i EXCEPT !.leak[g] = @ + 1]
  BY DEF iterate
<1> HIDE DEF a, i
<1>4. SameDsos(s, iterate(s, g))
  BY <1>1, <1>3, PlainDsos, DsosTransitive
<1>5. b \in Heap /\ SameDsos(a, b)
  BY <1>1, PrepareAccess, PlainDsos
<1>6. c = b \/ c = Stop(b, "null_flush")
  BY DEF thread__set_comm, unwind__flush_access
<1> HIDE DEF b
<1>7. SameDsos(b, [b EXCEPT !.leak[t] = @ + 1])
      /\ SameDsos(b, [Stop(b, "null_flush") EXCEPT !.leak[t] = @ + 1])
  BY <1>5 DEF Stop, Heap, SameDsos
<1> HIDE DEF c
<1>8. SameDsos(s, resolve(s, g, t, ok, same))
  BY <1>1, <1>2, <1>5, <1>6, <1>7, DsosTransitive
<1> QED BY <1>4, <1>8
-----------------------------------------------------------------------------
(***************************************************************************)
(* Deletion: the entries of an address space put their dsos.               *)
(***************************************************************************)
\* The entries of an address space's list q that name d.
Naming(q, d) == {i \in DOMAIN q : q[i].dso = d}

\* Positions D of address space g.
At(g, D) == {<<g, i>> : i \in D}

\* Naming the address space does not change how many positions there are.
LEMMA Tagged ==
  ASSUME NEW g, NEW D, IsFiniteSet(D)
  PROVE  IsFiniteSet(At(g, D)) /\ Cardinality(At(g, D)) = Cardinality(D)
<1> DEFINE X == At(g, D)
           f == [i \in D |-> <<g, i>>]
<1>1. f \in [D -> X] /\ \A i, j \in D : f[i] = f[j] => i = j
  BY DEF At
<1>2. \A x \in X : \E i \in D : f[i] = x
  BY DEF At
<1> HIDE DEF f, X
<1>3. f \in Bijection(D, X)
  BY <1>1, <1>2 DEF Bijection, Injection, Surjection, IsInjective
<1>4. ExistsBijection(D, X)
  BY <1>3 DEF ExistsBijection
<1>5. IsFiniteSet(X) /\ Cardinality(X) = Cardinality(D)
  BY <1>4, FS_Bijection
<1> QED BY <1>5 DEF X

\* Emptying an address space takes its entries out of those that name d.
LEMMA RefersEmptied ==
  ASSUME NEW e \in [Tid -> Seq(MapEntry)], NEW f \in [Tid -> Seq(MapEntry)],
         NEW g \in Tid, NEW d \in Dso, Len(e[g]) <= MaxMaps, f[g] = <<>>,
         \A h \in Tid \ {g} : f[h] = e[h]
  PROVE  /\ Cardinality(Naming(e[g], d)) \in Nat /\ Cardinality(Refers(f, d)) \in Nat
         /\ Cardinality(Refers(e, d)) = Cardinality(Refers(f, d)) + Cardinality(Naming(e[g], d))
<1> DEFINE D == Naming(e[g], d)
           X == At(g, D)
           E == Refers(e, d)
           F == Refers(f, d)
<1>1. DOMAIN e[g] = 1 .. Len(e[g]) /\ Len(e[g]) \in Nat /\ MaxMaps \in Nat /\ DOMAIN f[g] = {}
  BY MachineAssumption
<1>2. IsFiniteSet(D) /\ Cardinality(D) \in Nat
  <2>1. IsFiniteSet(DOMAIN e[g])
    BY <1>1, FS_Interval
  <2>2. D \in SUBSET DOMAIN e[g]
    BY DEF Naming
  <2> QED BY <2>1, <2>2, FS_Subset, FS_CardinalityType
<1>3. IsFiniteSet(X) /\ Cardinality(X) = Cardinality(D)
  BY <1>2, Tagged
<1>4. IsFiniteSet(F) /\ Cardinality(F) \in Nat
  BY RefersFinite
<1>5. \A p : p \in X <=> p \in E /\ p[1] = g
  <2>1. ASSUME NEW p, p \in X PROVE p \in E /\ p[1] = g
    <3>1. PICK i \in D : p = <<g, i>>
      BY <2>1 DEF At
    <3>2. i \in 1 .. MaxMaps /\ i \in DOMAIN e[g] /\ e[g][i].dso = d
      BY <1>1 DEF Naming
    <3> QED BY <3>1, <3>2 DEF Refers
  <2>2. ASSUME NEW p, p \in E, p[1] = g PROVE p \in X
    <3>1. p \in Tid \X (1 .. MaxMaps) /\ p[2] \in DOMAIN e[g] /\ e[g][p[2]].dso = d
      BY <2>2 DEF Refers
    <3>2. p = <<g, p[2]>> /\ p[2] \in D
      BY <2>2, <3>1 DEF Naming
    <3> QED BY <3>2 DEF At
  <2> QED BY <2>1, <2>2
<1>6. \A p : p \in F <=> p \in E /\ p[1] # g
  <2>1. ASSUME NEW p \in Tid \X (1 .. MaxMaps), p[1] # g PROVE p \in F <=> p \in E
    <3>1. p[1] \in Tid /\ f[p[1]] = e[p[1]]
      BY <2>1
    <3> QED BY <3>1 DEF Refers
  <2>2. ASSUME NEW p, p \in F PROVE p[1] # g
    BY <1>1, <2>2 DEF Refers
  <2>3. \A p : p \in E \/ p \in F => p \in Tid \X (1 .. MaxMaps)
    BY DEF Refers
  <2> HIDE DEF E, F
  <2> QED BY <2>1, <2>2, <2>3
<1> HIDE DEF X, E, F, D
<1>7. E = F \cup X /\ F \cap X = {}
  BY <1>5, <1>6
<1>8. Cardinality(F \cup X) = Cardinality(F) + Cardinality(X) - 0
  BY <1>3, <1>4, <1>7, FS_Union, FS_EmptySet
<1> QED BY <1>2, <1>3, <1>4, <1>7, <1>8 DEF E, F, D

\* maps__put of the last reference puts a dso once for each entry.
LEMMA MapsPutDsos ==
  ASSUME NEW s \in Heap, NEW g \in Tid, NEW k \in Nat, Held(s, k), k <= MaxMaps,
         MaxMaps + 3 < RefMod
  PROVE  Held(maps__put(s, g), k) /\ maps__put(s, g).freed = s.freed
<1> DEFINE a == [s EXCEPT !.mrefs[g] = refcount_dec(@)]
           dying(d) == {i \in DOMAIN a.ments[g] :
                          /\ a.ments[g][i].dso = d
                          /\ refcount_dec(a.ments[g][i].refs) = 0}
           n == [d \in Dso |-> Cardinality(dying(d))]
           f == [d \in Dso |-> (a.drefs[d] - n[d]) % RefMod]
           h == [s.ments EXCEPT ![g] = <<>>]
<1>1. /\ s.drefs \in [Dso -> Nat] /\ s.ments \in [Tid -> Seq(MapEntry)]
      /\ MaxMaps \in Nat /\ RefMod \in Nat
  BY MachineAssumption DEF Heap
<1>2. SameDsos(s, a) /\ a.ments = s.ments /\ a.freed = s.freed
  BY DEF Heap, SameDsos
<1>3. maps__put(s, g) = a \/ maps__put(s, g) = maps__delete(a, g)
  BY DEF maps__put
<1>4. /\ maps__delete(a, g).drefs = f /\ maps__delete(a, g).ments = h
      /\ maps__delete(a, g).dlisted = s.dlisted /\ maps__delete(a, g).freed = s.freed
  <2> DEFINE z == [a EXCEPT !.ments[g] = <<>>]
  <2>1. /\ z.drefs = a.drefs /\ z.ments = h /\ z.dlisted = s.dlisted /\ z.freed = s.freed
        /\ DOMAIN z = DOMAIN s
    BY DEF Heap
  <2>2. maps__delete(a, g) = dso__puts(z, n)
    BY DEF maps__delete
  <2> HIDE DEF z, a, n
  <2>3. maps__delete(a, g) = [z EXCEPT !.drefs = f]
    BY <2>1, <2>2 DEF dso__puts, dso__delete
  <2> HIDE DEF f, h
  <2> QED BY <2>1, <2>3 DEF Heap
<1>5. ASSUME NEW d \in Dso
      PROVE  /\ f[d] = (IF s.dlisted[d] THEN 1 ELSE 0) + Cardinality(Refers(h, d))
             /\ Cardinality(Refers(h, d)) <= k
  <2> DEFINE D == Naming(s.ments[g], d)
             x == Cardinality(Refers(s.ments, d))
             y == Cardinality(Refers(h, d))
             w == Cardinality(D)
  <2>1. dying(d) = D
    <3>1. \A i \in DOMAIN s.ments[g] : refcount_dec(s.ments[g][i].refs) = 0
      <4>1. \A i \in DOMAIN s.ments[g] : s.ments[g][i].refs = 1
        BY DEF Held
      <4>2. refcount_dec(1) = 0
        BY <1>1, Counting
      <4> QED BY <4>1, <4>2
    <3> HIDE DEF a
    <3> QED BY <1>2, <3>1 DEF Naming
  <2>2. x \in Nat /\ x <= k /\ s.drefs[d] = (IF s.dlisted[d] THEN 1 ELSE 0) + x
    BY RefersFinite DEF Held
  <2>3. w \in Nat /\ y \in Nat /\ x = y + w
    <3>1. Len(s.ments[g]) <= MaxMaps
      <4>1. Len(s.ments[g]) \in Nat /\ Len(s.ments[g]) <= k
        BY <1>1 DEF Held
      <4> QED BY <1>1, <4>1
    <3>2. h \in [Tid -> Seq(MapEntry)] /\ h[g] = <<>> /\ \A v \in Tid \ {g} : h[v] = s.ments[v]
      BY <1>1
    <3> HIDE DEF h
    <3> QED BY <1>1, <3>1, <3>2, RefersEmptied
  <2>4. f[d] = (s.drefs[d] - w) % RefMod
    BY <1>2, <2>1 DEF SameDsos
  <2> HIDE DEF x, y, w, f, h, a, D
  <2>5. w <= s.drefs[d] /\ s.drefs[d] < RefMod /\ s.drefs[d] \in Nat /\ y <= k
    BY <1>1, <2>2, <2>3
  <2>6. f[d] = s.drefs[d] - w
    BY <2>3, <2>4, <2>5, Unwrapped
  <2>7. f[d] = (IF s.dlisted[d] THEN 1 ELSE 0) + y
    BY <2>2, <2>3, <2>6
  <2> QED BY <2>5, <2>7 DEF y
<1>6. ASSUME NEW v \in Tid
      PROVE  /\ Len(h[v]) <= k
             /\ \A i \in DOMAIN h[v] :
                  h[v][i].refs = 1 /\ (s.freed \/ s.dlisted[h[v][i].dso])
  <2>1. CASE v = g
    <3>1. h[v] = <<>>
      BY <1>1, <2>1
    <3> QED BY <3>1
  <2>2. CASE v # g
    <3>1. h[v] = s.ments[v]
      BY <1>1, <2>2
    <3> QED BY <3>1 DEF Held
  <2> QED BY <2>1, <2>2
<1> HIDE DEF f, h
<1>7. Held(maps__delete(a, g), k)
  BY <1>4, <1>5, <1>6 DEF Held
<1>8. Held(a, k)
  BY <1>2, HeldFrame
<1> HIDE DEF a
<1> QED BY <1>2, <1>3, <1>4, <1>7, <1>8

\* Removing a linked thread puts the dsos of its address space with the last
\* thread that uses it.
LEMMA RemoveDsos ==
  ASSUME NEW bound \in Nat, NEW s, NEW t \in Tid, Rest(s, bound), s.where[t] = "tree",
         bound + 2 < RefMod, NEW k \in Nat, Held(s, k), k <= MaxMaps, MaxMaps + 3 < RefMod
  PROVE  Held(machine__remove_thread(s, t), k)
<1> DEFINE c == machine__threads(t)
           a == [s EXCEPT !.last[c] = IF @ = t THEN NULL ELSE @,
                          !.where[t] = "dead", !.nr[c] = @ - 1]
           b == [a EXCEPT !.refs[t] = refcount_dec(@)]
           x == maps__put(b, b.maps[t])
           y == [x EXCEPT !.maps[t] = NULL]
           r == machine__remove_thread(s, t)
<1>1. s \in Heap /\ s.refs \in [Tid -> Nat] /\ s.leak \in [Tid -> Nat]
      /\ s.where \in [Tid -> Where]
  BY DEF Rest, Heap
<1>2. s.refs[t] # 0 /\ s.maps[t] \in Tid
  BY <1>1 DEF Rest
<1>3. r = thread__put(a, t)
  BY <1>2 DEF machine__remove_thread
<1>4. a.where[t] = "dead"
  BY <1>1 DEF Heap
<1>5. r = b \/ r = thread__delete(b, t)
  BY <1>3, <1>4 DEF thread__put
<1>6. b \in Heap /\ b.maps = s.maps /\ b.ments = s.ments /\ b.freed = s.freed /\ SameDsos(s, b)
  <2> DEFINE l == [s.last EXCEPT ![c] = IF @ = t THEN NULL ELSE @]
             w == [s.where EXCEPT ![t] = "dead"]
             n == [s.nr EXCEPT ![c] = @ - 1]
             f == [s.refs EXCEPT ![t] = refcount_dec(@)]
  <2>1. l \in [Bucket -> Tid \cup {NULL}] /\ n \in [Bucket -> Int]
    BY <1>1, BucketOf DEF Heap
  <2>2. w \in [Tid -> Where] /\ f \in [Tid -> Nat]
    BY <1>1, Counting DEF Where
  <2>3. b = [s EXCEPT !.last = l, !.where = w, !.nr = n, !.refs = f]
    BY <1>1 DEF Heap
  <2> HIDE DEF l, w, n, f, b
  <2> QED BY <1>1, <2>1, <2>2, <2>3 DEF Heap, SameDsos
<1> HIDE DEF a, b, r
<1>7. Held(b, k)
  BY <1>6, HeldFrame
<1>8. x \in Heap /\ Held(x, k)
  BY <1>2, <1>6, <1>7, MapsPut, MapsPutDsos
<1>9. thread__delete(b, t) = [unwind__finish_access(y, t) EXCEPT !.where[t] = "freed"]
  BY DEF thread__delete
<1> HIDE DEF x
<1>10. /\ SameDsos(x, thread__delete(b, t)) /\ thread__delete(b, t).ments = x.ments
       /\ thread__delete(b, t).freed = x.freed
  BY <1>8, <1>9 DEF unwind__finish_access, Heap, SameDsos
<1>11. Held(thread__delete(b, t), k)
  BY <1>8, <1>10, HeldFrame
<1> QED BY <1>5, <1>7, <1>11 DEF r

\* dsos__purge takes every dso off the list and puts the list's reference.
LEMMA PurgeDsos ==
  ASSUME NEW s \in Heap, NEW k \in Nat, Held(s, k), k <= MaxMaps, MaxMaps + 3 < RefMod
  PROVE  Held([dsos__purge(s) EXCEPT !.freed = TRUE], k)
<1> DEFINE a == [s EXCEPT !.dlisted = [d \in Dso |-> FALSE]]
           n == [d \in Dso |-> IF s.dlisted[d] THEN 1 ELSE 0]
           f == [d \in Dso |-> (s.drefs[d] - n[d]) % RefMod]
           u == [dsos__purge(s) EXCEPT !.freed = TRUE]
<1>1. s.drefs \in [Dso -> Nat] /\ s.dlisted \in [Dso -> BOOLEAN]
  BY DEF Heap
<1>2. dsos__purge(s) = [a EXCEPT !.drefs = f]
  <2>1. a.drefs = s.drefs
    BY DEF Heap
  <2>2. dsos__purge(s) = dso__puts(a, n)
    BY DEF dsos__purge
  <2> HIDE DEF a, n
  <2> QED BY <2>1, <2>2 DEF dso__puts, dso__delete
<1>3. ASSUME NEW d \in Dso PROVE f[d] = Cardinality(Refers(s.ments, d))
  <2> DEFINE x == Cardinality(Refers(s.ments, d))
  <2>1. x \in Nat /\ s.drefs[d] = n[d] + x /\ n[d] \in {0, 1} /\ s.drefs[d] \in Nat
    BY <1>1, RefersFinite DEF Held
  <2>2. s.drefs[d] < RefMod
    BY HeldSmall DEF Small
  <2> HIDE DEF x, n
  <2>3. n[d] \in Nat /\ n[d] <= s.drefs[d] /\ s.drefs[d] - n[d] = x
    BY <2>1
  <2>4. (s.drefs[d] - n[d]) % RefMod = x
    BY <2>1, <2>2, <2>3, Unwrapped
  <2> QED BY <2>4 DEF x
<1> HIDE DEF f
<1>4. u.ments = s.ments /\ u.drefs = f /\ u.dlisted = [d \in Dso |-> FALSE] /\ u.freed = TRUE
  BY <1>2 DEF Heap
<1> HIDE DEF u
<1>5. \A d \in Dso : /\ u.drefs[d] = (IF u.dlisted[d] THEN 1 ELSE 0)
                                     + Cardinality(Refers(u.ments, d))
                     /\ Cardinality(Refers(u.ments, d)) <= k
  <2> SUFFICES ASSUME NEW d \in Dso
               PROVE  /\ u.drefs[d] = (IF u.dlisted[d] THEN 1 ELSE 0)
                                      + Cardinality(Refers(u.ments, d))
                      /\ Cardinality(Refers(u.ments, d)) <= k
    OBVIOUS
  <2> DEFINE x == Cardinality(Refers(s.ments, d))
  <2>1. x \in Nat /\ x <= k /\ u.drefs[d] = x /\ ~u.dlisted[d]
    BY <1>3, <1>4, RefersFinite DEF Held
  <2> HIDE DEF x
  <2>2. u.drefs[d] = (IF u.dlisted[d] THEN 1 ELSE 0) + x
    BY <2>1
  <2> QED BY <1>4, <2>1, <2>2 DEF x
<1>6. Held(u, k)
  BY <1>4, <1>5 DEF Held
<1> QED BY <1>6 DEF u
-----------------------------------------------------------------------------
(***************************************************************************)
(* The inductive invariant, beside MachineInv and SpacesInv.               *)
(***************************************************************************)
\* The counts of dsos after the maps lines read so far.
DsoInv == Held(m, lines)

\* machine__new has no dsos and no entries.
LEMMA DsoInvInit == Init => DsoInv
<1> SUFFICES ASSUME Init PROVE DsoInv
  OBVIOUS
<1>1. /\ \A d \in Dso : m.drefs[d] = 0 /\ m.dlisted[d] = FALSE
      /\ \A g \in Tid : m.ments[g] = <<>>
      /\ lines = 0
  BY DEF Init, machine__new
<1>2. ASSUME NEW d \in Dso PROVE Cardinality(Refers(m.ments, d)) = 0
  <2>1. Refers(m.ments, d) = {}
    BY <1>1 DEF Refers
  <2> QED BY <2>1, FS_EmptySet
<1> QED BY <1>1, <1>2 DEF DsoInv, Held

\* A line read leaves room for one more entry.
LEMMA HeldMore ==
  ASSUME NEW s \in Heap, NEW k \in Nat, Held(s, k)
  PROVE  Held(s, k + 1)
<1>1. \A d \in Dso : Cardinality(Refers(s.ments, d)) \in Nat
  BY RefersFinite
<1>2. \A g \in Tid : Len(s.ments[g]) \in Nat
  BY DEF Heap
<1>3. \A d \in Dso : Cardinality(Refers(s.ments, d)) <= k + 1
  BY <1>1 DEF Held
<1>4. \A g \in Tid : Len(s.ments[g]) <= k + 1
  BY <1>2 DEF Held
<1> QED BY <1>3, <1>4 DEF Held

\* Every library call, maps line and step of machine__delete keeps it.
LEMMA DsoInvNext ==
  ASSUME NoWrap, ThreadsFit, MachineInv, SpacesInv, DsoInv, [Next]_vars
  PROVE  DsoInv'
<1> DEFINE bound == calls + lines
<1>0. /\ m \in Heap /\ TypeOK /\ lines \in Nat /\ bound \in Nat
      /\ lines <= MaxMaps /\ bound + 3 < RefMod /\ bound + 2 < RefMod
      /\ MaxMaps \in Nat /\ MaxMaps + 3 < RefMod
  BY MachineAssumption DEF MachineInv, TypeOK, NoWrap
<1>1. Held(m, lines) /\ Spaces(m, {}) /\ Access(m) /\ Rest(m, bound)
  BY DEF DsoInv, SpacesInv, MachineInv
<1>2. Small(m)
  BY <1>0, <1>1, HeldSmall
<1>3. Serving => Table(m, {}, {}, bound) /\ m.freed = FALSE
  <2>1. Serving => Table(m, {}, {}, bound)
    BY RestIsTable DEF MachineInv
  <2>2. Serving => m.freed = FALSE
    BY <1>0 DEF Serving, SpacesInv, Heap
  <2> QED BY <2>1, <2>2
<1>4. ASSUME Call PROVE Serving /\ m.abort = "no"
  BY <1>4 DEF Call, Serving
<1> HIDE DEF bound
<1>5. ASSUME m' = m, lines' = lines PROVE DsoInv'
  BY <1>1, <1>5 DEF DsoInv
<1>6. ASSUME NEW k, Held(m, k), NEW u, u.abort # "no" \/ Held(u, k), Becomes(u)
      PROVE  Held(m', k)
  <2>1. CASE u.abort = "no"
    BY <1>6, <2>1 DEF Becomes
  <2>2. CASE u.abort # "no"
    <3>1. m' = [m EXCEPT !.abort = u.abort]
      BY <1>6, <2>2 DEF Becomes
    <3>2. SameDsos(m, m') /\ m'.ments = m.ments /\ m'.freed = m.freed
      BY <1>0, <3>1 DEF Heap, SameDsos
    <3> QED BY <1>6, <3>2, HeldFrame
  <2> QED BY <2>1, <2>2
<1>7. ASSUME NEW u, SameDsos(m, u), Fine(m, u), Becomes(u), lines' = lines PROVE DsoInv'
  <2>1. u.abort # "no" \/ Held(u, lines)
    BY <1>1, <1>7, HeldFrame DEF Fine, Kept
  <2>2. Held(m', lines)
    BY <1>1, <1>6, <1>7, <2>1
  <2> QED BY <1>7, <2>2 DEF DsoInv
<1>8. ASSUME NEW d \in Dso, NEW ok \in BOOLEAN, prepare_mmap_line(d, ok) PROVE DsoInv'
  <2> DEFINE u == bpf_unwind_ctx__process_mmap(m, arg[1], arg[2], d, ok)
  <2>1. m.abort = "no" /\ pc = "lines" /\ lines < MaxMaps /\ Becomes(u) /\ lines' = lines + 1
    BY <1>8 DEF prepare_mmap_line
  <2>2. arg[1] \in Tid /\ arg[2] \in Tid /\ Serving
    BY <1>0, <2>1 DEF TypeOK, Serving
  <2>3. u.abort # "no" \/ Held(u, lines + 1)
    BY <1>0, <1>1, <1>3, <2>1, <2>2, MmapDsos
  <2> HIDE DEF u
  <2>4. Held(m, lines + 1)
    BY <1>0, <1>1, HeldMore
  <2>5. Held(m', lines + 1)
    BY <1>6, <2>1, <2>3, <2>4
  <2> QED BY <2>1, <2>5 DEF DsoInv
<1>9. ASSUME NEW g \in Tid, NEW t \in Tid, NEW ok \in BOOLEAN, NEW same \in BOOLEAN,
             bpf_unwind_ctx__resolve_callchain(g, t, ok, same)
      PROVE  DsoInv'
  <2> DEFINE u == resolve(m, g, t, ok, same)
  <2>1. Call /\ Becomes(u) /\ lines' = lines
    BY <1>9 DEF bpf_unwind_ctx__resolve_callchain
  <2>2. Table(m, {}, {}, bound) /\ m.abort = "no"
    BY <1>3, <1>4, <2>1
  <2>3. Fine(m, u)
    BY <1>0, <1>1, <2>2, ResolveSpaces
  <2>4. SameDsos(m, u)
    BY <1>0, <1>2, <2>2, LookupDsos
  <2> HIDE DEF u
  <2> QED BY <1>7, <2>1, <2>3, <2>4
<1>10. ASSUME NEW g \in Tid, bpf_dl_iterate_phdr(g) PROVE DsoInv'
  <2> DEFINE u == iterate(m, g)
  <2>1. Call /\ Becomes(u) /\ lines' = lines
    BY <1>10 DEF bpf_dl_iterate_phdr
  <2>2. Table(m, {}, {}, bound) /\ m.abort = "no"
    BY <1>3, <1>4, <2>1
  <2>3. Fine(m, u)
    BY <1>0, <1>1, <2>2, IterateSpaces
  <2>4. SameDsos(m, u)
    <3>1. TRUE \in BOOLEAN
      OBVIOUS
    <3> QED BY <1>0, <1>2, <2>2, <3>1, LookupDsos
  <2> HIDE DEF u
  <2> QED BY <1>7, <2>1, <2>3, <2>4
<1>11. ASSUME NEW t \in Tid, machine__delete_threads(t) PROVE DsoInv'
  <2> DEFINE u == machine__remove_thread(m, t)
  <2>1. m.where[t] = "tree" /\ Becomes(u) /\ lines' = lines
    BY <1>11 DEF machine__delete_threads, InTree
  <2>2. Held(u, lines)
    BY <1>0, <1>1, <2>1, RemoveDsos
  <2> HIDE DEF u
  <2>3. Held(m', lines)
    BY <1>1, <1>6, <2>1, <2>2
  <2> QED BY <2>1, <2>3 DEF DsoInv
<1>12. CASE machine__exit
  <2>1. m' = [dsos__purge(m) EXCEPT !.freed = TRUE] /\ lines' = lines
    BY <1>12 DEF machine__exit
  <2>2. Held(m', lines)
    BY <1>0, <1>1, <2>1, PurgeDsos
  <2> QED BY <2>1, <2>2 DEF DsoInv
<1>13. CASE thread_map_no_file
  BY <1>5, <1>13 DEF thread_map_no_file
<1>14. ASSUME NEW g \in Tid, NEW t \in Tid, bpf_unwind_ctx__thread_map(g, t) PROVE DsoInv'
  BY <1>5, <1>14 DEF bpf_unwind_ctx__thread_map
<1>15. CASE prepare_mmap_eof
  BY <1>5, <1>15 DEF prepare_mmap_eof
<1>16. CASE machine__delete
  BY <1>5, <1>16 DEF machine__delete
<1>17. CASE UNCHANGED vars
  BY <1>5, <1>17 DEF vars
<1> QED BY <1>8, <1>9, <1>10, <1>11, <1>12, <1>13, <1>14, <1>15, <1>16, <1>17 DEF Next
-----------------------------------------------------------------------------
(***************************************************************************)
(* The theorem.                                                            *)
(***************************************************************************)
\* dso->refcnt is the reference of the list plus one for each map entry that
\* names the dso: what map__new takes, maps__delete and dsos__purge put.
THEOREM DsoCountsAreExact ==
  ASSUME NoWrap, ThreadsFit
  PROVE  Spec => []DsoRefsExact
<1>1. Init => MachineInv /\ SpacesInv /\ DsoInv
  BY MachineInvInit, SpacesInvInit, DsoInvInit
<1>2. MachineInv /\ SpacesInv /\ DsoInv /\ [Next]_vars
        => (MachineInv /\ SpacesInv /\ DsoInv)'
  BY MachineInvNext, SpacesInvNext, DsoInvNext
<1>3. MachineInv /\ SpacesInv /\ DsoInv => DsoRefsExact
  BY DEF DsoInv, Held, Refers, DsoRefsExact
<1> QED BY <1>1, <1>2, <1>3, PTL DEF Spec
=============================================================================
