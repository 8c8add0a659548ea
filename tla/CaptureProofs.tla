---------------------------- MODULE CaptureProofs ----------------------------
(***************************************************************************)
(* Proofs about the capture of contexts, for any cpus, workers, map and    *)
(* ring sizes and any number of probes.                                    *)
(***************************************************************************)
EXTENDS Capture, FiniteSetTheorems, TLAPS

\* A position of the ring has a slot.
LEMMA SlotType == ASSUME NEW n \in Nat PROVE SlotAt(n) \in Slot
BY CaptureAssumption DEF SlotAt, Slot

\* A product with the ring's size is no number strictly between 0 and it.
LEMMA NoMultiple ==
  ASSUME NEW R \in Nat \ {0}, NEW d \in Int PROVE R * d <= 0 \/ R * d >= R
<1>1. CASE d <= 0
  BY <1>1
<1>2. CASE d >= 1
  BY <1>2
<1> QED BY <1>1, <1>2

\* Two positions that are less than a ring apart have different slots.
LEMMA SlotsDiffer ==
  ASSUME NEW n \in Nat, NEW m \in Nat, n < m, m - n < RingSlots
  PROVE  SlotAt(n) # SlotAt(m)
<1> DEFINE R == RingSlots
<1>0. R \in Nat \ {0}
  BY CaptureAssumption
<1> HIDE DEF R
<1>1. /\ n = R * (n \div R) + (n % R) /\ n \div R \in Int
      /\ m = R * (m \div R) + (m % R) /\ m \div R \in Int
  BY <1>0
<1>2. SUFFICES ASSUME n % R = m % R PROVE FALSE
  BY DEF SlotAt, R
<1> DEFINE p == n \div R
           q == m \div R
           d == q - p
<1>3. p \in Int /\ q \in Int /\ d \in Int /\ n % R \in Int
  BY <1>0, <1>1
<1>4. n = R * p + (n % R) /\ m = R * q + (n % R) /\ q = p + d
  BY <1>1, <1>2, <1>3
<1> HIDE DEF p, q, d
<1>5. R * q = R * p + R * d
  BY <1>0, <1>3, <1>4
<1>6. R * p \in Int /\ R * q \in Int /\ R * d \in Int
  BY <1>0, <1>3
<1>7. R * d = m - n
  BY <1>3, <1>4, <1>5, <1>6
<1>8. R * d <= 0 \/ R * d >= R
  BY <1>0, <1>3, NoMultiple
<1> QED BY <1>0, <1>7, <1>8 DEF R
-----------------------------------------------------------------------------
(***************************************************************************)
(* The hash.  A new key is not in it because every key was made by an      *)
(* earlier probe, and two cpus never share one.                            *)
(***************************************************************************)
HashInv ==
  /\ EntriesAreAccountedFor
  /\ \A k \in hash : k[1] <= clock
  /\ IsFiniteSet(hash) /\ Cardinality(hash) <= HashSize

\* The window of a context that is still to be filled is computed from a stack
\* pointer of the traced thread.
WindowInv ==
  /\ \A c \in Cpu : pc[c] = "fill" => uc[c].sp \in UserSp
  /\ WindowIsTheStack

\* The ring holds the last RingSlots contexts; those not consumed are among
\* them, and no pointer is ahead of the ring.
RingInv ==
  /\ \A c \in Cpu : /\ tail[c] <= Len(sent[c]) /\ Len(sent[c]) <= tail[c] + RingSlots
                    /\ \A n \in Nat : n < Len(sent[c]) /\ Len(sent[c]) <= n + RingSlots =>
                                       ring[c][SlotAt(n)] = sent[c][n + 1]
  /\ ppc # NULL => tail[ppc] < Len(sent[ppc])
  /\ \A p \in Held : p.pos < Len(sent[p.cpu])

CaptureInv == TypeOK /\ HashInv /\ WindowInv /\ RingInv

\* Tracing starts in the invariant.
LEMMA CaptureInit == Init => CaptureInv
<1> SUFFICES ASSUME Init PROVE CaptureInv
  OBVIOUS
<1> USE CaptureAssumption DEF Init
<1>1. TypeOK
  BY DEF TypeOK, Empty, Blank, Tgid, Context, Record, Queue!Init
<1>2. HashInv
  BY FS_EmptySet DEF HashInv, EntriesAreAccountedFor, InProgress
<1>3. WindowInv
  BY DEF WindowInv, WindowIsTheStack
<1>4. Held = {}
  BY DEF Held, Queue!Init
<1>5. RingInv
  BY <1>4 DEF RingInv
<1> QED BY <1>1, <1>2, <1>3, <1>5 DEF CaptureInv

\* The first position is a cpu's own, so what others do to their contexts
\* leaves its key alone.
LEMMA KeysDiffer == ASSUME NEW c \in Cpu, NEW d \in Cpu, c # d PROVE key(c) # key(d)
BY DEF key

\* Every step keeps the types.
LEMMA TypeNext == CaptureInv /\ [Next]_vars => TypeOK'
<1> SUFFICES ASSUME CaptureInv, [Next]_vars PROVE TypeOK'
  OBVIOUS
<1> USE CaptureAssumption DEF CaptureInv, TypeOK
<1>1. ASSUME NEW c \in Cpu, NEW mm \in BOOLEAN, NEW readable \in BOOLEAN,
             NEW sp \in UserSp, NEW tgid \in Tgid, get_unwind_ctx(c, mm, readable, sp, tgid)
      PROVE  TypeOK'
  <2>0. sp \in Nat /\ clock' = clock + 1 /\ clock' \in Nat
    BY <1>1 DEF get_unwind_ctx
  <2>1. [ts |-> clock', sp |-> sp, base |-> 0, size |-> 0, tgid |-> tgid] \in Context
    BY <2>0 DEF Context
  <2>2. uc' \in [Cpu -> Context]
    BY <1>1, <2>1 DEF get_unwind_ctx
  <2>3. key(c)' \in Nat \X Cpu
    BY <2>2 DEF key, Context
  <2>4. pc' \in [Cpu -> {"idle", "fill", "submit", "delete"}] /\ hash' \subseteq hash \cup {key(c)'}
    BY <1>1 DEF get_unwind_ctx
  <2> QED BY <1>1, <2>0, <2>2, <2>3, <2>4 DEF get_unwind_ctx, userVars
<1>2. ASSUME NEW c \in Cpu, fill(c) PROVE TypeOK'
  <2>1. uc[c] \in Context /\ uc[c].sp \in Nat /\ uc[c].sp >= RedZone
    BY <1>2 DEF fill, Context, WindowInv
  <2>2. key(c) \in Nat \X Cpu
    BY <2>1 DEF key, Context
  <2>3. Empty \in Context
    BY DEF Empty, Context, Tgid
  <2>4. StackPointer(uc[c].sp) \in Nat /\ uc[c].sp - RedZone \in Nat
    BY <2>1 DEF StackPointer
  <2>5. \A rem \in 0 .. STACK_SIZE : Size(rem) \in 0 .. STACK_SIZE
    BY DEF Size
  <2>6. ASSUME NEW from \in Nat, NEW rem \in 0 .. STACK_SIZE,
               uc' = [uc EXCEPT ![c].sp = StackPointer(@), ![c].base = from, ![c].size = Size(rem)]
        PROVE  uc' \in [Cpu -> Context]
    BY <2>1, <2>4, <2>5, <2>6 DEF Context
  <2>7. uc' \in [Cpu -> Context]
    <3>1. CASE uc' = [uc EXCEPT ![c] = Empty]
      BY <2>3, <3>1
    <3>2. CASE uc' # [uc EXCEPT ![c] = Empty]
      <4> DEFINE from == IF ~prog.tracepoint /\ ~prog.user THEN uc[c].sp - RedZone ELSE uc[c].sp
      <4>1. from \in Nat
        BY <2>1, <2>4
      <4>2. PICK rem \in 0 .. STACK_SIZE :
               uc' = [uc EXCEPT ![c].sp = StackPointer(@), ![c].base = from, ![c].size = Size(rem)]
        BY <1>2, <3>2 DEF fill, bpf_probe_read_stack
      <4> QED BY <2>6, <4>1, <4>2
    <3> QED BY <3>1, <3>2
  <2>8. /\ pc' \in [Cpu -> {"idle", "fill", "submit", "delete"}] /\ failed' \subseteq Nat \X Cpu
        /\ UNCHANGED <<prog, clock, hash, ring, sent, userVars>>
    BY <1>2, <2>2 DEF fill
  <2> QED BY <2>7, <2>8 DEF userVars
<1>3. ASSUME NEW c \in Cpu, perf_submit(c) PROVE TypeOK'
  <2>1. uc[c] \in Context /\ key(c) \in Nat \X Cpu
    BY DEF key, Context
  <2>2. [key |-> key(c), tgid |-> uc[c].tgid] \in Record
    BY <2>1 DEF Record, Context
  <2>3. Len(sent[c]) \in Nat /\ SlotAt(Len(sent[c])) \in Slot
    BY SlotType
  <2>4. ring' \in [Cpu -> [Slot -> Record]] /\ sent' \in [Cpu -> Seq(Record)]
    <3> DEFINE x == [key |-> key(c), tgid |-> uc[c].tgid]
    <3>1. CASE Room(c)
      <4>1. /\ ring' = [ring EXCEPT ![c][SlotAt(Len(sent[c]))] = x]
            /\ sent' = [sent EXCEPT ![c] = Append(@, x)]
        BY <1>3, <3>1 DEF perf_submit
      <4>2. x \in Record
        BY <2>2
      <4> HIDE DEF x
      <4> QED BY <2>3, <4>1, <4>2
    <3> QED BY <1>3, <3>1 DEF perf_submit
  <2>5. /\ pc' \in [Cpu -> {"idle", "fill", "submit", "delete"}]
        /\ UNCHANGED <<prog, clock, hash, failed, uc, userVars>>
    BY <1>3 DEF perf_submit
  <2> QED BY <2>4, <2>5 DEF userVars
<1>4. ASSUME NEW c \in Cpu, cache_delete(c) PROVE TypeOK'
  <2>1. Empty \in Context
    BY DEF Empty, Context, Tgid
  <2>2. /\ pc' \in [Cpu -> {"idle", "fill", "submit", "delete"}] /\ uc' \in [Cpu -> Context]
        /\ hash' \subseteq hash /\ UNCHANGED <<prog, clock, failed, ring, sent, userVars>>
    BY <1>4, <2>1 DEF cache_delete
  <2> QED BY <2>2 DEF userVars
<1>5. ASSUME NEW c \in Cpu, unwind_ctx_handler(c) PROVE TypeOK'
  <2> DEFINE p == [cpu |-> c, pos |-> tail[c]]
  <2>1. p \in Pointer
    BY DEF Pointer
  <2>2. queue' = Append(queue, p) \/ queue' = queue
    BY <1>5 DEF unwind_ctx_handler, Queue!Push
  <2> HIDE DEF p
  <2>3. queue' \in Seq(Pointer)
    <3>1. queue \in Seq(Pointer)
      OBVIOUS
    <3> HIDE DEF CaptureInv, TypeOK
    <3> QED BY <2>1, <2>2, <3>1
  <2>4. ppc' = c /\ UNCHANGED <<prog, bpfVars, ring, sent, tail, got>>
    BY <1>5 DEF unwind_ctx_handler
  <2> QED BY <2>3, <2>4 DEF bpfVars
<1>6. CASE consume
  <2>1. tail' \in [Cpu -> Nat] /\ ppc' = NULL /\ UNCHANGED <<prog, bpfVars, ring, sent, queue, got>>
    BY <1>6 DEF consume
  <2> QED BY <2>1 DEF bpfVars
<1>7. ASSUME NEW w \in Worker, pop(w) PROVE TypeOK'
  <2>1. Head(queue) \in Pointer /\ Tail(queue) \in Seq(Pointer)
    BY <1>7 DEF pop, Queue!Take
  <2>2. /\ got' \in [Worker -> Pointer \cup {NULL}] /\ queue' \in Seq(Pointer)
        /\ UNCHANGED <<prog, bpfVars, ring, sent, tail, ppc>>
    BY <1>7, <2>1 DEF pop, Queue!Take
  <2> QED BY <2>2 DEF bpfVars
<1>8. ASSUME NEW w \in Worker, resolved(w) PROVE TypeOK'
  BY <1>8 DEF resolved, bpfVars
<1>9. CASE UNCHANGED vars
  BY <1>9 DEF vars
<1> HIDE DEF TypeOK, CaptureInv
<1>10. \A c \in Cpu : Probe(c) => TypeOK'
  BY <1>1 DEF Probe
<1> QED BY <1>10, <1>2, <1>3, <1>4, <1>5, <1>6, <1>7, <1>8, <1>9 DEF Next

\* The keys of the contexts being built, when one cpu's capture starts, goes on
\* or ends.
LEMMA InProgressStart ==
  ASSUME CaptureInv, NEW c \in Cpu, pc[c] = "idle", NEW x \in Context,
         uc' = [uc EXCEPT ![c] = x], pc' = [pc EXCEPT ![c] = "fill"]
  PROVE  InProgress' = InProgress \cup {key(c)'}
<1>1. \A d \in Cpu : d # c => key(d)' = key(d) /\ pc'[d] = pc[d]
  BY DEF key, CaptureInv, TypeOK
<1>2. pc'[c] # "idle" /\ pc[c] = "idle"
  BY DEF CaptureInv, TypeOK
<1> QED BY <1>1, <1>2 DEF InProgress

LEMMA InProgressSame ==
  ASSUME CaptureInv, \A c \in Cpu : key(c)' = key(c) /\ (pc'[c] = "idle") = (pc[c] = "idle")
  PROVE  InProgress' = InProgress
BY DEF InProgress

LEMMA InProgressEnd ==
  ASSUME CaptureInv, NEW c \in Cpu, pc[c] # "idle",
         uc' = [uc EXCEPT ![c] = Empty], pc' = [pc EXCEPT ![c] = "idle"]
  PROVE  InProgress' = InProgress \ {key(c)} /\ key(c) \in InProgress
<1>1. \A d \in Cpu : d # c => key(d)' = key(d) /\ pc'[d] = pc[d] /\ key(d) # key(c)
  BY KeysDiffer DEF key, CaptureInv, TypeOK
<1>2. pc'[c] = "idle"
  BY DEF CaptureInv, TypeOK
<1> QED BY <1>1, <1>2 DEF InProgress

\* The contents of the hash stay accounted for.
LEMMA HashNext == CaptureInv /\ [Next]_vars => HashInv'
<1> SUFFICES ASSUME CaptureInv, [Next]_vars PROVE HashInv'
  OBVIOUS
<1> USE CaptureAssumption
<1>0. /\ hash = InProgress \cup failed /\ InProgress \cap failed = {}
      /\ \A k \in hash : k[1] <= clock
      /\ IsFiniteSet(hash) /\ Cardinality(hash) <= HashSize /\ Cardinality(hash) \in Nat
      /\ clock \in Nat /\ hash \subseteq Nat \X Cpu
      /\ pc \in [Cpu -> {"idle", "fill", "submit", "delete"}] /\ uc \in [Cpu -> Context]
  BY FS_CardinalityType DEF CaptureInv, HashInv, EntriesAreAccountedFor, TypeOK
<1>u. ASSUME UNCHANGED <<hash, failed, clock>>, InProgress' = InProgress PROVE HashInv'
  BY <1>0, <1>u DEF HashInv, EntriesAreAccountedFor
<1>1. ASSUME NEW c \in Cpu, NEW mm \in BOOLEAN, NEW readable \in BOOLEAN,
             NEW sp \in UserSp, NEW tgid \in Tgid, get_unwind_ctx(c, mm, readable, sp, tgid)
      PROVE  HashInv'
  <2>1. CASE (prog.user \/ mm) /\ readable /\ Cardinality(hash) < HashSize
    <3> DEFINE x == [ts |-> clock', sp |-> sp, base |-> 0, size |-> 0, tgid |-> tgid]
    <3>1. /\ clock' = clock + 1 /\ uc' = [uc EXCEPT ![c] = x] /\ pc[c] = "idle"
          /\ hash' = hash \cup {key(c)'} /\ pc' = [pc EXCEPT ![c] = "fill"]
          /\ UNCHANGED failed
      BY <1>1, <2>1 DEF get_unwind_ctx
    <3>2. x \in Context /\ x.ts = clock + 1
      BY <1>0, <3>1 DEF Context
    <3> HIDE DEF x
    <3>3. key(c)' = <<clock + 1, c>>
      BY <1>0, <3>1, <3>2 DEF key
    <3>4. key(c)' \notin hash
      BY <1>0, <3>3
    <3>5. InProgress' = InProgress \cup {key(c)'}
      BY <3>1, <3>2, InProgressStart
    <3>6. IsFiniteSet(hash') /\ Cardinality(hash') = Cardinality(hash) + 1
      BY <1>0, <3>1, <3>4, FS_AddElement
    <3>7. \A k \in hash' : k[1] <= clock'
      BY <1>0, <3>1, <3>3
    <3>8. EntriesAreAccountedFor'
      BY <1>0, <3>1, <3>4, <3>5 DEF EntriesAreAccountedFor
    <3>9. Cardinality(hash') <= HashSize
      BY <1>0, <2>1, <3>6
    <3> QED BY <3>6, <3>7, <3>8, <3>9 DEF HashInv
  <2>2. CASE ~((prog.user \/ mm) /\ readable /\ Cardinality(hash) < HashSize)
    <3>1. clock' = clock + 1 /\ UNCHANGED <<hash, uc, pc, failed>>
      BY <1>1, <2>2 DEF get_unwind_ctx
    <3>2. InProgress' = InProgress
      BY <3>1 DEF InProgress, key
    <3>3. \A k \in hash : k[1] <= clock + 1
      BY <1>0
    <3> QED BY <1>0, <3>1, <3>2, <3>3 DEF HashInv, EntriesAreAccountedFor
  <2> QED BY <2>1, <2>2
<1>2. ASSUME NEW c \in Cpu, fill(c) PROVE HashInv'
  <2>1. UNCHANGED <<hash, clock>> /\ pc[c] = "fill"
    BY <1>2 DEF fill
  <2>2. CASE uc' = [uc EXCEPT ![c] = Empty] /\ pc' = [pc EXCEPT ![c] = "idle"]
                /\ failed' = failed \cup {key(c)}
    <3>1. InProgress' = InProgress \ {key(c)} /\ key(c) \in InProgress
      BY <2>1, <2>2, InProgressEnd
    <3>2. EntriesAreAccountedFor'
      BY <1>0, <2>1, <2>2, <3>1 DEF EntriesAreAccountedFor
    <3> QED BY <1>0, <2>1, <3>2 DEF HashInv
  <2>3. CASE ~(uc' = [uc EXCEPT ![c] = Empty] /\ pc' = [pc EXCEPT ![c] = "idle"]
                 /\ failed' = failed \cup {key(c)})
    <3>1. pc' = [pc EXCEPT ![c] = "submit"] /\ UNCHANGED failed
      BY <1>2, <2>3 DEF fill
    <3>2. \A d \in Cpu : uc'[d].ts = uc[d].ts
      BY <1>0, <1>2, <2>3 DEF fill, Context
    <3>3. InProgress' = InProgress
      BY <1>0, <2>1, <3>1, <3>2, InProgressSame DEF key
    <3> QED BY <1>u, <2>1, <3>1, <3>3
  <2> QED BY <2>2, <2>3
<1>3. ASSUME NEW c \in Cpu, perf_submit(c) PROVE HashInv'
  <2>1. /\ UNCHANGED <<hash, failed, clock, uc>> /\ pc[c] = "submit"
        /\ pc' = [pc EXCEPT ![c] = "delete"]
    BY <1>3 DEF perf_submit
  <2>2. InProgress' = InProgress
    BY <1>0, <2>1, InProgressSame DEF key
  <2> QED BY <1>u, <2>1, <2>2
<1>4. ASSUME NEW c \in Cpu, cache_delete(c) PROVE HashInv'
  <2>1. /\ uc' = [uc EXCEPT ![c] = Empty] /\ pc' = [pc EXCEPT ![c] = "idle"]
        /\ pc[c] = "delete" /\ hash' = hash \ {key(c)} /\ UNCHANGED <<failed, clock>>
    BY <1>4 DEF cache_delete
  <2>2. InProgress' = InProgress \ {key(c)} /\ key(c) \in InProgress
    BY <2>1, InProgressEnd
  <2>3. EntriesAreAccountedFor'
    BY <1>0, <2>1, <2>2 DEF EntriesAreAccountedFor
  <2>4. IsFiniteSet(hash') /\ Cardinality(hash') <= Cardinality(hash) /\ Cardinality(hash') \in Nat
    BY <1>0, <2>1, FS_Subset, FS_CardinalityType
  <2> QED BY <1>0, <2>1, <2>3, <2>4 DEF HashInv
<1>5. ASSUME \/ \E c \in Cpu : unwind_ctx_handler(c)
             \/ consume \/ (\E w \in Worker : pop(w) \/ resolved(w)) \/ UNCHANGED vars
      PROVE  HashInv'
  <2>1. UNCHANGED <<hash, failed, clock, uc, pc>>
    BY <1>5 DEF unwind_ctx_handler, consume, pop, resolved, vars, bpfVars
  <2>2. InProgress' = InProgress
    BY <2>1 DEF InProgress, key
  <2> QED BY <1>u, <2>1, <2>2
<1>6. \A c \in Cpu : Probe(c) => HashInv'
  BY <1>1 DEF Probe
<1> QED BY <1>2, <1>3, <1>4, <1>5, <1>6 DEF Next

\* A context that is submitted has its window, whatever the other cpus do.
LEMMA WindowNext == CaptureInv /\ [Next]_vars => WindowInv'
<1> SUFFICES ASSUME CaptureInv, [Next]_vars PROVE WindowInv'
  OBVIOUS
<1> USE CaptureAssumption
<1>0. /\ \A c \in Cpu : pc[c] = "fill" => uc[c].sp \in UserSp
      /\ \A c \in Cpu : pc[c] = "submit" =>
           uc[c].base = uc[c].sp /\ uc[c].sp + uc[c].size <= StackTop
      /\ pc \in [Cpu -> {"idle", "fill", "submit", "delete"}] /\ uc \in [Cpu -> Context]
  BY DEF CaptureInv, WindowInv, WindowIsTheStack, TypeOK
<1>s. ASSUME NEW c \in Cpu,
             \A d \in Cpu \ {c} : pc'[d] = pc[d] /\ uc'[d] = uc[d],
             pc'[c] = "fill" => uc'[c].sp \in UserSp,
             pc'[c] = "submit" =>
               uc'[c].base = uc'[c].sp /\ uc'[c].sp + uc'[c].size <= StackTop
      PROVE  WindowInv'
  BY <1>0, <1>s DEF WindowInv, WindowIsTheStack
<1>1. ASSUME NEW c \in Cpu, NEW mm \in BOOLEAN, NEW readable \in BOOLEAN,
             NEW sp \in UserSp, NEW tgid \in Tgid, get_unwind_ctx(c, mm, readable, sp, tgid)
      PROVE  WindowInv'
  <2>1. CASE (prog.user \/ mm) /\ readable /\ Cardinality(hash) < HashSize
    <3> DEFINE x == [ts |-> clock', sp |-> sp, base |-> 0, size |-> 0, tgid |-> tgid]
    <3>1. uc' = [uc EXCEPT ![c] = x] /\ pc' = [pc EXCEPT ![c] = "fill"]
      BY <1>1, <2>1 DEF get_unwind_ctx
    <3>2. x.sp \in UserSp
      OBVIOUS
    <3> HIDE DEF x
    <3> QED BY <1>0, <1>s, <3>1, <3>2
  <2>2. CASE ~((prog.user \/ mm) /\ readable /\ Cardinality(hash) < HashSize)
    <3>1. UNCHANGED <<uc, pc>>
      BY <1>1, <2>2 DEF get_unwind_ctx
    <3> QED BY <1>0, <1>s, <3>1
  <2> QED BY <2>1, <2>2
<1>2. ASSUME NEW c \in Cpu, fill(c) PROVE WindowInv'
  <2> DEFINE from == IF ~prog.tracepoint /\ ~prog.user THEN uc[c].sp - RedZone ELSE uc[c].sp
  <2>1. uc[c].sp \in UserSp /\ from \in Nat /\ StackPointer(uc[c].sp) = from
    BY <1>0, <1>2 DEF fill, StackPointer
  <2>2. CASE pc' = [pc EXCEPT ![c] = "idle"] /\ uc' = [uc EXCEPT ![c] = Empty]
    BY <1>0, <1>s, <2>2
  <2>3. CASE ~(pc' = [pc EXCEPT ![c] = "idle"] /\ uc' = [uc EXCEPT ![c] = Empty])
    <3>1. PICK rem \in bpf_probe_read_stack(from) :
             /\ uc' = [uc EXCEPT ![c].sp = StackPointer(@), ![c].base = from, ![c].size = Size(rem)]
             /\ pc' = [pc EXCEPT ![c] = "submit"]
      BY <1>2, <2>3 DEF fill
    <3> HIDE DEF from
    <3>2. rem \in 0 .. STACK_SIZE /\ from + (STACK_SIZE - rem) <= StackTop
      BY DEF bpf_probe_read_stack
    <3>3. Size(rem) = STACK_SIZE - rem
      BY <3>2 DEF Size
    <3>4. /\ uc'[c].sp = StackPointer(uc[c].sp) /\ uc'[c].base = from /\ uc'[c].size = Size(rem)
          /\ \A d \in Cpu \ {c} : uc'[d] = uc[d] /\ pc'[d] = pc[d]
          /\ pc'[c] = "submit"
      BY <1>0, <3>1 DEF Context
    <3> QED BY <1>s, <2>1, <3>2, <3>3, <3>4
  <2> QED BY <2>2, <2>3
<1>3. ASSUME NEW c \in Cpu, perf_submit(c) \/ cache_delete(c) PROVE WindowInv'
  <2>1. /\ pc' \in {[pc EXCEPT ![c] = "delete"], [pc EXCEPT ![c] = "idle"]}
        /\ uc' = uc \/ uc' = [uc EXCEPT ![c] = Empty]
    BY <1>3 DEF perf_submit, cache_delete
  <2> QED BY <1>0, <1>s, <2>1
<1>5. ASSUME \/ \E c \in Cpu : unwind_ctx_handler(c)
             \/ consume \/ (\E w \in Worker : pop(w) \/ resolved(w)) \/ UNCHANGED vars
      PROVE  WindowInv'
  <2>1. UNCHANGED <<uc, pc>>
    BY <1>5 DEF unwind_ctx_handler, consume, pop, resolved, vars, bpfVars
  <2> QED BY <1>0, <2>1 DEF WindowInv, WindowIsTheStack
<1>6. \A c \in Cpu : Probe(c) => WindowInv'
  BY <1>1 DEF Probe
<1> QED BY <1>2, <1>3, <1>5, <1>6 DEF Next

\* The ring keeps the last RingSlots contexts; the consumer only moves on over
\* a record that is there.
LEMMA RingNext == CaptureInv /\ [Next]_vars => RingInv'
<1> SUFFICES ASSUME CaptureInv, [Next]_vars PROVE RingInv'
  OBVIOUS
<1> USE CaptureAssumption
<1> DEFINE Kept(c) == \A n \in Nat : n < Len(sent[c]) /\ Len(sent[c]) <= n + RingSlots =>
                                    ring[c][SlotAt(n)] = sent[c][n + 1]
           Bounds(c) == tail[c] <= Len(sent[c]) /\ Len(sent[c]) <= tail[c] + RingSlots
<1>0. /\ \A c \in Cpu : Bounds(c) /\ Kept(c)
      /\ ppc # NULL => tail[ppc] < Len(sent[ppc])
      /\ \A p \in Held : p.pos < Len(sent[p.cpu])
      /\ \A c \in Cpu : Len(sent[c]) \in Nat
      /\ ring \in [Cpu -> [Slot -> Record]] /\ sent \in [Cpu -> Seq(Record)]
      /\ tail \in [Cpu -> Nat] /\ ppc \in Cpu \cup {NULL} /\ queue \in Seq(Pointer)
      /\ got \in [Worker -> Pointer \cup {NULL}]
      /\ Held \subseteq Pointer
  BY DEF CaptureInv, RingInv, TypeOK, Held
<1>u. ASSUME UNCHANGED <<ring, sent, tail, ppc>>, Held' \subseteq Held PROVE RingInv'
  BY <1>0, <1>u DEF RingInv
<1>3. ASSUME NEW c \in Cpu, perf_submit(c) PROVE RingInv'
  <2> DEFINE x == [key |-> key(c), tgid |-> uc[c].tgid]
             m == Len(sent[c])
  <2>0. UNCHANGED <<tail, ppc, queue, got>> /\ Held' = Held
    BY <1>3 DEF perf_submit, userVars, Held
  <2>1. CASE Room(c)
    <3>1. ring' = [ring EXCEPT ![c][SlotAt(m)] = x] /\ sent' = [sent EXCEPT ![c] = Append(@, x)]
      BY <1>3, <2>1 DEF perf_submit
    <3>2. x \in Record
      BY DEF CaptureInv, TypeOK, key, Context, Record
    <3> HIDE DEF x
    <3>3. /\ Len(sent'[c]) = m + 1 /\ m \in Nat /\ sent'[c][m + 1] = x
          /\ \A k \in 1 .. m : sent'[c][k] = sent[c][k]
          /\ \A d \in Cpu \ {c} : sent'[d] = sent[d] /\ ring'[d] = ring[d]
      BY <1>0, <3>1, <3>2
    <3>4. Bounds(c)'
      BY <1>0, <2>0, <2>1, <3>3 DEF Room
    <3>5. Kept(c)'
      <4> SUFFICES ASSUME NEW n \in Nat, n < m + 1, m + 1 <= n + RingSlots
                   PROVE  ring'[c][SlotAt(n)] = sent'[c][n + 1]
        BY <3>3
      <4>1. CASE n = m
        BY <1>0, <3>1, <3>3, <4>1, SlotType
      <4>2. CASE n < m
        <5>1. SlotAt(n) # SlotAt(m)
          BY <3>3, <4>2, SlotsDiffer
        <5>2. ring'[c][SlotAt(n)] = ring[c][SlotAt(n)]
          BY <1>0, <3>1, <5>1, SlotType
        <5>3. ring[c][SlotAt(n)] = sent[c][n + 1]
          BY <1>0, <3>3, <4>2
        <5>4. n + 1 \in 1 .. m
          BY <3>3, <4>2
        <5> QED BY <3>3, <5>2, <5>3, <5>4
      <4> QED BY <3>3, <4>1, <4>2
    <3>6. ASSUME NEW d \in Cpu PROVE Bounds(d)' /\ Kept(d)'
      <4>1. CASE d = c
        BY <3>4, <3>5, <4>1
      <4>2. CASE d # c
        <5>1. sent'[d] = sent[d] /\ ring'[d] = ring[d] /\ Bounds(d) /\ Kept(d)
          BY <1>0, <3>3, <4>2
        <5> QED BY <2>0, <5>1
      <4> QED BY <4>1, <4>2
    <3>7. ASSUME NEW d \in Cpu PROVE Len(sent'[d]) >= Len(sent[d]) /\ Len(sent'[d]) \in Nat
      <4>1. CASE d = c
        BY <3>3, <4>1
      <4>2. CASE d # c
        BY <1>0, <3>3, <4>2
      <4> QED BY <4>1, <4>2
    <3>8. (ppc # NULL => tail[ppc] < Len(sent[ppc]))'
      BY <1>0, <2>0, <3>7
    <3>9. \A p \in Held : p.pos < Len(sent'[p.cpu])
      BY <1>0, <3>7 DEF Pointer
    <3> QED BY <2>0, <3>6, <3>8, <3>9 DEF RingInv
  <2>2. CASE ~Room(c)
    BY <1>3, <2>0, <2>2, <1>u DEF perf_submit
  <2> QED BY <2>1, <2>2
<1>5. ASSUME NEW c \in Cpu, unwind_ctx_handler(c) PROVE RingInv'
  <2> DEFINE p == [cpu |-> c, pos |-> tail[c]]
  <2>1. /\ UNCHANGED <<ring, sent, tail, got>> /\ ppc' = c /\ tail[c] < Len(sent[c])
        /\ queue' = Append(queue, p) \/ queue' = queue
    BY <1>5 DEF unwind_ctx_handler, Queue!Push
  <2>2. p \in Pointer /\ p.cpu = c /\ p.pos = tail[c]
    BY <1>0 DEF Pointer
  <2> HIDE DEF p
  <2>3. Held' \subseteq Held \cup {p}
    <3>1. \A k \in 1 .. Len(queue') : queue'[k] = p \/ (k \in 1 .. Len(queue) /\ queue'[k] = queue[k])
      BY <1>0, <2>1, <2>2
    <3> QED BY <2>1, <3>1 DEF Held
  <2>4. \A q \in Held' : q.pos < Len(sent'[q.cpu])
    BY <1>0, <2>1, <2>2, <2>3
  <2> QED BY <1>0, <2>1, <2>4 DEF RingInv
<1>6. CASE consume
  <2>1. /\ UNCHANGED <<ring, sent, queue, got>> /\ ppc' = NULL /\ ppc \in Cpu
        /\ tail' = [tail EXCEPT ![ppc] = @ + 1] /\ tail[ppc] < Len(sent[ppc])
    BY <1>0, <1>6 DEF consume
  <2>2. Held' = Held
    BY <2>1 DEF Held
  <2>3. \A c \in Cpu : Bounds(c)' /\ Kept(c)'
    BY <1>0, <2>1
  <2> QED BY <1>0, <2>1, <2>2, <2>3 DEF RingInv
<1>7. ASSUME NEW w \in Worker, pop(w) PROVE RingInv'
  <2>1. /\ UNCHANGED <<ring, sent, tail, ppc>> /\ queue # <<>> /\ queue' = Tail(queue)
        /\ got' = [got EXCEPT ![w] = Head(queue)]
    BY <1>7 DEF pop, Queue!Take
  <2>2. Held' \subseteq Held
    <3>1. /\ \A k \in 1 .. Len(queue') : k + 1 \in 1 .. Len(queue) /\ queue'[k] = queue[k + 1]
          /\ Head(queue) = queue[1] /\ 1 \in 1 .. Len(queue)
      BY <1>0, <2>1
    <3>2. \A v \in Worker : got'[v] = got[v] \/ got'[v] = queue[1]
      BY <1>0, <2>1, <3>1
    <3> QED BY <3>1, <3>2 DEF Held
  <2> QED BY <1>u, <2>1, <2>2
<1>8. ASSUME NEW w \in Worker, resolved(w) PROVE RingInv'
  <2>1. UNCHANGED <<ring, sent, tail, ppc, queue>> /\ got' = [got EXCEPT ![w] = NULL]
    BY <1>8 DEF resolved
  <2>2. Held' \subseteq Held
    BY <1>0, <2>1 DEF Held
  <2> QED BY <1>u, <2>1, <2>2
<1>9. ASSUME (\E c \in Cpu : Probe(c) \/ fill(c) \/ cache_delete(c)) \/ UNCHANGED vars
      PROVE  RingInv'
  <2>1. UNCHANGED <<ring, sent, tail, ppc, queue, got>>
    BY <1>9 DEF Probe, get_unwind_ctx, fill, cache_delete, userVars, vars
  <2> QED BY <1>u, <2>1 DEF Held
<1> QED BY <1>3, <1>5, <1>6, <1>7, <1>8, <1>9 DEF Next

\* Every reachable state satisfies the invariant.
THEOREM CaptureInvariant == Spec => []CaptureInv
<1>1. CaptureInv /\ [Next]_vars => CaptureInv'
  BY TypeNext, HashNext, WindowNext, RingNext DEF CaptureInv
<1> QED BY <1>1, CaptureInit, PTL DEF Spec

\* A capture that ends normally leaves nothing in the hash, one that returns
\* early after lookup_or_init leaves its entry for good.
THEOREM HashAccounting == Spec => []EntriesAreAccountedFor
BY CaptureInvariant, PTL DEF CaptureInv, HashInv

\* The stack bytes of a submitted context are those its registers point to.
THEOREM CapturedWindow == Spec => []WindowIsTheStack
BY CaptureInvariant, PTL DEF CaptureInv, WindowInv

\* A pointer into the ring is good until the ring has gone round once.
THEOREM PointerLifetime == Spec => []StaleOnlyAfterOverrun
<1>1. CaptureInv => StaleOnlyAfterOverrun
  <2> SUFFICES ASSUME CaptureInv, NEW p \in Held
               PROVE  /\ p.pos < Len(sent[p.cpu])
                      /\ Len(sent[p.cpu]) <= p.pos + RingSlots =>
                           ring[p.cpu][SlotAt(p.pos)] = sent[p.cpu][p.pos + 1]
    BY DEF StaleOnlyAfterOverrun
  <2>1. p \in Pointer
    BY DEF CaptureInv, TypeOK, Held
  <2> QED BY <2>1 DEF CaptureInv, RingInv, Pointer
<1> QED BY <1>1, CaptureInvariant, PTL

\* When the entries left behind fill the hash, no cpu submits a context again.
THEOREM LeaksAreFatal == Spec => LeaksEndTracing
<1>1. CaptureInv /\ [Next]_vars => (Cardinality(failed) = HashSize => UNCHANGED sent)
  <2> SUFFICES ASSUME CaptureInv, [Next]_vars, Cardinality(failed) = HashSize
               PROVE  UNCHANGED sent
    OBVIOUS
  <2>1. /\ failed \subseteq hash /\ IsFiniteSet(hash) /\ Cardinality(hash) <= HashSize
        /\ InProgress \subseteq hash /\ InProgress \cap failed = {}
    BY DEF CaptureInv, HashInv, EntriesAreAccountedFor
  <2>2. /\ Cardinality(failed) \in Nat /\ Cardinality(hash) \in Nat
        /\ Cardinality(failed) <= Cardinality(hash)
    BY <2>1, FS_Subset, FS_CardinalityType
  <2>3. Cardinality(failed) = Cardinality(hash)
    BY <2>1, <2>2
  <2>4. failed = hash
    BY <2>1, <2>3, FS_Subset
  <2>5. \A c \in Cpu : pc[c] = "idle"
    BY <2>1, <2>4 DEF InProgress
  <2>6. \A c \in Cpu : ~perf_submit(c)
    BY <2>5 DEF perf_submit
  <2> QED BY <2>6 DEF Next, Probe, get_unwind_ctx, fill, cache_delete, unwind_ctx_handler,
                      consume, pop, resolved, vars
<1> QED BY <1>1, CaptureInvariant, PTL DEF Spec, LeaksEndTracing
=============================================================================
