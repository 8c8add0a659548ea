------------------------------ MODULE Capture ------------------------------
(***************************************************************************)
(* From the probe to the worker: get_unwind_ctx runs on every cpu at once  *)
(* (bpf/ebpf_get_unwind_ctx.c, and a copy of it in each example), builds   *)
(* a context in an entry of the shared hash `cache' and submits it to the  *)
(* perf ring of its cpu; the poll thread's handler queues a pointer INTO   *)
(* the ring, which the worker follows after the ring has moved on.         *)
(*                                                                         *)
(* The queue is the abstract one, EventQueue, which Pipeline implements.   *)
(* BPF maps, the perf ring and bcc's poll loop are external. A context in  *)
(* the ring is its key and the process it is of; a record of the ring is   *)
(* one slot (one that wraps around the end is copied by bcc to a buffer    *)
(* that the next such record reuses: a ring of one slot).                  *)
(***************************************************************************)
EXTENDS Integers, Sequences, FiniteSets

CONSTANTS
  Cpu,          \* cpus, each with a perf ring
  Worker,       \* threads running ResolveCallchainTask
  HashSize,     \* capacity of the BPF hash
  RingSlots,    \* contexts a perf ring holds
  STACK_SIZE,   \* bytes copied at most
  RedZone,      \* 16 in the source: what a kprobe adds below the stack pointer
  UserSp,       \* stack pointers of the traced threads
  StackTop,     \* end of the stack's mapping
  MaxProbes,    \* bound: probes that fire
  NULL

ASSUME CaptureAssumption ==
  /\ IsFiniteSet(Cpu) /\ NULL \notin Cpu
  /\ HashSize \in Nat /\ RingSlots \in Nat \ {0} /\ STACK_SIZE \in Nat /\ RedZone \in Nat
  /\ StackTop \in Nat /\ UserSp \subseteq RedZone .. StackTop
  /\ MaxProbes \in Nat

VARIABLES
  prog,     \* the example that runs
  pc,       \* per cpu: idle, fill, submit, delete
  clock,    \* bpf_ktime_get_ns: probes that fired
  hash,     \* keys in `cache'
  failed,   \* history: keys whose capture returned after lookup_or_init
  uc,       \* per cpu: the context being built in the hash entry
  ring,     \* per cpu: the slots of the perf ring
  sent,     \* per cpu: history of the contexts put in the ring; Len is data_head
  tail,     \* per cpu: data_tail
  ppc,      \* the cpu whose record the poll thread's callback is handling
  queue,    \* pointers pushed and not popped: cpu and position in the ring
  taken,    \* EventQueue's history of the pops
  got       \* the pointer each worker is following

vars == <<prog, pc, clock, hash, failed, uc, ring, sent, tail, ppc, queue, taken, got>>
bpfVars == <<pc, clock, hash, failed, uc>>
userVars == <<tail, ppc, queue, taken, got>>

Slot == 0 .. RingSlots - 1
Pointer == [cpu : Cpu, pos : Nat]
Queue == INSTANCE EventQueue WITH contents <- queue, Event <- Pointer

\* user: the probe interrupts user mode; tracepoint: no registers are passed;
\* filter: the handler drops the contexts of other processes.
syscall_example == [user |-> FALSE, tracepoint |-> FALSE, filter |-> TRUE]
uprobe_example == [user |-> TRUE, tracepoint |-> FALSE, filter |-> FALSE]
pwrite64_example == [user |-> FALSE, tracepoint |-> TRUE, filter |-> TRUE]

\* sp: uregs.sp; base: where the bytes in data come from; tgid: the process
\* that is traced or another.
Tgid == {"traced", "other"}
Empty == [ts |-> 0, sp |-> 0, base |-> 0, size |-> 0, tgid |-> "other"]
Blank == [key |-> NULL, tgid |-> "other"]

Init ==
  /\ prog \in {syscall_example, uprobe_example, pwrite64_example}
  /\ pc = [c \in Cpu |-> "idle"] /\ clock = 0
  /\ hash = {} /\ failed = {} /\ uc = [c \in Cpu |-> Empty]
  /\ ring = [c \in Cpu |-> [s \in Slot |-> Blank]] /\ sent = [c \in Cpu |-> <<>>]
  /\ tail = [c \in Cpu |-> 0] /\ ppc = NULL
  /\ Queue!Init /\ got = [w \in Worker |-> NULL]
-----------------------------------------------------------------------------
(***************************************************************************)
(* get_unwind_ctx.  A cpu runs one at a time.                              *)
(***************************************************************************)
\* struct key_: a time and the task, which is on one cpu.
key(c) == <<uc[c].ts, c>>

\* Mutant: a full hash makes room for the new entry.
Mutant_get_unwind_ctx(c, mm, readable, sp, tgid) ==
  /\ pc[c] = "idle" /\ clock < MaxProbes
  /\ clock' = clock + 1
  /\ IF (prog.user \/ mm) /\ readable
     THEN /\ uc' = [uc EXCEPT ![c] = [ts |-> clock', sp |-> sp, base |-> 0, size |-> 0,
                                       tgid |-> tgid]]
          /\ hash' = hash \cup {key(c)'}
          /\ pc' = [pc EXCEPT ![c] = "fill"]
     ELSE UNCHANGED <<hash, uc, pc>>
  /\ UNCHANGED <<prog, failed, ring, sent, userVars>>

\* Up to lookup_or_init: without user registers (mm: the task has an address
\* space), when the stack pointer cannot be read or when the hash is full the
\* program returns and leaves nothing behind.
get_unwind_ctx(c, mm, readable, sp, tgid) ==
  /\ pc[c] = "idle" /\ clock < MaxProbes
  /\ clock' = clock + 1
  /\ IF (prog.user \/ mm) /\ readable /\ Cardinality(hash) < HashSize
     THEN /\ uc' = [uc EXCEPT ![c] = [ts |-> clock', sp |-> sp, base |-> 0, size |-> 0,
                                       tgid |-> tgid]]
          /\ hash' = hash \cup {key(c)'}
          /\ pc' = [pc EXCEPT ![c] = "fill"]
     ELSE UNCHANGED <<hash, uc, pc>>
  /\ UNCHANGED <<prog, failed, ring, sent, userVars>>

\* Mutant: only the copy of the stack moves below the user's stack pointer.
Mutant_StackPointer(sp) == sp

\* uregs.sp after the registers were copied: a kprobe runs below the user's
\* stack pointer and moves it.
StackPointer(sp) == IF ~prog.tracepoint /\ ~prog.user THEN sp - RedZone ELSE sp

Size(rem) == IF rem = 0 THEN STACK_SIZE ELSE STACK_SIZE - rem

\* bpf_probe_read_stack returns how many bytes it did not copy: all beyond the
\* end of the mapping, more if a page is not resident. It is never negative.
bpf_probe_read_stack(from) == {rem \in 0 .. STACK_SIZE : from + (STACK_SIZE - rem) <= StackTop}

\* The registers and the stack are copied; when bpf_probe_read fails on the
\* registers the program returns and the entry stays in the hash.
fill(c) ==
  /\ pc[c] = "fill"
  /\ LET from == IF ~prog.tracepoint /\ ~prog.user THEN uc[c].sp - RedZone ELSE uc[c].sp
     IN  \/ \E rem \in bpf_probe_read_stack(from) :
              /\ uc' = [uc EXCEPT ![c].sp = StackPointer(@), ![c].base = from,
                                  ![c].size = Size(rem)]
              /\ pc' = [pc EXCEPT ![c] = "submit"] /\ UNCHANGED failed
         \/ /\ failed' = failed \cup {key(c)}
            /\ pc' = [pc EXCEPT ![c] = "idle"] /\ uc' = [uc EXCEPT ![c] = Empty]
  /\ UNCHANGED <<prog, clock, hash, ring, sent, userVars>>

\* The kernel never overwrites a record that was not consumed.
Room(c) == Len(sent[c]) - tail[c] < RingSlots

SlotAt(n) == n % RingSlots

\* perf_submit copies the context into the ring or, when there is no room,
\* fails; the program does not look at the result.
perf_submit(c) ==
  /\ pc[c] = "submit" /\ pc' = [pc EXCEPT ![c] = "delete"]
  /\ IF Room(c)
     THEN LET x == [key |-> key(c), tgid |-> uc[c].tgid]
          IN  /\ ring' = [ring EXCEPT ![c][SlotAt(Len(sent[c]))] = x]
              /\ sent' = [sent EXCEPT ![c] = Append(@, x)]
     ELSE UNCHANGED <<ring, sent>>
  /\ UNCHANGED <<prog, clock, hash, failed, uc, userVars>>

\* Mutant: the entry is left in the hash.
Mutant_cache_delete(c) ==
  /\ pc[c] = "delete" /\ pc' = [pc EXCEPT ![c] = "idle"]
  /\ uc' = [uc EXCEPT ![c] = Empty]
  /\ UNCHANGED <<prog, clock, hash, failed, ring, sent, userVars>>

cache_delete(c) ==
  /\ pc[c] = "delete" /\ pc' = [pc EXCEPT ![c] = "idle"]
  /\ hash' = hash \ {key(c)} /\ uc' = [uc EXCEPT ![c] = Empty]
  /\ UNCHANGED <<prog, clock, failed, ring, sent, userVars>>
-----------------------------------------------------------------------------
(***************************************************************************)
(* The poll thread: the callback for the oldest record of a cpu, then bcc  *)
(* advances data_tail.                                                     *)
(***************************************************************************)
\* Mutant: the pointer is one record too far.
Mutant_unwind_ctx_handler(c) ==
  /\ ppc = NULL /\ tail[c] < Len(sent[c]) /\ ppc' = c
  /\ IF prog.filter => ring[c][SlotAt(tail[c])].tgid = "traced"
     THEN Queue!Push([cpu |-> c, pos |-> tail[c] + 1])
     ELSE UNCHANGED <<queue, taken>>
  /\ UNCHANGED <<prog, bpfVars, ring, sent, tail, got>>

unwind_ctx_handler(c) ==
  /\ ppc = NULL /\ tail[c] < Len(sent[c]) /\ ppc' = c
  /\ IF prog.filter => ring[c][SlotAt(tail[c])].tgid = "traced"
     THEN Queue!Push([cpu |-> c, pos |-> tail[c]])
     ELSE UNCHANGED <<queue, taken>>
  /\ UNCHANGED <<prog, bpfVars, ring, sent, tail, got>>

consume ==
  /\ ppc # NULL /\ ppc' = NULL
  /\ tail' = [tail EXCEPT ![ppc] = @ + 1]
  /\ UNCHANGED <<prog, bpfVars, ring, sent, queue, taken, got>>

\* A worker pops a pointer and follows it until resolve_callchain is done.
pop(w) ==
  /\ got[w] = NULL /\ Queue!Take(w)
  /\ got' = [got EXCEPT ![w] = Head(queue)]
  /\ UNCHANGED <<prog, bpfVars, ring, sent, tail, ppc>>

resolved(w) ==
  /\ got[w] # NULL /\ got' = [got EXCEPT ![w] = NULL]
  /\ UNCHANGED <<prog, bpfVars, ring, sent, tail, ppc, queue, taken>>

Probe(c) == \E mm, readable \in BOOLEAN, sp \in UserSp, tgid \in Tgid :
              get_unwind_ctx(c, mm, readable, sp, tgid)

Next ==
  \/ \E c \in Cpu : Probe(c) \/ fill(c) \/ perf_submit(c) \/ cache_delete(c)
                    \/ unwind_ctx_handler(c)
  \/ consume
  \/ \E w \in Worker : pop(w) \/ resolved(w)

Spec == Init /\ [][Next]_vars
-----------------------------------------------------------------------------
InProgress == {key(c) : c \in {d \in Cpu : pc[d] # "idle"}}
Context == [ts : Nat, sp : Nat, base : Nat, size : 0 .. STACK_SIZE, tgid : Tgid]
Record == [key : (Nat \X Cpu) \cup {NULL}, tgid : Tgid]

\* Every variable has its type.
TypeOK ==
  /\ prog \in {syscall_example, uprobe_example, pwrite64_example}
  /\ pc \in [Cpu -> {"idle", "fill", "submit", "delete"}]
  /\ clock \in Nat
  /\ hash \subseteq Nat \X Cpu /\ failed \subseteq Nat \X Cpu
  /\ uc \in [Cpu -> Context] /\ ring \in [Cpu -> [Slot -> Record]]
  /\ sent \in [Cpu -> Seq(Record)] /\ tail \in [Cpu -> Nat] /\ ppc \in Cpu \cup {NULL}
  /\ queue \in Seq(Pointer) /\ got \in [Worker -> Pointer \cup {NULL}]

\* The hash holds exactly the contexts being built and one entry for every
\* capture that returned after lookup_or_init: a capture that was submitted, or
\* lost because the ring was full, leaves nothing behind, and nothing ever
\* removes what the error return left.
EntriesAreAccountedFor ==
  hash = InProgress \cup failed /\ InProgress \cap failed = {}

\* Once as many captures have failed as the hash has entries, no context is
\* ever submitted again, on any cpu.
LeaksEndTracing == [][Cardinality(failed) = HashSize => UNCHANGED sent]_vars

\* The stack bytes of a context that is submitted lie where its registers say:
\* they start at uregs.sp, which the unwinder takes for the address of data[0],
\* and end inside the stack, for each of the three kinds of probe.
WindowIsTheStack ==
  \A c \in Cpu : pc[c] = "submit" =>
    uc[c].base = uc[c].sp /\ uc[c].sp + uc[c].size <= StackTop

Held == {queue[k] : k \in 1 .. Len(queue)} \cup ({got[w] : w \in Worker} \ {NULL})

\* A queued or followed pointer leads to the context it was queued for until
\* the same cpu has put RingSlots more contexts in the ring; only the
\* length of the queue, which nothing bounds, can make a worker read another.
StaleOnlyAfterOverrun ==
  \A p \in Held :
    /\ p.pos < Len(sent[p.cpu])
    /\ Len(sent[p.cpu]) <= p.pos + RingSlots =>
         ring[p.cpu][SlotAt(p.pos)] = sent[p.cpu][p.pos + 1]
=============================================================================
