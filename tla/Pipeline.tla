------------------------------ MODULE Pipeline ------------------------------
(***************************************************************************)
(* The tracing program (examples/syscall_parallel.cc, and syscall.cc with  *)
(* one worker): a poll thread moves contexts from the perf buffer to a     *)
(* Queue (queue.h), worker threads take them from it and resolve them, and *)
(* SIGINT sets the stop flags of the threads (stoppable.h).                *)
(*                                                                         *)
(* A context is its number; the perf buffer, the mutex, the condition      *)
(* variable and the delivery of signals are external.                      *)
(***************************************************************************)
EXTENDS Integers, Sequences, FiniteSets

CONSTANTS
  Worker,      \* the threads running ResolveCallchainTask
  MaxEvents,   \* bound on contexts captured
  MaxSignals,  \* bound on SIGINTs
  NULL

Poller == "poller"
Event == 1 .. MaxEvents

ASSUME PipelineAssumption ==
  /\ IsFiniteSet(Worker) /\ Poller \notin Worker
  /\ NULL \notin Worker /\ NULL \notin Event /\ NULL # Poller
  /\ MaxEvents \in Nat

VARIABLES
  captured,  \* contexts submitted to the perf buffer so far
  polled,    \* contexts the poll thread has taken from it
  ppc,       \* poll thread: check, poll, lock, unlock, notify, done
  queue,     \* queue_
  mutex,     \* owner of mutex_
  waiting,   \* workers blocked in cond_.wait
  pc,        \* worker: register, push_back, check, lock, test, wait, resolve, done
  got,       \* context each worker has popped
  taken,     \* history: the pops, in order
  resolved,  \* contexts resolved
  rcts,      \* workers in the vector the signal handler walks
  seen,      \* the vector as read by a push_back in progress
  stop,      \* threads whose exitSignal is set
  signals,   \* SIGINTs handled
  alive      \* no worker has called exit(1)

vars == <<captured, polled, ppc, queue, mutex, waiting, pc, got, taken, resolved,
          rcts, seen, stop, signals, alive>>
pollVars == <<captured, polled, ppc>>
workVars == <<pc, got, resolved, rcts, seen>>
sigVars  == <<stop, signals, alive>>

Init ==
  /\ captured = 0 /\ polled = 0 /\ ppc = "check" /\ queue = <<>> /\ mutex = NULL
  /\ waiting = {} /\ pc = [w \in Worker |-> "register"] /\ got = [w \in Worker |-> NULL]
  /\ taken = <<>> /\ resolved = {} /\ rcts = {} /\ seen = [w \in Worker |-> {}] /\ stop = {} /\ signals = 0
  /\ alive = TRUE

(***************************************************************************)
(* The environment: a probe fires, Ctrl-C is pressed.                      *)
(***************************************************************************)
Capture ==
  /\ captured < MaxEvents /\ captured' = captured + 1
  /\ UNCHANGED <<polled, ppc, queue, mutex, waiting, taken, workVars, sigVars>>

\* The first signal sets the flags of the poll thread and of the workers that
\* are registered. A second one would set a promise twice, which ends the
\* process with an exception. It may interrupt a poll that is waiting.
signal_handler ==
  /\ alive
  /\ signals < MaxSignals /\ signals' = signals + 1
  /\ IF signals = 0 THEN stop' = {Poller} \cup rcts /\ UNCHANGED alive
     ELSE alive' = FALSE /\ UNCHANGED stop
  /\ \/ UNCHANGED ppc
     \/ ppc = "poll" /\ ppc' = "check"
  /\ UNCHANGED <<captured, polled, queue, mutex, waiting, taken, workVars>>

(***************************************************************************)
(* EventPollTask::run and unwind_ctx_handler.                              *)
(***************************************************************************)
PollerCheck ==
  /\ ppc = "check" /\ ppc' = IF Poller \in stop THEN "done" ELSE "poll"
  /\ UNCHANGED <<captured, polled, queue, mutex, waiting, taken, workVars, sigVars>>

\* poll_perf_buffer waits for data, then calls the handler for each context;
\* a context of another process is dropped, and the next of the batch handled.
poll_perf_buffer(ours) ==
  /\ ppc = "poll" /\ polled < captured
  /\ polled' = polled + 1
  /\ IF ours THEN ppc' = "lock"
     ELSE ppc' \in {"check"} \cup (IF polled' < captured THEN {"poll"} ELSE {})
  /\ UNCHANGED <<captured, queue, mutex, waiting, taken, workVars, sigVars>>

\* Mutant: the queue is changed without waiting for the mutex.
Mutant_push_unlocked ==
  /\ ppc = "lock"
  /\ queue' = Append(queue, polled) /\ ppc' = "unlock" /\ mutex' = Poller
  /\ UNCHANGED <<captured, polled, waiting, taken, workVars, sigVars>>

\* Mutant: the newest context is put first.
Mutant_push_front ==
  /\ ppc = "lock" /\ mutex = NULL
  /\ queue' = <<polled>> \o queue /\ ppc' = "unlock" /\ mutex' = Poller
  /\ UNCHANGED <<captured, polled, waiting, taken, workVars, sigVars>>

push ==
  /\ ppc = "lock" /\ mutex = NULL
  /\ queue' = Append(queue, polled) /\ ppc' = "unlock" /\ mutex' = Poller
  /\ UNCHANGED <<captured, polled, waiting, taken, workVars, sigVars>>

push_unlock ==
  /\ ppc = "unlock" /\ mutex' = NULL /\ ppc' = "notify"
  /\ UNCHANGED <<captured, polled, queue, waiting, taken, workVars, sigVars>>

\* Mutant: notifies only when the queue was empty.
Mutant_notify_first ==
  /\ ppc = "notify" /\ ppc' = "check"
  /\ IF waiting = {} \/ Len(queue) > 1 THEN UNCHANGED <<waiting, pc>>
     ELSE \E w \in waiting : /\ waiting' = waiting \ {w}
                             /\ pc' = [pc EXCEPT ![w] = "lock"]
  /\ UNCHANGED <<captured, polled, queue, mutex, taken, got, resolved, rcts, seen, sigVars>>

\* One waiting worker, if there is one, is woken. More contexts may be there.
notify_one ==
  /\ ppc = "notify" /\ ppc' \in {"check"} \cup (IF polled < captured THEN {"poll"} ELSE {})
  /\ IF waiting = {} THEN UNCHANGED <<waiting, pc>>
     ELSE \E w \in waiting : /\ waiting' = waiting \ {w}
                             /\ pc' = [pc EXCEPT ![w] = "lock"]
  /\ UNCHANGED <<captured, polled, queue, mutex, taken, got, resolved, rcts, seen, sigVars>>

(***************************************************************************)
(* ResolveCallchainTask::run and Queue::pop.                               *)
(***************************************************************************)
\* rcts.push_back(&rct) without a lock, as a read of the vector and a write:
\* of two that overlap, one may be lost.
RegisterRead(w) ==
  /\ pc[w] = "register" /\ pc' = [pc EXCEPT ![w] = "push_back"]
  /\ seen' = [seen EXCEPT ![w] = rcts]
  /\ UNCHANGED <<pollVars, queue, mutex, waiting, taken, got, resolved, rcts, sigVars>>

RegisterWrite(w) ==
  /\ pc[w] = "push_back" /\ pc' = [pc EXCEPT ![w] = "check"]
  /\ rcts' = seen[w] \cup {w} /\ seen' = [seen EXCEPT ![w] = {}]
  /\ UNCHANGED <<pollVars, queue, mutex, waiting, taken, got, resolved, sigVars>>

WorkerCheck(w) ==
  /\ pc[w] = "check"
  /\ pc' = [pc EXCEPT ![w] = IF w \in stop THEN "done" ELSE "lock"]
  /\ UNCHANGED <<pollVars, queue, mutex, waiting, taken, got, resolved, rcts, seen, sigVars>>

\* The lock is taken, at the start of pop or when wait returns.
pop_lock(w) ==
  /\ pc[w] = "lock" /\ mutex = NULL
  /\ mutex' = w /\ pc' = [pc EXCEPT ![w] = "test"]
  /\ UNCHANGED <<pollVars, queue, waiting, taken, got, resolved, rcts, seen, sigVars>>

\* while (queue_.empty()) cond_.wait(mlock)
cond_wait(w) ==
  /\ pc[w] = "test" /\ queue = <<>>
  /\ mutex' = NULL /\ waiting' = waiting \cup {w} /\ pc' = [pc EXCEPT ![w] = "wait"]
  /\ UNCHANGED <<pollVars, queue, taken, got, resolved, rcts, seen, sigVars>>

SpuriousWakeup(w) ==
  /\ w \in waiting
  /\ waiting' = waiting \ {w} /\ pc' = [pc EXCEPT ![w] = "lock"]
  /\ UNCHANGED <<pollVars, queue, mutex, taken, got, resolved, rcts, seen, sigVars>>

\* Mutant: the context stays in the queue.
Mutant_pop(w) ==
  /\ pc[w] = "test" /\ queue # <<>>
  /\ got' = [got EXCEPT ![w] = Head(queue)]
  /\ taken' = Append(taken, <<Head(queue), w>>)
  /\ mutex' = NULL /\ pc' = [pc EXCEPT ![w] = "resolve"]
  /\ UNCHANGED <<queue, pollVars, waiting, resolved, rcts, seen, sigVars>>

pop(w) ==
  /\ pc[w] = "test" /\ queue # <<>>
  /\ got' = [got EXCEPT ![w] = Head(queue)] /\ queue' = Tail(queue)
  /\ taken' = Append(taken, <<Head(queue), w>>)
  /\ mutex' = NULL /\ pc' = [pc EXCEPT ![w] = "resolve"]
  /\ UNCHANGED <<pollVars, waiting, resolved, rcts, seen, sigVars>>

\* Mutant: a context that cannot be resolved is skipped.
Mutant_resolve(w, ok) ==
  /\ pc[w] = "resolve"
  /\ IF ok THEN resolved' = resolved \cup {got[w]} ELSE UNCHANGED resolved
  /\ pc' = [pc EXCEPT ![w] = "check"] /\ got' = [got EXCEPT ![w] = NULL]
  /\ UNCHANGED <<pollVars, queue, mutex, waiting, taken, rcts, seen, sigVars>>

\* bpf_unwind_ctx__resolve_callchain on the worker's own machine.
resolve(w, ok) ==
  /\ pc[w] = "resolve"
  /\ IF ok THEN resolved' = resolved \cup {got[w]} /\ UNCHANGED alive
     ELSE alive' = FALSE /\ UNCHANGED resolved
  /\ pc' = [pc EXCEPT ![w] = "check"] /\ got' = [got EXCEPT ![w] = NULL]
  /\ UNCHANGED <<pollVars, queue, mutex, waiting, taken, rcts, seen, stop, signals>>

PollStep == alive /\ (\/ PollerCheck \/ (\E ours \in BOOLEAN : poll_perf_buffer(ours))
                      \/ push \/ push_unlock \/ notify_one)

WorkStep(w) == alive /\ (\/ RegisterRead(w) \/ RegisterWrite(w) \/ WorkerCheck(w) \/ pop_lock(w) \/ cond_wait(w)
                         \/ pop(w) \/ \E ok \in BOOLEAN : resolve(w, ok))

Next ==
  \/ Capture \/ signal_handler \/ PollStep
  \/ \E w \in Worker : WorkStep(w) \/ (alive /\ SpuriousWakeup(w))

Spec == Init /\ [][Next]_vars

\* The operating system runs every thread that can run; probes, signals and
\* spurious wakeups need not happen.
FairSpec == Spec /\ WF_vars(PollStep) /\ \A w \in Worker : WF_vars(WorkStep(w))
-----------------------------------------------------------------------------
\* Locations and owners are in their ranges; the mutex is held exactly by a
\* thread between its lock and its unlock, the condition variable's waiting
\* set is exactly the workers blocked in it.
TypeOK ==
  /\ polled \in 0 .. captured /\ captured \in 0 .. MaxEvents
  /\ ppc \in {"check", "poll", "lock", "unlock", "notify", "done"}
  /\ pc \in [Worker -> {"register", "push_back", "check", "lock", "test", "wait",
                        "resolve", "done"}]
  /\ queue \in Seq(Event) /\ got \in [Worker -> Event \cup {NULL}]
  /\ resolved \subseteq Event /\ seen \in [Worker -> SUBSET Worker]
  /\ rcts \subseteq Worker /\ stop \subseteq Worker \cup {Poller}
  /\ mutex \in Worker \cup {Poller, NULL}
  /\ (mutex = Poller) = (ppc = "unlock")
  /\ \A w \in Worker : (mutex = w) = (pc[w] = "test")
  /\ waiting = {w \in Worker : pc[w] = "wait"}

\* As long as nobody asks the threads to stop, a worker sleeps in pop only if
\* every queued context has a worker on its way to it, or the notification for
\* it is still to come: notifying one waiter after releasing the mutex loses
\* no wakeup, whatever spurious wakeups happen and whoever takes the lock.
NoIdleWorker ==
  stop = {} /\ alive /\ waiting # {} =>
    Len(queue) <= Cardinality({w \in Worker : pc[w] \in {"lock", "test"}})
                  + (IF ppc \in {"unlock", "notify"} THEN 1 ELSE 0)

\* Every context is in one place: still in the buffer, dropped, in the poll
\* thread's hands, queued, popped by one worker, or resolved; none is resolved
\* twice and none is both queued and popped.
ContextsInOnePlace ==
  /\ \A k, l \in 1 .. Len(queue) : queue[k] = queue[l] => k = l
  /\ \A v, w \in Worker : got[v] = got[w] /\ got[v] # NULL => v = w
  /\ \A k \in 1 .. Len(queue) :
       /\ queue[k] \in (1 .. polled) \ resolved
       /\ \A w \in Worker : got[w] # queue[k]
  /\ \A w \in Worker : got[w] # NULL => got[w] \in (1 .. polled) \ resolved
  /\ resolved \subseteq 1 .. polled

\* The mutex and the condition variable implement the queue's promise: workers
\* take contexts one at a time in the order they were pushed.
Q == INSTANCE EventQueue WITH contents <- queue
ImplementsEventQueue == Q!Spec

\* A queued context is resolved in the end, unless the program is asked to stop
\* or a failed resolution ends it.
QueuedIsResolved ==
  \A e \in Event : (\E k \in 1 .. Len(queue) : queue[k] = e)
                     ~> (e \in resolved \/ stop # {} \/ ~alive)

\* "Started tracing, hit Ctrl-C to terminate.": once SIGINT has set the flag of
\* every thread, all of them end, so that main's joins return.
CtrlCTerminates ==
  Worker \cup {Poller} \subseteq stop
    ~> (~alive \/ (ppc = "done" /\ \A w \in Worker : pc[w] = "done"))
=============================================================================
