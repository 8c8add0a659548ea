--------------------------- MODULE PipelineProofs ---------------------------
(***************************************************************************)
(* Proofs about the tracing program, for any number of workers, contexts   *)
(* and signals.                                                            *)
(***************************************************************************)
EXTENDS Pipeline, FiniteSetTheorems, TLAPS

\* Who holds a context: the poll thread between the callback and the push, a
\* worker from the pop until it is resolved.
HandsInv ==
  /\ ppc = "lock" => /\ polled \in Event
                     /\ \A k \in 1 .. Len(queue) : queue[k] # polled
                     /\ \A w \in Worker : got[w] # polled
                     /\ polled \notin resolved
  /\ \A w \in Worker : pc[w] = "resolve" => got[w] # NULL

PlaceInv == TypeOK /\ HandsInv /\ ContextsInOnePlace

\* The program starts in the invariant.
LEMMA PlaceInit == Init => PlaceInv
<1> SUFFICES ASSUME Init PROVE PlaceInv
  OBVIOUS
<1> USE PipelineAssumption
<1>1. TypeOK
  BY DEF Init, TypeOK, Poller
<1>2. HandsInv /\ ContextsInOnePlace
  BY DEF Init, HandsInv, ContextsInOnePlace
<1> QED BY <1>1, <1>2 DEF PlaceInv

\* What the steps that neither push nor pop nor resolve leave alone.
LEMMA PlaceUnchanged ==
  ASSUME PlaceInv, UNCHANGED <<queue, got, resolved, polled>>, ppc' # "lock" \/ ppc' = ppc,
         \A w \in Worker : pc'[w] = "resolve" => pc[w] = "resolve"
  PROVE  HandsInv' /\ ContextsInOnePlace'
<1>1. ContextsInOnePlace'
  BY DEF PlaceInv, ContextsInOnePlace
<1>2. HandsInv'
  BY DEF PlaceInv, HandsInv
<1> QED BY <1>1, <1>2

\* Every step keeps the types, the owner of the mutex and the waiting set.
LEMMA TypeNext == PlaceInv /\ [Next]_vars => TypeOK'
<1> SUFFICES ASSUME PlaceInv, [Next]_vars PROVE TypeOK'
  OBVIOUS
<1> USE PipelineAssumption DEF PlaceInv, TypeOK
<1>1. CASE Capture
  BY <1>1 DEF Capture, workVars, sigVars
<1>2. CASE signal_handler
  BY <1>2 DEF signal_handler, workVars
<1>3. CASE PollerCheck
  BY <1>3 DEF PollerCheck, workVars, sigVars
<1>4. ASSUME NEW ours \in BOOLEAN, poll_perf_buffer(ours) PROVE TypeOK'
  BY <1>4 DEF poll_perf_buffer, workVars, sigVars
<1>5. CASE push
  BY <1>5 DEF push, workVars, sigVars, HandsInv
<1>6. CASE push_unlock
  BY <1>6 DEF push_unlock, workVars, sigVars
<1>7. CASE notify_one
  BY <1>7 DEF notify_one, sigVars
<1>8. ASSUME NEW w \in Worker, RegisterRead(w) PROVE TypeOK'
  BY <1>8 DEF RegisterRead, pollVars, sigVars
<1>9. ASSUME NEW w \in Worker, RegisterWrite(w) PROVE TypeOK'
  BY <1>9 DEF RegisterWrite, pollVars, sigVars
<1>10. ASSUME NEW w \in Worker, WorkerCheck(w) PROVE TypeOK'
  BY <1>10 DEF WorkerCheck, pollVars, sigVars
<1>11. ASSUME NEW w \in Worker, pop_lock(w) PROVE TypeOK'
  BY <1>11 DEF pop_lock, pollVars, sigVars
<1>12. ASSUME NEW w \in Worker, cond_wait(w) PROVE TypeOK'
  BY <1>12 DEF cond_wait, pollVars, sigVars
<1>13. ASSUME NEW w \in Worker, SpuriousWakeup(w) PROVE TypeOK'
  BY <1>13 DEF SpuriousWakeup, pollVars, sigVars
<1>14. ASSUME NEW w \in Worker, pop(w) PROVE TypeOK'
  BY <1>14 DEF pop, pollVars, sigVars
<1>15. ASSUME NEW w \in Worker, NEW ok \in BOOLEAN, resolve(w, ok) PROVE TypeOK'
  BY <1>15 DEF resolve, pollVars, HandsInv
<1>16. CASE UNCHANGED vars
  BY <1>16 DEF vars
<1> QED BY <1>1, <1>2, <1>3, <1>4, <1>5, <1>6, <1>7, <1>8, <1>9, <1>10, <1>11, <1>12,
           <1>13, <1>14, <1>15, <1>16 DEF Next, PollStep, WorkStep

\* Pushing, popping and resolving move a context from one place to the next.
LEMMA PlaceNext == PlaceInv /\ [Next]_vars => PlaceInv'
<1> SUFFICES ASSUME PlaceInv, [Next]_vars PROVE HandsInv' /\ ContextsInOnePlace'
  BY TypeNext DEF PlaceInv
<1> USE PipelineAssumption
<1>0. /\ polled \in Nat /\ queue \in Seq(Event) /\ polled <= captured /\ captured \in 0 .. MaxEvents
      /\ got \in [Worker -> Event \cup {NULL}] /\ resolved \subseteq Event
      /\ pc \in [Worker -> {"register", "push_back", "check", "lock", "test", "wait",
                            "resolve", "done"}]
      /\ waiting \subseteq Worker
  BY DEF PlaceInv, TypeOK
<1>1. CASE Capture
  BY <1>1, PlaceUnchanged DEF Capture, workVars
<1>2. CASE signal_handler
  BY <1>2, PlaceUnchanged DEF signal_handler, workVars
<1>3. CASE PollerCheck
  BY <1>3, PlaceUnchanged DEF PollerCheck, workVars
<1>4. ASSUME NEW ours \in BOOLEAN, poll_perf_buffer(ours)
      PROVE  HandsInv' /\ ContextsInOnePlace'
  <2>1. /\ polled' = polled + 1 /\ UNCHANGED <<queue, got, resolved, pc>>
        /\ polled + 1 \in Event
    BY <1>0, <1>4 DEF poll_perf_buffer, workVars, Event
  <2>2. ContextsInOnePlace'
    BY <1>0, <2>1 DEF PlaceInv, ContextsInOnePlace
  <2>3. HandsInv'
    BY <1>0, <2>1 DEF PlaceInv, HandsInv, ContextsInOnePlace
  <2> QED BY <2>2, <2>3
<1>5. CASE push
  <2>1. /\ queue' = Append(queue, polled) /\ UNCHANGED <<polled, got, resolved, pc>>
        /\ ppc = "lock" /\ ppc' = "unlock"
    BY <1>5 DEF push, workVars
  <2>2. /\ polled \in Event /\ \A k \in 1 .. Len(queue) : queue[k] # polled
        /\ \A w \in Worker : got[w] # polled
        /\ polled \notin resolved
    BY <2>1 DEF PlaceInv, HandsInv
  <2>3. /\ Len(queue') = Len(queue) + 1 /\ queue'[Len(queue) + 1] = polled
        /\ \A k \in 1 .. Len(queue) : queue'[k] = queue[k]
    BY <1>0, <2>1, <2>2
  <2>4. HandsInv'
    BY <2>1 DEF PlaceInv, HandsInv
  <2>5. ContextsInOnePlace'
    BY <1>0, <2>1, <2>2, <2>3 DEF PlaceInv, ContextsInOnePlace, Event
  <2> QED BY <2>4, <2>5
<1>6. CASE push_unlock
  BY <1>6, PlaceUnchanged DEF push_unlock, workVars
<1>7. CASE notify_one
  <2>1. UNCHANGED <<queue, got, resolved, polled>> /\ ppc' # "lock"
    BY <1>7 DEF notify_one
  <2>2. \A w \in Worker : pc'[w] = "resolve" => pc[w] = "resolve"
    BY <1>0, <1>7 DEF notify_one
  <2> QED BY <2>1, <2>2, PlaceUnchanged
<1>8. ASSUME NEW w \in Worker,
             RegisterRead(w) \/ RegisterWrite(w) \/ WorkerCheck(w) \/ pop_lock(w)
               \/ cond_wait(w) \/ SpuriousWakeup(w)
      PROVE  HandsInv' /\ ContextsInOnePlace'
  <2>1. UNCHANGED <<queue, got, resolved, polled, ppc>>
    BY <1>8 DEF RegisterRead, RegisterWrite, WorkerCheck, pop_lock, cond_wait,
                SpuriousWakeup, pollVars
  <2>2. \A v \in Worker : pc'[v] = "resolve" => pc[v] = "resolve"
    BY <1>0, <1>8 DEF RegisterRead, RegisterWrite, WorkerCheck, pop_lock, cond_wait,
                      SpuriousWakeup
  <2> QED BY <2>1, <2>2, PlaceUnchanged
<1>9. ASSUME NEW w \in Worker, pop(w) PROVE HandsInv' /\ ContextsInOnePlace'
  <2>1. /\ queue # <<>> /\ queue' = Tail(queue) /\ got' = [got EXCEPT ![w] = Head(queue)]
        /\ pc' = [pc EXCEPT ![w] = "resolve"] /\ UNCHANGED <<polled, resolved, ppc>>
    BY <1>9 DEF pop, pollVars
  <2>2. /\ Len(queue) \in Nat /\ Len(queue) >= 1 /\ Len(queue') = Len(queue) - 1
        /\ \A k \in 1 .. Len(queue') : queue'[k] = queue[k + 1]
        /\ Head(queue) = queue[1] /\ queue[1] \in Event
    BY <1>0, <2>1
  <2>3. HandsInv'
    BY <1>0, <2>1, <2>2 DEF PlaceInv, HandsInv
  <2>4. ContextsInOnePlace'
    BY <1>0, <2>1, <2>2 DEF PlaceInv, ContextsInOnePlace
  <2> QED BY <2>3, <2>4
<1>10. ASSUME NEW w \in Worker, NEW ok \in BOOLEAN, resolve(w, ok)
       PROVE  HandsInv' /\ ContextsInOnePlace'
  <2>1. /\ resolved' \in {resolved, resolved \cup {got[w]}}
        /\ got' = [got EXCEPT ![w] = NULL] /\ pc' = [pc EXCEPT ![w] = "check"]
        /\ UNCHANGED <<polled, queue, ppc>> /\ got[w] # NULL
    BY <1>10 DEF resolve, pollVars, PlaceInv, HandsInv
  <2>2. HandsInv'
    BY <1>0, <2>1 DEF PlaceInv, HandsInv
  <2>3. ContextsInOnePlace'
    BY <1>0, <2>1 DEF PlaceInv, ContextsInOnePlace
  <2> QED BY <2>2, <2>3
<1>11. CASE UNCHANGED vars
  BY <1>11, PlaceUnchanged DEF vars
<1> QED BY <1>1, <1>2, <1>3, <1>4, <1>5, <1>6, <1>7, <1>8, <1>9, <1>10, <1>11
        DEF Next, PollStep, WorkStep

\* Each context is in one place at all times.
THEOREM PlaceInvariant == Spec => []PlaceInv
BY PlaceInit, PlaceNext, PTL DEF Spec

\* The mutex has one owner, the waiting set is the sleeping workers.
THEOREM TypeCorrect == Spec => []TypeOK
BY PlaceInvariant, PTL DEF PlaceInv

\* No context is queued twice, resolved twice, or held by two workers.
THEOREM OnePlace == Spec => []ContextsInOnePlace
BY PlaceInvariant, PTL DEF PlaceInv
-----------------------------------------------------------------------------
\* The workers on their way to the head of the queue.
Near == {w \in Worker : pc[w] \in {"lock", "test"}}

\* The wakeup that a push still owes.
Owed == IF ppc \in {"unlock", "notify"} THEN 1 ELSE 0

\* Near is a finite set, whatever the workers do.
LEMMA NearFinite == IsFiniteSet(Near) /\ Cardinality(Near) \in Nat
<1>1. Near \subseteq Worker
  BY DEF Near
<1> QED BY <1>1, PipelineAssumption, FS_Subset, FS_CardinalityType

\* A worker that starts for the queue is counted once more, one that has its
\* context once less.
LEMMA NearArrives ==
  ASSUME PlaceInv, NEW w \in Worker, pc[w] \notin {"lock", "test"},
         pc' = [pc EXCEPT ![w] = "lock"]
  PROVE  Cardinality(Near') = Cardinality(Near) + 1
<1>1. Near' = Near \cup {w} /\ w \notin Near
  BY DEF Near, PlaceInv, TypeOK
<1> QED BY <1>1, NearFinite, FS_AddElement

LEMMA NearLeaves ==
  ASSUME PlaceInv, NEW w \in Worker, pc[w] \in {"lock", "test"},
         pc' = [pc EXCEPT ![w] = "resolve"]
  PROVE  Cardinality(Near') = Cardinality(Near) - 1
<1>1. Near' = Near \ {w} /\ w \in Near
  BY DEF Near, PlaceInv, TypeOK
<1> QED BY <1>1, NearFinite, FS_RemoveElement

LEMMA NearStays ==
  ASSUME PlaceInv,
         \A w \in Worker : pc'[w] \in {"lock", "test"} <=> pc[w] \in {"lock", "test"}
  PROVE  Cardinality(Near') = Cardinality(Near)
<1>1. Near' = Near
  BY DEF Near
<1> QED BY <1>1

\* No step loses a wakeup.
LEMMA IdleNext == PlaceInv /\ NoIdleWorker /\ [Next]_vars => NoIdleWorker'
<1> SUFFICES ASSUME PlaceInv, NoIdleWorker, [Next]_vars, stop' = {}, alive', waiting' # {}
             PROVE  Len(queue') <= Cardinality(Near') + Owed'
  BY DEF NoIdleWorker, Near, Owed
<1>0. /\ queue \in Seq(Event) /\ Len(queue) \in Nat /\ Cardinality(Near) \in Nat
      /\ Owed \in 0 .. 1
      /\ pc \in [Worker -> {"register", "push_back", "check", "lock", "test", "wait",
                            "resolve", "done"}]
      /\ waiting = {w \in Worker : pc[w] = "wait"} /\ polled \in Nat
  BY NearFinite DEF PlaceInv, TypeOK, Owed
<1>w. stop = {} /\ alive /\ waiting # {} => Len(queue) <= Cardinality(Near) + Owed
  BY DEF NoIdleWorker, Near, Owed
<1>1. CASE Capture \/ PollerCheck \/ \E ours \in BOOLEAN : poll_perf_buffer(ours)
  <2>1. /\ UNCHANGED <<queue, pc, waiting, stop, alive>>
        /\ ppc' = ppc \/ ppc \notin {"unlock", "notify"}
    BY <1>1 DEF Capture, PollerCheck, poll_perf_buffer, workVars, sigVars
  <2>2. Cardinality(Near') = Cardinality(Near)
    BY <2>1, NearStays
  <2>3. Owed' \in Nat /\ Owed' >= Owed
    BY <2>1 DEF Owed
  <2> QED BY <2>1, <2>2, <2>3, <1>0, <1>w
<1>2. CASE signal_handler
  <2>1. signals # 0 => ~alive'
    BY <1>2 DEF signal_handler
  <2>2. signals = 0 => stop' # {}
    BY <1>2 DEF signal_handler
  <2> QED BY <2>1, <2>2
<1>3. CASE push
  <2>1. /\ UNCHANGED <<pc, waiting, stop, alive>> /\ queue' = Append(queue, polled)
        /\ Owed = 0 /\ Owed' = 1 /\ polled \in Event
    BY <1>3 DEF push, workVars, sigVars, Owed, PlaceInv, HandsInv
  <2>2. Cardinality(Near') = Cardinality(Near)
    BY <2>1, NearStays
  <2>3. Len(queue') = Len(queue) + 1
    BY <1>0, <2>1
  <2> QED BY <2>1, <2>2, <2>3, <1>0, <1>w
<1>4. CASE push_unlock
  <2>1. UNCHANGED <<queue, pc, waiting, stop, alive>> /\ Owed' = Owed
    BY <1>4 DEF push_unlock, workVars, sigVars, Owed
  <2>2. Cardinality(Near') = Cardinality(Near)
    BY <2>1, NearStays
  <2> QED BY <2>1, <2>2, <1>0, <1>w
<1>5. CASE notify_one
  <2>1. UNCHANGED <<queue, stop, alive>> /\ Owed = 1 /\ Owed' = 0 /\ waiting # {}
    BY <1>5 DEF notify_one, sigVars, Owed
  <2>2. PICK w \in waiting : pc' = [pc EXCEPT ![w] = "lock"]
    BY <1>5, <2>1 DEF notify_one
  <2>3. w \in Worker /\ pc[w] = "wait"
    BY <1>0
  <2>4. Cardinality(Near') = Cardinality(Near) + 1
    BY <2>2, <2>3, NearArrives
  <2> QED BY <2>1, <2>4, <1>0, <1>w
<1>6. ASSUME NEW w \in Worker, RegisterRead(w) \/ RegisterWrite(w) \/ pop_lock(w)
      PROVE  Len(queue') <= Cardinality(Near') + Owed'
  <2>1. UNCHANGED <<queue, ppc, waiting, stop, alive>> /\ Owed' = Owed
    BY <1>6 DEF RegisterRead, RegisterWrite, pop_lock, pollVars, sigVars, Owed
  <2>2. \A v \in Worker : pc'[v] \in {"lock", "test"} <=> pc[v] \in {"lock", "test"}
    BY <1>0, <1>6 DEF RegisterRead, RegisterWrite, pop_lock
  <2>3. Cardinality(Near') = Cardinality(Near)
    BY <2>2, NearStays
  <2> QED BY <2>1, <2>3, <1>0, <1>w
<1>7. ASSUME NEW w \in Worker, WorkerCheck(w) \/ SpuriousWakeup(w)
      PROVE  Len(queue') <= Cardinality(Near') + Owed'
  <2>1. UNCHANGED <<queue, ppc, stop, alive>> /\ Owed' = Owed /\ waiting # {}
    BY <1>7 DEF WorkerCheck, SpuriousWakeup, pollVars, sigVars, Owed
  <2>2. pc' = [pc EXCEPT ![w] = "lock"] /\ pc[w] \notin {"lock", "test"}
    BY <1>0, <1>7, <2>1 DEF WorkerCheck, SpuriousWakeup
  <2>3. Cardinality(Near') = Cardinality(Near) + 1
    BY <2>2, NearArrives
  <2> QED BY <2>1, <2>3, <1>0, <1>w
<1>8. ASSUME NEW w \in Worker, cond_wait(w)
      PROVE  Len(queue') <= Cardinality(Near') + Owed'
  <2>1. queue' = <<>> /\ Owed' \in Nat /\ Cardinality(Near') \in Nat
    <3>1. IsFiniteSet(Near')
      <4>1. Near' \subseteq Worker
        BY DEF Near
      <4> QED BY <4>1, PipelineAssumption, FS_Subset
    <3> QED BY <1>8, <3>1, FS_CardinalityType DEF cond_wait, Owed
  <2> QED BY <2>1
<1>9. ASSUME NEW w \in Worker, pop(w)
      PROVE  Len(queue') <= Cardinality(Near') + Owed'
  <2>1. /\ UNCHANGED <<ppc, waiting, stop, alive>> /\ Owed' = Owed
        /\ queue # <<>> /\ queue' = Tail(queue)
        /\ pc[w] = "test" /\ pc' = [pc EXCEPT ![w] = "resolve"]
    BY <1>9 DEF pop, pollVars, sigVars, Owed
  <2>2. Cardinality(Near') = Cardinality(Near) - 1
    BY <2>1, NearLeaves
  <2>3. Len(queue') = Len(queue) - 1
    BY <1>0, <2>1
  <2> QED BY <2>1, <2>2, <2>3, <1>0, <1>w
<1>10. ASSUME NEW w \in Worker, NEW ok \in BOOLEAN, resolve(w, ok)
       PROVE  Len(queue') <= Cardinality(Near') + Owed'
  <2>1. /\ UNCHANGED <<queue, ppc, waiting, stop>> /\ Owed' = Owed /\ alive' = alive
        /\ pc[w] = "resolve" /\ pc' = [pc EXCEPT ![w] = "check"]
    BY <1>10 DEF resolve, pollVars, Owed
  <2>2. \A v \in Worker : pc'[v] \in {"lock", "test"} <=> pc[v] \in {"lock", "test"}
    BY <1>0, <2>1
  <2>3. Cardinality(Near') = Cardinality(Near)
    BY <2>2, NearStays
  <2> QED BY <2>1, <2>3, <1>0, <1>w
<1>11. CASE UNCHANGED vars
  <2>1. UNCHANGED <<queue, pc, waiting, stop, alive>> /\ Owed' = Owed
    BY <1>11 DEF vars, Owed
  <2>2. Cardinality(Near') = Cardinality(Near)
    BY <2>1, NearStays
  <2> QED BY <2>1, <2>2, <1>0, <1>w
<1> QED BY <1>1, <1>2, <1>3, <1>4, <1>5, <1>6, <1>7, <1>8, <1>9, <1>10, <1>11
        DEF Next, PollStep, WorkStep

\* Notifying one waiter after the mutex is released loses no wakeup.
THEOREM NoLostWakeup == Spec => []NoIdleWorker
<1>1. Init => NoIdleWorker
  BY DEF Init, NoIdleWorker
<1> QED BY <1>1, IdleNext, PlaceInvariant, PTL DEF Spec
-----------------------------------------------------------------------------
\* A push is the abstract Push, a pop the abstract Take, and no other step of
\* any thread touches the queue or the order in which contexts were taken.
LEMMA QueueNext == PlaceInv /\ [Next]_vars => [Q!Next]_<<queue, taken>>
<1> SUFFICES ASSUME PlaceInv, [Next]_vars PROVE Q!Next \/ UNCHANGED <<queue, taken>>
  OBVIOUS
<1>1. CASE push
  <2>1. polled \in Event /\ queue' = Append(queue, polled) /\ UNCHANGED taken
    BY <1>1 DEF push, PlaceInv, HandsInv
  <2> QED BY <2>1 DEF Q!Next, Q!Push
<1>2. ASSUME NEW w \in Worker, pop(w) PROVE Q!Next
  BY <1>2 DEF pop, Q!Next, Q!Take
<1>3. CASE Capture \/ signal_handler \/ PollerCheck \/ push_unlock \/ notify_one
             \/ \E ours \in BOOLEAN : poll_perf_buffer(ours)
  BY <1>3 DEF Capture, signal_handler, PollerCheck, push_unlock, notify_one, poll_perf_buffer
<1>4. ASSUME NEW w \in Worker,
             RegisterRead(w) \/ RegisterWrite(w) \/ WorkerCheck(w) \/ pop_lock(w)
               \/ cond_wait(w) \/ SpuriousWakeup(w) \/ \E ok \in BOOLEAN : resolve(w, ok)
      PROVE  UNCHANGED <<queue, taken>>
  BY <1>4 DEF RegisterRead, RegisterWrite, WorkerCheck, pop_lock, cond_wait,
              SpuriousWakeup, resolve
<1>5. CASE UNCHANGED vars
  BY <1>5 DEF vars
<1> QED BY <1>1, <1>2, <1>3, <1>4, <1>5 DEF Next, PollStep, WorkStep

\* The mutex, the condition variable and the threads implement a queue that
\* hands each context to one worker, in the order of the pushes.
THEOREM QueueRefinement == Spec => ImplementsEventQueue
<1>1. Init => Q!Init
  BY DEF Init, Q!Init
<1> QED BY <1>1, QueueNext, PlaceInvariant, PTL DEF Spec, ImplementsEventQueue, Q!Spec
=============================================================================
