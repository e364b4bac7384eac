---------------------------- MODULE BrokerProofs ----------------------------
(***************************************************************************)
(* Theorems about the broker process of module Broker, for every set of    *)
(* clients, keys and jobs and every queue capacity, and about the broker   *)
(* processes of module BrokerLifecycle, for any number of them, of         *)
(* clients, failures and sessions.                                         *)
(***************************************************************************)
EXTENDS Broker, BrokerLifecycle, FiniteSetTheorems, TLAPS

-----------------------------------------------------------------------------
(* Type correctness, action by action. *)

(* What is written to a socket keeps every inbox a sequence of messages.   *)
LEMMA SendType ==
    ASSUME TypeOK, NEW c \in Conns,
           NEW type \in Answers \cup {"status_response"},
           NEW id \in JobIds \cup {NoJob}, Send(c, type, id)
    PROVE  inbox' \in [Conns -> Seq(Message)]
<1>1. [type |-> type, id |-> id] \in Message
  BY DEF Message
<1>2. Append(inbox[c], [type |-> type, id |-> id]) \in Seq(Message)
  BY <1>1 DEF TypeOK
<1> QED
  BY <1>2 DEF Send, TypeOK

(* Arming the loop keeps the timer fields typed.                           *)
LEMMA ScheduleNextType ==
    ASSUME TypeOK, NEW a \in [TimerIds -> Delays \cup {"off"}],
           NEW delay \in Delays, ScheduleNext(a, delay)
    PROVE  /\ armed' \in [TimerIds -> Delays \cup {"off"}]
           /\ loopTimer' \in TimerIds \cup {NoTimer}
<1>1. CASE stopped
  BY <1>1 DEF ScheduleNext, TypeOK
<1>2. CASE ~stopped
  <2>1. PICK t \in TimerIds : /\ armed' = [a EXCEPT ![t] = delay]
                              /\ loopTimer' = t
    BY <1>2 DEF ScheduleNext
  <2> QED
    BY <2>1
<1> QED
  BY <1>1, <1>2

(* clearTimeout(loopTimer) leaves every timer armed or off.                 *)
LEMMA ClearedType ==
    ASSUME TypeOK
    PROVE  Cleared \in [TimerIds -> Delays \cup {"off"}]
BY DEF Cleared, TypeOK

(* shutdown()'s loop over the connections keeps the sockets' types.         *)
LEMMA DestroyAllType ==
    ASSUME TypeOK, DestroyAll(sock)
    PROVE  /\ sock' \in [Conns -> SockStates]
           /\ connections' \subseteq Conns
           /\ phase' \in Phases
           /\ awaited' \in Job \cup {NoJob}
BY DEF DestroyAll, TypeOK, SockStates, Phases

(* A broker starts with well-typed fields.                                  *)
LEMMA InitType == Init => TypeOK
BY DEF Init, TypeOK, Phases, SockStates, Delays

(* Every step of the broker keeps TypeOK.                                  *)
LEMMA TypeStep == TypeOK /\ [Next]_vars => TypeOK'
<1> SUFFICES ASSUME TypeOK, [Next]_vars PROVE TypeOK'
  OBVIOUS
<1>1. CASE Start
  BY <1>1 DEF Start, TypeOK, Phases, Delays
<1>2. CASE BeginShutdown
  <2>1. /\ armed' \in [TimerIds -> Delays \cup {"off"}]
        /\ loopTimer' \in TimerIds \cup {NoTimer}
        /\ stopped' \in BOOLEAN
    BY <1>2, ClearedType DEF BeginShutdown, StopWorker
  <2>2. /\ sock' \in [Conns -> SockStates]
        /\ connections' \subseteq Conns
        /\ phase' \in Phases
        /\ awaited' \in Job \cup {NoJob}
    BY <1>2, DestroyAllType DEF BeginShutdown, TypeOK, Phases
  <2> QED
    BY <1>2, <2>1, <2>2 DEF BeginShutdown, TypeOK
<1>3. CASE DrainTimeout
  BY <1>3, DestroyAllType DEF DrainTimeout, TypeOK, workerVars
<1>4. CASE Exit
  BY <1>4 DEF Exit, TypeOK, Phases, workerVars
<1>5. ASSUME NEW c \in Conns, Connect(c) PROVE TypeOK'
  BY <1>5 DEF Connect, TypeOK, SockStates, workerVars
<1>6. ASSUME NEW c \in Conns, Disconnect(c) PROVE TypeOK'
  BY <1>6 DEF Disconnect, TypeOK, SockStates, workerVars
<1>7. ASSUME NEW c \in Conns, CloseEvent(c) PROVE TypeOK'
  BY <1>7 DEF CloseEvent, TypeOK, SockStates, WithoutConnection, workerVars
<1>8. ASSUME NEW c \in Conns, Status(c) PROVE TypeOK'
  <2>1. inbox' \in [Conns -> Seq(Message)]
    BY <1>8, SendType DEF Status
  <2> QED
    BY <1>8, <2>1 DEF Status, TypeOK, workerVars
<1>9. ASSUME NEW job \in Job, Submit(job) PROVE TypeOK'
  <2>1. submitted' \in Seq(Job)
    BY <1>9 DEF Submit, TypeOK
  <2>2. job.connection \in Conns /\ job.id \in JobIds
    BY DEF Job
  <2>3. CASE QueueFull
    <3>1. inbox' \in [Conns -> Seq(Message)]
      BY <1>9, <2>2, <2>3, SendType DEF Submit, Answers
    <3> QED
      BY <1>9, <2>1, <2>3, <3>1 DEF Submit, TypeOK
  <2>4. CASE ~QueueFull
    <3>1. queue' \subseteq Job
      BY <1>9, <2>4 DEF Submit, WithJob, TypeOK
    <3>2. /\ armed' \in [TimerIds -> Delays \cup {"off"}]
          /\ loopTimer' \in TimerIds \cup {NoTimer}
      <4>1. Nudge
        BY <1>9, <2>4 DEF Submit
      <4>2. "now" \in Delays
        BY DEF Delays
      <4> QED
        BY <4>1, <4>2, ClearedType, ScheduleNextType DEF Nudge, TypeOK
    <3> QED
      BY <1>9, <2>1, <2>4, <3>1, <3>2 DEF Submit, TypeOK
  <2> QED
    BY <2>3, <2>4
<1>10. ASSUME NEW t \in TimerIds, DequeueLoop(t) PROVE TypeOK'
  <2> DEFINE fired == [armed EXCEPT ![t] = "off"]
  <2>1. fired \in [TimerIds -> Delays \cup {"off"}]
    BY DEF TypeOK
  <2>2. /\ armed' \in [TimerIds -> Delays \cup {"off"}]
        /\ loopTimer' \in TimerIds \cup {NoTimer}
    <3>1. "poll" \in Delays
      BY DEF Delays
    <3>2. \/ armed' = fired /\ UNCHANGED loopTimer
          \/ ScheduleNext(fired, "poll")
      BY <1>10 DEF DequeueLoop
    <3> QED
      BY <2>1, <3>1, <3>2, ScheduleNextType DEF TypeOK
  <2>3. /\ queue' \subseteq Job
        /\ currentJob' \in Job \cup {NoJob}
        /\ running' \subseteq Job
    BY <1>10 DEF DequeueLoop, WithoutJob, Foremost, TypeOK
  <2> QED
    BY <1>10, <2>2, <2>3 DEF DequeueLoop, TypeOK, serverVars
<1>11. ASSUME NEW job \in Job, NEW outcome \in Outcomes, Finish(job, outcome)
       PROVE TypeOK'
  <2>1. /\ armed' \in [TimerIds -> Delays \cup {"off"}]
        /\ loopTimer' \in TimerIds \cup {NoTimer}
    BY <1>11, ScheduleNextType DEF Finish, Delays, TypeOK
  <2>2. inbox' \in [Conns -> Seq(Message)]
    BY <1>11, SendType DEF Finish, Answers, Job
  <2>3. /\ sock' \in [Conns -> SockStates]
        /\ connections' \subseteq Conns
        /\ phase' \in Phases
        /\ awaited' \in Job \cup {NoJob}
    BY <1>11, DestroyAllType DEF Finish, TypeOK
  <2>4. tokens' \in Nat
    BY <1>11 DEF Finish, Accounted, TypeOK
  <2> QED
    BY <1>11, <2>1, <2>2, <2>3, <2>4 DEF Finish, TypeOK
<1>12. CASE UNCHANGED vars
  BY <1>12 DEF TypeOK, vars, serverVars, workerVars
<1> QED
  BY <1>1, <1>2, <1>3, <1>4, <1>5, <1>6, <1>7, <1>8, <1>9, <1>10, <1>11,
     <1>12 DEF Next, Event, Exited

(* The fields of server.ts and worker.ts keep their types.                 *)
THEOREM TypeCorrect == Spec => []TypeOK
<1> QED
  BY InitType, TypeStep, PTL DEF Spec

-----------------------------------------------------------------------------
(* The dequeue loop.  OneLoop alone is not inductive: that stop() ends the *)
(* loop for good, and that nothing runs before start(), depends on when    *)
(* the worker is stopped.                                                  *)
LoopInv ==
    /\ TypeOK
    /\ OneLoop
    /\ PromptPickup
    /\ stopped = (phase # "up")
    /\ phase = "starting" => currentJob = NoJob

(* A worker starts with its loop armed.                                     *)
LEMMA InitLoop == Init => LoopInv
BY InitType, JobsAssumption DEF Init, LoopInv, OneLoop, PromptPickup

(* Every step of the broker keeps LoopInv.                                 *)
LEMMA LoopStep == LoopInv /\ [Next]_vars => LoopInv'
<1> SUFFICES ASSUME LoopInv, [Next]_vars
             PROVE  /\ OneLoop'
                    /\ PromptPickup'
                    /\ stopped' = (phase' # "up")
                    /\ phase' = "starting" => currentJob' = NoJob
  BY TypeStep DEF LoopInv
<1> USE BrokerAssumption, JobsAssumption
<1>1. CASE Start
  <2>1. running = {} /\ \A t \in TimerIds : armed[t] = "off"
    BY <1>1 DEF Start, LoopInv, OneLoop, TypeOK, Delays
  <2>2. PICK t \in TimerIds : armed' = [armed EXCEPT ![t] = "now"] /\ loopTimer' = t
    BY <1>1 DEF Start
  <2> QED
    BY <1>1, <2>1, <2>2 DEF Start, LoopInv, OneLoop, PromptPickup, TypeOK
<1>2. CASE BeginShutdown
  <2>1. \A t \in TimerIds : armed'[t] = "off"
    BY <1>2 DEF BeginShutdown, StopWorker, Cleared, LoopInv, OneLoop, TypeOK
  <2> QED
    BY <1>2, <2>1 DEF BeginShutdown, StopWorker, DestroyAll, LoopInv, OneLoop, PromptPickup
<1>3. CASE DrainTimeout
  BY <1>3 DEF DrainTimeout, DestroyAll, LoopInv, OneLoop, PromptPickup, workerVars
<1>4. CASE Exit
  BY <1>4 DEF Exit, LoopInv, OneLoop, PromptPickup, workerVars
<1>5. ASSUME NEW c \in Conns, Connect(c) \/ Disconnect(c) \/ Status(c)
      PROVE  UNCHANGED <<workerVars, queue, phase>>
  BY <1>5 DEF Connect, Disconnect, Status
<1>6. CASE UNCHANGED <<workerVars, queue, phase>>
  BY <1>6 DEF LoopInv, OneLoop, PromptPickup, workerVars
<1>7. ASSUME NEW c \in Conns, CloseEvent(c)
      PROVE  /\ OneLoop' /\ PromptPickup' /\ stopped' = (phase' # "up")
             /\ phase' = "starting" => currentJob' = NoJob
  BY <1>7 DEF CloseEvent, WithoutConnection, LoopInv, OneLoop, PromptPickup, workerVars
<1>8. ASSUME NEW job \in Job, Submit(job)
      PROVE  /\ OneLoop' /\ PromptPickup' /\ stopped' = (phase' # "up")
             /\ phase' = "starting" => currentJob' = NoJob
  <2>1. CASE QueueFull
    BY <1>8, <2>1 DEF Submit, LoopInv, OneLoop, PromptPickup
  <2>2. CASE ~QueueFull
    <3>1. Nudge /\ UNCHANGED <<phase, stopped, currentJob, running>>
      BY <1>8, <2>2 DEF Submit
    <3>2. CASE stopped \/ currentJob # NoJob
      <4>1. UNCHANGED <<armed, loopTimer>>
        BY <3>1, <3>2 DEF Nudge
      <4>2. stopped \/ running # {}
        BY <3>2 DEF LoopInv, OneLoop
      <4> QED
        BY <3>1, <4>1, <4>2 DEF LoopInv, OneLoop, PromptPickup
    <3>3. CASE ~stopped /\ currentJob = NoJob
      <4>1. PICK t \in TimerIds : /\ armed' = [Cleared EXCEPT ![t] = "now"]
                                  /\ loopTimer' = t
        BY <3>1, <3>3 DEF Nudge, ScheduleNext
      <4>2. \A u \in TimerIds : Cleared[u] = "off"
        BY DEF Cleared, LoopInv, OneLoop
      <4>3. armed'[t] = "now" /\ \A u \in TimerIds : u # t => armed'[u] = "off"
        BY <4>1, <4>2, ClearedType DEF LoopInv
      <4> QED
        BY <3>1, <3>3, <4>1, <4>3 DEF LoopInv, OneLoop, PromptPickup
    <3> QED
      BY <3>2, <3>3 DEF LoopInv, TypeOK
  <2> QED
    BY <2>1, <2>2
<1>9. ASSUME NEW t \in TimerIds, DequeueLoop(t)
      PROVE  /\ OneLoop' /\ PromptPickup' /\ stopped' = (phase' # "up")
             /\ phase' = "starting" => currentJob' = NoJob
  <2> DEFINE fired == [armed EXCEPT ![t] = "off"]
  <2>1. ~stopped /\ running = {} /\ currentJob = NoJob /\ t = loopTimer
    BY <1>9 DEF DequeueLoop, LoopInv, OneLoop
  <2>2. \A u \in TimerIds : fired[u] = "off"
    BY <2>1 DEF LoopInv, OneLoop, TypeOK
  <2>3. CASE queue = {}
    <3>1. ScheduleNext(fired, "poll") /\ UNCHANGED <<queue, currentJob, running>>
      BY <1>9, <2>1, <2>3 DEF DequeueLoop, Foremost
    <3>2. PICK u \in TimerIds : /\ armed' = [fired EXCEPT ![u] = "poll"]
                                /\ loopTimer' = u
      BY <2>1, <3>1 DEF ScheduleNext
    <3>3. armed'[u] = "poll" /\ \A v \in TimerIds : v # u => armed'[v] = "off"
      BY <2>2, <3>2 DEF LoopInv, TypeOK
    <3> QED
      BY <1>9, <2>1, <2>3, <3>1, <3>2, <3>3
      DEF DequeueLoop, LoopInv, OneLoop, PromptPickup, serverVars
  <2>4. CASE queue # {}
    <3>1. PICK job \in Foremost(queue) : /\ currentJob' = job
                                         /\ running' = running \cup {job}
      BY <1>9, <2>1, <2>4 DEF DequeueLoop
    <3>2. job \in Job /\ job # NoJob
      BY <3>1 DEF Foremost, LoopInv, TypeOK
    <3>3. armed' = fired
      BY <1>9, <2>1, <2>4 DEF DequeueLoop
    <3> QED
      BY <1>9, <2>1, <2>2, <3>1, <3>2, <3>3
      DEF DequeueLoop, LoopInv, OneLoop, PromptPickup, serverVars
  <2> QED
    BY <2>3, <2>4
<1>10. ASSUME NEW job \in Job, NEW outcome \in Outcomes, Finish(job, outcome)
       PROVE  /\ OneLoop' /\ PromptPickup' /\ stopped' = (phase' # "up")
              /\ phase' = "starting" => currentJob' = NoJob
  <2>1. /\ running' = {} /\ currentJob' = NoJob
        /\ \A t \in TimerIds : armed[t] = "off"
    BY <1>10 DEF Finish, LoopInv, OneLoop
  <2>2. UNCHANGED stopped /\ stopped' = (phase' # "up")
    BY <1>10 DEF Finish, DestroyAll, LoopInv
  <2>3. CASE stopped
    BY <1>10, <2>1, <2>2, <2>3
    DEF Finish, ScheduleNext, LoopInv, OneLoop, PromptPickup
  <2>4. CASE ~stopped
    <3>1. PICK t \in TimerIds : /\ armed' = [armed EXCEPT ![t] = "settle"]
                                /\ loopTimer' = t
      BY <1>10, <2>4 DEF Finish, ScheduleNext
    <3>2. armed'[t] = "settle" /\ \A u \in TimerIds : u # t => armed'[u] = "off"
      BY <2>1, <3>1 DEF LoopInv, TypeOK
    <3> QED
      BY <2>1, <2>2, <2>4, <3>1, <3>2 DEF LoopInv, OneLoop, PromptPickup
  <2> QED
    BY <2>3, <2>4
<1>11. CASE UNCHANGED vars
  BY <1>6, <1>11 DEF vars, serverVars
<1> QED
  BY <1>1, <1>2, <1>3, <1>4, <1>5, <1>6, <1>7, <1>8, <1>9, <1>10, <1>11
  DEF Next, Event, Exited

(* The loop invariant holds in every reachable state of the broker.         *)
LEMMA LoopInvariant == Spec => []LoopInv
<1> QED
  BY InitLoop, LoopStep, PTL DEF Spec

(* The worker never runs two jobs at once, never has a stray timer, and    *)
(* its loop never dies while it is not stopped (worker.ts).                *)
THEOREM WorkerHasOneLoop == Spec => []OneLoop
<1>1. LoopInv => OneLoop
  BY DEF LoopInv
<1> QED
  BY <1>1, LoopInvariant, PTL

(* Pending work never waits for the one-second poll (worker.ts nudge).     *)
THEOREM WorkIsPickedUpPromptly == Spec => []PromptPickup
<1>1. LoopInv => PromptPickup
  BY DEF LoopInv
<1> QED
  BY <1>1, LoopInvariant, PTL

(* No job is started once shutdown has begun (server.ts shutdown).         *)
THEOREM ShutdownStopsPickup == Spec => NoPickupAfterStop
<1>1. LoopInv /\ [Next]_vars =>
        [(phase \in {"draining", "closing"}) => running' \subseteq running]_vars
  <2> SUFFICES ASSUME LoopInv, Next, phase \in {"draining", "closing"}
               PROVE  running' \subseteq running
    OBVIOUS
  <2>1. stopped
    BY DEF LoopInv
  <2>2. ASSUME NEW t \in TimerIds, DequeueLoop(t)
        PROVE  running' \subseteq running
    BY <2>1, <2>2 DEF DequeueLoop
  <2> QED
    BY <2>2 DEF Next, Event, Exited, Start, BeginShutdown, DrainTimeout, Exit,
                Connect, Disconnect, CloseEvent, Status, Submit, Finish,
                workerVars, vars
<1> QED
  BY <1>1, LoopInvariant, PTL DEF Spec, NoPickupAfterStop

-----------------------------------------------------------------------------
(* The queue's bound and its dedup key. *)

CapacityInv == TypeOK /\ QueueWithinCapacity

(* Replacing the pending job of a key adds at most one job and keeps one   *)
(* job per key (queue.ts enqueue).                                         *)
LEMMA WithJobWithinCapacity ==
    ASSUME NEW q, NEW job, IsFiniteSet(q), Cardinality(q) < MaxQueueSize,
           \A j, k \in q : j.key = k.key => j = k
    PROVE  LET r == WithJob(q, job)
           IN /\ IsFiniteSet(r)
              /\ Cardinality(r) <= MaxQueueSize
              /\ \A j, k \in r : j.key = k.key => j = k
<1> DEFINE kept == {j \in q : j.key # job.key}
<1>1. IsFiniteSet(kept) /\ Cardinality(kept) <= Cardinality(q)
  BY FS_Subset
<1>2. /\ IsFiniteSet(kept \cup {job})
      /\ Cardinality(kept \cup {job}) <= Cardinality(kept) + 1
  BY <1>1, FS_AddElement, FS_CardinalityType
<1>3. Cardinality(q) \in Nat /\ Cardinality(kept) \in Nat
      /\ Cardinality(kept \cup {job}) \in Nat
  BY <1>1, <1>2, FS_CardinalityType
<1>4. Cardinality(kept \cup {job}) <= MaxQueueSize
  BY <1>1, <1>2, <1>3, BrokerAssumption
<1> QED
  BY <1>2, <1>4 DEF WithJob

(* Taking jobs away keeps the bound and the one job per key.               *)
LEMMA FewerJobsWithinCapacity ==
    ASSUME QueueWithinCapacity, queue' \subseteq queue
    PROVE  QueueWithinCapacity'
<1>1. IsFiniteSet(queue') /\ Cardinality(queue') <= Cardinality(queue)
  BY FS_Subset DEF QueueWithinCapacity
<1>2. Cardinality(queue) \in Nat /\ Cardinality(queue') \in Nat
  BY <1>1, FS_CardinalityType DEF QueueWithinCapacity
<1> QED
  BY <1>1, <1>2, BrokerAssumption DEF QueueWithinCapacity

(* No step takes the queue past maxQueueSize or gives two jobs one key.     *)
LEMMA CapacityStep == CapacityInv /\ [Next]_vars => QueueWithinCapacity'
<1> SUFFICES ASSUME CapacityInv, [Next]_vars PROVE QueueWithinCapacity'
  OBVIOUS
<1> USE DEF CapacityInv
<1>1. ASSUME NEW job \in Job, Submit(job) PROVE QueueWithinCapacity'
  <2>1. CASE QueueFull
    BY <1>1, <2>1 DEF Submit, QueueWithinCapacity
  <2>2. CASE ~QueueFull
    <3>1. Cardinality(queue) < MaxQueueSize
      BY <2>2, BrokerAssumption, FS_CardinalityType DEF QueueFull, QueueWithinCapacity
    <3>2. queue' = WithJob(queue, job)
      BY <1>1, <2>2 DEF Submit
    <3> QED
      BY <3>1, <3>2, WithJobWithinCapacity DEF QueueWithinCapacity
  <2> QED
    BY <2>1, <2>2
<1>2. ASSUME NEW c \in Conns, CloseEvent(c) PROVE QueueWithinCapacity'
  BY <1>2, FewerJobsWithinCapacity DEF CloseEvent, WithoutConnection
<1>3. ASSUME NEW t \in TimerIds, DequeueLoop(t) PROVE QueueWithinCapacity'
  BY <1>3, FewerJobsWithinCapacity DEF DequeueLoop, WithoutJob
<1>4. ASSUME UNCHANGED queue PROVE QueueWithinCapacity'
  BY <1>4 DEF QueueWithinCapacity
<1> QED
  BY <1>1, <1>2, <1>3, <1>4
  DEF Next, Event, Exited, Start, BeginShutdown, DrainTimeout, Exit, Connect,
      Disconnect, Status, Finish, vars

(* At most maxQueueSize pending jobs, at most one per key (server.ts       *)
(* handleSubmit, queue.ts enqueue).                                        *)
THEOREM QueueStaysWithinCapacity == Spec => []QueueWithinCapacity
<1>1. Init => CapacityInv
  BY InitType, FS_EmptySet, BrokerAssumption
  DEF Init, CapacityInv, QueueWithinCapacity
<1>2. CapacityInv /\ [Next]_vars => CapacityInv'
  BY TypeStep, CapacityStep DEF CapacityInv
<1>3. CapacityInv => QueueWithinCapacity
  BY DEF CapacityInv
<1> QED
  BY <1>1, <1>2, <1>3, PTL DEF Spec

-----------------------------------------------------------------------------
(* Connections and the jobs they own. *)

OrphanInv == TypeOK /\ NoOrphanJobs

(* Destroyed sockets are still to close: their jobs are not orphans yet.    *)
LEMMA DestroyAllOwners ==
    ASSUME TypeOK, NoOrphanJobs, DestroyAll(sock), UNCHANGED queue
    PROVE  NoOrphanJobs'
BY DEF TypeOK, NoOrphanJobs, DestroyAll, Job

(* No step leaves a pending job to a connection already closed.             *)
LEMMA OrphanStep == OrphanInv /\ [Next]_vars => NoOrphanJobs'
<1> SUFFICES ASSUME OrphanInv, [Next]_vars PROVE NoOrphanJobs'
  OBVIOUS
<1> USE DEF OrphanInv
<1>1. ASSUME NEW c \in Conns, Connect(c) PROVE NoOrphanJobs'
  BY <1>1 DEF Connect, NoOrphanJobs, TypeOK
<1>2. ASSUME NEW c \in Conns, Disconnect(c) PROVE NoOrphanJobs'
  BY <1>2 DEF Disconnect, NoOrphanJobs, TypeOK
<1>3. ASSUME NEW c \in Conns, CloseEvent(c) PROVE NoOrphanJobs'
  BY <1>3 DEF CloseEvent, WithoutConnection, NoOrphanJobs, TypeOK
<1>4. ASSUME NEW job \in Job, Submit(job) PROVE NoOrphanJobs'
  BY <1>4 DEF Submit, WithJob, NoOrphanJobs
<1>5. ASSUME NEW t \in TimerIds, DequeueLoop(t) PROVE NoOrphanJobs'
  BY <1>5 DEF DequeueLoop, WithoutJob, serverVars, NoOrphanJobs
<1>6. ASSUME NEW job \in Job, NEW outcome \in Outcomes, Finish(job, outcome)
      PROVE  NoOrphanJobs'
  BY <1>6, DestroyAllOwners DEF Finish, NoOrphanJobs
<1>7. CASE BeginShutdown
  BY <1>7, DestroyAllOwners DEF BeginShutdown, NoOrphanJobs
<1>8. CASE DrainTimeout
  BY <1>8, DestroyAllOwners DEF DrainTimeout
<1>9. ASSUME UNCHANGED <<sock, queue>> PROVE NoOrphanJobs'
  BY <1>9 DEF NoOrphanJobs
<1> QED
  BY <1>1, <1>2, <1>3, <1>4, <1>5, <1>6, <1>7, <1>8, <1>9
  DEF Next, Event, Exited, Start, Exit, Status, vars, serverVars

(* A closed connection leaves no pending job behind, in every interleaving *)
(* of close events with submissions, runs and shutdown (server.ts:128).    *)
THEOREM ClosedConnectionsOwnNoJob == Spec => []NoOrphanJobs
<1>1. Init => OrphanInv
  BY InitType DEF Init, OrphanInv, NoOrphanJobs
<1>2. OrphanInv /\ [Next]_vars => OrphanInv'
  BY TypeStep, OrphanStep DEF OrphanInv
<1>3. OrphanInv => NoOrphanJobs
  BY DEF OrphanInv
<1> QED
  BY <1>1, <1>2, <1>3, PTL DEF Spec

(* Types, capacity and ownership of the queue together, as the runs check  *)
(* them (server.ts:130, 163).                                              *)
THEOREM BrokerStaysSound == Spec => []BrokerIsSound
<1>1. TypeOK /\ QueueWithinCapacity /\ NoOrphanJobs => BrokerIsSound
  BY DEF BrokerIsSound
<1> QED
  BY <1>1, TypeCorrect, QueueStaysWithinCapacity, ClosedConnectionsOwnNoJob, PTL

-----------------------------------------------------------------------------
(* What a step does to the jobs and to their answers. *)

\* The sequence t is s and one more element at its end.
Grows(s, t, e) ==
    LET new == Len(s) + 1 IN
    /\ DOMAIN t = DOMAIN s \cup {new} /\ new \notin DOMAIN s /\ t[new] = e
    /\ \A i \in DOMAIN s : i < new /\ t[i] = s[i]

\* One message has been written to the socket c.
Delivers(c, m) ==
    /\ \A d \in Conns : d # c => inbox'[d] = inbox[d]
    /\ Grows(inbox[c], inbox'[c], m)

\* A socket that has gone does not come back, and a used one is not fresh.
SocketsAge ==
    \A c \in Conns : /\ sock'[c] = "open" => sock[c] \in {"none", "open"}
                     /\ sock[c] # "none" => sock'[c] # "none"

\* The kinds of steps, by what they do to submissions, queue, runs and inboxes.
Arrives(job) ==
    /\ sock[job.connection] = "open" /\ job.id \notin SubmittedIds
    /\ Grows(submitted, submitted', job)
    /\ UNCHANGED <<sock, running>>
Refused(job) ==
    /\ Arrives(job) /\ UNCHANGED queue
    /\ Delivers(job.connection, [type |-> "queue_full", id |-> job.id])
Queued(job) ==
    /\ Arrives(job) /\ UNCHANGED inbox
    /\ queue' = WithJob(queue, job)
Asked(c) ==
    /\ Delivers(c, [type |-> "status_response", id |-> NoJob])
    /\ UNCHANGED <<sock, submitted, queue, running>>
Picked(job) ==
    /\ job \in queue /\ running = {} /\ running' = {job}
    /\ queue' = queue \ {job}
    /\ UNCHANGED <<sock, submitted, inbox>>
Ended(job, outcome) ==
    /\ job \in running /\ running' = {}
    /\ IF sock[job.connection] = "open"
       THEN Delivers(job.connection, [type |-> outcome, id |-> job.id])
       ELSE UNCHANGED inbox
    /\ SocketsAge /\ UNCHANGED <<submitted, queue>>
Aged ==
    /\ queue' \subseteq queue
    /\ \A j \in queue \ queue' : sock'[j.connection] # "open"
    /\ SocketsAge /\ UNCHANGED <<submitted, inbox, running>>

(* Append adds one element at the end.                                      *)
LEMMA AppendGrows ==
    ASSUME NEW S, NEW s \in Seq(S), NEW e \in S
    PROVE  Grows(s, Append(s, e), e)
BY DEF Grows

(* send() on an open socket adds one message to its inbox, and else none.   *)
LEMMA SendDelivers ==
    ASSUME TypeOK, NEW c \in Conns,
           NEW type \in Answers \cup {"status_response"},
           NEW id \in JobIds \cup {NoJob}, Send(c, type, id)
    PROVE  IF sock[c] = "open"
           THEN Delivers(c, [type |-> type, id |-> id])
           ELSE UNCHANGED inbox
<1> DEFINE m == [type |-> type, id |-> id]
<1>1. m \in Message
  BY DEF Message
<1>2. CASE sock[c] = "open"
  <2>1. inbox' = [inbox EXCEPT ![c] = Append(@, m)]
    BY <1>2 DEF Send
  <2>2. inbox[c] \in Seq(Message) /\ inbox'[c] = Append(inbox[c], m)
    BY <2>1 DEF TypeOK
  <2>3. Grows(inbox[c], inbox'[c], m)
    BY <1>1, <2>2, AppendGrows
  <2> QED
    BY <1>2, <2>1, <2>3 DEF Delivers, TypeOK
<1>3. CASE sock[c] # "open"
  BY <1>3 DEF Send
<1> QED
  BY <1>2, <1>3

(* Every step of the broker is of one of these kinds.                      *)
LEMMA StepKinds ==
    LoopInv /\ [Next]_vars =>
        \/ \E job \in Job : Refused(job) \/ Queued(job) \/ Picked(job)
        \/ \E c \in Conns : Asked(c)
        \/ \E job \in Job, outcome \in Outcomes : Ended(job, outcome)
        \/ Aged
<1> SUFFICES ASSUME LoopInv, [Next]_vars
             PROVE  \/ \E job \in Job : Refused(job) \/ Queued(job) \/ Picked(job)
                    \/ \E c \in Conns : Asked(c)
                    \/ \E job \in Job, outcome \in Outcomes : Ended(job, outcome)
                    \/ Aged
  OBVIOUS
<1> TypeOK
  BY DEF LoopInv
<1>1. ASSUME NEW job \in Job, Submit(job) PROVE Refused(job) \/ Queued(job)
  <2>1. job.connection \in Conns /\ job.id \in JobIds
    BY DEF Job
  <2>2. Arrives(job)
    BY <1>1, AppendGrows DEF Submit, Arrives, TypeOK
  <2>3. CASE QueueFull
    <3>1. Delivers(job.connection, [type |-> "queue_full", id |-> job.id])
      BY <1>1, <2>1, <2>3, SendDelivers DEF Submit, Answers
    <3> QED
      BY <1>1, <2>2, <2>3, <3>1 DEF Submit, Refused
  <2>4. CASE ~QueueFull
    BY <1>1, <2>2, <2>4 DEF Submit, Queued
  <2> QED
    BY <2>3, <2>4
<1>2. ASSUME NEW c \in Conns, Status(c) PROVE Asked(c)
  BY <1>2, SendDelivers DEF Status, Asked, workerVars
<1>3. ASSUME NEW t \in TimerIds, DequeueLoop(t)
      PROVE  Aged \/ \E job \in Job : Picked(job)
  <2>1. running = {}
    BY <1>3 DEF DequeueLoop, LoopInv, OneLoop
  <2>2. CASE UNCHANGED <<queue, running>>
    BY <1>3, <2>2 DEF DequeueLoop, Aged, SocketsAge, serverVars
  <2>3. CASE ~UNCHANGED <<queue, running>>
    <3>1. PICK job \in Foremost(queue) : /\ queue' = WithoutJob(queue, job)
                                         /\ running' = running \cup {job}
      BY <1>3, <2>3 DEF DequeueLoop
    <3>2. job \in queue /\ job \in Job
      BY DEF Foremost, TypeOK
    <3> QED
      BY <1>3, <2>1, <3>1, <3>2 DEF DequeueLoop, Picked, WithoutJob, serverVars
  <2> QED
    BY <2>2, <2>3
<1>4. ASSUME NEW job \in Job, NEW outcome \in Outcomes, Finish(job, outcome)
      PROVE  Ended(job, outcome)
  <2>1. job.connection \in Conns /\ job.id \in JobIds
    BY DEF Job
  <2>2. job \in running /\ running' = {}
    BY <1>4 DEF Finish, LoopInv, OneLoop
  <2>3. SocketsAge
    BY <1>4 DEF Finish, DestroyAll, SocketsAge, TypeOK
  <2>4. IF sock[job.connection] = "open"
        THEN Delivers(job.connection, [type |-> outcome, id |-> job.id])
        ELSE UNCHANGED inbox
    BY <1>4, <2>1, SendDelivers DEF Finish, Answers
  <2> QED
    BY <1>4, <2>2, <2>3, <2>4 DEF Finish, Ended
<1>5. ASSUME NEW c \in Conns, CloseEvent(c) PROVE Aged
  BY <1>5 DEF CloseEvent, WithoutConnection, Aged, SocketsAge, TypeOK, workerVars
<1>6. ASSUME NEW c \in Conns, Connect(c) \/ Disconnect(c) PROVE Aged
  BY <1>6 DEF Connect, Disconnect, Aged, SocketsAge, TypeOK, workerVars
<1>7. CASE BeginShutdown \/ DrainTimeout
  BY <1>7 DEF BeginShutdown, DrainTimeout, DestroyAll, Aged, SocketsAge, TypeOK, workerVars
<1>8. CASE Start \/ Exit \/ UNCHANGED vars
  BY <1>8 DEF Start, Exit, Aged, SocketsAge, workerVars, serverVars, vars
<1> QED
  BY <1>1, <1>2, <1>3, <1>4, <1>5, <1>6, <1>7, <1>8 DEF Next, Event, Exited

-----------------------------------------------------------------------------
(* The history of submissions.  Everything said about answers rests on it: *)
(* whoever is pending or run was submitted, once, by a socket that was     *)
(* there, and the two do not overlap; only a status response has no id.    *)
SubmissionInv ==
    /\ \A m, n \in DOMAIN submitted : submitted[m].id = submitted[n].id => m = n
    /\ \A job \in queue \cup running : \E n \in DOMAIN submitted : submitted[n] = job
    /\ queue \cap running = {}
    /\ \A n \in DOMAIN submitted : sock[submitted[n].connection] # "none"
    /\ \A c \in Conns : \A i \in DOMAIN inbox[c] :
          inbox[c][i].type = "status_response" => inbox[c][i].id = NoJob

HistoryInv == LoopInv /\ SubmissionInv

\* Messages of a status request have no id, the others a type of their own.
Honest(m) == m.type = "status_response" => m.id = NoJob

(* One more message that is honest leaves all of them honest.              *)
LEMMA DeliveryIsHonest ==
    ASSUME HistoryInv, NEW c \in Conns, NEW m, Honest(m), Delivers(c, m)
    PROVE  \A d \in Conns : \A i \in DOMAIN inbox'[d] : Honest(inbox'[d][i])
BY DEF HistoryInv, SubmissionInv, Delivers, Grows, Honest

(* The history holds jobs.                                                  *)
LEMMA SubmittedAreJobs ==
    ASSUME TypeOK
    PROVE  \A n \in DOMAIN submitted :
               /\ submitted[n] \in Job /\ submitted[n].connection \in Conns
               /\ submitted[n].id \in JobIds
<1>1. \A n \in DOMAIN submitted : submitted[n] \in Job
  BY DEF TypeOK
<1> QED
  BY <1>1 DEF Job

(* Every step keeps SubmissionInv.                                         *)
LEMMA SubmissionStep == HistoryInv /\ [Next]_vars => SubmissionInv'
<1> SUFFICES ASSUME HistoryInv, [Next]_vars PROVE SubmissionInv'
  OBVIOUS
<1> USE JobsAssumption
<1>t. TypeOK /\ LoopInv /\ SubmissionInv
  BY DEF HistoryInv, LoopInv
<1>1. ASSUME NEW job \in Job, Arrives(job), UNCHANGED queue \/ queue' = WithJob(queue, job)
      PROVE  /\ \A m, n \in DOMAIN submitted' : submitted'[m].id = submitted'[n].id => m = n
             /\ \A j \in queue' \cup running' : \E n \in DOMAIN submitted' : submitted'[n] = j
             /\ queue' \cap running' = {}
             /\ \A n \in DOMAIN submitted' : sock'[submitted'[n].connection] # "none"
  <2> DEFINE new == Len(submitted) + 1
  <2>1. /\ DOMAIN submitted' = DOMAIN submitted \cup {new}
        /\ new \notin DOMAIN submitted /\ submitted'[new] = job
        /\ \A n \in DOMAIN submitted : submitted'[n] = submitted[n]
    BY <1>1 DEF Arrives, Grows
  <2>2. \A n \in DOMAIN submitted : submitted[n].id # job.id
    BY <1>1 DEF Arrives, SubmittedIds
  <2>3. \A j \in queue' : j \in queue \/ j = job
    BY <1>1 DEF WithJob
  <2>4. job \notin running
    BY <1>t, <2>2 DEF SubmissionInv
  <2>5. UNCHANGED <<sock, running>> /\ sock[job.connection] = "open"
    BY <1>1 DEF Arrives
  <2>6. \A m, n \in DOMAIN submitted' : submitted'[m].id = submitted'[n].id => m = n
    BY <1>t, <2>1, <2>2 DEF SubmissionInv
  <2>7. \A j \in queue' \cup running' : \E n \in DOMAIN submitted' : submitted'[n] = j
    BY <1>t, <2>1, <2>3, <2>5 DEF SubmissionInv
  <2>8. queue' \cap running' = {}
    BY <1>t, <2>3, <2>4, <2>5 DEF SubmissionInv
  <2>9. \A n \in DOMAIN submitted' : sock'[submitted'[n].connection] # "none"
    BY <1>t, <2>1, <2>5 DEF SubmissionInv
  <2> QED
    BY <2>6, <2>7, <2>8, <2>9
<1>2. ASSUME NEW job \in Job, Refused(job) PROVE SubmissionInv'
  <2>1. Honest([type |-> "queue_full", id |-> job.id]) /\ job.connection \in Conns
    BY DEF Honest, Job
  <2>2. \A c \in Conns : \A i \in DOMAIN inbox'[c] : Honest(inbox'[c][i])
    BY <1>2, <2>1, DeliveryIsHonest DEF Refused
  <2> QED
    BY <1>1, <1>2, <2>2 DEF Refused, SubmissionInv, Honest
<1>3. ASSUME NEW job \in Job, Queued(job) PROVE SubmissionInv'
  BY <1>t, <1>1, <1>3 DEF Queued, SubmissionInv
<1>4. ASSUME NEW job \in Job, Picked(job) PROVE SubmissionInv'
  BY <1>t, <1>4 DEF Picked, SubmissionInv
<1>5. ASSUME NEW c \in Conns, Asked(c) PROVE SubmissionInv'
  <2>1. Honest([type |-> "status_response", id |-> NoJob])
    BY DEF Honest
  <2>2. \A d \in Conns : \A i \in DOMAIN inbox'[d] : Honest(inbox'[d][i])
    BY <1>5, <2>1, DeliveryIsHonest DEF Asked
  <2> QED
    BY <1>t, <1>5, <2>2 DEF Asked, SubmissionInv, Honest
<1>6. ASSUME NEW job \in Job, NEW outcome \in Outcomes, Ended(job, outcome)
      PROVE  SubmissionInv'
  <2>1. Honest([type |-> outcome, id |-> job.id]) /\ job.connection \in Conns
    BY DEF Honest, Job, Outcomes
  <2>2. \A c \in Conns : \A i \in DOMAIN inbox'[c] : Honest(inbox'[c][i])
    BY <1>t, <1>6, <2>1, DeliveryIsHonest DEF Ended, SubmissionInv, Honest
  <2>3. \A n \in DOMAIN submitted : submitted[n].connection \in Conns
    BY <1>t, SubmittedAreJobs
  <2> QED
    BY <1>t, <1>6, <2>2, <2>3 DEF Ended, SocketsAge, SubmissionInv, Honest
<1>7. CASE Aged
  <2>1. \A n \in DOMAIN submitted : submitted[n].connection \in Conns
    BY <1>t, SubmittedAreJobs
  <2> QED
    BY <1>t, <1>7, <2>1 DEF Aged, SocketsAge, SubmissionInv
<1> QED
  BY <1>2, <1>3, <1>4, <1>5, <1>6, <1>7, <1>t, StepKinds

(* HistoryInv holds in every reachable state.                              *)
LEMMA HistoryInvariant == Spec => []HistoryInv
<1>1. Init => HistoryInv
  BY InitLoop DEF Init, HistoryInv, SubmissionInv
<1>2. HistoryInv /\ [Next]_vars => HistoryInv'
  BY LoopStep, SubmissionStep DEF HistoryInv
<1> QED
  BY <1>1, <1>2, PTL DEF Spec

-----------------------------------------------------------------------------
(* Answers: each goes to the submitter, once.  Said of the inboxes as      *)
(* values, so that two states can be compared.                             *)
NoAnswer(box, id) == \A k \in DOMAIN box : box[k].id # id

RightAt(box, jobs, c, i) ==
    \/ box[i].type = "status_response"
    \/ /\ \E n \in DOMAIN jobs : jobs[n].id = box[i].id /\ jobs[n].connection = c
       /\ \A k \in DOMAIN box : box[k].id = box[i].id => k = i

AnswerParts ==
    /\ \A c \in Conns : \A i \in DOMAIN inbox[c] : RightAt(inbox[c], submitted, c, i)
    /\ \A job \in queue \cup running : NoAnswer(inbox[job.connection], job.id)

AnswerInv == HistoryInv /\ AnswerParts

(* The parts say what the runs check.                                      *)
LEMMA PartsAreAnswers == AnswerParts => AnsweredOnceToSubmitter
<1> SUFFICES ASSUME AnswerParts PROVE AnsweredOnceToSubmitter
  OBVIOUS
<1>1. ASSUME NEW c \in Conns, NEW i \in DOMAIN inbox[c],
             inbox[c][i].type # "status_response"
      PROVE  /\ \E n \in DOMAIN submitted :
                   submitted[n].id = inbox[c][i].id /\ submitted[n].connection = c
             /\ AnswersTo(c, inbox[c][i].id) = {i}
  BY <1>1 DEF AnswerParts, RightAt, AnswersTo
<1>2. \A job \in queue \cup running : ~Answered(job)
  BY DEF AnswerParts, NoAnswer, Answered, AnswersTo
<1> QED
  BY <1>1, <1>2 DEF AnsweredOnceToSubmitter

(* A message to somebody else is no answer to this job.                    *)
LEMMA OtherAnswer ==
    ASSUME NEW box, NEW larger, NEW m, Grows(box, larger, m),
           NEW id, NoAnswer(box, id), id # m.id
    PROVE  NoAnswer(larger, id)
BY DEF Grows, NoAnswer

(* What was right stays right when another message comes, and the history  *)
(* grows.                                                                  *)
LEMMA RightStays ==
    ASSUME NEW box, NEW larger, NEW m, Grows(box, larger, m),
           NEW jobs, NEW more,
           \A n \in DOMAIN jobs : n \in DOMAIN more /\ more[n] = jobs[n],
           NEW c, NEW i \in DOMAIN box, RightAt(box, jobs, c, i),
           box[i].type = "status_response" \/ box[i].id # m.id
    PROVE  RightAt(larger, more, c, i)
BY DEF Grows, RightAt

(* A first answer, sent to the submitter, is right.                        *)
LEMMA FirstAnswer ==
    ASSUME NEW box, NEW larger, NEW m, Grows(box, larger, m), NoAnswer(box, m.id),
           NEW jobs, NEW c,
           \E n \in DOMAIN jobs : jobs[n].id = m.id /\ jobs[n].connection = c
    PROVE  RightAt(larger, jobs, c, Len(box) + 1)
BY DEF Grows, NoAnswer, RightAt

(* A longer history of submissions changes nothing.                        *)
LEMMA RightWithMore ==
    ASSUME NEW box, NEW jobs, NEW more, NEW c, NEW i, RightAt(box, jobs, c, i),
           \A n \in DOMAIN jobs : n \in DOMAIN more /\ more[n] = jobs[n]
    PROVE  RightAt(box, more, c, i)
BY DEF RightAt

(* Whoever has an id of his own in some inbox was submitted.               *)
LEMMA UnsubmittedUnanswered ==
    ASSUME AnswerInv, NEW c \in Conns, NEW id \in JobIds, id \notin SubmittedIds
    PROVE  NoAnswer(inbox[c], id)
<1> SUFFICES ASSUME NEW i \in DOMAIN inbox[c], inbox[c][i].id = id PROVE FALSE
  BY DEF NoAnswer
<1>1. inbox[c][i].type # "status_response"
  BY JobsAssumption DEF AnswerInv, HistoryInv, SubmissionInv
<1>2. RightAt(inbox[c], submitted, c, i)
  BY DEF AnswerInv, AnswerParts
<1> QED
  BY <1>1, <1>2 DEF RightAt, SubmittedIds

(* A first answer to a job, by its submission or its end, keeps them right. *)
LEMMA AnswerDelivered ==
    ASSUME AnswerInv, NEW job \in Job, NEW type,
           NoAnswer(inbox[job.connection], job.id),
           Delivers(job.connection, [type |-> type, id |-> job.id]),
           \A n \in DOMAIN submitted : n \in DOMAIN submitted' /\ submitted'[n] = submitted[n],
           \E n \in DOMAIN submitted' : submitted'[n] = job
    PROVE  \A c \in Conns : \A i \in DOMAIN inbox'[c] :
              RightAt(inbox'[c], submitted', c, i)
<1> DEFINE m == [type |-> type, id |-> job.id]
           b == job.connection
<1>1. b \in Conns /\ Grows(inbox[b], inbox'[b], m) /\ m.id = job.id
  BY DEF Job, Delivers
<1> SUFFICES ASSUME NEW c \in Conns, NEW i \in DOMAIN inbox'[c]
             PROVE  RightAt(inbox'[c], submitted', c, i)
  OBVIOUS
<1>2. CASE c # b
  <2>1. inbox'[c] = inbox[c]
    BY <1>2 DEF Delivers
  <2>2. RightAt(inbox[c], submitted, c, i)
    BY <2>1 DEF AnswerInv, AnswerParts
  <2> QED
    BY <2>1, <2>2, RightWithMore
<1>3. CASE c = b /\ i \in DOMAIN inbox[b]
  <2>1. RightAt(inbox[b], submitted, b, i)
    BY <1>1, <1>3 DEF AnswerInv, AnswerParts
  <2>2. inbox[b][i].id # m.id
    BY <1>1, <1>3 DEF NoAnswer
  <2> HIDE DEF m, b
  <2> QED
    BY <1>1, <1>3, <2>1, <2>2, RightStays
<1>4. CASE c = b /\ i \notin DOMAIN inbox[b]
  <2>1. i = Len(inbox[b]) + 1
    BY <1>1, <1>4 DEF Grows
  <2>2. NoAnswer(inbox[b], m.id)
    BY <1>1
  <2>3. \E n \in DOMAIN submitted' : submitted'[n].id = m.id /\ submitted'[n].connection = b
    BY <1>1
  <2> HIDE DEF m, b
  <2> QED
    BY <1>1, <1>4, <2>1, <2>2, <2>3, FirstAnswer
<1> QED
  BY <1>2, <1>3, <1>4


(* Every step keeps the answers right.                                     *)
LEMMA AnswerStep == AnswerInv /\ [Next]_vars => AnswerParts'
<1> SUFFICES ASSUME AnswerInv, [Next]_vars PROVE AnswerParts'
  OBVIOUS
<1>t. TypeOK /\ LoopInv /\ SubmissionInv /\ HistoryInv /\ AnswerParts
  BY DEF AnswerInv, HistoryInv, LoopInv
<1>h. \A j \in queue \cup running : j \in Job /\ j.connection \in Conns /\ j.id \in JobIds
  BY <1>t DEF TypeOK, Job
<1>1. ASSUME NEW job \in Job, Arrives(job)
      PROVE  /\ \A n \in DOMAIN submitted : n \in DOMAIN submitted' /\ submitted'[n] = submitted[n]
             /\ \E n \in DOMAIN submitted' : submitted'[n] = job
             /\ NoAnswer(inbox[job.connection], job.id)
             /\ \A j \in queue \cup running : j.id # job.id
             /\ job.connection \in Conns
  <2>1. job.connection \in Conns /\ job.id \in JobIds
    BY DEF Job
  <2>2. NoAnswer(inbox[job.connection], job.id)
    BY <1>1, <2>1, UnsubmittedUnanswered DEF Arrives
  <2>3. \A j \in queue \cup running : j.id # job.id
    BY <1>t, <1>1 DEF Arrives, SubmissionInv, SubmittedIds
  <2> QED
    BY <1>1, <2>1, <2>2, <2>3 DEF Arrives, Grows
<1>2. ASSUME NEW c \in Conns, NEW m, Delivers(c, m),
             NEW j \in queue \cup running, j.id # m.id
      PROVE  NoAnswer(inbox'[j.connection], j.id)
  <2>1. NoAnswer(inbox[j.connection], j.id) /\ j.connection \in Conns
    BY <1>t, <1>h DEF AnswerParts
  <2>2. CASE j.connection = c
    <3>1. Grows(inbox[c], inbox'[c], m)
      BY <1>2 DEF Delivers
    <3> QED
      BY <1>2, <2>1, <2>2, <3>1, OtherAnswer
  <2>3. CASE j.connection # c
    BY <1>2, <2>1, <2>3 DEF Delivers
  <2> QED
    BY <2>2, <2>3
<1>3. ASSUME NEW job \in Job, Refused(job) PROVE AnswerParts'
  <2>1. Arrives(job) /\ UNCHANGED <<queue, running>>
    BY <1>3 DEF Refused, Arrives
  <2>2. \A c \in Conns : \A i \in DOMAIN inbox'[c] : RightAt(inbox'[c], submitted', c, i)
    BY <1>1, <1>3, <2>1, AnswerDelivered DEF Refused
  <2>3. \A j \in queue \cup running : NoAnswer(inbox'[j.connection], j.id)
    BY <1>1, <1>2, <1>3, <2>1 DEF Refused
  <2> QED
    BY <2>1, <2>2, <2>3 DEF AnswerParts
<1>4. ASSUME NEW job \in Job, Queued(job) PROVE AnswerParts'
  <2>1. Arrives(job) /\ UNCHANGED <<inbox, running>>
    BY <1>4 DEF Queued, Arrives
  <2>2. \A j \in queue' : j \in queue \/ j = job
    BY <1>4 DEF Queued, WithJob
  <2>3. \A c \in Conns : \A i \in DOMAIN inbox[c] : RightAt(inbox[c], submitted', c, i)
    BY <1>t, <1>1, <2>1, RightWithMore DEF AnswerParts
  <2>4. \A j \in queue' \cup running : NoAnswer(inbox[j.connection], j.id)
    BY <1>t, <1>1, <2>1, <2>2 DEF AnswerParts
  <2> QED
    BY <2>1, <2>3, <2>4 DEF AnswerParts
<1>5. ASSUME NEW job \in Job, Picked(job) PROVE AnswerParts'
  BY <1>t, <1>5 DEF Picked, AnswerParts
<1>6. ASSUME NEW c \in Conns, Asked(c) PROVE AnswerParts'
  <2> DEFINE m == [type |-> "status_response", id |-> NoJob]
  <2>1. /\ Delivers(c, m) /\ UNCHANGED <<submitted, queue, running>>
        /\ m.id \notin JobIds /\ m.type = "status_response"
    BY <1>6, JobsAssumption DEF Asked
  <2> HIDE DEF m
  <2>2. \A j \in queue \cup running : NoAnswer(inbox'[j.connection], j.id)
    BY <1>h, <1>2, <2>1
  <2>3. ASSUME NEW d \in Conns, NEW i \in DOMAIN inbox'[d]
        PROVE  RightAt(inbox'[d], submitted, d, i)
    <3>1. CASE i \in DOMAIN inbox[d]
      <4>1. RightAt(inbox[d], submitted, d, i) /\ (d = c => Grows(inbox[d], inbox'[d], m))
            /\ (d # c => inbox'[d] = inbox[d])
        BY <1>t, <2>1, <3>1 DEF AnswerParts, Delivers
      <4>2. inbox[d][i].type = "status_response" \/ inbox[d][i].id # m.id
        BY <1>t, <2>1, <3>1, <4>1, SubmittedAreJobs DEF RightAt
      <4> QED
        BY <3>1, <4>1, <4>2, RightStays
    <3>2. CASE i \notin DOMAIN inbox[d]
      BY <2>1, <2>3, <3>2 DEF Delivers, Grows, RightAt
    <3> QED
      BY <3>1, <3>2
  <2> QED
    BY <2>1, <2>2, <2>3 DEF AnswerParts
<1>7. ASSUME NEW job \in Job, NEW outcome \in Outcomes, Ended(job, outcome)
      PROVE  AnswerParts'
  <2>1. job \in running /\ running' = {} /\ UNCHANGED <<submitted, queue>>
    BY <1>7 DEF Ended
  <2>2. CASE sock[job.connection] = "open"
    <3>1. Delivers(job.connection, [type |-> outcome, id |-> job.id])
      BY <1>7, <2>2 DEF Ended
    <3>2. /\ NoAnswer(inbox[job.connection], job.id)
          /\ \E n \in DOMAIN submitted : submitted[n] = job
      BY <1>t, <2>1 DEF AnswerParts, SubmissionInv
    <3>3. \A c \in Conns : \A i \in DOMAIN inbox'[c] : RightAt(inbox'[c], submitted', c, i)
      BY <2>1, <3>1, <3>2, AnswerDelivered
    <3>4. \A j \in queue : j.id # job.id
      BY <1>t, <2>1 DEF SubmissionInv
    <3>5. job.connection \in Conns
      BY DEF Job
    <3>6. \A j \in queue : NoAnswer(inbox'[j.connection], j.id)
      BY <1>2, <3>1, <3>4, <3>5
    <3> QED
      BY <2>1, <3>3, <3>6 DEF AnswerParts
  <2>3. CASE sock[job.connection] # "open"
    BY <1>t, <1>7, <2>1, <2>3 DEF Ended, AnswerParts
  <2> QED
    BY <2>2, <2>3
<1>8. CASE Aged
  BY <1>t, <1>8 DEF Aged, AnswerParts
<1> QED
  BY <1>3, <1>4, <1>5, <1>6, <1>7, <1>8, <1>t, StepKinds

(* AnswerInv holds in every reachable state.                               *)
LEMMA AnswerInvariant == Spec => []AnswerInv
<1>1. Init => AnswerInv
  BY InitLoop DEF Init, AnswerInv, HistoryInv, SubmissionInv, AnswerParts
<1>2. AnswerInv /\ [Next]_vars => AnswerInv'
  BY LoopStep, SubmissionStep, AnswerStep DEF AnswerInv, HistoryInv
<1> QED
  BY <1>1, <1>2, PTL DEF Spec

-----------------------------------------------------------------------------
(* Order: of two submissions for one key, the earlier has gone from the    *)
(* queue once the later one is in it, and from the worker once the later   *)
(* one has a result.                                                       *)
HasResult(box, id) == \E i \in DOMAIN box : box[i] = [type |-> "result", id |-> id]

ResultFirst(box, id1, id2) ==
    \A i, k \in DOMAIN box :
        /\ box[i] = [type |-> "result", id |-> id1]
        /\ box[k] = [type |-> "result", id |-> id2]
        => i < k

OrderParts ==
    \A m, n \in DOMAIN submitted :
        m < n /\ submitted[m].key = submitted[n].key =>
        /\ \/ submitted[n] \in queue \cup running
           \/ HasResult(inbox[submitted[n].connection], submitted[n].id)
           => submitted[m] \notin queue
        /\ \/ submitted[n] \in running
           \/ HasResult(inbox[submitted[n].connection], submitted[n].id)
           => submitted[m] \notin running
        /\ submitted[m].connection = submitted[n].connection =>
              ResultFirst(inbox[submitted[n].connection], submitted[m].id, submitted[n].id)

OrderInv == AnswerInv /\ OrderParts

LEMMA PartsAreOrder == OrderParts => SameKeyInOrder
BY DEF OrderParts, ResultFirst, SameKeyInOrder

(* Messages that are no results leave the results of every inbox alone.    *)
LEMMA ResultsStay ==
    ASSUME NEW c \in Conns, NEW m, Delivers(c, m), m.type # "result",
           NEW d \in Conns, NEW id1, NEW id2
    PROVE  /\ HasResult(inbox'[d], id1) => HasResult(inbox[d], id1)
           /\ ResultFirst(inbox[d], id1, id2) => ResultFirst(inbox'[d], id1, id2)
<1>1. CASE d # c
  BY <1>1 DEF Delivers
<1>2. CASE d = c
  <2>1. Grows(inbox[c], inbox'[c], m)
    BY DEF Delivers
  <2>2. \A i \in DOMAIN inbox'[c] : inbox'[c][i].type = "result" =>
            i \in DOMAIN inbox[c] /\ inbox'[c][i] = inbox[c][i]
    BY <2>1 DEF Grows
  <2> QED
    BY <1>2, <2>2 DEF HasResult, ResultFirst
<1> QED
  BY <1>1, <1>2

(* The result of the run of one job adds that result, at the end.          *)
LEMMA OneMoreResult ==
    ASSUME NEW box, NEW larger, NEW m, Grows(box, larger, m), NEW id1, NEW id2
    PROVE  /\ HasResult(larger, id1) => HasResult(box, id1) \/ m.id = id1
           /\ ResultFirst(box, id1, id2) /\ id1 # id2
              /\ (m.id = id1 => ~HasResult(box, id2))
              => ResultFirst(larger, id1, id2)
<1>1. HasResult(larger, id1) => HasResult(box, id1) \/ m.id = id1
  BY DEF Grows, HasResult
<1>2. ASSUME ResultFirst(box, id1, id2), id1 # id2, m.id = id1 => ~HasResult(box, id2),
             NEW i \in DOMAIN larger, NEW k \in DOMAIN larger,
             larger[i] = [type |-> "result", id |-> id1],
             larger[k] = [type |-> "result", id |-> id2]
      PROVE  i < k
  <2>1. larger[i].id = id1 /\ larger[k].id = id2
    BY <1>2
  <2>2. CASE k \in DOMAIN box /\ i \in DOMAIN box
    BY <1>2, <2>2 DEF Grows, ResultFirst
  <2>3. CASE k \notin DOMAIN box
    BY <1>2, <2>1, <2>3 DEF Grows
  <2>4. CASE k \in DOMAIN box /\ i \notin DOMAIN box
    BY <1>2, <2>1, <2>4 DEF Grows, HasResult
  <2> QED
    BY <2>2, <2>3, <2>4
<1> QED
  BY <1>1, <1>2 DEF ResultFirst

(* Every step keeps the order.                                             *)
LEMMA OrderStep == OrderInv /\ [Next]_vars => OrderParts'
<1> SUFFICES ASSUME OrderInv, [Next]_vars PROVE OrderParts'
  OBVIOUS
<1>t. TypeOK /\ LoopInv /\ SubmissionInv /\ AnswerInv /\ AnswerParts /\ OrderParts
  BY DEF OrderInv, AnswerInv, HistoryInv, LoopInv
<1>s. \A n \in DOMAIN submitted : submitted[n].connection \in Conns
  BY <1>t, SubmittedAreJobs
<1>d. \A m, n \in DOMAIN submitted : m < n => submitted[m].id # submitted[n].id
  <2>1. submitted \in Seq(Job) /\ \A m \in DOMAIN submitted : m \in Nat
    BY <1>t DEF TypeOK
  <2>2. \A m, n \in DOMAIN submitted : m < n => m # n
    BY <2>1
  <2> QED
    BY <1>t, <2>2 DEF SubmissionInv
<1>1. ASSUME NEW job \in Job, Arrives(job),
             \/ UNCHANGED inbox
             \/ Delivers(job.connection, [type |-> "queue_full", id |-> job.id]),
             UNCHANGED queue \/ queue' = WithJob(queue, job)
      PROVE  OrderParts'
  <2> DEFINE new == Len(submitted) + 1
             b == job.connection
  <2>1. /\ DOMAIN submitted' = DOMAIN submitted \cup {new} /\ submitted'[new] = job
        /\ new \notin DOMAIN submitted
        /\ \A n \in DOMAIN submitted : submitted'[n] = submitted[n] /\ n < new
    BY <1>1 DEF Arrives, Grows
  <2>2. b \in Conns /\ job.id \in JobIds /\ job.id \notin SubmittedIds /\ UNCHANGED running
    BY <1>1 DEF Arrives, Job
  <2>3. NoAnswer(inbox[b], job.id)
    BY <1>t, <2>2, UnsubmittedUnanswered
  <2>4. \A d \in Conns : \A id1, id2 :
           /\ HasResult(inbox'[d], id1) => HasResult(inbox[d], id1)
           /\ ResultFirst(inbox[d], id1, id2) => ResultFirst(inbox'[d], id1, id2)
    <3>1. CASE UNCHANGED inbox
      BY <3>1
    <3>2. CASE Delivers(b, [type |-> "queue_full", id |-> job.id])
      BY <2>2, <3>2, ResultsStay
    <3> QED
      BY <1>1, <3>1, <3>2
  <2>5. \A n \in DOMAIN submitted : submitted[n].id # job.id
    BY <2>2 DEF SubmittedIds
  <2>6. /\ \A n \in DOMAIN submitted : submitted[n] \in queue' => submitted[n] \in queue
        /\ job \notin running
    BY <1>t, <1>1, <2>5 DEF WithJob, SubmissionInv
  <2>7. ~HasResult(inbox'[b], job.id)
    BY <2>2, <2>3, <2>4 DEF HasResult, NoAnswer
  <2>8. ASSUME NEW m \in DOMAIN submitted', NEW n \in DOMAIN submitted',
               m < n, submitted'[m].key = submitted'[n].key
        PROVE  /\ \/ submitted'[n] \in queue' \cup running'
                  \/ HasResult(inbox'[submitted'[n].connection], submitted'[n].id)
                  => submitted'[m] \notin queue'
               /\ \/ submitted'[n] \in running'
                  \/ HasResult(inbox'[submitted'[n].connection], submitted'[n].id)
                  => submitted'[m] \notin running'
               /\ submitted'[m].connection = submitted'[n].connection =>
                     ResultFirst(inbox'[submitted'[n].connection], submitted'[m].id,
                                 submitted'[n].id)
    <3>1. m \in DOMAIN submitted /\ submitted'[m] = submitted[m]
      <4>1. m # new
        BY <2>1, <2>8 DEF Grows
      <4> QED
        BY <2>1, <4>1
    <3>2. CASE n = new
      <4>1. submitted'[n] = job
        BY <2>1, <3>2
      <4>2. submitted[m].key = job.key /\ submitted[m] # job
        BY <2>5, <2>8, <3>1, <4>1
      <4>3. job \in queue' => submitted[m] \notin queue'
        BY <1>t, <1>1, <2>5, <4>2 DEF WithJob, SubmissionInv
      <4>4. ResultFirst(inbox'[b], submitted[m].id, job.id)
        BY <2>7 DEF HasResult, ResultFirst
      <4> QED
        BY <2>2, <2>6, <2>7, <3>1, <4>1, <4>3, <4>4
    <3>3. CASE n # new
      <4>1. n \in DOMAIN submitted /\ submitted'[n] = submitted[n]
        BY <2>1, <3>3
      <4> DEFINE d == submitted[n].connection
      <4>2. d \in Conns
        BY <1>s, <4>1
      <4>3. /\ HasResult(inbox'[d], submitted[n].id) => HasResult(inbox[d], submitted[n].id)
            /\ ResultFirst(inbox[d], submitted[m].id, submitted[n].id)
               => ResultFirst(inbox'[d], submitted[m].id, submitted[n].id)
        BY <2>4, <4>2
      <4> QED
        BY <1>t, <2>2, <2>6, <2>8, <3>1, <4>1, <4>3 DEF OrderParts
    <3> QED
      BY <3>2, <3>3
  <2> QED
    BY <2>8 DEF OrderParts
<1>2. ASSUME NEW job \in Job, Refused(job) \/ Queued(job) PROVE OrderParts'
  BY <1>1, <1>2 DEF Refused, Queued
<1>3. ASSUME NEW job \in Job, Picked(job) PROVE OrderParts'
  <2>1. \A m, n \in DOMAIN submitted : m < n => submitted[m] # submitted[n]
    BY <1>d
  <2> QED
    BY <1>t, <1>3, <2>1 DEF Picked, OrderParts
<1>4. ASSUME NEW c \in Conns, Asked(c) PROVE OrderParts'
  <2>1. \A d \in Conns : \A id1, id2 :
           /\ HasResult(inbox'[d], id1) => HasResult(inbox[d], id1)
           /\ ResultFirst(inbox[d], id1, id2) => ResultFirst(inbox'[d], id1, id2)
    BY <1>4, ResultsStay DEF Asked
  <2> QED
    BY <1>t, <1>s, <1>4, <2>1 DEF Asked, OrderParts
<1>5. ASSUME NEW job \in Job, NEW outcome \in Outcomes, Ended(job, outcome)
      PROVE  OrderParts'
  <2> DEFINE b == job.connection
             msg == [type |-> outcome, id |-> job.id]
  <2>1. job \in running /\ running' = {} /\ UNCHANGED <<submitted, queue>> /\ b \in Conns
        /\ msg.id = job.id
    BY <1>5 DEF Ended, Job
  <2>2. CASE sock[b] = "open"
    <3>1. Grows(inbox[b], inbox'[b], msg) /\ \A d \in Conns : d # b => inbox'[d] = inbox[d]
      BY <1>5, <2>2 DEF Ended, Delivers
    <3> HIDE DEF msg
    <3>2. ASSUME NEW m \in DOMAIN submitted, NEW n \in DOMAIN submitted,
                 m < n, submitted[m].key = submitted[n].key
          PROVE  /\ \/ submitted[n] \in queue
                    \/ HasResult(inbox'[submitted[n].connection], submitted[n].id)
                    => submitted[m] \notin queue
                 /\ submitted[m].connection = submitted[n].connection =>
                       ResultFirst(inbox'[submitted[n].connection], submitted[m].id,
                                   submitted[n].id)
      <4> DEFINE d == submitted[n].connection
      <4>1. d \in Conns /\ submitted[m].id # submitted[n].id
        BY <1>s, <1>d, <3>2
      <4>2. CASE d # b
        BY <1>t, <2>1, <3>1, <3>2, <4>1, <4>2 DEF OrderParts
      <4>3. CASE d = b
        <5>1. /\ HasResult(inbox'[b], submitted[n].id)
                 => HasResult(inbox[b], submitted[n].id) \/ job.id = submitted[n].id
              /\ /\ ResultFirst(inbox[b], submitted[m].id, submitted[n].id)
                 /\ (job.id = submitted[m].id => ~HasResult(inbox[b], submitted[n].id))
                 => ResultFirst(inbox'[b], submitted[m].id, submitted[n].id)
          BY <2>1, <3>1, <4>1, OneMoreResult
        <5>2. /\ job.id = submitted[n].id => submitted[n] \in running
              /\ job.id = submitted[m].id => submitted[m] \in running
          BY <1>t, <2>1 DEF SubmissionInv
        <5> QED
          BY <1>t, <3>2, <4>3, <5>1, <5>2 DEF OrderParts
      <4> QED
        BY <4>2, <4>3
    <3> QED
      BY <2>1, <3>2 DEF OrderParts
  <2>3. CASE sock[b] # "open"
    BY <1>t, <1>5, <2>1, <2>3 DEF Ended, OrderParts
  <2> QED
    BY <2>2, <2>3
<1>6. CASE Aged
  BY <1>t, <1>6 DEF Aged, OrderParts
<1> QED
  BY <1>2, <1>3, <1>4, <1>5, <1>6, <1>t, StepKinds

(* Whatever is superseded, refused, closed or cut off, each answer goes to *)
(* the connection that submitted its job and comes once, and the results   *)
(* for one key come in the order of the submissions (server.ts             *)
(* handleJobComplete, handleJobError, handleSubmit).                       *)
THEOREM AnswersStayRight == Spec => []AnswersAreRight
<1>1. Init => OrderInv
  BY InitLoop DEF Init, OrderInv, AnswerInv, HistoryInv, SubmissionInv, AnswerParts, OrderParts
<1>2. OrderInv /\ [Next]_vars => OrderInv'
  BY LoopStep, SubmissionStep, AnswerStep, OrderStep DEF OrderInv, AnswerInv, HistoryInv
<1>3. OrderInv => AnswersAreRight
  BY PartsAreAnswers, PartsAreOrder DEF OrderInv, AnswerInv, AnswersAreRight
<1> QED
  BY <1>1, <1>2, <1>3, PTL DEF Spec


-----------------------------------------------------------------------------
(* Loss: a submission of a client that stays is answered, waiting, run, or *)
(* superseded by one that was let in.                                      *)
NotRefused(box, id) ==
    \A i \in DOMAIN box : box[i] # [type |-> "queue_full", id |-> id]

Superseded(jobs, socks, boxes, n) ==
    \E m \in DOMAIN jobs :
        /\ m > n /\ jobs[m].key = jobs[n].key
        /\ \/ socks[jobs[m].connection] # "open"
           \/ NotRefused(boxes[jobs[m].connection], jobs[m].id)

LossParts ==
    \A n \in DOMAIN submitted :
        sock[submitted[n].connection] = "open" =>
            \/ ~NoAnswer(inbox[submitted[n].connection], submitted[n].id)
            \/ submitted[n] \in queue \cup running
            \/ Superseded(submitted, sock, inbox, n)

LossInv == AnswerInv /\ LossParts

LEMMA PartsAreLoss == LossParts => NoSilentLoss
BY DEF LossParts, Superseded, NotRefused, NoAnswer, NoSilentLoss, Answered, AnswersTo, Accepted

(* What a message leaves true of an inbox.                                 *)
LEMMA AnswersRemain ==
    ASSUME NEW box, NEW larger, NEW m, Grows(box, larger, m), NEW id
    PROVE  /\ ~NoAnswer(box, id) => ~NoAnswer(larger, id)
           /\ NoAnswer(larger, id) => m.id # id
           /\ NotRefused(box, id) /\ m # [type |-> "queue_full", id |-> id]
              => NotRefused(larger, id)
BY DEF Grows, NoAnswer, NotRefused

\* No answer is taken back, nobody is refused afterwards, and no socket or
\* submission is forgotten.
NothingTakenBack ==
    /\ SocketsAge
    /\ \A n \in DOMAIN submitted :
          LET c == submitted[n].connection
              id == submitted[n].id
          IN /\ n \in DOMAIN submitted' /\ submitted'[n] = submitted[n]
             /\ ~NoAnswer(inbox[c], id) => ~NoAnswer(inbox'[c], id)
             /\ NotRefused(inbox[c], id) => NotRefused(inbox'[c], id)

(* Whoever was superseded stays so.                                        *)
LEMMA SupersededStays ==
    ASSUME TypeOK, SubmissionInv, NothingTakenBack,
           NEW n \in DOMAIN submitted, Superseded(submitted, sock, inbox, n)
    PROVE  Superseded(submitted', sock', inbox', n)
<1>1. PICK m \in DOMAIN submitted :
          /\ m > n /\ submitted[m].key = submitted[n].key
          /\ \/ sock[submitted[m].connection] # "open"
             \/ NotRefused(inbox[submitted[m].connection], submitted[m].id)
  BY DEF Superseded
<1>2. submitted'[m] = submitted[m] /\ submitted'[n] = submitted[n] /\ m \in DOMAIN submitted'
  BY DEF NothingTakenBack
<1>3. CASE sock[submitted[m].connection] # "open"
  <2>1. submitted[m].connection \in Conns /\ sock[submitted[m].connection] # "none"
    BY SubmittedAreJobs DEF SubmissionInv
  <2>2. sock'[submitted[m].connection] # "open"
    BY <1>3, <2>1 DEF NothingTakenBack, SocketsAge
  <2> QED
    BY <1>1, <1>2, <2>2 DEF Superseded
<1>4. CASE NotRefused(inbox[submitted[m].connection], submitted[m].id)
  <2>1. NotRefused(inbox'[submitted[m].connection], submitted[m].id)
    BY <1>4 DEF NothingTakenBack
  <2> QED
    BY <1>1, <1>2, <2>1 DEF Superseded
<1> QED
  BY <1>1, <1>3, <1>4

(* So a step is right if whoever leaves the queue or the worker, and       *)
(* whoever comes, is accounted for.                                        *)
LEMMA LossKept ==
    ASSUME LossInv, NothingTakenBack,
           \A n \in DOMAIN submitted' :
              \/ n \in DOMAIN submitted /\ submitted[n] \notin queue \cup running
              \/ sock'[submitted'[n].connection] # "open"
              \/ ~NoAnswer(inbox'[submitted'[n].connection], submitted'[n].id)
              \/ submitted'[n] \in queue' \cup running'
              \/ Superseded(submitted', sock', inbox', n)
    PROVE  LossParts'
<1>t. TypeOK /\ SubmissionInv /\ LossParts
  BY DEF LossInv, AnswerInv, HistoryInv, LoopInv
<1>1. ASSUME NEW n \in DOMAIN submitted, submitted[n] \notin queue \cup running,
             sock'[submitted[n].connection] = "open"
      PROVE  \/ ~NoAnswer(inbox'[submitted[n].connection], submitted[n].id)
             \/ Superseded(submitted', sock', inbox', n)
  <2>1. submitted[n].connection \in Conns /\ sock[submitted[n].connection] # "none"
    BY <1>t, SubmittedAreJobs DEF SubmissionInv
  <2>2. sock[submitted[n].connection] = "open"
    BY <1>1, <2>1 DEF NothingTakenBack, SocketsAge
  <2>3. CASE ~NoAnswer(inbox[submitted[n].connection], submitted[n].id)
    BY <2>3 DEF NothingTakenBack
  <2>4. CASE Superseded(submitted, sock, inbox, n)
    BY <1>t, <2>4, SupersededStays
  <2> QED
    BY <1>t, <1>1, <2>2, <2>3, <2>4 DEF LossParts
<1>2. \A n \in DOMAIN submitted : submitted'[n] = submitted[n]
  BY DEF NothingTakenBack
<1> QED
  BY <1>1, <1>2 DEF LossParts

(* A message takes nothing back, unless it refuses what was there before.  *)
LEMMA DeliveryTakesNothingBack ==
    ASSUME NEW c, NEW m, NEW d \in Conns, NEW id,
           Delivers(c, m), m.type # "queue_full" \/ m.id # id
    PROVE  /\ ~NoAnswer(inbox[d], id) => ~NoAnswer(inbox'[d], id)
           /\ NotRefused(inbox[d], id) => NotRefused(inbox'[d], id)
<1>1. CASE d # c
  BY <1>1 DEF Delivers
<1>2. CASE d = c
  <2>1. Grows(inbox[c], inbox'[c], m) /\ m # [type |-> "queue_full", id |-> id]
    BY DEF Delivers
  <2> QED
    BY <1>2, <2>1, AnswersRemain
<1> QED
  BY <1>1, <1>2

(* Every step loses nobody.                                                *)
LEMMA LossStep == LossInv /\ [Next]_vars => LossParts'
<1> SUFFICES ASSUME LossInv, [Next]_vars PROVE LossParts'
  OBVIOUS
<1>t. TypeOK /\ LoopInv /\ SubmissionInv /\ AnswerInv /\ AnswerParts
  BY DEF LossInv, AnswerInv, HistoryInv, LoopInv
<1>s. \A n \in DOMAIN submitted : submitted[n].connection \in Conns /\ submitted[n].id \in JobIds
  BY <1>t, SubmittedAreJobs
<1>1. ASSUME NEW job \in Job, Arrives(job)
      PROVE  /\ job.connection \in Conns
             /\ DOMAIN submitted' = DOMAIN submitted \cup {Len(submitted) + 1}
             /\ submitted'[Len(submitted) + 1] = job
             /\ \A n \in DOMAIN submitted : /\ submitted'[n] = submitted[n]
                                            /\ submitted[n].id # job.id
                                            /\ n < Len(submitted) + 1
             /\ NoAnswer(inbox[job.connection], job.id)
             /\ SocketsAge
  <2>1. job.connection \in Conns /\ job.id \in JobIds
    BY DEF Job
  <2>2. NoAnswer(inbox[job.connection], job.id)
    BY <1>t, <1>1, <2>1, UnsubmittedUnanswered DEF Arrives
  <2> QED
    BY <1>1, <2>1, <2>2 DEF Arrives, Grows, SubmittedIds, SocketsAge
<1>2. ASSUME NEW job \in Job, Refused(job) PROVE LossParts'
  <2> DEFINE m == [type |-> "queue_full", id |-> job.id]
             b == job.connection
  <2>1. Arrives(job) /\ UNCHANGED <<queue, running>> /\ Delivers(b, m) /\ m.id = job.id
    BY <1>2 DEF Refused, Arrives
  <2> HIDE DEF m
  <2>k. ASSUME NEW n \in DOMAIN submitted
        PROVE  /\ ~NoAnswer(inbox[submitted[n].connection], submitted[n].id)
                  => ~NoAnswer(inbox'[submitted[n].connection], submitted[n].id)
               /\ NotRefused(inbox[submitted[n].connection], submitted[n].id)
                  => NotRefused(inbox'[submitted[n].connection], submitted[n].id)
    <3>1. m.id # submitted[n].id /\ submitted[n].connection \in Conns
      BY <1>s, <1>1, <2>1
    <3> QED
      BY <2>1, <3>1, DeliveryTakesNothingBack
  <2>2. NothingTakenBack
    BY <1>1, <2>1, <2>k DEF NothingTakenBack
  <2>3. ~NoAnswer(inbox'[b], job.id)
    BY <2>1, AnswersRemain DEF Delivers
  <2> QED
    BY <1>1, <2>1, <2>2, <2>3, LossKept
<1>3. ASSUME NEW job \in Job, Queued(job) PROVE LossParts'
  <2> DEFINE new == Len(submitted) + 1
  <2>1. Arrives(job) /\ UNCHANGED <<inbox, running>> /\ queue' = WithJob(queue, job)
    BY <1>3 DEF Queued, Arrives
  <2>2. NothingTakenBack
    BY <1>1, <2>1 DEF NothingTakenBack
  <2>3. job \in queue' /\ \A j \in queue : j \in queue' \/ j.key = job.key
    BY <2>1 DEF WithJob
  <2>4. NotRefused(inbox'[job.connection], job.id)
    BY <1>1, <2>1 DEF NoAnswer, NotRefused
  <2>5. \A n \in DOMAIN submitted :
            submitted[n].key = job.key => Superseded(submitted', sock', inbox', n)
    BY <1>1, <2>1, <2>4 DEF Superseded
  <2> QED
    BY <1>1, <2>1, <2>2, <2>3, <2>5, LossKept
<1>4. ASSUME NEW job \in Job, Picked(job) PROVE LossParts'
  <2>1. NothingTakenBack
    BY <1>4 DEF Picked, NothingTakenBack, SocketsAge
  <2> QED
    BY <1>4, <2>1, LossKept DEF Picked
<1>5. ASSUME NEW c \in Conns, Asked(c) PROVE LossParts'
  <2>1. NothingTakenBack
    BY <1>s, <1>5, DeliveryTakesNothingBack DEF Asked, NothingTakenBack, SocketsAge
  <2> QED
    BY <1>5, <2>1, LossKept DEF Asked
<1>6. ASSUME NEW job \in Job, NEW outcome \in Outcomes, Ended(job, outcome)
      PROVE  LossParts'
  <2> DEFINE m == [type |-> outcome, id |-> job.id]
             b == job.connection
  <2>1. /\ b \in Conns /\ running = {job} /\ running' = {} /\ UNCHANGED <<submitted, queue>>
        /\ m.type # "queue_full" /\ m.id = job.id /\ SocketsAge /\ sock[b] # "none"
    BY <1>t, <1>6 DEF Ended, Job, Outcomes, LoopInv, OneLoop, SubmissionInv
  <2>2. CASE sock[b] = "open"
    <3>1. Delivers(b, m)
      BY <1>6, <2>2 DEF Ended
    <3> HIDE DEF m
    <3>2. NothingTakenBack
      BY <1>s, <2>1, <3>1, DeliveryTakesNothingBack DEF NothingTakenBack
    <3>3. ~NoAnswer(inbox'[b], job.id)
      BY <2>1, <3>1, AnswersRemain DEF Delivers
    <3> QED
      BY <2>1, <3>2, <3>3, LossKept
  <2>3. CASE sock[b] # "open"
    <3>1. UNCHANGED inbox /\ sock'[b] # "open"
      BY <1>6, <2>1, <2>3 DEF Ended, SocketsAge
    <3>2. NothingTakenBack
      BY <2>1, <3>1 DEF NothingTakenBack
    <3> QED
      BY <2>1, <3>1, <3>2, LossKept
  <2> QED
    BY <2>2, <2>3
<1>7. CASE Aged
  <2>1. NothingTakenBack
    BY <1>7 DEF Aged, NothingTakenBack
  <2> QED
    BY <1>7, <2>1, LossKept DEF Aged
<1> QED
  BY <1>2, <1>3, <1>4, <1>5, <1>6, <1>7, <1>t, StepKinds

(* No submission of a connected client disappears: it is answered, pending *)
(* or run, or a later one of its key took its place, however submissions,  *)
(* runs, closes and a shutdown interleave (server.ts handleSubmit,         *)
(* queue.ts enqueue).                                                      *)
THEOREM NothingIsLostSilently == Spec => []NoSilentLoss
<1>1. Init => LossInv
  BY InitLoop DEF Init, LossInv, AnswerInv, HistoryInv, SubmissionInv, AnswerParts, LossParts
<1>2. LossInv /\ [Next]_vars => LossInv'
  BY LoopStep, SubmissionStep, AnswerStep, LossStep DEF LossInv, AnswerInv, HistoryInv
<1>3. LossInv => NoSilentLoss
  BY PartsAreLoss DEF LossInv
<1> QED
  BY <1>1, <1>2, <1>3, PTL DEF Spec

-----------------------------------------------------------------------------
(* BrokerLifecycle: the inductive invariant. *)

AllOff == \A b \in Pids : ~Running(b)

Starting(b) == pc[b] \in {"guard", "readPid", "probe", "checkSock", "sockOnly", "rmSock", "rmSockOnly",
                          "rmPid", "write", "writing", "starting"}

OneRuns == \A b1, b2 \in Pids : Running(b1) /\ Running(b2) => b1 = b2

\* A client that replaces a broker knows that none runs, and one that has got past
\* the socket that there is none.
ReplacersAreAlone ==
    \A c \in Clients : /\ Replacing(c) => AllOff
                       /\ at[c] \in {"rmPid", "spawn"} => sockFile = None

\* Nobody looks at the files of a broker that starts; what it has written stays.
StartsAreUnseen ==
    \A b \in Pids : Starting(b) =>
        /\ sockFile = None /\ \A c \in Clients : ~Checking(c)
        /\ pc[b] = "writing" => b \in writers
        /\ pc[b] = "starting" => pidFile = b

\* Whoever has read a listening broker's PID file has read its id.
ListenersAreFound ==
    \A b \in Pids : Listening(b) =>
        /\ sockFile = b /\ pidFile = b
        /\ \A c \in Clients : at[c] = "probe" => seen[c] = b

AloneParts ==
    ~Contended /\ OneRuns /\ ReplacersAreAlone /\ StartsAreUnseen /\ ListenersAreFound

\* Unless one was killed, the socket belongs to a broker that takes connections.
SocketServed == (~killed /\ sockFile # None) => Accepts(sockFile)

LifecycleInv == LifecycleTypeOK /\ (~overlap => AloneParts) /\ SocketServed

-----------------------------------------------------------------------------
(* Types. *)

(* Every field keeps its type, and a client's connection its agreement     *)
(* with where the client thinks it is.                                     *)
LEMMA LifecycleTypes == LifecycleTypeOK /\ [LifecycleNext]_lifecycleVars => LifecycleTypeOK'
<1> SUFFICES ASSUME LifecycleTypeOK, [LifecycleNext]_lifecycleVars PROVE LifecycleTypeOK'
  OBVIOUS
<1> USE LifecycleAssumption DEF LifecycleTypeOK
<1>f. Fail => failures' \in 0..MaxFailures /\ UNCHANGED <<leaves, overlap>>
  BY DEF Fail
<1>g. ASSUME NEW b \in Pids, NEW where \in BrokerPoints \ {"probe"}, Goto(b, where)
      PROVE  /\ pc' \in [Pids -> BrokerPoints] /\ found' \in [Pids -> Pids \cup {None}]
             /\ \A x \in Pids : pc'[x] = "probe" => found'[x] # None
  BY <1>g DEF Goto
<1>1. ASSUME NEW b \in Pids,
             \/ ExistsPid(b) \/ ExistsSock(b) \/ RemoveSock(b) \/ RemoveStalePid(b) \/ OpenPid(b)
             \/ WritePid(b) \/ Listen(b)
      PROVE  LifecycleTypeOK'
  <2>1. \E where \in BrokerPoints \ {"probe"} : Goto(b, where)
    BY <1>1 DEF ExistsPid, ExistsSock, TrustsWithSocket, RemoveSock, RemoveStalePid, OpenPid, WritePid,
                Listen, BrokerPoints
  <2>2. /\ pidFile' \in Pids \cup {None, Empty} /\ sockFile' \in Pids \cup {None}
        /\ writers' \subseteq Pids /\ UNCHANGED <<clients, counts, overlap>>
    BY <1>1 DEF ExistsPid, ExistsSock, RemoveSock, RemoveStalePid, OpenPid, WritePid, Listen, UnlinkPid,
                files
  <2> QED
    BY <1>g, <2>1, <2>2 DEF counts, clients
<1>2. ASSUME NEW b \in Pids, Terminate(b) \/ Crash(b)
      PROVE  LifecycleTypeOK'
  <2>1. \E where \in BrokerPoints \ {"probe"} : Goto(b, where)
    BY <1>2 DEF Terminate, Crash, BrokerPoints
  <2> QED
    BY <1>2, <1>f, <1>g, <2>1 DEF Terminate, Crash, files, clients
<1>3. ASSUME NEW b \in Pids, ReadPid(b)
      PROVE  LifecycleTypeOK'
  <2>1. /\ pc' \in [Pids -> BrokerPoints] /\ found' \in [Pids -> Pids \cup {None}]
        /\ \A x \in Pids : pc'[x] = "probe" => found'[x] # None
    <3>1. CASE pidFile \in Pids
      BY <1>3, <3>1 DEF ReadPid, Goto, BrokerPoints
    <3>2. CASE pidFile \notin Pids
      <4>1. \E where \in BrokerPoints \ {"probe"} : Goto(b, where)
        BY <1>3, <3>2 DEF ReadPid, BrokerPoints
      <4> QED
        BY <1>g, <4>1
    <3> QED
      BY <3>1, <3>2
  <2> QED
    BY <1>3, <2>1 DEF ReadPid, files, clients, counts
<1>4. ASSUME NEW b \in Pids, Probe(b)
      PROVE  LifecycleTypeOK'
  <2>1. /\ pc' \in [Pids -> BrokerPoints] /\ found' \in [Pids -> Pids \cup {None}]
        /\ \A x \in Pids : pc'[x] = "probe" => found'[x] # None
    BY <1>4 DEF Probe, BrokerPoints
  <2> QED
    BY <1>4, <2>1 DEF Probe, files, clients, counts
<1>5. ASSUME NEW b \in Pids, DropConnections(b)
      PROVE  /\ at' \in [Clients -> ClientPoints] /\ seen' \in [Clients -> Pids \cup {None}]
             /\ timer' \in [Clients -> BOOLEAN] /\ conn' \in [Clients -> Pids \cup {None}]
             /\ \A c \in Clients : (at'[c] = "connected") = (conn'[c] # None)
             /\ \A c \in Clients : at'[c] = "probe" => seen'[c] # None
  <2>1. /\ at' \in [Clients -> ClientPoints] /\ seen' \in [Clients -> Pids \cup {None}]
        /\ conn' \in [Clients -> Pids \cup {None}]
    BY <1>5 DEF DropConnections, ClientPoints
  <2>2. timer' \in [Clients -> BOOLEAN]
    BY <1>5 DEF DropConnections
  <2>3. ASSUME NEW c \in Clients
        PROVE  /\ (at'[c] = "connected") = (conn'[c] # None)
               /\ at'[c] = "probe" => seen'[c] # None
    BY <1>5 DEF DropConnections
  <2> QED
    BY <2>1, <2>2, <2>3
<1>6. ASSUME NEW b \in Pids, RemovePidAndExit(b) \/ CloseServer(b)
      PROVE  LifecycleTypeOK'
  <2>1. \E where \in BrokerPoints \ {"probe"} : Goto(b, where)
    BY <1>6 DEF RemovePidAndExit, CloseServer, BrokerPoints
  <2>2. DropConnections(b)
    BY <1>6 DEF RemovePidAndExit, CloseServer
  <2>3. /\ pidFile' \in Pids \cup {None, Empty} /\ sockFile' \in Pids \cup {None}
        /\ writers' \subseteq Pids /\ UNCHANGED <<counts, overlap>>
    BY <1>6 DEF RemovePidAndExit, CloseServer, UnlinkPid
  <2> QED
    BY <1>5, <1>g, <2>1, <2>2, <2>3 DEF counts
<1>7. ASSUME NEW b \in Pids, Kill(b)
      PROVE  LifecycleTypeOK'
  <2>1. /\ pc' \in [Pids -> BrokerPoints] /\ found' \in [Pids -> Pids \cup {None}]
        /\ \A x \in Pids : pc'[x] = "probe" => found'[x] # None
    BY <1>7 DEF Kill, BrokerPoints
  <2>2. DropConnections(b)
    BY <1>7 DEF Kill
  <2> QED
    BY <1>5, <1>7, <1>f, <2>1, <2>2 DEF Kill
<1>8. ASSUME NEW c \in Clients, NEW where \in ClientPoints \ {"connected", "probe"}, GotoC(c, where),
             at[c] # "connected"
      PROVE  /\ at' \in [Clients -> ClientPoints] /\ UNCHANGED <<seen, timer, conn>>
             /\ \A d \in Clients : (at'[d] = "connected") = (conn'[d] # None)
             /\ \A d \in Clients : at'[d] = "probe" => seen'[d] # None
  BY <1>8 DEF GotoC
<1>9. ASSUME NEW c \in Clients,
             \/ Check(c) \/ ClientExistsPid(c) \/ ClientRemovesSock(c) \/ ClientRemovesPid(c)
             \/ WaitForSocket(c)
      PROVE  LifecycleTypeOK'
  <2>1. at[c] # "connected" /\ UNCHANGED <<brokers, counts>>
    BY <1>9 DEF Check, ClientExistsPid, ClientRemovesSock, ClientRemovesPid, WaitForSocket
  <2>2. \E where \in ClientPoints \ {"connected", "probe"} : GotoC(c, where)
    BY <1>9 DEF Check, AfterSocket, ClientExistsPid, ClientRemovesSock, ClientRemovesPid, WaitForSocket,
                ClientPoints
  <2>3. /\ pidFile' \in Pids \cup {None, Empty} /\ sockFile' \in Pids \cup {None}
        /\ writers' \subseteq Pids
    BY <1>9 DEF Check, ClientExistsPid, ClientRemovesSock, ClientRemovesPid, WaitForSocket, UnlinkPid, files
  <2>4. overlap' \in BOOLEAN
    BY <1>9 DEF Check, ClientExistsPid, ClientRemovesSock, ClientRemovesPid, WaitForSocket, NoteOverlap
  <2> QED
    BY <1>8, <2>1, <2>2, <2>3, <2>4 DEF counts, brokers
<1>10. ASSUME NEW c \in Clients, Spawn(c)
       PROVE  LifecycleTypeOK'
  <2>1. /\ pc' \in [Pids -> BrokerPoints] /\ found' \in [Pids -> Pids \cup {None}]
        /\ \A x \in Pids : pc'[x] = "probe" => found'[x] # None
    BY <1>10 DEF Spawn, FreePids, BrokerPoints
  <2>2. at[c] # "connected" /\ GotoC(c, "wait") /\ "wait" \in ClientPoints \ {"connected", "probe"}
    BY <1>10 DEF Spawn, ClientPoints
  <2> QED
    BY <1>8, <1>10, <2>1, <2>2 DEF Spawn, files, counts
<1>h. ASSUME NEW c \in Clients, NEW where \in ClientPoints, NEW s \in Pids \cup {None},
             at' = [at EXCEPT ![c] = where], seen' = [seen EXCEPT ![c] = s],
             timer' \in [Clients -> BOOLEAN], conn' \in [Clients -> Pids \cup {None}],
             \A d \in Clients : d # c => conn'[d] = conn[d],
             (where = "connected") = (conn'[c] # None), where = "probe" => s # None
      PROVE  /\ at' \in [Clients -> ClientPoints] /\ seen' \in [Clients -> Pids \cup {None}]
             /\ \A d \in Clients : (at'[d] = "connected") = (conn'[d] # None)
             /\ \A d \in Clients : at'[d] = "probe" => seen'[d] # None
  <2>1. at' \in [Clients -> ClientPoints] /\ seen' \in [Clients -> Pids \cup {None}]
    BY <1>h
  <2>2. ASSUME NEW d \in Clients
        PROVE  (at'[d] = "connected") = (conn'[d] # None) /\ (at'[d] = "probe" => seen'[d] # None)
    BY <1>h
  <2> QED
    BY <2>1, <2>2
<1>11. ASSUME NEW c \in Clients, ClientReadPid(c) \/ ClientProbe(c)
       PROVE  LifecycleTypeOK'
  <2>1. \E where \in ClientPoints \ {"connected"}, s \in Pids \cup {None} :
            /\ at' = [at EXCEPT ![c] = where] /\ seen' = [seen EXCEPT ![c] = s]
            /\ where = "probe" => s # None
    <3>1. CASE ClientProbe(c)
      <4>1. \E where \in {"connect", "rmSock"} : at' = [at EXCEPT ![c] = where]
        BY <3>1 DEF ClientProbe
      <4> QED
        BY <3>1, <4>1 DEF ClientProbe, ClientPoints
    <3>2. CASE ClientReadPid(c) /\ pidFile \in Pids
      BY <3>2 DEF ClientReadPid, LookThrows, GotoC, ClientPoints
    <3>3. CASE ClientReadPid(c) /\ pidFile \notin Pids
      <4>1. \E where \in {"idle", "failed", "rmSock"} : at' = [at EXCEPT ![c] = where]
        BY <3>3 DEF ClientReadPid, LookThrows, GotoC
      <4>2. seen' = [seen EXCEPT ![c] = seen[c]] /\ seen[c] \in Pids \cup {None}
        BY <3>3 DEF ClientReadPid, LookThrows, GotoC
      <4> QED
        BY <4>1, <4>2 DEF ClientPoints
    <3> QED
      BY <1>11, <3>1, <3>2, <3>3
  <2>2. /\ at[c] # "connected" /\ UNCHANGED <<files, brokers, counts, conn>>
        /\ timer' \in [Clients -> BOOLEAN]
    BY <1>11 DEF ClientReadPid, LookThrows, GotoC, ClientProbe
  <2>3. overlap' \in BOOLEAN
    BY <1>11 DEF ClientReadPid, ClientProbe, NoteOverlap
  <2> QED
    BY <1>h, <2>1, <2>2, <2>3 DEF files, brokers, counts
<1>14. ASSUME NEW c \in Clients, EndSession(c)
       PROVE  LifecycleTypeOK'
  <2>1. /\ at' = [at EXCEPT ![c] = "idle"] /\ seen' = [seen EXCEPT ![c] = None]
        /\ conn' = [conn EXCEPT ![c] = None] /\ timer' \in [Clients -> BOOLEAN]
        /\ "idle" \in ClientPoints
    BY <1>14 DEF EndSession, ClientPoints
  <2>2. /\ conn' \in [Clients -> Pids \cup {None}] /\ conn'[c] = None
        /\ \A d \in Clients : d # c => conn'[d] = conn[d]
    BY <2>1
  <2>3. leaves' \in 0..MaxLeaves /\ UNCHANGED <<files, brokers, failures, killed, overlap>>
    BY <1>14 DEF EndSession
  <2> QED
    BY <1>h, <2>1, <2>2, <2>3 DEF files, brokers
<1>12. ASSUME NEW c \in Clients, AttemptConnect(c)
       PROVE  LifecycleTypeOK'
  <2>1. /\ at' \in [Clients -> ClientPoints] /\ conn' \in [Clients -> Pids \cup {None}]
        /\ timer' \in [Clients -> BOOLEAN]
    BY <1>12 DEF AttemptConnect, ClientPoints
  <2>2. ASSUME NEW d \in Clients
        PROVE  (at'[d] = "connected") = (conn'[d] # None) /\ (at'[d] = "probe" => seen'[d] # None)
    BY <1>12 DEF AttemptConnect
  <2> QED
    BY <1>12, <2>1, <2>2 DEF AttemptConnect, files, brokers, counts
<1>13. CASE UNCHANGED lifecycleVars
  BY <1>13 DEF lifecycleVars, files, brokers, clients, counts
<1> QED
  BY <1>1, <1>2, <1>3, <1>4, <1>6, <1>7, <1>9, <1>10, <1>11, <1>12, <1>13, <1>14
  DEF LifecycleNext, BrokerStep, Guard, ClientStep

-----------------------------------------------------------------------------
(* One process at a time, while no replacement overlaps another process. *)

BrokerActs(b) == BrokerStep(b) \/ Terminate(b) \/ Crash(b) \/ Kill(b)

\* A step of a broker process changes its own place, nobody else's, and lets no
\* client start to look.
StepOf(b) ==
    /\ pc[b] # "off" /\ \A x \in Pids \ {b} : pc'[x] = pc[x]
    /\ \A c \in Clients : at'[c] = at[c] \/ at'[c] = "idle"
    /\ UNCHANGED <<seen, overlap>>

LEMMA BrokerSteps ==
    ASSUME LifecycleTypeOK, NEW b \in Pids, BrokerActs(b)
    PROVE  StepOf(b)
<1> USE DEF LifecycleTypeOK
<1>1. ASSUME NEW where, Goto(b, where)
      PROVE  \A x \in Pids \ {b} : pc'[x] = pc[x]
  BY <1>1 DEF Goto
<1>2. CASE ExistsPid(b) \/ ExistsSock(b) \/ RemoveSock(b) \/ RemoveStalePid(b) \/ OpenPid(b)
           \/ WritePid(b) \/ Listen(b) \/ Terminate(b) \/ Crash(b)
  BY <1>1, <1>2 DEF ExistsPid, ExistsSock, RemoveSock, RemoveStalePid, OpenPid, WritePid, Listen,
                    Terminate, Crash, Listening, Fail, clients, StepOf
<1>3. CASE ReadPid(b) \/ Probe(b)
  <2>1. \A x \in Pids \ {b} : pc'[x] = pc[x]
    BY <1>1, <1>3 DEF ReadPid, Probe
  <2> QED
    BY <1>3, <2>1 DEF ReadPid, Probe, clients, StepOf
<1>4. CASE RemovePidAndExit(b) \/ CloseServer(b) \/ Kill(b)
  <2>1. \A x \in Pids \ {b} : pc'[x] = pc[x]
    BY <1>1, <1>4 DEF RemovePidAndExit, CloseServer, Kill
  <2>2. pc[b] # "off" /\ UNCHANGED <<seen, overlap>>
    BY <1>4 DEF RemovePidAndExit, CloseServer, Kill, DropConnections, Running, Fail
  <2>3. \A c \in Clients : at'[c] = at[c] \/ at'[c] = "idle"
    BY <1>4 DEF RemovePidAndExit, CloseServer, Kill, DropConnections
  <2> QED
    BY <2>1, <2>2, <2>3 DEF StepOf
<1> QED
  BY <1>2, <1>3, <1>4 DEF BrokerActs, BrokerStep, Guard

(* What a broker's step leaves of the files, if it is the one that runs.   *)
LEMMA BrokerFiles ==
    ASSUME LifecycleTypeOK, AloneParts, NEW b \in Pids, BrokerActs(b)
    PROVE  /\ Starting(b)' => Starting(b) /\ sockFile' = None
           /\ pc'[b] = "writing" => b \in writers'
           /\ pc'[b] = "starting" => pidFile' = b
           /\ Listening(b)' => /\ sockFile' = b /\ pidFile' = b
                               /\ Listening(b) \/ Starting(b)
<1> USE DEF LifecycleTypeOK, AloneParts, StartsAreUnseen, ListenersAreFound, Starting, Listening
<1>1. ASSUME NEW where, Goto(b, where)
      PROVE  pc'[b] = where
  BY <1>1 DEF Goto
<1>2. CASE ExistsPid(b) \/ ExistsSock(b)
  BY <1>1, <1>2 DEF ExistsPid, ExistsSock, TrustsWithSocket, files
<1>3. CASE ReadPid(b)
  BY <1>1, <1>3 DEF ReadPid, files
<1>4. CASE Probe(b)
  <2>1. pc'[b] \in {"checkSock", "rmSock"} /\ pc[b] = "probe" /\ sockFile' = sockFile
    BY <1>4 DEF Probe, files
  <2> QED
    BY <2>1
<1>5. CASE RemoveSock(b) \/ RemoveStalePid(b) \/ RemovePidAndExit(b)
  BY <1>1, <1>5 DEF RemoveSock, RemoveStalePid, RemovePidAndExit
<1>6. CASE OpenPid(b) \/ WritePid(b)
  BY <1>1, <1>6 DEF OpenPid, WritePid
<1>7. CASE Listen(b)
  BY <1>1, <1>7 DEF Listen
<1>8. CASE CloseServer(b) \/ Terminate(b) \/ Crash(b)
  BY <1>1, <1>8 DEF CloseServer, Terminate, Crash, files
<1>9. CASE Kill(b)
  <2>1. pc'[b] = "off"
    BY <1>9 DEF Kill
  <2> QED
    BY <2>1
<1> QED
  BY <1>2, <1>3, <1>4, <1>5, <1>6, <1>7, <1>8, <1>9 DEF BrokerActs, BrokerStep, Guard

LEMMA BrokerKeepsAlone ==
    ASSUME LifecycleTypeOK, AloneParts, NEW b \in Pids, BrokerActs(b)
    PROVE  AloneParts'
<1>1. StepOf(b)
  BY BrokerSteps
<1>2. \A x \in Pids \ {b} : pc[x] = "off" /\ pc'[x] = "off"
  BY <1>1 DEF StepOf, AloneParts, OneRuns, Running
<1>3. OneRuns'
  BY <1>2 DEF OneRuns, Running
<1>4. \A c \in Clients : ~Replacing(c)'
  BY <1>1 DEF StepOf, AloneParts, ReplacersAreAlone, Replacing, AllOff, Running
<1>5. ~Contended' /\ ReplacersAreAlone'
  BY <1>4 DEF Contended, ReplacersAreAlone, Replacing
<1>6. \A c \in Clients : Checking(c)' => Checking(c)
  BY <1>1 DEF StepOf, Checking
<1>7. StartsAreUnseen'
  BY <1>2, <1>6, BrokerFiles DEF AloneParts, StartsAreUnseen, Starting
<1>8. ListenersAreFound'
  <2>1. SUFFICES ASSUME Listening(b)', NEW c \in Clients, at'[c] = "probe" PROVE seen'[c] = b
    BY <1>2, BrokerFiles DEF ListenersAreFound, Listening
  <2>2. at[c] = "probe" /\ seen'[c] = seen[c]
    BY <1>1, <2>1 DEF StepOf
  <2> QED
    BY <2>1, <2>2, BrokerFiles DEF AloneParts, StartsAreUnseen, ListenersAreFound, Checking
<1> QED
  BY <1>3, <1>5, <1>7, <1>8 DEF AloneParts

\* The steps at which a client begins to check or to replace a broker.
Looks(c) == Check(c) \/ ClientExistsPid(c) \/ ClientReadPid(c) \/ ClientProbe(c)

(* A client that looks finds a broker that listens, or that none runs, or  *)
(* overlaps one that starts or ends.                                       *)
LEMMA LookKeepsAlone ==
    ASSUME LifecycleTypeOK, AloneParts, NEW c \in Clients, Looks(c), ~overlap'
    PROVE  AloneParts'
<1> USE DEF LifecycleTypeOK
<1>1. ~Contended' /\ UNCHANGED <<pidFile, writers, sockFile, pc>>
  BY DEF Looks, Check, ClientExistsPid, ClientReadPid, ClientProbe, NoteOverlap, files, brokers
<1>2. \A d \in Clients \ {c} : at'[d] = at[d] /\ seen'[d] = seen[d]
  BY DEF Looks, Check, ClientExistsPid, ClientReadPid, ClientProbe, GotoC, LookThrows
<1>3. Checking(c)' => Checking(c) \/ sockFile # None
  BY DEF Looks, Check, AfterSocket, ClientExistsPid, ClientReadPid, ClientProbe, GotoC, LookThrows, Checking
<1>4. at'[c] \notin {"rmPid"} /\ (at'[c] = "spawn" => sockFile = None)
  BY DEF Looks, Check, AfterSocket, ClientExistsPid, ClientReadPid, ClientProbe, GotoC, LookThrows
<1>5. ASSUME NEW b \in Pids, Listening(b) PROVE ~Replacing(c)' /\ (at'[c] = "probe" => seen'[c] = b)
  <2>1. /\ sockFile = b /\ pidFile = b /\ b \notin {None, Empty}
        /\ at[c] = "probe" => seen[c] = b
    BY <1>5, LifecycleAssumption DEF AloneParts, ListenersAreFound
  <2>2. Running(b)
    BY <1>5 DEF Listening, Running
  <2>3. CASE Check(c)
    BY <2>1, <2>3 DEF Check, AfterSocket, GotoC, Replacing
  <2>4. CASE ClientExistsPid(c)
    BY <2>1, <2>4 DEF ClientExistsPid, GotoC, Replacing
  <2>5. CASE ClientReadPid(c)
    <3>1. at' = [at EXCEPT ![c] = "probe"] /\ seen' = [seen EXCEPT ![c] = b]
      BY <2>1, <2>5 DEF ClientReadPid
    <3> QED
      BY <3>1 DEF Replacing
  <2>6. CASE ClientProbe(c)
    BY <2>1, <2>2, <2>6 DEF ClientProbe, Replacing
  <2> QED
    BY <2>3, <2>4, <2>5, <2>6 DEF Looks
<1>6. OneRuns'
  BY <1>1 DEF AloneParts, OneRuns, Running
<1>7. Replacing(c)' => AllOff'
  BY <1>1, <1>5 DEF Contended, AllOff, Running, Listening
<1>8. ReplacersAreAlone'
  <2>1. \A d \in Clients \ {c} : Replacing(d)' = Replacing(d)
    BY <1>2 DEF Replacing
  <2>2. AllOff' = AllOff
    BY <1>1 DEF AllOff, Running
  <2> QED
    BY <1>1, <1>2, <1>4, <1>7, <2>1, <2>2 DEF AloneParts, ReplacersAreAlone
<1>9. StartsAreUnseen'
  <2>1. \A d \in Clients \ {c} : Checking(d)' = Checking(d)
    BY <1>2 DEF Checking
  <2> QED
    BY <1>1, <1>3, <2>1 DEF AloneParts, StartsAreUnseen, Starting
<1>10. ListenersAreFound'
  BY <1>1, <1>2, <1>5 DEF AloneParts, ListenersAreFound, Listening
<1> QED
  BY <1>1, <1>6, <1>8, <1>9, <1>10 DEF AloneParts

LEMMA ClientKeepsAlone ==
    ASSUME LifecycleTypeOK, AloneParts, NEW c \in Clients, ClientStep(c) \/ EndSession(c), ~Looks(c)
    PROVE  AloneParts'
<1> USE DEF LifecycleTypeOK
<1>1. ASSUME NEW where, GotoC(c, where)
      PROVE  at'[c] = where /\ seen' = seen /\ \A d \in Clients \ {c} : at'[d] = at[d]
  BY <1>1 DEF GotoC
<1>2. CASE ClientRemovesSock(c) \/ ClientRemovesPid(c)
  <2>1. /\ Replacing(c) /\ AllOff /\ at'[c] \in {"rmPid", "spawn"} /\ UNCHANGED <<pc, seen>>
        /\ \A d \in Clients \ {c} : at'[d] = at[d]
        /\ sockFile' = None
    BY <1>1, <1>2 DEF ClientRemovesSock, ClientRemovesPid, AloneParts, ReplacersAreAlone, Replacing, brokers
  <2>2. AllOff' /\ Replacing(c)'
    BY <2>1 DEF AllOff, Running, Replacing
  <2>3. \A d \in Clients : Replacing(d)' = Replacing(d) /\ Checking(d)' = Checking(d)
    BY <2>1, <2>2 DEF Replacing, Checking
  <2>4. ~Contended'
    BY <2>1, <2>3 DEF AloneParts, Contended, Running, Listening
  <2> QED
    BY <2>1, <2>2, <2>4 DEF AloneParts, OneRuns, ReplacersAreAlone, StartsAreUnseen, ListenersAreFound,
                            AllOff, Running, Starting, Listening
<1>3. CASE Spawn(c)
  <2>1. PICK b \in FreePids : pc' = [pc EXCEPT ![b] = "guard"]
    BY <1>3 DEF Spawn
  <2>2. /\ AllOff /\ Replacing(c) /\ sockFile = None /\ at'[c] = "wait" /\ UNCHANGED files
        /\ \A d \in Clients \ {c} : at'[d] = at[d]
    BY <1>1, <1>3 DEF Spawn, AloneParts, ReplacersAreAlone, Replacing
  <2>3. \A x \in Pids : pc'[x] = "off" \/ (x = b /\ pc'[x] = "guard")
    BY <2>1, <2>2 DEF AllOff, Running, FreePids
  <2>4. \A d \in Clients : ~Replacing(d)' /\ ~Checking(d)'
    BY <2>2 DEF AloneParts, Contended, Replacing, Checking
  <2>5. ~Contended' /\ ReplacersAreAlone'
    BY <2>4 DEF Contended, ReplacersAreAlone, Replacing
  <2> QED
    BY <2>2, <2>3, <2>4, <2>5 DEF AloneParts, OneRuns, StartsAreUnseen, ListenersAreFound, Running,
                                  Starting, Listening, files
<1>4. CASE WaitForSocket(c) \/ AttemptConnect(c) \/ EndSession(c)
  <2>1. UNCHANGED <<pidFile, writers, sockFile, pc>> /\ \A d \in Clients \ {c} : at'[d] = at[d] /\ seen'[d] = seen[d]
    BY <1>1, <1>4 DEF WaitForSocket, AttemptConnect, EndSession, files, brokers
  <2>2. at'[c] \in {"idle", "connected", "connect"}
    BY <1>1, <1>4 DEF WaitForSocket, AttemptConnect, EndSession
  <2>3. \A d \in Clients : (Replacing(d)' => Replacing(d)) /\ (Checking(d)' => Checking(d))
    BY <2>1, <2>2 DEF Replacing, Checking
  <2>4. ~Contended'
    BY <2>1, <2>3 DEF AloneParts, Contended, Running, Listening
  <2>5. ReplacersAreAlone'
    BY <2>1, <2>2, <2>3 DEF AloneParts, ReplacersAreAlone, AllOff, Running
  <2>6. StartsAreUnseen' /\ ListenersAreFound'
    BY <2>1, <2>2, <2>3 DEF AloneParts, StartsAreUnseen, ListenersAreFound, Starting, Listening
  <2> QED
    BY <2>1, <2>4, <2>5, <2>6 DEF AloneParts, OneRuns, Running
<1> QED
  BY <1>2, <1>3, <1>4 DEF ClientStep, Looks

(* While no replacement overlaps another process, one process runs, and a  *)
(* broker that listens owns both files.                                    *)
LEMMA AloneStep ==
    (LifecycleTypeOK /\ (~overlap => AloneParts)) /\ [LifecycleNext]_lifecycleVars
    => (~overlap => AloneParts)'
<1> SUFFICES ASSUME LifecycleTypeOK, ~overlap => AloneParts, [LifecycleNext]_lifecycleVars, ~overlap'
             PROVE  AloneParts'
  OBVIOUS
<1>1. ASSUME NEW b \in Pids, BrokerActs(b)
      PROVE  AloneParts'
  BY <1>1, BrokerSteps, BrokerKeepsAlone DEF StepOf
<1>2. ASSUME NEW c \in Clients, Looks(c)
      PROVE  AloneParts'
  <2>1. ~overlap
    BY <1>2 DEF Looks, Check, ClientExistsPid, ClientReadPid, ClientProbe, NoteOverlap, LifecycleTypeOK
  <2> QED
    BY <1>2, <2>1, LookKeepsAlone
<1>3. ASSUME NEW c \in Clients, ClientStep(c) \/ EndSession(c), ~Looks(c)
      PROVE  AloneParts'
  <2>1. UNCHANGED overlap
    BY <1>3 DEF ClientStep, EndSession, ClientRemovesSock, ClientRemovesPid, Spawn, WaitForSocket,
                AttemptConnect, Looks
  <2> QED
    BY <1>3, <2>1, ClientKeepsAlone
<1>4. CASE UNCHANGED lifecycleVars
  BY <1>4 DEF lifecycleVars, files, brokers, clients, AloneParts, Contended, OneRuns, ReplacersAreAlone,
              AllOff, StartsAreUnseen, ListenersAreFound, Starting, Listening, Checking, Replacing, Running
<1> QED
  BY <1>1, <1>2, <1>3, <1>4 DEF LifecycleNext, BrokerActs

-----------------------------------------------------------------------------
(* While none is killed. *)

(* A socket that was bound stays the one of a broker that takes            *)
(* connections, however many clients, starts and ends race.                *)
LEMMA SocketStep ==
    LifecycleTypeOK /\ SocketServed /\ [LifecycleNext]_lifecycleVars => SocketServed'
<1> SUFFICES ASSUME LifecycleTypeOK, SocketServed, [LifecycleNext]_lifecycleVars,
                    ~killed', sockFile' # None
             PROVE  Accepts(sockFile)'
  BY DEF SocketServed
<1> USE DEF LifecycleTypeOK, SocketServed, Accepts
<1>1. ASSUME NEW b \in Pids, NEW where, Goto(b, where), ~Accepts(b) \/ where \in {"draining", "stopSock"},
             ~killed, sockFile' = sockFile
      PROVE  Accepts(sockFile)'
  BY <1>1 DEF Goto
<1>2. ASSUME NEW b \in Pids,
             \/ ExistsPid(b) \/ ExistsSock(b) \/ RemoveStalePid(b) \/ RemovePidAndExit(b)
             \/ OpenPid(b) \/ WritePid(b) \/ Terminate(b) \/ Crash(b)
      PROVE  Accepts(sockFile)'
  BY <1>1, <1>2 DEF ExistsPid, ExistsSock, RemoveStalePid, RemovePidAndExit, OpenPid, WritePid,
                    Terminate, Crash, files, counts
<1>3. ASSUME NEW b \in Pids, ReadPid(b) \/ Probe(b)
      PROVE  Accepts(sockFile)'
  <2>1. /\ sockFile \in Pids \ {b} /\ ~killed /\ sockFile' = sockFile
        /\ \A x \in Pids \ {b} : pc'[x] = pc[x]
    BY <1>3 DEF ReadPid, Probe, Goto, files, counts
  <2> QED
    BY <2>1
<1>4. ASSUME NEW b \in Pids, Listen(b)
      PROVE  Accepts(sockFile)'
  <2>1. CASE sockFile = None
    BY <1>4, <2>1 DEF Listen, Goto
  <2>2. CASE sockFile # None
    BY <1>1, <1>4, <2>2 DEF Listen, counts
  <2> QED
    BY <2>1, <2>2
<1>5. ASSUME NEW b \in Pids, RemoveSock(b) \/ CloseServer(b) \/ Kill(b)
      PROVE  FALSE
  BY <1>5 DEF RemoveSock, CloseServer, Kill
<1>6. ASSUME NEW c \in Clients, Spawn(c)
      PROVE  Accepts(sockFile)'
  <2>1. PICK b \in FreePids : pc' = [pc EXCEPT ![b] = "guard"]
    BY <1>6 DEF Spawn
  <2>2. sockFile' = sockFile /\ sockFile \in Pids \ {b} /\ ~killed
    BY <1>6, <2>1 DEF Spawn, FreePids, files, counts
  <2> QED
    BY <2>1, <2>2
<1>7. ASSUME NEW c \in Clients, ClientStep(c) \/ EndSession(c), ~Spawn(c)
      PROVE  Accepts(sockFile)'
  <2>1. ~ClientRemovesSock(c)
    BY DEF ClientRemovesSock
  <2> QED
    BY <1>7, <2>1 DEF ClientStep, Check, ClientExistsPid, ClientReadPid, ClientProbe, ClientRemovesPid,
                      WaitForSocket, AttemptConnect, EndSession, files, brokers, counts
<1>8. CASE UNCHANGED lifecycleVars
  BY <1>8 DEF lifecycleVars, files, brokers, counts
<1> QED
  BY <1>2, <1>3, <1>4, <1>5, <1>6, <1>7, <1>8 DEF LifecycleNext, BrokerStep, Guard

-----------------------------------------------------------------------------
(* What follows. *)

LEMMA LifecycleInitInv == LifecycleInit => LifecycleInv
<1> SUFFICES ASSUME LifecycleInit PROVE LifecycleInv
  OBVIOUS
<1>1. LifecycleTypeOK
  <2>1. pc \in [Pids -> BrokerPoints] /\ at \in [Clients -> ClientPoints]
    BY DEF LifecycleInit, BrokerPoints, ClientPoints
  <2>2. /\ conn \in [Clients -> Pids \cup {None}] /\ seen \in [Clients -> Pids \cup {None}]
        /\ found \in [Pids -> Pids \cup {None}]
    BY DEF LifecycleInit
  <2>3. ASSUME NEW c \in Clients
        PROVE  (at[c] = "connected") = (conn[c] # None) /\ at[c] # "probe"
    <3>1. at[c] = "idle" /\ conn[c] = None
      BY DEF LifecycleInit
    <3> QED
      BY <3>1
  <2>4. /\ pidFile \in Pids \cup {None, Empty} /\ sockFile \in Pids \cup {None} /\ writers \subseteq Pids
        /\ failures \in 0..MaxFailures /\ leaves \in 0..MaxLeaves
    BY LifecycleAssumption DEF LifecycleInit
  <2>5. overlap \in BOOLEAN /\ killed \in BOOLEAN /\ timer \in [Clients -> BOOLEAN]
    BY DEF LifecycleInit
  <2>6. \A b \in Pids : pc[b] # "probe"
    BY DEF LifecycleInit
  <2> QED
    BY <2>1, <2>2, <2>3, <2>4, <2>5, <2>6 DEF LifecycleTypeOK
<1>2. AloneParts
  BY DEF LifecycleInit, AloneParts, Contended, OneRuns, ReplacersAreAlone, StartsAreUnseen,
         ListenersAreFound, Replacing, Starting, Listening, AllOff, Running
<1>3. SocketServed
  BY DEF LifecycleInit, SocketServed
<1> QED
  BY <1>1, <1>2, <1>3 DEF LifecycleInv

LEMMA LifecycleInvStep == LifecycleInv /\ [LifecycleNext]_lifecycleVars => LifecycleInv'
BY LifecycleTypes, AloneStep, SocketStep DEF LifecycleInv

LEMMA OneRunsOneServes == OneRuns => OneServing
<1> SUFFICES ASSUME OneRuns PROVE OneServing
  OBVIOUS
<1> DEFINE serving == {b \in Pids : Listening(b)}
<1>1. \A b1, b2 \in serving : b1 = b2
  BY DEF OneRuns, Listening, Running
<1>2. CASE serving = {}
  BY <1>2, FS_EmptySet DEF OneServing
<1>3. CASE serving # {}
  <2>1. PICK b \in serving : TRUE
    BY <1>3
  <2>2. serving = {b}
    BY <1>1, <2>1
  <2>3. Cardinality(serving) = 1
    BY <2>2, FS_Singleton
  <2> QED
    BY <2>3 DEF OneServing
<1> QED
  BY <1>2, <1>3

LEMMA LifecycleIsSound == LifecycleInv => ProcessesAreSound
BY OneRunsOneServes
DEF LifecycleInv, AloneParts, ListenersAreFound, ProcessesAreSound, AloneOneReachable

(* For any number of clients, processes, kills, crashes and shutdowns, and *)
(* looks at any point of them: as long as no broker is replaced while      *)
(* another process replaces it, still looks at its files, starts or has    *)
(* closed its server, one process serves and both files lead to it.        *)
THEOREM ProcessesStaySound == LifecycleSpec => []ProcessesAreSound
<1> QED
  BY LifecycleInitInv, LifecycleInvStep, LifecycleIsSound, PTL DEF LifecycleSpec

LEMMA OnlyStaleStep ==
    ASSUME LifecycleInv, [LifecycleNext]_lifecycleVars, ~overlap',
           NEW b \in Pids, pc'[b] \in {"serving", "draining"}
    PROVE  (pidFile = b => pidFile' = b) /\ (sockFile = b => sockFile' = b)
<1>1. LifecycleInv'
  BY LifecycleInvStep
<1> QED
  BY <1>1 DEF LifecycleInv, AloneParts, ListenersAreFound, Listening

LEMMA GuardGivesWay ==
    ASSUME LifecycleInv, [LifecycleNext]_lifecycleVars, NEW b \in Pids,
           pc[b] = "checkSock", pc'[b] = "off", ~killed'
    PROVE  sockFile # None /\ Accepts(sockFile)
<1> USE DEF LifecycleInv, LifecycleTypeOK
<1>1. ExistsSock(b)
  <2>1. ASSUME NEW x \in Pids, NEW where, Goto(x, where)
        PROVE  x = b /\ where = "off"
    BY <2>1 DEF Goto
  <2>2. ASSUME NEW x \in Pids,
               \/ ExistsPid(x) \/ RemoveSock(x) \/ RemoveStalePid(x) \/ RemovePidAndExit(x) \/ OpenPid(x)
               \/ WritePid(x) \/ Listen(x) \/ CloseServer(x) \/ Terminate(x) \/ Crash(x)
        PROVE  FALSE
    BY <2>1, <2>2 DEF ExistsPid, RemoveSock, RemoveStalePid, RemovePidAndExit, OpenPid, WritePid, Listen,
                      CloseServer, Terminate, Crash, Listening
  <2>3. ASSUME NEW x \in Pids, ReadPid(x) \/ Probe(x)
        PROVE  FALSE
    <3>1. pc'[b] # "off"
      BY <2>3 DEF ReadPid, Probe, Goto
    <3> QED
      BY <3>1
  <2>4. ASSUME NEW x \in Pids, Kill(x)
        PROVE  FALSE
    BY <2>4 DEF Kill
  <2>5. ASSUME NEW c \in Clients, ClientStep(c) \/ EndSession(c)
        PROVE  FALSE
    <3>1. CASE Spawn(c)
      <4>1. PICK x \in FreePids : pc' = [pc EXCEPT ![x] = "guard"]
        BY <3>1 DEF Spawn
      <4> QED
        BY <4>1 DEF FreePids
    <3>2. CASE ~Spawn(c)
      BY <2>5, <3>2 DEF ClientStep, EndSession, Check, ClientExistsPid, ClientReadPid, ClientProbe,
             ClientRemovesSock, ClientRemovesPid, WaitForSocket, AttemptConnect, brokers
    <3> QED
      BY <3>1, <3>2
  <2>6. ~UNCHANGED lifecycleVars
    BY DEF lifecycleVars, brokers
  <2>7. ASSUME NEW x \in Pids, ExistsSock(x)
        PROVE  ExistsSock(b)
    BY <2>1, <2>7 DEF ExistsSock
  <2> QED
    BY <2>2, <2>3, <2>4, <2>5, <2>6, <2>7 DEF LifecycleNext, BrokerStep, Guard
<1>2. sockFile # None
  <2>1. pc'[b] = TrustsWithSocket
    BY <1>1 DEF ExistsSock, Goto
  <2> QED
    BY <2>1 DEF TrustsWithSocket
<1>3. ~killed
  BY <1>1 DEF ExistsSock, counts
<1> QED
  BY <1>2, <1>3 DEF SocketServed

(* Cleaning up after dead brokers never takes a live broker's files while  *)
(* no replacement overlaps another process, and a starting broker gives    *)
(* way only to one that takes connections, whatever races.                 *)
THEOREM LiveBrokersStayRespected == LifecycleSpec => LiveBrokersAreRespected
<1>1. LifecycleInv /\ [LifecycleNext]_lifecycleVars
      => [~overlap' => \A b \in Pids : (Listening(b) /\ pc'[b] \in {"serving", "draining"})
            => (pidFile = b => pidFile' = b) /\ (sockFile = b => sockFile' = b)]_lifecycleVars
  BY OnlyStaleStep
<1>2. LifecycleInv /\ [LifecycleNext]_lifecycleVars
      => [\A b \in Pids : (pc[b] = "checkSock" /\ pc'[b] = "off" /\ ~killed')
            => sockFile # None /\ Accepts(sockFile)]_lifecycleVars
  BY GuardGivesWay
<1> QED
  BY <1>1, <1>2, LifecycleInitInv, LifecycleInvStep, PTL
  DEF LifecycleSpec, LiveBrokersAreRespected, AloneOnlyStaleRemoved, GivesWayToServing
=============================================================================
