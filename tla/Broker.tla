------------------------------- MODULE Broker -------------------------------
(***************************************************************************)
(* One broker process: src/broker/server.ts (connections, submissions,     *)
(* answers, shutdown) and src/broker/worker.ts (the loop that processes    *)
(* one job at a time).  The queue is the abstract one that PriorityQueue   *)
(* implements.  A step is one macrotask of the event loop: a handler and   *)
(* the continuations that run before the next timer or I/O event.          *)
(***************************************************************************)
EXTENDS Jobs, Sequences

CONSTANTS
    MaxQueueSize,   \* config.maxQueueSize
    TimerIds,       \* handles setTimeout may return
    NoTimer,        \* null
    MaxStatus       \* bound: status requests answered per connection

ASSUME BrokerAssumption ==
    /\ MaxQueueSize \in Nat
    /\ MaxStatus \in Nat
    /\ NoTimer \notin TimerIds

VARIABLES
    phase,        \* "starting", "up", "draining", "closing" or "exited"
    sock,         \* per socket: "none", "open", "destroyed", "closed"
    connections,  \* this.connections
    inbox,        \* per socket: the messages written to it, in order
    queue,        \* the pending jobs
    stopped,      \* worker.stopped
    armed,        \* per timer handle: its delay while it is armed, or "off"
    loopTimer,    \* worker.loopTimer: the last handle, armed or fired
    currentJob,   \* worker.currentJob
    running,      \* the jobs whose promise is not settled yet
    awaited,      \* the job whose promise shutdown() waits for, or NoJob
    tokens,       \* runs accounted in stats.json and repoTokens
    submitted     \* history: the submissions received, in order

serverVars == <<phase, sock, connections, inbox, tokens, submitted>>
workerVars == <<stopped, armed, loopTimer, currentJob, running>>
vars == <<serverVars, workerVars, queue, awaited>>

Phases == {"starting", "up", "draining", "closing", "exited"}
SockStates == {"none", "open", "destroyed", "closed"}
Delays == {"now", "settle", "poll"}              \* 0, 50 and 1000 ms
Outcomes == {"result", "timeout", "llm_error"}
Answers == Outcomes \cup {"queue_full"}
Message == [type : Answers \cup {"status_response"}, id : JobIds \cup {NoJob}]

-----------------------------------------------------------------------------
(* Writes and timers. *)

\* send(): a no-op on a destroyed socket.
Send(c, type, id) ==
    inbox' = IF sock[c] = "open"
             THEN [inbox EXCEPT ![c] = Append(@, [type |-> type, id |-> id])]
             ELSE inbox

\* Mutant: the loop is not armed again after a run.
ScheduleNextNotAfterRun(a, delay) ==
    IF stopped \/ delay = "settle"
    THEN armed' = a /\ UNCHANGED loopTimer
    ELSE \E t \in TimerIds :
            a[t] = "off" /\ armed' = [a EXCEPT ![t] = delay] /\ loopTimer' = t

\* scheduleNext() on the timers a: arms a fresh timer unless stopped.
ScheduleNext(a, delay) ==
    IF stopped
    THEN armed' = a /\ UNCHANGED loopTimer
    ELSE \E t \in TimerIds :
            /\ a[t] = "off"
            /\ armed' = [a EXCEPT ![t] = delay]
            /\ loopTimer' = t

\* clearTimeout(loopTimer): no effect on a handle that has fired.
Cleared == [t \in TimerIds |-> IF t = loopTimer THEN "off" ELSE armed[t]]

\* Mutant: the armed timer is not cleared.
NudgeWithoutClear ==
    IF stopped \/ currentJob # NoJob
    THEN UNCHANGED <<armed, loopTimer>>
    ELSE ScheduleNext(armed, "now")

\* Mutant: an armed timer is left as it is.
NudgeOnlyIfUnarmed ==
    IF stopped \/ currentJob # NoJob \/ loopTimer # NoTimer
    THEN UNCHANGED <<armed, loopTimer>>
    ELSE ScheduleNext(armed, "now")

\* nudge(): returns at once when stopped or busy.
Nudge ==
    IF stopped \/ currentJob # NoJob
    THEN UNCHANGED <<armed, loopTimer>>
    ELSE ScheduleNext(Cleared, "now")

-----------------------------------------------------------------------------
(* Server. *)

Init ==
    /\ phase = "starting"
    /\ sock = [c \in Conns |-> "none"]
    /\ connections = {}
    /\ inbox = [c \in Conns |-> <<>>]
    /\ queue = {}
    /\ stopped = TRUE
    /\ armed = [t \in TimerIds |-> "off"]
    /\ loopTimer = NoTimer
    /\ currentJob = NoJob
    /\ running = {}
    /\ awaited = NoJob
    /\ tokens = 0
    /\ submitted = <<>>

\* start(): the socket is bound, and worker.start() arms the loop.
Start ==
    /\ phase = "starting"
    /\ phase' = "up"
    /\ stopped' = FALSE
    /\ \E t \in TimerIds :
          armed' = [armed EXCEPT ![t] = "now"] /\ loopTimer' = t
    /\ UNCHANGED <<sock, connections, inbox, queue, currentJob, running,
                   awaited, tokens, submitted>>

\* handleConnection(): still accepted while shutdown drains.
Connect(c) ==
    /\ phase \in {"up", "draining"}
    /\ sock[c] = "none"
    /\ sock' = [sock EXCEPT ![c] = "open"]
    /\ connections' = connections \cup {c}
    /\ UNCHANGED <<phase, inbox, tokens, submitted, workerVars, queue, awaited>>

\* The peer goes away; the 'close' event is still to come.
Disconnect(c) ==
    /\ sock[c] = "open"
    /\ sock' = [sock EXCEPT ![c] = "destroyed"]
    /\ UNCHANGED <<phase, connections, inbox, tokens, submitted, workerVars,
                   queue, awaited>>

\* Mutant: jobs are dropped only if the connection was still registered.
CloseEventIfRegistered(c) ==
    /\ sock[c] = "destroyed"
    /\ sock' = [sock EXCEPT ![c] = "closed"]
    /\ connections' = connections \ {c}
    /\ queue' = IF c \in connections THEN WithoutConnection(queue, c) ELSE queue
    /\ UNCHANGED <<phase, inbox, tokens, submitted, workerVars, awaited>>

\* The socket's 'close' handler drops the connection's pending jobs.
CloseEvent(c) ==
    /\ sock[c] = "destroyed"
    /\ sock' = [sock EXCEPT ![c] = "closed"]
    /\ connections' = connections \ {c}
    /\ queue' = WithoutConnection(queue, c)
    /\ UNCHANGED <<phase, inbox, tokens, submitted, workerVars, awaited>>

SubmittedIds == {submitted[i].id : i \in DOMAIN submitted}

QueueFull == Cardinality(queue) >= MaxQueueSize

\* handleSubmit(): capacity is checked before the key is looked up.
Submit(job) ==
    /\ sock[job.connection] = "open"
    /\ job.id \notin SubmittedIds
    /\ submitted' = Append(submitted, job)
    /\ IF QueueFull
       THEN /\ Send(job.connection, "queue_full", job.id)
            /\ UNCHANGED <<queue, armed, loopTimer>>
       ELSE /\ queue' = WithJob(queue, job)
            /\ Nudge
            /\ UNCHANGED inbox
    /\ UNCHANGED <<phase, sock, connections, tokens, stopped, currentJob,
                   running, awaited>>

\* handleStatus()
Status(c) ==
    /\ sock[c] = "open"
    /\ Cardinality({i \in DOMAIN inbox[c] : inbox[c][i].id = NoJob}) < MaxStatus
    /\ Send(c, "status_response", NoJob)
    /\ UNCHANGED <<phase, sock, connections, tokens, submitted, workerVars,
                   queue, awaited>>

-----------------------------------------------------------------------------
(* Worker. *)

\* A loop timer fires: dequeueLoop() up to its await.
DequeueLoop(t) ==
    /\ armed[t] # "off"
    /\ LET fired == [armed EXCEPT ![t] = "off"]
       IN \/ /\ stopped
             /\ armed' = fired
             /\ UNCHANGED <<loopTimer, queue, currentJob, running>>
          \/ /\ ~stopped /\ queue = {}
             /\ ScheduleNext(fired, "poll")
             /\ UNCHANGED <<queue, currentJob, running>>
          \/ /\ ~stopped
             /\ \E job \in Foremost(queue) :
                   /\ queue' = WithoutJob(queue, job)
                   /\ currentJob' = job
                   /\ running' = running \cup {job}
             /\ armed' = fired
             /\ UNCHANGED loopTimer
    /\ UNCHANGED <<serverVars, stopped, awaited>>

\* shutdown() steps 3 and 4, on the sockets s.
DestroyAll(s) ==
    /\ sock' = [c \in Conns |-> IF c \in connections /\ s[c] = "open"
                                THEN "destroyed" ELSE s[c]]
    /\ connections' = {}
    /\ phase' = "closing"
    /\ awaited' = NoJob

\* accumulateTokens(), whatever became of the connection.
Accounted(outcome) == IF outcome = "result" THEN tokens + 1 ELSE tokens

\* The job's promise settles: handleJobComplete() or handleJobError(), then
\* the loop is scheduled again; and if shutdown() was waiting for it, its
\* continuation runs before any other event.  A failed write of stats.json
\* makes a completed job an llm_error with nothing accounted.
Finish(job, outcome) ==
    /\ job \in running
    /\ tokens' = Accounted(outcome)
    /\ Send(job.connection, outcome, job.id)
    /\ running' = running \ {job}
    /\ currentJob' = NoJob
    /\ ScheduleNext(armed, "settle")
    /\ IF phase = "draining" /\ awaited = job
       THEN DestroyAll(sock)
       ELSE UNCHANGED <<phase, sock, connections, awaited>>
    /\ UNCHANGED <<submitted, queue, stopped>>

-----------------------------------------------------------------------------
(* Shutdown. *)

\* Mutant: the timer is cleared but the worker is not marked stopped.
StopTimerOnly == armed' = Cleared /\ loopTimer' = NoTimer /\ UNCHANGED stopped

\* worker.stop()
StopWorker == armed' = Cleared /\ loopTimer' = NoTimer /\ stopped' = TRUE

\* The first SIGTERM or SIGINT: worker.stop(), then wait for the current
\* job if there is one.
BeginShutdown ==
    /\ phase = "up"
    /\ StopWorker
    /\ IF currentJob # NoJob
       THEN /\ phase' = "draining"
            /\ awaited' = currentJob
            /\ UNCHANGED <<sock, connections>>
       ELSE DestroyAll(sock)
    /\ UNCHANGED <<inbox, tokens, submitted, queue, currentJob, running>>

DrainTimeout ==
    /\ phase = "draining"
    /\ DestroyAll(sock)
    /\ UNCHANGED <<inbox, tokens, submitted, workerVars, queue>>

\* server.close() calls back once no socket is left; main() then exits.
Exit ==
    /\ phase = "closing"
    /\ \A c \in Conns : sock[c] \in {"none", "closed"}
    /\ phase' = "exited"
    /\ UNCHANGED <<sock, connections, inbox, tokens, submitted, workerVars,
                   queue, awaited>>

Exited == phase = "exited" /\ UNCHANGED vars

Event ==
    \/ Start
    \/ BeginShutdown
    \/ DrainTimeout
    \/ Exit
    \/ \E c \in Conns : Connect(c) \/ Disconnect(c) \/ CloseEvent(c) \/ Status(c)
    \/ \E job \in Job : Submit(job)
    \/ \E t \in TimerIds : DequeueLoop(t)
    \/ \E job \in Job : \E outcome \in Outcomes : Finish(job, outcome)

Next == (phase # "exited" /\ Event) \/ Exited

Spec == Init /\ [][Next]_vars

\* Timers and I/O events are delivered; a run ends because jobTimeoutMs
\* aborts it.  Nothing obliges a client or an operator to act.
Fairness ==
    /\ WF_vars(Start)
    /\ WF_vars(phase # "exited" /\ \E t \in TimerIds : DequeueLoop(t))
    /\ WF_vars(phase # "exited" /\ \E job \in Job : \E o \in Outcomes : Finish(job, o))
    /\ \A c \in Conns : WF_vars(CloseEvent(c))
    /\ WF_vars(DrainTimeout)
    /\ WF_vars(Exit)

FairSpec == Spec /\ Fairness

-----------------------------------------------------------------------------
(* Type correctness. *)
TypeOK ==
    /\ phase \in Phases
    /\ sock \in [Conns -> SockStates]
    /\ connections \subseteq Conns
    /\ inbox \in [Conns -> Seq(Message)]
    /\ queue \subseteq Job
    /\ stopped \in BOOLEAN
    /\ armed \in [TimerIds -> Delays \cup {"off"}]
    /\ loopTimer \in TimerIds \cup {NoTimer}
    /\ currentJob \in Job \cup {NoJob}
    /\ running \subseteq Job
    /\ awaited \in Job \cup {NoJob}
    /\ tokens \in Nat
    /\ submitted \in Seq(Job)

(* There is one dequeue loop: never two runs at once, never a timer armed  *)
(* behind a run or behind another timer, and no way for the loop to die:   *)
(* an idle worker that is not stopped has its timer armed (worker.ts       *)
(* nudge, dequeueLoop and stop all touch loopTimer).                       *)
OneLoop ==
    /\ running = IF currentJob = NoJob THEN {} ELSE {currentJob}
    /\ \A t \in TimerIds :
          armed[t] # "off" => t = loopTimer /\ ~stopped /\ running = {}
    /\ ~stopped /\ running = {} =>
          loopTimer \in TimerIds /\ armed[loopTimer] # "off"

(* Work never waits for the one-second poll: whenever something is pending *)
(* and the worker is idle, its timer is the immediate or the settle one    *)
(* (worker.ts:141 "shortcut the poll delay").                              *)
PromptPickup ==
    queue # {} /\ ~stopped /\ running = {} =>
        \A t \in TimerIds : armed[t] # "poll"

(* The queue never outgrows maxQueueSize and holds one job per key, for    *)
(* any mix of submissions, supersessions, runs and drops.                  *)
QueueWithinCapacity ==
    /\ IsFiniteSet(queue)
    /\ Cardinality(queue) <= MaxQueueSize
    /\ \A j, k \in queue : j.key = k.key => j = k

(* No pending job outlives its connection's close event, even across a     *)
(* shutdown that clears the connection set first (server.ts:130).          *)
NoOrphanJobs ==
    \A j \in queue : sock[j.connection] \in {"open", "destroyed"}

(* What the queue holds is bounded and has an owner, through any mix of    *)
(* submissions, runs, closes and a shutdown (server.ts:130, 163).          *)
BrokerIsSound == TypeOK /\ QueueWithinCapacity /\ NoOrphanJobs

AnswersTo(c, id) ==
    {i \in DOMAIN inbox[c] : inbox[c][i].id = id}
Answered(job) == AnswersTo(job.connection, job.id) # {}

(* Every answer goes to the connection that submitted the job, a job is    *)
(* answered at most once, and an answered job is neither pending nor run.  *)
AnsweredOnceToSubmitter ==
    /\ \A c \in Conns : \A i \in DOMAIN inbox[c] :
          \/ inbox[c][i].type = "status_response"
          \/ /\ \E n \in DOMAIN submitted :
                    /\ submitted[n].id = inbox[c][i].id
                    /\ submitted[n].connection = c
             /\ AnswersTo(c, inbox[c][i].id) = {i}
    /\ \A job \in queue \cup running : ~Answered(job)

Accepted(job) ==
    \A i \in DOMAIN inbox[job.connection] :
        inbox[job.connection][i] # [type |-> "queue_full", id |-> job.id]

(* A client that stays connected gets an answer to each job, or the job is *)
(* still pending or run, or a later submission of the same key (possibly   *)
(* by another client of the same repository) took its place.               *)
NoSilentLoss ==
    \A n \in DOMAIN submitted :
        sock[submitted[n].connection] = "open" =>
            \/ Answered(submitted[n])
            \/ submitted[n] \in queue \cup running
            \/ \E m \in DOMAIN submitted :
                  /\ m > n
                  /\ submitted[m].key = submitted[n].key
                  /\ \/ sock[submitted[m].connection] # "open"
                     \/ Accepted(submitted[m])

(* Results for one key reach a client in the order it submitted them, so   *)
(* the last one it writes is the one for the last content it sent.         *)
SameKeyInOrder ==
    \A m, n \in DOMAIN submitted :
        LET c == submitted[m].connection
        IN /\ m < n
           /\ submitted[n].key = submitted[m].key
           /\ submitted[n].connection = c
           => \A i, k \in DOMAIN inbox[c] :
                 /\ inbox[c][i] = [type |-> "result", id |-> submitted[m].id]
                 /\ inbox[c][k] = [type |-> "result", id |-> submitted[n].id]
                 => i < k

(* What a client reads is what it asked for, once and in order, whatever   *)
(* was superseded, closed or cut off by a shutdown meanwhile.              *)
AnswersAreRight == AnsweredOnceToSubmitter /\ SameKeyInOrder

(* Once shutdown has begun no job is started (server.ts:64 "prevents new   *)
(* job pickup"), although submissions are still queued while it drains.    *)
NoPickupAfterStop ==
    [][(phase \in {"draining", "closing"}) => running' \subseteq running]_vars

(* Every pending job is eventually run, superseded or dropped, unless the  *)
(* process exits first (a run that outlasts the drain timeout).  JobIds is *)
(* finite, so this speaks of behaviours whose submissions cease: endless   *)
(* submissions of greater importance may starve a job, by design.          *)
PendingIsServed ==
    \A id \in JobIds :
        (\E j \in queue \cup running : j.id = id) ~>
            (phase = "exited" \/ \A j \in queue \cup running : j.id # id)

(* A shutdown ends, whether the current run returns, times out or outlasts *)
(* the drain timeout.                                                      *)
ShutdownEnds == phase \in {"draining", "closing"} ~> phase = "exited"

(* The worker's loop never dies before its work is done (worker.ts:153).   *)
WorkGoesOn == PendingIsServed /\ ShutdownEnds
=============================================================================
