------------------------------ MODULE JobQueue ------------------------------
(***************************************************************************)
(* What the broker's queue promises: a set of pending jobs, at most one    *)
(* per key, from which a foremost one is taken.  No heap, no ghosts.       *)
(***************************************************************************)
EXTENDS Jobs

VARIABLES
    pending,   \* the jobs waiting to be processed
    out        \* what the last dequeue() returned

vars == <<pending, out>>

Init == pending = {} /\ out = NoJob

Enqueue(job) ==
    /\ \A j \in pending : j.id # job.id
    /\ pending' = WithJob(pending, job)
    /\ UNCHANGED out

Dequeue ==
    \/ /\ pending = {}
       /\ out' = NoJob
       /\ UNCHANGED pending
    \/ \E job \in Foremost(pending) :
          /\ out' = job
          /\ pending' = WithoutJob(pending, job)

DropByConnection(c) ==
    /\ pending' = WithoutConnection(pending, c)
    /\ UNCHANGED out

Next ==
    \/ \E job \in Job : Enqueue(job)
    \/ Dequeue
    \/ \E c \in Conns : DropByConnection(c)

Spec == Init /\ [][Next]_vars
=============================================================================
