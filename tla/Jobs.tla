-------------------------------- MODULE Jobs --------------------------------
(***************************************************************************)
(* The broker's job records and the order in which they are served:        *)
(* src/broker/types.ts and the comparator of src/broker/queue.ts.          *)
(* Constant-level only; every broker module shares it.                     *)
(***************************************************************************)
EXTENDS Integers, FiniteSets

CONSTANTS
    JobIds,       \* client-generated correlation ids, one per submission
    Keys,         \* dedup keys: one per (repoPath, filePath, jobType)
    Conns,        \* socket objects; a reconnecting client gets a new one
    Importances,  \* the importance values submitted
    Times,        \* what Date.now() may return; it need not be monotone
    NoJob         \* null

\* Object identity of a QueueJob is its id: ids are unique per submission.
Job == [id : JobIds, key : Keys, importance : Importances,
        createdAt : Times, connection : Conns]

ASSUME JobsAssumption ==
    /\ Importances \subseteq Int
    /\ Times \subseteq Int
    /\ NoJob \notin Job /\ NoJob \notin JobIds

\* compare(a, b) < 0: importance descending, then createdAt ascending.
Precedes(a, b) ==
    \/ a.importance > b.importance
    \/ a.importance = b.importance /\ a.createdAt < b.createdAt

\* The jobs that nothing in q precedes.
Foremost(q) == {j \in q : \A k \in q : ~Precedes(k, j)}

\* Mutant: no dedup by key.
WithJobNoDedup(q, job) == q \cup {job}

\* The pending job of the same key gives way to the new one.
WithJob(q, job) == {j \in q : j.key # job.key} \cup {job}

WithoutJob(q, job) == q \ {job}

\* Mutant: every connection's jobs are dropped.
WithoutAnyConnection(q, c) == {}

WithoutConnection(q, c) == {j \in q : j.connection # c}
=============================================================================
