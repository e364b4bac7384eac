-------------------------- MODULE SummaryFreshness --------------------------
(***************************************************************************)
(* The life of one file's summary: edits on disk, the coordinator's update *)
(* handler, mtime check, rescan and startup sweep, the staleness column,   *)
(* and the broker client with the jobs it has at the broker.               *)
(* src/coordinator.ts, src/cascade/cascade-engine.ts,                      *)
(* src/broker/client.ts, src/db/repository.ts, src/mcp-server.ts.          *)
(*                                                                         *)
(* A step is what runs between two awaits.  Content is a version number.   *)
(* The broker is what module Broker shows it to be, for one file and one   *)
(* job type: one pending job per key, one job running.                     *)
(***************************************************************************)
EXTENDS Integers, FiniteSets, Sequences, SequencesExt

CONSTANTS
    Importances,     \* the importance values a re-analysis may compute
    NoUpdate,        \* no update is between its read and its write
    Manual,          \* a summary written by set_file_summary
    NoSummary,       \* files.summary is null
    MaxVersion,      \* bound: edits
    MaxScans,        \* bound: scan_all requests
    MaxErrors,       \* bound: error answers (LLM error, timeout, queue full)
    MaxDrops,        \* bound: lost connections
    MaxRestarts      \* bound: restarts of the MCP server

ASSUME FreshnessAssumption ==
    /\ Importances \subseteq Int
    /\ {MaxVersion, MaxScans, MaxErrors, MaxDrops, MaxRestarts} \subseteq Nat
    /\ NoUpdate \notin (0..MaxVersion) \cup {Manual, NoSummary}
    /\ {Manual, NoSummary} \cap (0..MaxVersion) = {} /\ Manual # NoSummary

VARIABLES
    disk,        \* version of the file's content
    phase,       \* the MCP server: "down", "built", "swept" or "up"
    event,       \* a change event waits for its debounce and the mutex
    snapshot,    \* the summary in the tree the running update started from
    mtime,       \* files.mtime, as the version it was recorded for
    summary,     \* files.summary: the version it describes, Manual or NoSummary
    stale,       \* files.summary_stale_since is not null
    importance,  \* files.importance
    link,        \* the client's socket is connected
    pending,     \* the file's jobs in the broker's queue, oldest first
    running,     \* the file's job being processed: sequence of at most one
    inbox,       \* answers on their way to the client
    written,     \* history: version of the last LLM result written
    late,        \* history: that result was for content older than the recorded one
    crossed,     \* history: newer content was pending with a greater importance than older
    used         \* how often each bounded thing has happened

row == <<mtime, summary, stale, importance>>
broker == <<link, pending, running, inbox>>
server == <<phase, event, snapshot>>
history == <<written, late, crossed>>
vars == <<disk, server, row, broker, history, used>>

Versions == 0..MaxVersion

Bound == [scans |-> MaxScans, errors |-> MaxErrors, drops |-> MaxDrops,
          restarts |-> MaxRestarts]

\* Cascade and mtime check submit the absolute path, resubmitStaleFiles the
\* stored relative one: two dedup keys for one file.
Paths == {"abs", "rel"}
Job == [path : Paths, version : Versions, importance : Importances]
Answer == [type : {"result", "error"}, version : Versions]

Use(what) == /\ used[what] < Bound[what]
             /\ used' = [used EXCEPT ![what] = @ + 1]

-----------------------------------------------------------------------------
(* The broker, as this file sees it. *)

\* Mutant: the content already pending is kept.
EnqueuedFirstWins(q, job) ==
    IF \E i \in DOMAIN q : q[i].path = job.path THEN q ELSE Append(q, job)

\* The job of the same key, if one is pending, is cancelled.
Enqueued(q, job) ==
    LET existing == {i \in DOMAIN q : q[i].path = job.path}
    IN  IF existing = {} THEN Append(q, job)
        ELSE Append(RemoveAt(q, CHOOSE i \in existing : TRUE), job)

\* submitJob() with the content now on disk, and the broker's reaction.
Submit(path, imp) ==
    \/ /\ pending' = Enqueued(pending, [path |-> path, version |-> disk,
                                        importance |-> imp])
       /\ UNCHANGED <<inbox, used>>
    \/ /\ Use("errors")                     \* queue_full
       /\ inbox' = Append(inbox, [type |-> "error", version |-> disk])
       /\ UNCHANGED pending

\* Without a socket a submission is silently dropped.
SubmitIfLinked(path, imp) ==
    IF link THEN Submit(path, imp) ELSE UNCHANGED <<pending, inbox, used>>

\* Mutant: the newest of the most important jobs is served first.
NextJobNewest(q) ==
    CHOOSE i \in DOMAIN q : \A k \in DOMAIN q :
        \/ q[i].importance > q[k].importance
        \/ q[i].importance = q[k].importance /\ i >= k

\* The position dequeue() takes: greatest importance, then oldest.
NextJob(q) ==
    CHOOSE i \in DOMAIN q : \A k \in DOMAIN q :
        \/ q[i].importance > q[k].importance
        \/ q[i].importance = q[k].importance /\ i <= k

\* Newer content has overtaken older content under the other path: a re-analysis
\* between the two has raised the importance.
Crossing ==
    \E i, k \in DOMAIN pending :
        /\ pending[i].version < pending[k].version
        /\ pending[i].importance < pending[k].importance

StartJob ==
    /\ running = <<>> /\ pending # <<>>
    /\ running' = <<pending[NextJob(pending)]>>
    /\ pending' = RemoveAt(pending, NextJob(pending))
    /\ crossed' = (crossed \/ Crossing)
    /\ UNCHANGED <<disk, server, row, link, inbox, written, late, used>>

FinishJob ==
    /\ running # <<>>
    /\ \E type \in {"result", "error"} :
         /\ inbox' = Append(inbox, [type |-> type, version |-> running[1].version])
         /\ IF type = "error" THEN Use("errors") ELSE UNCHANGED used
    /\ running' = <<>>
    /\ UNCHANGED <<disk, server, row, link, pending, history>>

-----------------------------------------------------------------------------
(* The broker client. *)

\* Mutant: nothing is resubmitted.
ResubmitNothing(isStale) == UNCHANGED <<pending, inbox, used>>

\* resubmitStaleFiles(), on a connected socket.
Resubmit(isStale) ==
    IF isStale THEN Submit("rel", importance)
    ELSE UNCHANGED <<pending, inbox, used>>

\* attemptConnect()'s 'connect' handler, first called once the server is up
\* and every ten seconds while there is no connection.
Connect ==
    /\ phase = "up" /\ ~link
    /\ link' = TRUE
    /\ Resubmit(stale)
    /\ UNCHANGED <<disk, server, row, running, history>>

\* The connection's jobs leave the queue and a running job's answer has
\* nowhere to go.
LoseConnection ==
    /\ link' = FALSE
    /\ pending' = <<>> /\ running' = <<>> /\ inbox' = <<>>

\* The socket closes: the broker stopped or died.
Disconnect ==
    /\ link /\ Use("drops")
    /\ LoseConnection
    /\ UNCHANGED <<disk, server, row, history>>

\* handleBrokerMessage(): a result is written and clears staleness whatever
\* content it was computed from; an error leaves the row alone.
Deliver ==
    /\ inbox # <<>>
    /\ inbox' = Tail(inbox)
    /\ IF inbox[1].type = "result"
       THEN /\ summary' = inbox[1].version
            /\ written' = inbox[1].version
            /\ late' = (inbox[1].version < mtime)
            /\ stale' = FALSE
       ELSE UNCHANGED <<summary, stale, written, late>>
    /\ UNCHANGED <<disk, server, mtime, importance, link, pending, running, crossed, used>>

-----------------------------------------------------------------------------
(* The coordinator and the tools. *)

\* The watcher reports a change only to a server that is initialised.
Edit ==
    /\ disk < MaxVersion
    /\ disk' = disk + 1
    /\ event' = (event \/ phase = "up")
    /\ UNCHANGED <<phase, snapshot, row, broker, history, used>>

\* handleFileEvent()'s debounced body, up to its first await: the temporary
\* tree is read from the database.
BeginUpdate ==
    /\ phase = "up" /\ event /\ snapshot = NoUpdate
    /\ event' = FALSE
    /\ snapshot' = summary
    /\ UNCHANGED <<disk, phase, row, broker, history, used>>


\* markSelfStale() and the root of cascadeStale().
MarkedStale == stale' = TRUE

\* upsertFile() of the temporary tree's node writes every column but the
\* staleness ones: the summary is the one read at the start of the update.
UpsertedSummary == summary' = snapshot

\* The rest of the handler: updateFileNodeOnChange() after its read of the
\* file, then markSelfStale() or cascadeStale().
EndUpdate ==
    /\ phase = "up" /\ snapshot # NoUpdate
    /\ mtime' = disk
    /\ importance' \in Importances
    /\ UpsertedSummary
    /\ MarkedStale
    /\ SubmitIfLinked("abs", importance')
    /\ snapshot' = NoUpdate
    /\ UNCHANGED <<disk, phase, event, link, running, history>>

\* get_file_summary: checkFileFreshness().
CheckFreshness ==
    /\ phase = "up" /\ disk # mtime
    /\ mtime' = disk
    /\ MarkedStale
    /\ SubmitIfLinked("abs", importance)
    /\ UNCHANGED <<disk, server, summary, importance, link, running, history>>

\* set_file_summary
SetSummary ==
    /\ phase = "up"
    /\ summary' = Manual
    /\ UNCHANGED <<disk, server, mtime, stale, importance, broker, history, used>>

\* scan_all: markAllStale(), then resubmitStaleFiles().  The submission
\* counts as a scan, or as an error when the queue is full.
ScanAll ==
    /\ phase = "up" /\ link /\ used["scans"] < MaxScans
    /\ stale' = TRUE
    /\ \/ /\ pending' = Enqueued(pending, [path |-> "rel", version |-> disk,
                                           importance |-> importance])
          /\ used' = [used EXCEPT !["scans"] = @ + 1]
          /\ UNCHANGED inbox
       \/ /\ Use("errors")
          /\ inbox' = Append(inbox, [type |-> "error", version |-> disk])
          /\ UNCHANGED pending
    /\ UNCHANGED <<disk, server, mtime, summary, importance, link, running, history>>

\* The server stops or is killed: memory is gone, the database stays.
Stop ==
    /\ phase # "down" /\ Use("restarts")
    /\ phase' = "down" /\ event' = FALSE /\ snapshot' = NoUpdate
    /\ LoseConnection
    /\ UNCHANGED <<disk, row, history>>

\* buildFileTree() takes the rows as they are when the files it samples have
\* their recorded mtimes: this file may have changed outside the sample.
UseCache ==
    /\ phase = "down"
    /\ phase' = "built"
    /\ UNCHANGED <<disk, event, snapshot, row, broker, history, used>>

\* When a sampled file has changed or is gone, all rows are rewritten from
\* nodes that have no summary.
Rescan ==
    /\ phase = "down"
    /\ phase' = "built"
    /\ mtime' = disk
    /\ summary' = NoSummary
    /\ importance' \in Importances
    /\ UNCHANGED <<disk, event, snapshot, stale, broker, history, used>>

\* runStartupIntegritySweep() heals a changed file with
\* updateFileNodeOnChange(): its mtime is recorded, its staleness is not.
Sweep ==
    /\ phase = "built"
    /\ phase' = "swept"
    /\ mtime' = disk
    /\ IF disk # mtime THEN importance' \in Importances ELSE UNCHANGED importance
    /\ UNCHANGED <<disk, event, snapshot, summary, stale, broker, history, used>>

\* init() ends: events are handled from here on.
Ready ==
    /\ phase = "swept"
    /\ phase' = "up"
    /\ UNCHANGED <<disk, event, snapshot, row, broker, history, used>>

-----------------------------------------------------------------------------
\* A file summarised at its present content, a server that is up.
Init ==
    /\ disk = 0 /\ mtime = 0 /\ summary = 0
    /\ written = 0 /\ late = FALSE /\ crossed = FALSE
    /\ stale = FALSE /\ importance \in Importances
    /\ phase = "up" /\ event = FALSE /\ snapshot = NoUpdate
    /\ link = FALSE /\ pending = <<>> /\ running = <<>> /\ inbox = <<>>
    /\ used = [what \in DOMAIN Bound |-> 0]

Next ==
    \/ StartJob \/ FinishJob
    \/ Connect \/ Disconnect \/ Deliver
    \/ Edit \/ BeginUpdate \/ EndUpdate \/ CheckFreshness
    \/ SetSummary \/ ScanAll
    \/ Stop \/ UseCache \/ Rescan \/ Sweep \/ Ready

Spec == Init /\ [][Next]_vars

\* The broker's loop, the reconnect timer, the debounce timer and the mutex,
\* and the sockets all go on; edits, tools, errors and crashes need not occur.
FairSpec ==
    /\ Spec
    /\ WF_vars(StartJob) /\ WF_vars(FinishJob) /\ WF_vars(Deliver)
    /\ WF_vars(Connect) /\ WF_vars(BeginUpdate) /\ WF_vars(EndUpdate)
    /\ WF_vars(UseCache \/ Rescan) /\ WF_vars(Sweep) /\ WF_vars(Ready)

-----------------------------------------------------------------------------
\* Every column and channel holds what its declaration says, and the client
\* has at most one pending job per key.
TypeOK ==
    /\ disk \in Versions /\ mtime \in Versions /\ written \in Versions
    /\ phase \in {"down", "built", "swept", "up"} /\ event \in BOOLEAN
    /\ late \in BOOLEAN /\ crossed \in BOOLEAN
    /\ snapshot \in Versions \cup {Manual, NoSummary, NoUpdate}
    /\ summary \in Versions \cup {Manual, NoSummary}
    /\ stale \in BOOLEAN /\ link \in BOOLEAN /\ importance \in Importances
    /\ pending \in Seq(Job) /\ running \in Seq(Job) /\ inbox \in Seq(Answer)
    /\ Len(pending) <= Cardinality(Paths) /\ Len(running) <= 1
    /\ \A what \in DOMAIN Bound : used[what] \in 0..Bound[what]

\* A job or an answer is on its way to the database.
InPipeline == pending # <<>> \/ running # <<>> \/ inbox # <<>>

\* A stale file of a connected client is being regenerated, unless the broker
\* answered it with an error: connecting, cascading, the mtime check and
\* scan_all leave no stale file without a job, whatever was lost before.
StaleIsServed ==
    (stale /\ link /\ used["errors"] = 0) => InPipeline

\* Submissions dropped without a connection are made up for (client.ts:94).
NothingForgotten == TypeOK /\ StaleIsServed

\* A summary that is lost or of older content is flagged stale, or its
\* replacement is under way, once the watcher and the mutex are quiet and the recorded mtime is the
\* file's.
NeverSilentlyOld ==
    (/\ phase = "up" /\ ~event /\ snapshot = NoUpdate
     /\ mtime = disk /\ summary \notin {disk, Manual})
    => \/ stale
       \/ \E i \in DOMAIN pending : pending[i].version = disk
       \/ \E i \in DOMAIN running : running[i].version = disk
       \/ \E i \in DOMAIN inbox : inbox[i].version = disk

\* Every submission is answered with a result, in the order of its content.
InOrder == used["errors"] = 0 /\ used["drops"] = 0 /\ ~crossed

\* Stale data is never shown as fresh by a server that is not restarted, through
\* edits, lost connections, errors and changes of importance.  One case is left:
\* the answer for older content came last, which clears the flag, and the newer
\* content was refused, lost with the connection or served before it.
FreshMeansCurrent ==
    used["restarts"] = 0 => NeverSilentlyOld \/ (late /\ ~InOrder)

\* The start-up scan and sweep leave no summary lost or outdated without
\* flagging it, whatever changed while the server was down.
RestartKeepsFreshness == (used["errors"] = 0 /\ used["drops"] = 0) => NeverSilentlyOld

\* Latest content wins: an answer computed from older content never replaces
\* one computed from newer content (queue dedup and order), unless the newer
\* was pending with a greater importance.
LatestContentWins == [][~crossed' => written' >= written]_vars

\* When edits cease and nothing was refused, lost, restarted or put out of order,
\* the summary comes to describe the file's content (or what an agent set), and is
\* not flagged stale, whatever importances the edits led to.
Converges ==
    [](used["restarts"] = 0 /\ InOrder) => <>[](~stale /\ summary \in {disk, Manual})

\* A stale file is regenerated at some time, through lost connections and
\* restarts, as long as the broker answers without errors.
StaleIsRegenerated == [](used["errors"] = 0) => (stale ~> ~stale)

=============================================================================
