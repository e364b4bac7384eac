--------------------------- MODULE ProjectSwitch ---------------------------
(***************************************************************************)
(* One server that is pointed at another project while it works: init()    *)
(* with its awaits, the events and handlers of the project before, answers *)
(* of the broker that arrive late, and shutdown().  src/coordinator.ts,    *)
(* src/db/db.ts, src/db/repository.ts, src/broker/client.ts.               *)
(*                                                                         *)
(* The tables hold, for each path relative to a project's root, whose file *)
(* a row or a summary describes; projects do not contain one another and   *)
(* have the same relative paths.  The broker is connected from the first   *)
(* init() on.  What handlers write is ProjectIndex's.                      *)
(***************************************************************************)
EXTENDS Naturals, FiniteSets

CONSTANTS
    Projects,  \* project directories
    Paths,     \* relative paths, which every project has
    Inits,     \* calls of init(), as numbers from 1
    NoProject, \* not set, closed, or nothing recorded
    Refused,   \* projects whose database has a format this version refuses
    MaxEvents  \* bound: file events

ASSUME SwitchConstants ==
    /\ NoProject \notin Projects /\ Refused \subseteq Projects
    /\ 1 \in Inits /\ Inits \subseteq Nat /\ MaxEvents \in Nat

VARIABLES
    root,        \* _projectRoot and the working directory
    open,        \* the project whose database is open
    relRoot,     \* the root repository.ts translates paths with
    initialized, \* _initialized
    watched,     \* the project the file watcher looks at
    call,        \* each init(): its project and the await it is at
    timers,      \* armed debounce timers, by file
    handler,     \* files whose handler holds the mutex: at most one
    jobs,        \* jobs with the broker
    fileRows,    \* files, by project and relative path
    summaries,   \* files.summary: [of, relative] or NoProject
    life,        \* "running", "draining", "closed"
    events,      \* history: file events
    overlapped   \* history: two calls of init() ran at once

switchVars == <<root, open, relRoot, initialized, watched, call, timers, handler,
                jobs, fileRows, summaries, life, events, overlapped>>

\* Absolute paths.
File == Projects \X Paths

\* A job names its file absolutely, or as the row does.
Job == [of : Projects, path : Paths, relative : BOOLEAN]

InInit(i) == call[i].at \in {"config", "passes", "sweep"}
Sweeping(i) == call[i].at = "sweep"
Alive == life # "closed"

\* AsyncMutex: one handler after the other.
MutexFree == handler = {}

-----------------------------------------------------------------------------
(* The repository. *)

\* Mutant: a path outside the root is stored as it comes.
UnderAnyRoot(f) == open # NoProject

\* relIn() throws for a path that is not under the root, getDb() if closed.
UnderRoot(f) == open # NoProject /\ f[1] = relRoot

\* upsertFile() and what goes with it: nothing is written after a throw.
Record(f) ==
    fileRows' = IF UnderRoot(f) THEN [fileRows EXCEPT ![open][f[2]] = f[1]]
                ELSE fileRows

-----------------------------------------------------------------------------
(* init(), from one await to the next. *)

\* The tools are registered once the first init() is over.
MayBegin(i) ==
    /\ call[i].at = "none" /\ life = "running"
    /\ \A j \in Inits : j < i => call[j].at # "none"
    /\ i # 1 => call[1].at \in {"done", "failed"}

InitBegin(i, p) ==
    /\ MayBegin(i)
    /\ call' = [call EXCEPT ![i] = [at |-> "config", project |-> p]]
    /\ open' = NoProject
    /\ root' = p
    /\ overlapped' = (overlapped \/ \E j \in Inits : InInit(j))
    /\ UNCHANGED <<relRoot, initialized, watched, timers, handler, jobs, fileRows,
                   summaries, life, events>>

\* The configuration is loaded.  The format guard throws with the database open.
InitOpen(i) ==
    /\ Alive /\ call[i].at = "config"
    /\ open' = call[i].project
    /\ relRoot' = call[i].project
    /\ call' = [call EXCEPT ![i].at = IF call[i].project \in Refused
                                      THEN "failed" ELSE "passes"]
    /\ UNCHANGED <<root, initialized, watched, timers, handler, jobs, fileRows,
                   summaries, life, events, overlapped>>

\* The passes and the scan write one file after another.
InitWrites(i, x) ==
    /\ Alive /\ call[i].at = "passes"
    /\ Record(<<call[i].project, x>>)
    /\ UNCHANGED <<root, open, relRoot, initialized, watched, call, timers, handler,
                   jobs, summaries, life, events, overlapped>>

\* buildFileTree() ends, or throws what the repository threw; the watcher is
\* that of the root at this moment.
InitTree(i) ==
    /\ Alive /\ call[i].at = "passes"
    /\ IF \A x \in Paths : UnderRoot(<<call[i].project, x>>)
       THEN /\ watched' = root
            /\ call' = [call EXCEPT ![i].at = "sweep"]
       ELSE /\ call' = [call EXCEPT ![i].at = "failed"]
            /\ UNCHANGED watched
    /\ UNCHANGED <<root, open, relRoot, initialized, timers, handler, jobs, fileRows,
                   summaries, life, events, overlapped>>

\* The sweep heals files of the root; what throws ends it.
SweepWrites(i, x) ==
    /\ Alive /\ Sweeping(i)
    /\ Record(<<root, x>>)
    /\ UNCHANGED <<root, open, relRoot, initialized, watched, call, timers, handler,
                   jobs, summaries, life, events, overlapped>>

\* connect(): only a new connection resubmits the stale rows, by their paths.
InitReady(i) ==
    /\ Alive /\ Sweeping(i)
    /\ call' = [call EXCEPT ![i].at = "done"]
    /\ initialized' = TRUE
    /\ \E stale \in SUBSET Paths :
         /\ stale \subseteq {x \in Paths : open # NoProject /\ fileRows[open][x] # NoProject}
         /\ ~initialized \/ stale = {}
         /\ jobs' = jobs \cup {[of |-> root, path |-> x, relative |-> TRUE] : x \in stale}
    /\ UNCHANGED <<root, open, relRoot, watched, timers, handler, fileRows, summaries,
                   life, events, overlapped>>

-----------------------------------------------------------------------------
(* Events, handlers and answers. *)

Handled == initialized /\ root # NoProject

FileEvent(x) ==
    /\ Alive /\ watched # NoProject /\ events < MaxEvents
    /\ events' = events + 1
    /\ timers' = IF Handled THEN timers \cup {<<watched, x>>} ELSE timers
    /\ UNCHANGED <<root, open, relRoot, initialized, watched, call, handler, jobs,
                   fileRows, summaries, life, overlapped>>

\* The handler reads the tables and the file, unless the database is closed.
BeginHandling(f) ==
    /\ Alive /\ f \in timers /\ MutexFree
    /\ timers' = timers \ {f}
    /\ handler' = IF Handled /\ open # NoProject THEN {f} ELSE {}
    /\ UNCHANGED <<root, open, relRoot, initialized, watched, call, jobs, fileRows,
                   summaries, life, events, overlapped>>

\* It writes its file and submits jobs for it; the mutex is free also when it
\* throws.
EndHandling(f) ==
    /\ Alive /\ f \in handler
    /\ handler' = {}
    /\ Record(f)
    /\ jobs' = IF UnderRoot(f)
               THEN jobs \cup {[of |-> f[1], path |-> f[2], relative |-> FALSE]}
               ELSE jobs
    /\ UNCHANGED <<root, open, relRoot, initialized, watched, call, timers, summaries,
                   life, events, overlapped>>

\* handleBrokerMessage(): a relative path is one of the working directory.
Answer(j) ==
    /\ Alive /\ j \in jobs
    /\ jobs' = jobs \ {j}
    /\ summaries' =
         IF UnderRoot(<<IF j.relative THEN root ELSE j.of, j.path>>)
            /\ fileRows[open][j.path] # NoProject
         THEN [summaries EXCEPT ![open][j.path] = [of |-> j.of, relative |-> j.relative]]
         ELSE summaries
    /\ UNCHANGED <<root, open, relRoot, initialized, watched, call, timers, handler,
                   fileRows, life, events, overlapped>>

-----------------------------------------------------------------------------
(* shutdown(), on SIGTERM or SIGINT; the process exits when it returns. *)

Shutdown ==
    /\ life = "running"
    /\ life' = "draining"
    /\ timers' = {} /\ watched' = NoProject
    /\ UNCHANGED <<root, open, relRoot, initialized, call, handler, jobs, fileRows,
                   summaries, events, overlapped>>

\* The mutex is drained first; a sweep under way is not waited for.
CloseDown ==
    /\ life = "draining" /\ MutexFree
    /\ life' = "closed"
    /\ open' = NoProject /\ initialized' = FALSE
    /\ UNCHANGED <<root, relRoot, watched, call, timers, handler, jobs, fileRows,
                   summaries, events, overlapped>>

-----------------------------------------------------------------------------
SwitchInit ==
    /\ root = NoProject /\ open = NoProject /\ relRoot = NoProject
    /\ initialized = FALSE /\ watched = NoProject
    /\ call = [i \in Inits |-> [at |-> "none", project |-> NoProject]]
    /\ timers = {} /\ handler = {} /\ jobs = {}
    /\ fileRows = [p \in Projects |-> [x \in Paths |-> NoProject]]
    /\ summaries = [p \in Projects |-> [x \in Paths |-> NoProject]]
    /\ life = "running" /\ events = 0 /\ overlapped = FALSE

SwitchNext ==
    \/ \E i \in Inits : \/ \E p \in Projects : InitBegin(i, p)
                        \/ InitOpen(i) \/ InitTree(i) \/ InitReady(i)
                        \/ \E x \in Paths : InitWrites(i, x) \/ SweepWrites(i, x)
    \/ \E x \in Paths : FileEvent(x)
    \/ \E f \in File : BeginHandling(f) \/ EndHandling(f)
    \/ \E j \in Job : Answer(j)
    \/ Shutdown \/ CloseDown

SwitchSpec == SwitchInit /\ [][SwitchNext]_switchVars

\* A handler ends, and shutdown() goes on; no init() need.
SwitchFairness ==
    /\ WF_switchVars(CloseDown)
    /\ WF_switchVars(\E f \in File : EndHandling(f))

-----------------------------------------------------------------------------
\* The tables, timers and jobs name projects and paths there are, and the mutex
\* has one holder.
SwitchTypeOK ==
    /\ {root, open, relRoot, watched} \subseteq Projects \cup {NoProject}
    /\ initialized \in BOOLEAN /\ life \in {"running", "draining", "closed"}
    /\ timers \subseteq File /\ handler \subseteq File /\ Cardinality(handler) <= 1
    /\ jobs \subseteq Job
    /\ \A i \in Inits : InInit(i) => call[i].project \in Projects
    /\ events \in 0..MaxEvents

\* Whatever timers, handlers and starts are left over from the project before,
\* no row of a project's table describes a file of another project.
NoForeignRows ==
    \A p \in Projects, x \in Paths : fileRows[p][x] \in {NoProject, p}

\* A summary in a project's table was made from another project's file only if
\* its job was resubmitted, for those name their file by its relative path.
OnlyResubmittedCross ==
    \A p \in Projects, x \in Paths :
        summaries[p][x] # NoProject =>
            summaries[p][x].of = p \/ summaries[p][x].relative

\* The sweep of the first init() has the tables to itself: it takes no mutex.
\* (A later one does not: _initialized is still true.)
FirstSweepAlone == Sweeping(1) => handler = {}

\* Once init() is over, the root, the open database, the repository and the
\* watcher are of one project, unless two calls ran at once or the last failed.
OneProject ==
    /\ life = "running" /\ ~overlapped /\ initialized
    /\ \A i \in Inits : call[i].at \in {"none", "done"}
    => {root, relRoot, watched} = {open}

\* Two projects never mix in one server's state, but for what a resubmitted job
\* carries over.
SwitchIsSound ==
    /\ SwitchTypeOK /\ FirstSweepAlone /\ OneProject
    /\ NoForeignRows /\ OnlyResubmittedCross

\* A server that is told to stop stops, whatever its last handlers ran into.
ShutdownEnds == life = "draining" ~> life = "closed"
=============================================================================
