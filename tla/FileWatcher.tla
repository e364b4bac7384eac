---------------------------- MODULE FileWatcher ----------------------------
(***************************************************************************)
(* The life of the watchers of one server: starting, stopping, restarting  *)
(* after errors with its timers, and the coordinator that replaces them    *)
(* when the project is switched.  src/file-watcher.ts, src/coordinator.ts. *)
(*                                                                         *)
(* A call of chokidar's close() ends its events at once; the promise it    *)
(* returns settles later.  chokidar.watch() itself does not throw.         *)
(***************************************************************************)
EXTENDS Naturals

CONSTANTS
    Watchers,    \* FileWatcher objects
    None,        \* no watcher
    ErrorLimit,  \* errors after which a watcher restarts (10 in the code)
    MaxErrors    \* bound: errors that chokidar reports

ASSUME ConstantsAssumption ==
    /\ None \notin Watchers
    /\ ErrorLimit \in Nat /\ MaxErrors \in Nat

VARIABLES
    object,      \* the fields of each FileWatcher
    created,     \* the FileWatchers there are
    fileWatcher, \* the coordinator's field
    stopping,    \* shutdown() has begun
    errors,      \* history: errors reported so far
    pendingThen, \* history: watchers discarded between their close and their restart
    slowClose    \* history: a restart delay ended before its close() had settled

vars == <<object, created, fileWatcher, stopping, errors, pendingThen, slowClose>>

Fields == [isWatching : BOOLEAN, watcher : {"null", "open", "closing"},
           errorCount : 0..MaxErrors, restartAttempts : 0..MaxErrors,
           restartTimer : BOOLEAN, stabilityTimer : BOOLEAN]

New == [isWatching |-> FALSE, watcher |-> "null", errorCount |-> 0,
        restartAttempts |-> 0, restartTimer |-> FALSE, stabilityTimer |-> FALSE]

-----------------------------------------------------------------------------
(* Methods, from the fields before to the fields after. *)

start(o) ==
    IF o.isWatching THEN o
    ELSE [o EXCEPT !.watcher = "open", !.isWatching = TRUE, !.stabilityTimer = TRUE]

\* Mutant: a pending restart is not cancelled.
stopKeepingRestart(o) ==
    IF ~o.isWatching \/ o.watcher = "null" THEN o
    ELSE [o EXCEPT !.watcher = "closing", !.stabilityTimer = FALSE]

stop(o) ==
    IF ~o.isWatching \/ o.watcher = "null" THEN o
    ELSE [o EXCEPT !.watcher = "closing", !.stabilityTimer = FALSE,
                   !.restartTimer = FALSE]

Counted(o) == [o EXCEPT !.stabilityTimer = FALSE, !.restartAttempts = @ + 1]

\* Mutant: the restart is scheduled before stop(), which cancels it.
restartThenStop(o) == stop([Counted(o) EXCEPT !.restartTimer = TRUE])

restart(o) == [stop(Counted(o)) EXCEPT !.restartTimer = TRUE]

-----------------------------------------------------------------------------
(* Events and timers of a watcher. *)

OnError(w) ==
    /\ object[w].watcher = "open" /\ errors < MaxErrors
    /\ errors' = errors + 1
    /\ LET o == [object[w] EXCEPT !.errorCount = @ + 1]
       IN  object' = [object EXCEPT ![w] = IF o.errorCount > ErrorLimit
                                           THEN restart(o) ELSE o]
    /\ UNCHANGED <<created, fileWatcher, stopping, pendingThen, slowClose>>

\* close() settles.
Closed(w) ==
    /\ object[w].watcher = "closing"
    /\ object' = [object EXCEPT ![w].watcher = "null", ![w].isWatching = FALSE,
                                ![w].errorCount = 0]
    /\ UNCHANGED <<created, fileWatcher, stopping, errors, pendingThen, slowClose>>

RestartTimer(w) ==
    /\ object[w].restartTimer
    /\ LET o == [object[w] EXCEPT !.restartTimer = FALSE]
       IN  object' = [object EXCEPT ![w] = start(o)]
    /\ slowClose' = (slowClose \/ object[w].watcher = "closing")
    /\ UNCHANGED <<created, fileWatcher, stopping, errors, pendingThen>>

StabilityTimer(w) ==
    /\ object[w].stabilityTimer
    /\ object' = [object EXCEPT ![w].restartAttempts = 0, ![w].stabilityTimer = FALSE]
    /\ UNCHANGED <<created, fileWatcher, stopping, errors, pendingThen, slowClose>>

-----------------------------------------------------------------------------
(* The coordinator. *)

\* A stop() at this moment finds neither a watcher nor a reason to look further.
Between(w) == object[w].watcher = "null" /\ object[w].restartTimer

\* stop() of the present watcher, which is then forgotten.
Discarded ==
    IF fileWatcher = None THEN object
    ELSE [object EXCEPT ![fileWatcher] = stop(@)]

Discard ==
    pendingThen' = pendingThen \cup {w \in {fileWatcher} \ {None} : Between(w)}

\* initializeFileWatcher(), each time init() runs.
initializeFileWatcher(w) ==
    /\ ~stopping /\ w \notin created
    /\ created' = created \cup {w}
    /\ object' = [Discarded EXCEPT ![w] = start(New)]
    /\ fileWatcher' = w
    /\ Discard
    /\ UNCHANGED <<stopping, errors, slowClose>>

shutdown ==
    /\ ~stopping
    /\ stopping' = TRUE
    /\ object' = Discarded
    /\ fileWatcher' = None
    /\ Discard
    /\ UNCHANGED <<created, errors, slowClose>>

-----------------------------------------------------------------------------
Init ==
    /\ object = [w \in Watchers |-> New]
    /\ created = {} /\ fileWatcher = None /\ stopping = FALSE
    /\ errors = 0 /\ pendingThen = {} /\ slowClose = FALSE

Next ==
    \/ \E w \in Watchers : \/ OnError(w) \/ Closed(w) \/ RestartTimer(w)
                           \/ StabilityTimer(w) \/ initializeFileWatcher(w)
    \/ shutdown

Spec == Init /\ [][Next]_vars

\* close() settles and timers fire.
WatcherFairness == \A w \in Watchers : WF_vars(Closed(w)) /\ WF_vars(RestartTimer(w))
FairSpec == Spec /\ WatcherFairness

-----------------------------------------------------------------------------
\* Fields keep their types, and the flag, the handle and the error count of a
\* watcher agree whatever its timers do.
TypeOK ==
    /\ object \in [Watchers -> Fields]
    /\ created \subseteq Watchers /\ pendingThen \subseteq created
    /\ fileWatcher \in created \cup {None}
    /\ {stopping, slowClose} \subseteq BOOLEAN /\ errors \in 0..MaxErrors
    /\ \A w \in Watchers : /\ object[w].isWatching <=> object[w].watcher # "null"
                           /\ object[w].errorCount > ErrorLimit => object[w].watcher = "closing"

Watching(w) == object[w].watcher = "open"

\* A watcher the coordinator let go while it was watching or closing never
\* reports events again: two watchers of two projects do not run side by side.
\* (One that waited for its restart does start again: stop() returns early then.)
OneWatcher == \A w \in Watchers : Watching(w) => w = fileWatcher \/ w \in pendingThen

\* The backoff of a watcher is reset only while it watches, never by a timer
\* left over from before it was stopped.
StableMeansWatching == \A w \in Watchers : object[w].stabilityTimer => Watching(w)

\* However errors, closes, timers and switches interleave, what runs is the one
\* watcher the coordinator holds (file-watcher.ts:107-183).
WatchersAreSound == TypeOK /\ OneWatcher /\ StableMeansWatching

\* The coordinator's watcher comes back after any number of errors, unless it
\* is replaced, the server shuts down, or a close() takes longer than the
\* restart delay: then the timer finds isWatching still set and gives up.
WatchingResumes ==
    []<>(fileWatcher = None \/ slowClose \/ Watching(fileWatcher))
=============================================================================
