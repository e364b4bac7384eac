---------------------------- MODULE ProjectIndex ----------------------------
(***************************************************************************)
(* The structural index of one project -- files, file_dependencies,        *)
(* symbols and symbol_dependencies rows -- and everything that keeps it in *)
(* line with the disk: the first scan, the cached start, the startup       *)
(* sweep, debounced watcher events behind the mutex, exclude_and_remove    *)
(* and the communities derived from it.  src/coordinator.ts,               *)
(* src/file-utils.ts, src/db/repository.ts, src/language-config.ts,        *)
(* src/mcp-server.ts.                                                      *)
(*                                                                         *)
(* Files are TS/JS files that parse.  Content is the imports it has and a  *)
(* version, which is also its mtime; a file calls a function of every file *)
(* it imports.  Summaries and staleness are the business of                *)
(* SummaryFreshness and Cascade, importance and packages are left out.     *)
(***************************************************************************)
EXTENDS Naturals, FiniteSets, Sequences, SequencesExt

CONSTANTS
    Files,       \* the paths, as their ranks in path order
    Namesakes,   \* the files that share one basename
    Missing,     \* no file, no row
    NoMtime,     \* a row without mtime
    Idle,        \* no handler holds the mutex
    MaxWrites,   \* bound: changes on disk
    MaxStops,    \* bound: restarts of the server
    MaxExcludes  \* bound: exclude_and_remove calls

Versions == 0..MaxWrites
Content == [imports : SUBSET Files, version : Versions]
Event == Files \X {"add", "change", "unlink"}

\* symbol_dependencies rows name symbols by AUTOINCREMENT id: once the id is
\* gone from the symbols table it never comes back, and that end is not live.
Call == [caller : Files, callee : Files, callerLive : BOOLEAN, calleeLive : BOOLEAN]

\* What an extraction yields, and the handler that holds it.
Parsed == [ok : BOOLEAN, version : Versions \cup {Missing}, targets : SUBSET Files]
Work == [file : Files, kind : {"add", "update"}, parsed : Parsed,
         deps : SUBSET Files, mtime : Versions \cup {Missing, NoMtime}]

ASSUME ConstantsAssumption ==
    /\ Files \subseteq Nat /\ Namesakes \subseteq Files
    /\ {MaxWrites, MaxStops, MaxExcludes} \subseteq Nat
    /\ Missing # NoMtime /\ {Missing, NoMtime} \cap Versions = {}
    /\ Missing \notin Content /\ Idle \notin Work

VARIABLES
    disk,         \* content of each file, or Missing
    rows,         \* files: the recorded mtime of each row, or Missing
    symbols,      \* symbols: the version a file's rows were extracted from
    edges,        \* file_dependencies: local <<source, target>>
    calls,        \* symbol_dependencies, see Call
    excluded,     \* files matching excludePatterns
    dirty,        \* _communitiesDirty
    communities,  \* the edges file_communities was computed from
    phase,        \* where init() is
    todo,         \* <<pass, file>>: what the running start-up pass has still to visit
    timers,       \* armed debounce timers, oldest first
    mutex,        \* events waiting for treeMutex
    work,         \* the handler between its read and its write, or Idle
    robbed,       \* history: files whose row went in place of a namesake's
    writes, stops, missed  \* history: changes, restarts, an event was dropped

extraction == <<symbols, edges, calls, dirty>>
store == <<rows, robbed, extraction>>
queues == <<timers, mutex, work>>
history == <<writes, stops, missed>>
vars == <<disk, store, excluded, communities, phase, todo, queues, history>>

Present(f) == disk[f] # Missing
Targets(f) == {d \in Files : <<f, d>> \in edges}

-----------------------------------------------------------------------------
(* The parser and the repository. *)

\* extractTsJsFileParse(): an import resolves to a file that exists now.
Parse(f) ==
    IF Present(f)
    THEN [ok |-> TRUE, version |-> disk[f].version,
          targets |-> {d \in disk[f].imports : Present(d)}]
    ELSE [ok |-> FALSE, version |-> Missing, targets |-> {}]

Mtime(f, otherwise) == IF Present(f) THEN disk[f].version ELSE otherwise

\* A row that is written again is nobody's loss.
upsertFile(f, mtime) ==
    /\ rows' = [rows EXCEPT ![f] = mtime]
    /\ robbed' = robbed \ {f}

EdgesFrom(f, targets) ==
    {e \in edges : e[1] # f} \cup {<<f, d>> : d \in targets}

setEdges(f, targets) ==
    /\ edges' = EdgesFrom(f, targets)
    /\ dirty' = TRUE
    /\ UNCHANGED <<symbols, calls>>

\* The ids of f's symbols are gone from the symbols table.
Orphaned(cs, f) ==
    {[c EXCEPT !.callerLive = @ /\ c.caller # f,
               !.calleeLive = @ /\ c.callee # f] : c \in cs}

\* The rows whose caller is a symbol the table still holds for f.
CalledFrom(f) == {c \in calls : c.caller = f /\ c.callerLive}
CalledInto(f) == {c \in calls : c.callee = f /\ c.calleeLive}

\* Mutant: the symbols are deleted before the rows that name them.
RescannedLate(f) == Orphaned(calls, f)

\* Mutant: the old call rows and symbol ids are kept.
RescannedKeeping(f) == calls

Rescanned(f) == Orphaned(calls \ CalledFrom(f), f)

\* A call resolves only to a symbol the table has at this moment.
Resolved(f, targets) ==
    {[caller |-> f, callee |-> d, callerLive |-> TRUE, calleeLive |-> TRUE] :
       d \in {t \in targets \ {f} : symbols[t] # Missing}}

\* Mutant: the communities are not marked.
setEdgesAndSymbolsUnmarked(f, parsed) ==
    /\ edges' = EdgesFrom(f, parsed.targets)
    /\ calls' = Rescanned(f) \cup Resolved(f, parsed.targets)
    /\ symbols' = [symbols EXCEPT ![f] = parsed.version]
    /\ UNCHANGED dirty

setEdgesAndSymbols(f, parsed) ==
    /\ edges' = EdgesFrom(f, parsed.targets)
    /\ calls' = Rescanned(f) \cup Resolved(f, parsed.targets)
    /\ symbols' = [symbols EXCEPT ![f] = parsed.version]
    /\ dirty' = TRUE

\* Mutant: only the outgoing edges are deleted.
deleteFileOutgoing(f) ==
    /\ calls' = calls \ (CalledFrom(f) \cup CalledInto(f))
    /\ edges' = {e \in edges : e[1] # f}
    /\ symbols' = [symbols EXCEPT ![f] = Missing]
    /\ rows' = [rows EXCEPT ![f] = Missing]
    /\ UNCHANGED dirty

deleteFile(f) ==
    /\ calls' = calls \ (CalledFrom(f) \cup CalledInto(f))
    /\ edges' = {e \in edges : e[1] # f /\ e[2] # f}
    /\ symbols' = [symbols EXCEPT ![f] = Missing]
    /\ rows' = [rows EXCEPT ![f] = Missing]
    /\ UNCHANGED dirty

\* purgeRecordsMatching(), which every start runs.
Purge ==
    /\ rows' = [f \in Files |-> IF f \in excluded THEN Missing ELSE rows[f]]
    /\ edges' = {e \in edges : \A f \in excluded :
                   rows[f] # Missing => e[1] # f /\ e[2] # f}
    /\ symbols' = [f \in Files |-> IF f \in excluded THEN Missing ELSE symbols[f]]
    /\ calls' = calls \ UNION {CalledFrom(f) \cup CalledInto(f) : f \in excluded}
    /\ UNCHANGED robbed

-----------------------------------------------------------------------------
(* src/file-utils.ts, with the tree built from the rows. *)

\* addFileNode(), after its read of the file.
Added(f, parsed, mtime) ==
    /\ upsertFile(f, mtime)
    /\ IF parsed.ok THEN setEdgesAndSymbols(f, parsed) ELSE setEdges(f, {})

\* updateFileNodeOnChange(), after its read: deps are the tree's.
Updated(f, parsed, deps, mtime) ==
    /\ upsertFile(f, mtime)
    /\ IF parsed.ok THEN setEdgesAndSymbols(f, parsed)
       ELSE IF deps # {} THEN setEdges(f, {})
       ELSE UNCHANGED extraction

\* removeFileNode(): without a row of f, one of its namesakes is removed.
removeFileNode(f) ==
    LET found == IF rows[f] # Missing THEN {f}
                 ELSE {g \in Namesakes : f \in Namesakes /\ rows[g] # Missing}
    IN  IF found = {} THEN UNCHANGED store
        ELSE \E g \in found : deleteFile(g) /\ robbed' = robbed \cup ({g} \ {f})

-----------------------------------------------------------------------------
(* The disk, and the watcher that reports it. *)

\* Mutant: one timer per file.
ClearedOfFile(event) == SelectSeq(timers, LAMBDA e : e[1] # event[1])

\* clearTimeout(existingTimer)
ClearedOf(event) ==
    IF \E i \in DOMAIN timers : timers[i] = event
    THEN RemoveAt(timers, CHOOSE i \in DOMAIN timers : timers[i] = event)
    ELSE timers

Armed(event) == Append(ClearedOf(event), event)

\* handleFileEvent(): an event re-arms its own file's and type's timer, or is
\* dropped by a server that is not initialised.  The watcher ignores excluded
\* files.  The startup sweep sees what changed before its check, except a file
\* that came and went during the scan.
Report(f, type) ==
    IF phase = "up"
    THEN /\ timers' = IF f \in excluded THEN timers
                      ELSE Armed(<<f, type>>)
         /\ UNCHANGED missed
    ELSE /\ missed' = \/ missed \/ phase = "sweeping"
                      \/ /\ phase \in {"scanning", "built"}
                         /\ type = "unlink" /\ rows[f] = Missing
         /\ UNCHANGED timers

Write(f, imports) ==
    /\ writes < MaxWrites
    /\ writes' = writes + 1
    /\ disk' = [disk EXCEPT ![f] = [imports |-> imports, version |-> writes + 1]]
    /\ Report(f, IF Present(f) THEN "change" ELSE "add")
    /\ UNCHANGED <<store, excluded, communities, phase, todo, mutex, work, stops>>

Delete(f) ==
    /\ Present(f) /\ writes < MaxWrites
    /\ writes' = writes + 1
    /\ disk' = [disk EXCEPT ![f] = Missing]
    /\ Report(f, "unlink")
    /\ UNCHANGED <<store, excluded, communities, phase, todo, mutex, work, stops>>

-----------------------------------------------------------------------------
(* handleFileEvent(): the timer, the mutex, the handler. *)

\* All timers have the same delay: they fire in the order they were armed.
TimerFires ==
    /\ phase = "up" /\ timers # <<>>
    /\ timers' = Tail(timers)
    /\ mutex' = Append(mutex, Head(timers))
    /\ UNCHANGED <<disk, store, excluded, communities, phase, todo, work, history>>

Adding(f) == [file |-> f, kind |-> "add", parsed |-> Parse(f), deps |-> {},
              mtime |-> Mtime(f, NoMtime)]
Updating(f) == [file |-> f, kind |-> "update", parsed |-> Parse(f),
                deps |-> Targets(f), mtime |-> rows[f]]

\* The handler up to its read of the file.  classify() stores the new export
\* snapshot, in a row of its own when the file has none.
Handle(f, type) ==
    \/ /\ type = "unlink"
       /\ removeFileNode(f)
       /\ UNCHANGED work
    \/ /\ type = "add" /\ rows[f] # Missing
       /\ UNCHANGED <<store, work>>
    \/ /\ type = "add" /\ rows[f] = Missing
       /\ work' = Adding(f)
       /\ UNCHANGED store
    \/ /\ type = "change" /\ rows[f] = Missing
       /\ work' = Adding(f)
       /\ IF Present(f) THEN upsertFile(f, NoMtime) ELSE UNCHANGED <<rows, robbed>>
       /\ UNCHANGED extraction
    \/ /\ type = "change" /\ rows[f] # Missing
       /\ work' = Updating(f)
       /\ UNCHANGED store

BeginHandler ==
    /\ phase = "up" /\ work = Idle /\ mutex # <<>>
    /\ Handle(Head(mutex)[1], Head(mutex)[2])
    /\ mutex' = Tail(mutex)
    /\ UNCHANGED <<disk, excluded, communities, phase, todo, timers, history>>

\* The rest of the handler.  An update records the mtime the file has now.
EndHandler ==
    /\ phase = "up" /\ work # Idle
    /\ IF work.kind = "add"
       THEN Added(work.file, work.parsed, work.mtime)
       ELSE Updated(work.file, work.parsed, work.deps, Mtime(work.file, work.mtime))
    /\ work' = Idle
    /\ UNCHANGED <<disk, excluded, communities, phase, todo, timers, mutex, history>>

-----------------------------------------------------------------------------
(* Tools. *)

\* The pattern is the basename anywhere in the project.
SameName(f) == IF f \in Namesakes THEN Namesakes ELSE {f}

\* exclude_and_remove does not take the mutex.
ExcludeAndRemove(f) ==
    /\ phase = "up" /\ f \notin excluded
    /\ excluded' = excluded \cup SameName(f)
    /\ removeFileNode(f)
    /\ UNCHANGED <<disk, communities, phase, todo, queues, history>>

\* get_file_summary: checkFileFreshness() records the mtime of a file that is
\* newer than its row, and leaves its content to the watcher.
Outdated(f) == Present(f) /\ rows[f] \in Versions /\ rows[f] # disk[f].version

CheckFileFreshness(f) ==
    /\ phase = "up" /\ Outdated(f)
    /\ upsertFile(f, disk[f].version)
    /\ UNCHANGED <<disk, extraction, excluded, communities, phase, todo, queues, history>>

\* get_communities: without edges only the flag is cleared.
GetCommunities ==
    /\ phase = "up" /\ dirty
    /\ dirty' = FALSE
    /\ communities' = IF edges = {} THEN communities ELSE edges
    /\ UNCHANGED <<disk, rows, robbed, symbols, edges, calls, excluded, phase, todo, queues,
                   history>>

-----------------------------------------------------------------------------
(* Start and stop of the server. *)

Indexable(f) == Present(f) /\ f \notin excluded

\* init() up to buildFileTree(): memory is fresh, excluded rows are purged.
Start ==
    /\ phase = "down"
    /\ phase' = "purged"
    /\ Purge
    /\ dirty' = TRUE
    /\ UNCHANGED <<disk, excluded, communities, todo, queues, history>>

\* buildFileTree(): a sample of at most ten rows is compared with the disk; if
\* all are fresh the rows are taken as they are.
UseCache ==
    /\ phase = "purged"
    /\ \E f \in Files : rows[f] # Missing
    /\ \E sample \in SUBSET {f \in Files : rows[f] # Missing} :
         \A f \in sample : Present(f) /\ rows[f] = disk[f].version
    /\ phase' = "built"
    /\ UNCHANGED <<disk, store, excluded, communities, todo, queues, history>>

\* Pass 1: the mtime of every file on disk is recorded.
Rescan ==
    /\ phase = "purged"
    /\ \/ \A f \in Files : rows[f] = Missing
       \/ \E f \in Files : rows[f] # Missing /\ rows[f] # Mtime(f, Missing)
    /\ \E f \in Files : Indexable(f)
    /\ rows' = [f \in Files |-> IF Indexable(f) THEN disk[f].version ELSE rows[f]]
    /\ robbed' = {f \in robbed : ~Indexable(f)}
    /\ todo' = {<<"scan", f>> : f \in {f \in Files : rows'[f] # Missing}}
    /\ phase' = "scanning"
    /\ UNCHANGED <<disk, extraction, excluded, communities, queues, history>>

\* Pass 2 leaves out files with their recorded mtime that have edges.
Unchanged(f) == Present(f) /\ disk[f].version = rows[f] /\ Targets(f) # {}

ScanFile(f) ==
    /\ phase = "scanning" /\ <<"scan", f>> \in todo
    /\ \A g \in Files : <<"scan", g>> \in todo => f <= g
    /\ todo' = todo \ {<<"scan", f>>}
    /\ IF Present(f) /\ ~Unchanged(f)
       THEN setEdgesAndSymbols(f, Parse(f)) /\ UNCHANGED <<rows, robbed>>
       ELSE UNCHANGED store
    /\ UNCHANGED <<disk, excluded, communities, phase, queues, history>>

Scanned ==
    /\ phase = "scanning" /\ todo = {}
    /\ phase' = "built"
    /\ UNCHANGED <<disk, store, excluded, communities, todo, queues, history>>

\* runStartupIntegritySweep(): integrityCheck().
IntegrityCheck ==
    /\ phase = "built"
    /\ phase' = "sweeping"
    /\ todo' = {<<"stale", f>> : f \in {f \in Files : /\ Present(f)
                                                    /\ rows[f] \in Versions
                                                    /\ rows[f] # disk[f].version}}
           \cup {<<"missing", f>> : f \in {f \in Files : rows[f] # Missing /\ ~Present(f)}}
           \cup {<<"new", f>> : f \in {f \in Files : rows[f] = Missing /\ Indexable(f)}}
    /\ UNCHANGED <<disk, store, excluded, communities, queues, history>>

\* The healing loops, in this order.
HealStale(f) ==
    /\ <<"stale", f>> \in todo
    /\ Updated(f, Parse(f), Targets(f), Mtime(f, rows[f]))
    /\ todo' = todo \ {<<"stale", f>>}

HealMissing(f) ==
    /\ <<"missing", f>> \in todo /\ \A g \in Files : <<"stale", g>> \notin todo
    /\ removeFileNode(f)
    /\ todo' = todo \ {<<"missing", f>>}

HealNew(f) ==
    /\ <<"new", f>> \in todo
    /\ \A g \in Files : <<"stale", g>> \notin todo /\ <<"missing", g>> \notin todo
    /\ Added(f, Parse(f), Mtime(f, NoMtime))
    /\ todo' = todo \ {<<"new", f>>}

Heal ==
    /\ phase = "sweeping"
    /\ \E f \in Files : HealStale(f) \/ HealMissing(f) \/ HealNew(f)
    /\ UNCHANGED <<disk, excluded, communities, phase, queues, history>>

\* init() ends: events are handled from here on.
Ready ==
    /\ phase = "sweeping" /\ todo = {}
    /\ phase' = "up"
    /\ UNCHANGED <<disk, store, excluded, communities, todo, queues, history>>

\* The process ends: the database and the exclusions stay.
Ended ==
    /\ phase # "down" /\ stops < MaxStops
    /\ stops' = stops + 1
    /\ phase' = "down" /\ todo' = {}
    /\ timers' = <<>> /\ mutex' = <<>> /\ work' = Idle
    /\ UNCHANGED <<disk, excluded, communities, writes, missed>>

Stop == Ended /\ UNCHANGED store

\* The row that a handler or a repair of f is about to write: a statement of its
\* own, before the transaction of setEdgesAndSymbols().
FirstWrite(f, mtime) ==
    \/ /\ phase = "up" /\ work # Idle /\ f = work.file
       /\ mtime = IF work.kind = "add" THEN work.mtime ELSE Mtime(f, work.mtime)
    \/ phase = "sweeping" /\ <<"stale", f>> \in todo /\ mtime = Mtime(f, rows[f])
    \/ /\ phase = "sweeping" /\ <<"new", f>> \in todo /\ mtime = Mtime(f, NoMtime)
       /\ \A g \in Files : <<"stale", g>> \notin todo /\ <<"missing", g>> \notin todo

\* A kill between that statement and the rest: the row has the new mtime, edges,
\* symbols and calls are those of the old content.
KillInWrite ==
    /\ Ended
    /\ \E f \in Files, mtime \in Versions \cup {NoMtime, Missing} :
          FirstWrite(f, mtime) /\ upsertFile(f, mtime)
    /\ UNCHANGED extraction

-----------------------------------------------------------------------------
\* The first start in a project that has never been indexed.
Init ==
    /\ disk \in [Files -> [imports : SUBSET Files, version : {0}] \cup {Missing}]
    /\ \A f \in Files : Present(f) => f \notin disk[f].imports
    /\ rows = [f \in Files |-> Missing] /\ symbols = rows
    /\ edges = {} /\ calls = {} /\ excluded = {}
    /\ dirty = TRUE /\ communities = {}
    /\ phase = "down" /\ todo = {}
    /\ timers = <<>> /\ mutex = <<>> /\ work = Idle
    /\ robbed = {} /\ writes = 0 /\ stops = 0 /\ missed = FALSE

Next ==
    \/ \E f \in Files, imports \in SUBSET Files : f \notin imports /\ Write(f, imports)
    \/ \E f \in Files : Delete(f) \/ ScanFile(f) \/ CheckFileFreshness(f)
    \/ \E f \in Files : Cardinality(excluded) < MaxExcludes /\ ExcludeAndRemove(f)
    \/ TimerFires \/ BeginHandler \/ EndHandler \/ GetCommunities
    \/ Start \/ UseCache \/ Rescan \/ Scanned
    \/ IntegrityCheck \/ Heal \/ Ready \/ Stop \/ KillInWrite

Spec == Init /\ [][Next]_vars

-----------------------------------------------------------------------------
\* Every table and queue holds what its declaration says, and at most one timer
\* is armed for a file and an event type.
TypeOK ==
    /\ disk \in [Files -> Content \cup {Missing}]
    /\ rows \in [Files -> Versions \cup {Missing, NoMtime}]
    /\ symbols \in [Files -> Versions \cup {Missing}]
    /\ edges \subseteq Files \X Files /\ calls \subseteq Call
    /\ communities \subseteq Files \X Files /\ robbed \subseteq Files
    /\ excluded \subseteq Files /\ dirty \in BOOLEAN
    /\ phase \in {"down", "purged", "scanning", "built", "sweeping", "up"}
    /\ todo \subseteq {"scan", "stale", "missing", "new"} \X Files
    /\ timers \in Seq(Event) /\ mutex \in Seq(Event) /\ IsInjective(timers)
    /\ work \in Work \cup {Idle}
    /\ writes \in 0..MaxWrites /\ stops \in 0..MaxStops /\ missed \in BOOLEAN

\* Nothing is waiting to be handled.
Quiet == phase = "up" /\ timers = <<>> /\ mutex = <<>> /\ work = Idle

\* Nothing happened that the index is not told of.
Undisturbed == ~missed /\ excluded = {}

\* No symbol_dependencies row has a caller that is gone: setEdgesAndSymbols(),
\* deleteFile() and the purge find a file's rows by symbol ids and must do so
\* before they delete the symbols.
NoGhostCallers == \A c \in calls : c.callerLive

\* Whatever bursts of events, races with the handler and restarts there were,
\* a quiet server's rows are the files on disk with the mtimes they have:
\* debouncing per event type keeps the last event last, and the sweep finds
\* the rest.  Only a row without mtime that a stopped server left behind is
\* not looked at again.
RowsMatchDisk ==
    Quiet /\ Undisturbed => \A f \in Files :
        \/ rows[f] = Mtime(f, Missing) \/ f \in robbed
        \/ stops > 0 /\ Present(f) /\ rows[f] = NoMtime

\* A quiet server that was never restarted has extracted every file's symbols
\* from its present content, and has no edge to a file that is gone or not
\* imported.
ExtractionIsCurrent ==
    Quiet /\ Undisturbed /\ stops = 0 =>
        /\ \A f \in Files : symbols[f] = Mtime(f, Missing) \/ f \in robbed
        /\ \A e \in edges :
              /\ Present(e[1]) /\ e[2] \in disk[e[1]].imports
              /\ Present(e[2]) \/ e[2] \in robbed

\* A server that has come to rest has the index of the files on disk.
IndexMatchesDisk == TypeOK /\ RowsMatchDisk /\ ExtractionIsCurrent

\* Communities that are served without being recomputed were computed with
\* every edge there is.
CommunitiesSeeEveryEdge == phase = "up" /\ ~dirty => edges \subseteq communities

\* find_callers answers with every caller there is: an import between two
\* indexed files has a call row whose callee is a symbol the table holds.
CallersAreFound ==
    Quiet /\ Undisturbed /\ stops = 0 =>
        \A e \in edges : symbols[e[2]] # Missing =>
            \E c \in calls : c.caller = e[1] /\ c.callee = e[2] /\ c.calleeLive
=============================================================================
