----------------------------- MODULE Importance -----------------------------
(***************************************************************************)
(* The importance column: calculateImportance() over a whole project when  *)
(* init() scans it, recalculateImportanceForAffected() over the tree that  *)
(* the handler of an event or the startup sweep builds from the rows, and  *)
(* the algorithm version that makes a start recompute every score.         *)
(* src/file-utils.ts, src/coordinator.ts, src/mcp-server.ts.               *)
(*                                                                         *)
(* A handler is one step here and no file changes while init() runs: what  *)
(* happens between awaits is the business of ProjectIndex.  Files have     *)
(* names of their own, and import each other at most once.                 *)
(***************************************************************************)
EXTENDS Naturals, FiniteSets

CONSTANTS
    Ranked,        \* the files
    TypeScore, PlaceScore, NameScore,  \* what a file's extension, directory and name score
    Packaged,     \* the files that import packages
    NoRow,        \* no file, no row, no node
    Unseen,      \* a row without mtime
    MaxVersion,   \* bound: releases with another algorithm
    MaxChanges,     \* bound: changes on disk
    MaxHalts,     \* bound: stops and kills of the server
    MaxManual     \* bound: set_file_importance calls

Mtimes == Nat \cup {Unseen}
Disk == [imports : SUBSET Ranked, mtime : Nat]
Row == [importance : 0..10, mtime : Mtimes]
Node == [importance : 0..10, mtime : Mtimes, deps : SUBSET Ranked, dependents : SUBSET Ranked,
         pkg : BOOLEAN]

ASSUME ImportanceAssumption ==
    /\ {TypeScore, PlaceScore, NameScore} \subseteq [Ranked -> Nat]
    /\ IsFiniteSet(Ranked) /\ Packaged \subseteq Ranked
    /\ {MaxChanges, MaxHalts, MaxManual} \subseteq Nat /\ MaxVersion \in Nat \ {0}
    /\ NoRow \notin Disk \cup Row \cup Node

VARIABLES
    content,    \* disk: [imports, mtime] of each file, or NoRow
    scores,     \* files: [importance, mtime] of each row, or NoRow
    targets,    \* file_dependencies: the local targets of each file
    packages,   \* file_dependencies: the files with package rows
    stored,     \* kv_state.importance_algorithm_version, 0 if never written
    algorithm,  \* IMPORTANCE_ALGORITHM_VERSION of the code that runs
    stage,      \* where the server is
    healing,    \* <<list, file>>: what the sweep has still to visit
    healTree,   \* the sweep's tree, see Node
    reports,    \* <<file, type>>: events that wait for the mutex
    edited, stopped, manual,  \* history: changes, stops, manual scores
    oldScores,  \* history: the rows an older algorithm has scored
    unscored    \* history: rows that something has kept from being scored, see the end

tables == <<scores, targets, packages, oldScores, unscored>>
bounds == <<edited, stopped, manual>>
importanceVars == <<content, tables, stored, algorithm, stage, healing, healTree, reports, bounds>>

OnDisk(f) == content[f] # NoRow
Stored == {f \in Ranked : scores[f] # NoRow}
MtimeOf(f, otherwise) == IF OnDisk(f) THEN content[f].mtime ELSE otherwise
Dependents(f) == {g \in Ranked : f \in targets[g]}
AtMost(n, limit) == IF n < limit THEN n ELSE limit

-----------------------------------------------------------------------------
(* The formula. *)

calculateInitialImportance(f) == AtMost(TypeScore[f] + PlaceScore[f] + NameScore[f], 10)

\* Both callers score from the project's root: init() has made it the working
\* directory.  A node has what rowToFileNode() reads: [importance, mtime, deps, dependents, pkg].
calculateNodeImportance(f, node) ==
    AtMost(calculateInitialImportance(f)
             + AtMost(Cardinality(node.dependents), 3)
             + AtMost(Cardinality(node.deps), 2)
             + (IF node.pkg THEN 1 ELSE 0), 10)

\* getAllFilesWithDeps()
NodeOf(f) ==
    [importance |-> scores[f].importance, mtime |-> scores[f].mtime,
     deps |-> targets[f], dependents |-> Dependents(f), pkg |-> f \in packages]

TreeOfRows == [f \in Ranked |-> IF f \in Stored THEN NodeOf(f) ELSE NoRow]

-----------------------------------------------------------------------------
(* The incremental update of a tree. *)

WouldChange(t, f) ==
    t[f] # NoRow /\ t[f].importance # calculateNodeImportance(f, t[f])

\* The breadth-first search from the affected files: who changes sends it on
\* to its dependents.
Reached(t, affected) ==
    {f \in Ranked : \A seen \in SUBSET Ranked :
        (/\ affected \subseteq seen
         /\ \A g \in seen : WouldChange(t, g) => t[g].dependents \subseteq seen)
        => f \in seen}

recalculateImportanceForAffected(t, affected) ==
    LET visited == Reached(t, affected)
    IN  [f \in Ranked |-> IF f \in visited /\ t[f] # NoRow
                         THEN [t[f] EXCEPT !.importance = calculateNodeImportance(f, t[f])]
                         ELSE t[f]]

\* analyzeNewFile(): a file that cannot be read imports nothing.
Analysed(f) == IF OnDisk(f) THEN {d \in content[f].imports : OnDisk(d)} ELSE {}
AnalysedPackages(f) == OnDisk(f) /\ f \in Packaged

\* f's dependencies become deps: the reverse map follows.
Relinked(t, f, deps) ==
    [g \in Ranked |->
        CASE g = f -> t[f]
          [] g # f /\ t[g] # NoRow /\ g \in t[f].deps \ deps ->
                [t[g] EXCEPT !.dependents = @ \ {f}]
          [] g # f /\ t[g] # NoRow /\ g \in deps \ t[f].deps ->
                [t[g] EXCEPT !.dependents = @ \cup {f}]
          [] OTHER -> t[g]]

\* Mutant: the files that are no longer imported are not affected.
AffectedByNew(f, old, new) == {f} \cup new

Affected(f, old, new) == {f} \cup old \cup new

\* updateFileNodeOnChange(), of a file with a node.
UpdatedTree(t, f) ==
    LET deps == Analysed(f)
        linked == [Relinked(t, f, deps) EXCEPT ![f].deps = deps, ![f].pkg = AnalysedPackages(f)]
    IN  recalculateImportanceForAffected(linked, Affected(f, t[f].deps, deps))

\* addFileNode(): the new node has no dependents, whoever imports it already.
AddedTree(t, f) ==
    LET empty == [importance |-> calculateInitialImportance(f), mtime |-> MtimeOf(f, Unseen),
                  deps |-> {}, dependents |-> {}, pkg |-> AnalysedPackages(f)]
        linked == [Relinked([t EXCEPT ![f] = empty], f, Analysed(f))
                     EXCEPT ![f].deps = Analysed(f)]
    IN  recalculateImportanceForAffected(linked, Affected(f, {}, Analysed(f)))

\* removeFileNode(), of a file with a node.
RemovedTree(t, f) ==
    LET linked == [g \in Ranked |->
            IF g = f THEN NoRow
            ELSE IF t[g] = NoRow THEN NoRow
            ELSE [t[g] EXCEPT
                    !.dependents = IF g \in t[f].deps THEN @ \ {f} ELSE @,
                    !.deps = IF g \in t[f].dependents THEN @ \ {f} ELSE @]]
    IN  recalculateImportanceForAffected(linked, t[f].deps \cup t[f].dependents)

-----------------------------------------------------------------------------
(* What of the tree is written: f's row and f's edges, no other row. *)

\* The sweep goes on with its tree, an event's is dropped.
KeepTree(t) == healTree' = IF stage = "sweeping" THEN t ELSE healTree

\* The files whose score depends on the edges that change.
Bypassed(f, deps) == ((targets[f] \ deps) \cup (deps \ targets[f])) \ {f}

Persist(t, f, deps) ==
    /\ scores' = [scores EXCEPT ![f] = [importance |-> t[f].importance, mtime |-> t[f].mtime]]
    /\ targets' = [targets EXCEPT ![f] = deps]
    /\ packages' = IF AnalysedPackages(f) THEN packages \cup {f} ELSE packages \ {f}
    /\ oldScores' = oldScores \ {f}
    /\ unscored' = (unscored \ {f}) \cup Bypassed(f, deps)
                     \cup (IF f \notin Stored /\ Dependents(f) # {} THEN {f} ELSE {})
    /\ KeepTree(t)

\* Package imports are compared as JSON of objects that are built differently:
\* of two lists that are not empty either may come out.
ImportsDiffer(t, f) ==
    IF t[f].deps # Analysed(f) \/ t[f].pkg # AnalysedPackages(f) THEN {TRUE}
    ELSE IF t[f].pkg THEN BOOLEAN ELSE {FALSE}

\* updateFileNodeOnChange()
UpdateRow(t, f) ==
    LET now == [t EXCEPT ![f].mtime = MtimeOf(f, @)]
    IN  \E differ \in ImportsDiffer(t, f) :
          IF differ THEN Persist(UpdatedTree(now, f), f, Analysed(f))
          ELSE /\ scores' = [scores EXCEPT ![f] = [importance |-> now[f].importance,
                                                   mtime |-> now[f].mtime]]
               /\ KeepTree(now)
               /\ UNCHANGED <<targets, packages, oldScores, unscored>>

\* addFileNode()
AddRow(t, f) == Persist(AddedTree(t, f), f, Analysed(f))

\* removeFileNode() and deleteFile(), which takes the edges into f, too.
RemoveRow(t, f) ==
    /\ scores' = [scores EXCEPT ![f] = NoRow]
    /\ targets' = [g \in Ranked |-> IF g = f THEN {} ELSE targets[g] \ {f}]
    /\ packages' = packages \ {f}
    /\ oldScores' = oldScores \ {f}
    /\ unscored' = (unscored \cup targets[f] \cup Dependents(f)) \ {f}
    /\ KeepTree(RemovedTree(t, f))

\* handleFileEvent(), behind the mutex, on a tree of the rows of this moment.
HandleReport(f, type) ==
    /\ stage = "up" /\ <<f, type>> \in reports
    /\ reports' = reports \ {<<f, type>>}
    /\ \/ type = "unlink" /\ f \in Stored /\ RemoveRow(TreeOfRows, f)
       \/ type # "unlink" /\ f \notin Stored /\ AddRow(TreeOfRows, f)
       \/ type = "change" /\ f \in Stored /\ UpdateRow(TreeOfRows, f)
       \/ /\ IF type = "unlink" THEN f \notin Stored ELSE type = "add" /\ f \in Stored
          /\ UNCHANGED <<tables, healTree>>
    /\ UNCHANGED <<content, stored, algorithm, stage, healing, bounds>>

\* set_file_importance
SetImportance(f, importance) ==
    /\ stage = "up" /\ f \in Stored /\ manual < MaxManual
    /\ manual' = manual + 1
    /\ scores' = [scores EXCEPT ![f].importance = importance]
    /\ oldScores' = oldScores \ {f}
    /\ unscored' = unscored \cup {f}
    /\ UNCHANGED <<content, targets, packages, stored, algorithm, stage, healing, healTree,
                   reports, edited, stopped>>

-----------------------------------------------------------------------------
(* The disk. *)

ReportChange(f, type) == reports' = IF stage = "up" THEN reports \cup {<<f, type>>} ELSE reports

Save(f, wanted) ==
    /\ stage \in {"up", "down"} /\ edited < MaxChanges
    /\ edited' = edited + 1
    /\ content' = [content EXCEPT ![f] = [imports |-> wanted, mtime |-> edited']]
    /\ ReportChange(f, IF OnDisk(f) THEN "change" ELSE "add")
    /\ UNCHANGED <<tables, stored, algorithm, stage, healing, healTree, stopped, manual>>

Unlink(f) ==
    /\ stage \in {"up", "down"} /\ OnDisk(f) /\ edited < MaxChanges
    /\ edited' = edited + 1
    /\ content' = [content EXCEPT ![f] = NoRow]
    /\ ReportChange(f, "unlink")
    /\ UNCHANGED <<tables, stored, algorithm, stage, healing, healTree, stopped, manual>>

-----------------------------------------------------------------------------
(* init(): buildFileTree() and the sweep. *)

\* Rows that look fresh, by a sample of them if there are more than ten, are
\* taken as they are, or only scored anew if another algorithm has scored them.
UseCachedRows ==
    /\ stage = "down" /\ Stored # {}
    /\ \E sample \in SUBSET Stored :
         \A f \in sample : OnDisk(f) /\ scores[f].mtime = content[f].mtime
    /\ stage' = IF stored # algorithm THEN "extracted" ELSE "built"
    /\ UNCHANGED <<content, tables, stored, algorithm, healing, healTree, reports, bounds>>

\* Pass 1 records each file with its initial score.
ListFiles ==
    /\ stage = "down" /\ \E f \in Ranked : OnDisk(f)
    /\ \/ Stored = {}
       \/ \E f \in Stored : scores[f].mtime # MtimeOf(f, NoRow)
    /\ scores' = [f \in Ranked |->
                    IF OnDisk(f) THEN [importance |-> calculateInitialImportance(f),
                                       mtime |-> content[f].mtime]
                    ELSE scores[f]]
    /\ oldScores' = {f \in oldScores : ~OnDisk(f)}
    /\ unscored' = Ranked
    /\ stage' = "listed"
    /\ UNCHANGED <<content, targets, packages, stored, algorithm, healing, healTree, reports,
                   bounds>>

\* Pass 2 leaves out files that are gone or have local edges.
ExtractEdges ==
    LET visited == {f \in Stored : OnDisk(f) /\ targets[f] = {}}
    IN  /\ stage = "listed"
        /\ targets' = [f \in Ranked |-> IF f \in visited THEN Analysed(f) ELSE targets[f]]
        /\ packages' = (packages \ visited) \cup {f \in visited : AnalysedPackages(f)}
        /\ stage' = "extracted"
        /\ UNCHANGED <<content, scores, oldScores, unscored, stored, algorithm, healing,
                       healTree, reports, bounds>>

\* Mutant: the rows are read without their edges.
recalculateImportanceWithoutDeps ==
    /\ scores' = [f \in Ranked |->
                    IF f \in Stored
                    THEN [scores[f] EXCEPT !.importance = calculateInitialImportance(f)]
                    ELSE NoRow]
    /\ oldScores' = {} /\ unscored' = {}

\* Pass 2b
recalculateImportanceFromDb ==
    /\ scores' = [f \in Ranked |->
                    IF f \in Stored
                    THEN [scores[f] EXCEPT !.importance = calculateNodeImportance(f, NodeOf(f))]
                    ELSE NoRow]
    /\ oldScores' = {} /\ unscored' = {}

ScoreAll ==
    /\ stage = "extracted"
    /\ recalculateImportanceFromDb
    /\ stage' = "scored"
    /\ UNCHANGED <<content, targets, packages, stored, algorithm, healing, healTree, reports,
                   bounds>>

RecordVersion ==
    /\ stage = "scored"
    /\ stored' = algorithm
    /\ stage' = "built"
    /\ UNCHANGED <<content, tables, algorithm, healing, healTree, reports, bounds>>

\* integrityCheck()
BeginSweep ==
    /\ stage = "built"
    /\ stage' = "sweeping"
    /\ healing' = {<<"stale", f>> : f \in {f \in Stored : /\ OnDisk(f) /\ scores[f].mtime # Unseen
                                                          /\ scores[f].mtime # content[f].mtime}}
             \cup {<<"missing", f>> : f \in {f \in Stored : ~OnDisk(f)}}
             \cup {<<"new", f>> : f \in {f \in Ranked : OnDisk(f) /\ f \notin Stored}}
    /\ healTree' = TreeOfRows
    /\ UNCHANGED <<content, tables, stored, algorithm, reports, bounds>>

\* The healing loops, in this order, on one tree.
HealRow(f) ==
    /\ stage = "sweeping"
    /\ \/ /\ <<"stale", f>> \in healing /\ UpdateRow(healTree, f)
          /\ healing' = healing \ {<<"stale", f>>}
       \/ /\ <<"missing", f>> \in healing /\ \A g \in Ranked : <<"stale", g>> \notin healing
          /\ RemoveRow(healTree, f)
          /\ healing' = healing \ {<<"missing", f>>}
       \/ /\ <<"new", f>> \in healing
          /\ \A g \in Ranked : <<"stale", g>> \notin healing /\ <<"missing", g>> \notin healing
          /\ AddRow(healTree, f)
          /\ healing' = healing \ {<<"new", f>>}
    /\ UNCHANGED <<content, stored, algorithm, stage, reports, bounds>>

EndSweep ==
    /\ stage = "sweeping" /\ healing = {}
    /\ stage' = "up"
    /\ healTree' = [f \in Ranked |-> NoRow]
    /\ UNCHANGED <<content, tables, stored, algorithm, healing, reports, bounds>>

\* The server stops or is killed, and the next one may be another release.
StopServer ==
    /\ stage # "down" /\ stopped < MaxHalts
    /\ stopped' = stopped + 1
    /\ stage' = "down" /\ reports' = {} /\ healing' = {}
    /\ healTree' = [f \in Ranked |-> NoRow]
    /\ algorithm' \in {algorithm, AtMost(algorithm + 1, MaxVersion)}
    /\ oldScores' = IF algorithm' = algorithm THEN oldScores ELSE Stored
    /\ UNCHANGED <<content, scores, targets, packages, unscored, stored, edited, manual>>

ImportanceInit ==
    /\ content \in [Ranked -> [imports : SUBSET Ranked, mtime : {0}] \cup {NoRow}]
    /\ \A f \in Ranked : OnDisk(f) => f \notin content[f].imports
    /\ scores = [f \in Ranked |-> NoRow] /\ healTree = scores
    /\ targets = [f \in Ranked |-> {}] /\ packages = {}
    /\ stored = 0 /\ algorithm = 1
    /\ stage = "down" /\ healing = {} /\ reports = {}
    /\ edited = 0 /\ stopped = 0 /\ manual = 0
    /\ oldScores = {} /\ unscored = {}

ImportanceNext ==
    \/ \E f \in Ranked, wanted \in SUBSET Ranked : f \notin wanted /\ Save(f, wanted)
    \/ \E f \in Ranked : Unlink(f) \/ HealRow(f) \/ SetImportance(f, 10)
    \/ \E f \in Ranked, type \in {"add", "change", "unlink"} : HandleReport(f, type)
    \/ UseCachedRows \/ ListFiles \/ ExtractEdges \/ ScoreAll \/ RecordVersion
    \/ BeginSweep \/ EndSweep \/ StopServer

ImportanceSpec == ImportanceInit /\ [][ImportanceNext]_importanceVars

-----------------------------------------------------------------------------
\* Rows, edges and tree hold what their declarations say.
IsScore(n) == n \in 0..10

ImportanceTypeOK ==
    /\ \A f \in Stored : IsScore(scores[f].importance)
    /\ targets \in [Ranked -> SUBSET Ranked] /\ packages \subseteq Ranked
    /\ \A f \in Ranked : healTree[f] # NoRow =>
          /\ IsScore(healTree[f].importance)
          /\ healTree[f].deps \cup healTree[f].dependents \subseteq Ranked
    /\ stored \in 0..algorithm /\ oldScores \cup unscored \subseteq Ranked
    /\ healing \subseteq {"stale", "missing", "new"} \X Ranked

\* docs/internals.md: once a server is up, no score of an older algorithm is
\* read, whenever the starts before it were killed.
NoOldScores == stage = "up" => oldScores \cap Stored = {}

\* The affected files are enough: with an event or a healing to do, a tree whose
\* nodes all have their score has it again after any file's change, addition or
\* removal, without a look at the other nodes.
TreeIsScored(t) ==
    \A f \in Ranked : t[f] # NoRow => t[f].importance = calculateNodeImportance(f, t[f])

IncrementalIsFull ==
    LET t == IF stage = "sweeping" THEN healTree ELSE TreeOfRows
    IN  (\/ stage = "up" /\ reports # {}
         \/ stage = "sweeping" /\ healing # {}) /\ TreeIsScored(t) =>
            \A f \in Ranked : IF t[f] # NoRow
                             THEN TreeIsScored(UpdatedTree(t, f)) /\ TreeIsScored(RemovedTree(t, f))
                             ELSE TreeIsScored(AddedTree(t, f))

\* A row has the score that the edges give it, unless something has come in
\* between that the code does not write back: another file's event changed its
\* edges, it was added after a file that imports it, a person scored it, or a
\* kill cut a scan short.
ScoredUnlessBypassed ==
    stage = "up" => \A f \in Stored \ unscored :
        scores[f].importance = calculateNodeImportance(f, NodeOf(f))

\* The scores stored are of this algorithm and of the present edges, but for
\* what bypasses them.
ScoresAreSound == ImportanceTypeOK /\ NoOldScores /\ ScoredUnlessBypassed

\* README: "every file scored 0-10 based on how many things depend on it".  With
\* no event waiting, no manual score and no stop, every row has the score that
\* its edges give it.
ScoresFollowTheGraph ==
    stage = "up" /\ reports = {} /\ manual = 0 /\ stopped = 0 =>
        \A f \in Stored : scores[f].importance = calculateNodeImportance(f, NodeOf(f))
=============================================================================
