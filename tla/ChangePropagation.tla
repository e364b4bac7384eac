-------------------------- MODULE ChangePropagation --------------------------
(***************************************************************************)
(* From an edit to the staleness of the files that import the edited one:  *)
(* the change branch of handleFileEvent (coordinator.ts), which classifies *)
(* the change (change-detector/), updates the index and only then marks    *)
(* the dependents, or the file alone, stale (cascade-engine.ts).  One file *)
(* is edited; importers stands for all that depend on it, directly or not. *)
(* A step ends where the handler awaits; the process may be killed there.  *)
(***************************************************************************)
EXTENDS Extraction

CONSTANTS
    Texts,    \* what the file may hold
    None,     \* no snapshot, no verdict, no row
    Rows,     \* <<path, name>> of symbols of other files
    MaxEdits, \* bound: edits of the file
    MaxKills  \* bound: kills of the server

Verdicts == [type : {"unknown", "body-only", "types-changed", "exports-changed"},
             affects : BOOLEAN]

ASSUME ChangeAssumption ==
    /\ \A v \in Verdicts : v # None
    /\ MaxEdits \in Nat /\ MaxKills \in Nat
    /\ \A t \in Texts :
          /\ IsSequence(t)
          /\ \A i \in DOMAIN t : IsDecl(t[i]) =>
                IsSequence(t[i].binds) /\ (HasBody(t[i]) => t[i].binds # << >>)
          /\ BindsOnce(t)
    /\ \A r \in Rows : r[1] \notin {Here, Package}

VARIABLES
    astParsed, \* isTreeSitterLanguage of the file's extension
    text,      \* what the file holds
    event,     \* a debounced change event is pending
    hasRow,    \* the files table has a row for the file
    snapshot,  \* exports_snapshot of the row
    pc,        \* the handler: "idle", "update" or "dispatch"
    verdict,   \* changeSummary
    selfStale, \* summary, concepts and change_impact staleness of the file
    importersStale, \* the same of its dependents
    told,      \* history: the snapshot the dependents were last marked for
    severed,   \* history: a kill or an error came between classify and the cascade,
               \* and no cascade since
    edits, kills

changeVars == <<astParsed, text, event, hasRow, snapshot, pc, verdict, selfStale, importersStale,
                told, severed, edits, kills>>

Unknown == [type |-> "unknown", affects |-> TRUE]

-----------------------------------------------------------------------------
(* computeSemanticDiff *)

\* new Map(exports.map(...)): of two exports of one name the last is kept.
ByName(exports) ==
    [n \in {e.name : e \in ToSet(exports)} |->
        exports[SelectLastInSeq(exports, LAMBDA e : e.name = n)]]

\* Mutant: what has been removed is not looked for.
DifferingKept(p, q) ==
    (DOMAIN q \ DOMAIN p) \cup {n \in DOMAIN p \cap DOMAIN q : p[n].signature # q[n].signature}

\* added, removed and changed
Differing(p, q) ==
    (DOMAIN q \ DOMAIN p) \cup (DOMAIN p \ DOMAIN q)
      \cup {n \in DOMAIN p \cap DOMAIN q : p[n].signature # q[n].signature}

\* Both lists are sorted first.
ImportsChanged(prev, next) == ToSet(prev.imports) # ToSet(next.imports)

\* Each differing name is judged by its kind in the new snapshot, or else the old.
OnlyTypes(p, q) ==
    \A n \in Differing(p, q) :
        (IF n \in DOMAIN q THEN q[n] ELSE p[n]).kind \in {"type", "interface"}

computeSemanticDiff(prev, next) ==
    LET p == ByName(prev.exports)
        q == ByName(next.exports)
        differ == Differing(p, q) # {} IN
    [type |-> IF ~differ /\ ~ImportsChanged(prev, next) THEN "body-only"
              ELSE IF differ /\ OnlyTypes(p, q) THEN "types-changed" ELSE "exports-changed",
     affects |-> differ \/ ImportsChanged(prev, next)]

-----------------------------------------------------------------------------
ChangeInit ==
    /\ astParsed \in BOOLEAN
    /\ text = << >>
    /\ event = FALSE
    /\ hasRow \in BOOLEAN
    /\ snapshot = None
    /\ pc = "idle" /\ verdict = None
    /\ selfStale = {} /\ importersStale = FALSE
    /\ told = None /\ severed = FALSE
    /\ edits = 0 /\ kills = 0

\* The file is saved; one timer stands for all its change events.
EditFile ==
    /\ edits < MaxEdits
    /\ edits' = edits + 1
    /\ text' \in Texts \ {text}
    /\ event' = TRUE
    /\ UNCHANGED <<astParsed, hasRow, snapshot, pc, verdict, selfStale, importersStale, told, severed, kills>>

getExportsSnapshot == IF hasRow THEN snapshot ELSE None

\* A row is made for a file that has none.
setExportsSnapshot(s) ==
    /\ snapshot' = s
    /\ hasRow' = TRUE

\* _classifyWithAst: a first snapshot is stored with the verdict unknown.
ClassifyWithAst ==
    /\ astParsed
    /\ verdict' = IF getExportsSnapshot = None THEN Unknown
                  ELSE computeSemanticDiff(getExportsSnapshot, Snapshot(text))
    /\ setExportsSnapshot(Snapshot(text))

\* The file cannot be read, the parser throws, or the language has no grammar
\* and queueLlmDiffJob answers: the verdict is unknown, nothing is stored.
ClassifyUnknown ==
    /\ verdict' = Unknown
    /\ UNCHANGED <<hasRow, snapshot>>

\* The database fails before the snapshot is stored; the handler goes on without
\* a summary.
ClassifyThrows ==
    /\ verdict' = None
    /\ UNCHANGED <<hasRow, snapshot>>

\* The timer fires; classify() reads the file.
Classify ==
    /\ pc = "idle" /\ event
    /\ event' = FALSE
    /\ ClassifyWithAst \/ ClassifyUnknown \/ ClassifyThrows
    /\ pc' = "update"
    /\ UNCHANGED <<astParsed, text, selfStale, importersStale, told, severed, edits, kills>>

\* updateFileNodeOnChange, which ProjectIndex models, returns.
UpdateReturns ==
    /\ pc = "update"
    /\ pc' = "dispatch"
    /\ UNCHANGED <<astParsed, text, event, hasRow, snapshot, verdict, selfStale, importersStale,
                   told, severed, edits, kills>>

MeansCascade(v) == v # None /\ v.affects

\* It throws: the file imports one outside the project, or the database fails.
\* The handler is left; nobody dispatches on the verdict.
UpdateThrows ==
    /\ pc = "update"
    /\ pc' = "idle" /\ verdict' = None
    /\ severed' = (severed \/ MeansCascade(verdict))
    /\ UNCHANGED <<astParsed, text, event, hasRow, snapshot, selfStale, importersStale,
                   told, edits, kills>>

Cascades(v) == v.affects

\* The UPDATEs of markStale and markSelfStale find no row to mark without one.
Marked(flags) == IF hasRow THEN selfStale \cup flags ELSE selfStale

\* cascadeStale, or markSelfStale, which leaves change_impact alone.
Cascade(v) ==
    /\ Cascades(v)
    /\ selfStale' = Marked({"summary", "concepts", "change_impact"})
    /\ importersStale' = TRUE
    /\ told' = snapshot

MarkSelf(v) ==
    /\ ~Cascades(v)
    /\ selfStale' = Marked({"summary", "concepts"})
    /\ UNCHANGED <<importersStale, told>>

Dispatch ==
    /\ pc = "dispatch"
    /\ IF verdict = None THEN UNCHANGED <<selfStale, importersStale, told>>
       ELSE Cascade(verdict) \/ MarkSelf(verdict)
    /\ severed' = (severed /\ ~MeansCascade(verdict))
    /\ pc' = "idle" /\ verdict' = None
    /\ UNCHANGED <<astParsed, text, event, hasRow, snapshot, edits, kills>>

\* The broker's answers clear the flags (SummaryFreshness).
Regenerate ==
    /\ selfStale # {} \/ importersStale
    /\ selfStale' = {} /\ importersStale' = FALSE
    /\ UNCHANGED <<astParsed, text, event, hasRow, snapshot, pc, verdict, told, severed, edits, kills>>

\* The process dies and is started again.  The sweep of the start updates the
\* rows of a changed file; it neither classifies nor cascades.
Kill ==
    /\ kills < MaxKills
    /\ kills' = kills + 1
    /\ event' = FALSE
    /\ pc' = "idle" /\ verdict' = None
    /\ severed' = (severed \/ MeansCascade(verdict))
    /\ UNCHANGED <<astParsed, text, hasRow, snapshot, selfStale, importersStale, told, edits>>

ChangeNext ==
    \/ EditFile
    \/ Classify \/ UpdateReturns \/ UpdateThrows \/ Dispatch
    \/ Regenerate
    \/ Kill

ChangeSpec == ChangeInit /\ [][ChangeNext]_changeVars

-----------------------------------------------------------------------------
ChangeTypeOK ==
    /\ astParsed \in BOOLEAN /\ hasRow \in BOOLEAN /\ event \in BOOLEAN /\ severed \in BOOLEAN
    /\ text \in Texts \cup {<< >>}
    /\ snapshot # None => snapshot = Snapshot(text) \/ snapshot \in {Snapshot(t) : t \in Texts}
    /\ pc \in {"idle", "update", "dispatch"}
    /\ IF pc = "idle" THEN verdict = None ELSE verdict \in Verdicts \cup {None}
    /\ ~hasRow => snapshot = None /\ selfStale = {}
    /\ selfStale \subseteq {"summary", "concepts", "change_impact"}
    /\ importersStale \in BOOLEAN
    /\ edits \in 0..MaxEdits /\ kills \in 0..MaxKills

Distinct(s) == IsInjective([i \in DOMAIN s.exports |-> s.exports[i].name])
Surface(s) == <<{<<e.name, e.signature>> : e \in ToSet(s.exports)}, ToSet(s.imports)>>

\* Whatever order edits, errors, regenerations and kills come in, the dependents
\* have been marked for the exports and imports the index now remembers, unless a
\* kill or a failed update separated the two: classify() stores the snapshot
\* (75-77) before the coordinator, if it gets there, dispatches on its verdict.
DependentsWereTold ==
    pc = "idle" /\ snapshot # None /\ ~severed =>
        /\ told # None
        /\ Distinct(told) /\ Distinct(snapshot) => Surface(told) = Surface(snapshot)

\* Dependents are marked only for a change: not when exports and imports are
\* those of the snapshot before, in whatever order the file has them.
NoSpuriousCascade ==
    [][ Classify /\ verdict' # None /\ verdict'.type # "unknown" /\ Distinct(snapshot)
          /\ Surface(snapshot) = Surface(snapshot') => ~verdict'.affects ]_changeVars

\* Dependents are marked for every change to what a snapshot keeps of exports (name,
\* first line) and imports, and for no other change that a snapshot is compared for.
CascadesFollowExports == [](ChangeTypeOK /\ DependentsWereTold) /\ NoSpuriousCascade

\* Every call the index records is made by a symbol it has, on the line the row
\* is looked up with (setEdgesAndSymbols drops the others): the frames agree
\* with extractBareTopLevelSymbol for const, functions and classes.
CallersAreSymbols ==
    \A e \in CallEdges(text, Rows) :
        \/ \E s \in Symbols(text) : s.name = e.caller.name /\ s.line = e.caller.line
        \/ \E s \in ToSet(text) : IsDecl(s) /\ (s.split \/ s.decl = "let")

\* A call leads to the file that its name is bound to, and no call of a symbol
\* of the index is dropped (barrels apart), unless an import renames the name
\* called, or another one to it.
CallsLeadToBindings ==
    \A c \in Candidates(text) : PlainName(text, c.callee) =>
        LET p == Resolved(text, Rows, c.callee)
            known == {q \in BoundTo(text, c.callee) :
                        IF q = Here THEN c.callee \in LocalNames(text)
                        ELSE q \notin Barrels /\ <<q, c.callee>> \in Rows} IN
        IF known = {} THEN p = Package ELSE p \in known

\* A call in the text becomes the row a reader of the text expects.
CallsAreResolved == CallersAreSymbols /\ CallsLeadToBindings
=============================================================================
