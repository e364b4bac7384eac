----------------------------- MODULE FirstBoot -----------------------------
(***************************************************************************)
(* The start of servers on a database that is empty or was made by an      *)
(* older version: the path format guard, the migration of JSON trees, the  *)
(* one-shot extraction passes with their gates in kv_state, and the scan   *)
(* that follows.  Several servers may start on one project, and each may   *)
(* be killed anywhere.  src/coordinator.ts, src/migrate/.                  *)
(*                                                                         *)
(* Every file is on disk.  Reading a file may fail, and a statement may    *)
(* fail because another process holds the database (SQLITE_BUSY).  The     *)
(* scan and the sweep are ProjectIndex's and one step here.                *)
(***************************************************************************)
EXTENDS Naturals, Sequences, FiniteSets

CONSTANTS
    Servers,    \* processes that serve the project
    Sources,    \* the files on disk, as their ranks in path order
    Languages,  \* languages after TypeScript and JavaScript, in their order
    LangOf,     \* the language of each source: "js", or one of Languages
    CallsOf,    \* the sources whose functions a JS source calls
    JsonTrees,  \* JSON trees an older version left in the project
    TreeOf,     \* the sources in each tree
    MaxFaults   \* bound: kills, passes that throw, sources and trees that fail

\* Where init() can be, apart from the passes of the languages.
Stages == {"off", "open", "refused", "migrate", "trees", "rename", "symbols", "calls", "tree", "up"}

ASSUME BootConstants ==
    /\ Sources \subseteq Nat /\ MaxFaults \in Nat /\ IsFiniteSet(JsonTrees)
    /\ Languages \in Seq(STRING \ Stages)
    /\ \A i, j \in DOMAIN Languages : Languages[i] = Languages[j] => i = j
    /\ LangOf \in [Sources -> {"js"} \cup {Languages[i] : i \in DOMAIN Languages}]
    /\ CallsOf \in [Sources -> SUBSET Sources]
    /\ TreeOf \in [JsonTrees -> SUBSET Sources]

VARIABLES
    format,    \* kv_state's paths_format
    json,      \* each tree: "none", "json", or "bak" once renamed
    rows,      \* sources with a files row
    symbols,   \* sources with symbols rows
    callRows,  \* symbol_dependencies, see CallRow
    gates,     \* the flags of the passes in kv_state
    boot,      \* where each server's init() is, and what its loop has left
    kills,     \* history: servers killed
    throws,    \* history: passes that threw
    skipped,   \* history: sources a pass could not read
    failedTrees, \* history: trees whose migration threw
    overlap,   \* history: two servers were starting at once
    lateTree,  \* history: a tree was committed after a pass had listed the rows
    threw      \* history: servers with such a pass since they started

database == <<format, json, rows, symbols, callRows, gates>>
bootHistory == <<kills, throws, skipped, failedTrees, overlap, lateTree, threw>>
bootVars == <<database, boot, bootHistory>>

\* A row names symbols by id; an end is not live once its id is gone.
CallRow == [caller : Sources, callee : Sources,
            callerLive : BOOLEAN, calleeLive : BOOLEAN]

Passes == <<"symbols">> \o Languages \o <<"calls">>
LanguageGates == {Languages[i] : i \in DOMAIN Languages}
After(p) == LET i == CHOOSE i \in DOMAIN Passes : Passes[i] = p
            IN  IF i = Len(Passes) THEN "tree" ELSE Passes[i + 1]

\* A throw leaves the whole function, which runs all of Languages.
AfterThrow(p) == IF p \in LanguageGates THEN "calls" ELSE After(p)

SourcesOf(p) ==
    {f \in rows : LangOf[f] = IF p \in LanguageGates THEN p ELSE "js"}

At(stage) == [at |-> stage, running |-> FALSE, left |-> {}, tree |-> {}]
Before(s, p) == boot[s].at = p /\ ~boot[s].running
Running(s, p) == boot[s].at = p /\ boot[s].running
CanFail == kills + throws + Cardinality(skipped) + Cardinality(failedTrees) < MaxFaults
PassesBegan == gates # {} \/ \E s \in Servers : boot[s].running
Starting(s) == boot[s].at \notin {"off", "up", "refused"}

-----------------------------------------------------------------------------
\* setEdgesAndSymbols(): new symbols get new ids.
Orphans(cs, f) ==
    {[c EXCEPT !.callerLive = @ /\ c.caller # f,
               !.calleeLive = @ /\ c.callee # f] : c \in cs}

CallerRows(f) == {c \in callRows : c.caller = f /\ c.callerLive}

CallsFrom(f, known) ==
    {[caller |-> f, callee |-> d, callerLive |-> TRUE, calleeLive |-> TRUE] :
       d \in CallsOf[f] \cap known}

\* Without call sites the rows whose caller is in f are left alone.
Extract(f, withCalls) ==
    /\ symbols' = symbols \cup {f}
    /\ callRows' = IF withCalls
                   THEN Orphans(callRows \ CallerRows(f), f) \cup CallsFrom(f, symbols)
                   ELSE Orphans(callRows, f)

-----------------------------------------------------------------------------
(* One server. *)

StartServer(s) ==
    /\ boot[s].at = "off"
    /\ boot' = [boot EXCEPT ![s] = At("open")]
    /\ overlap' = (overlap \/ \E r \in Servers : Starting(r))
    /\ threw' = threw \ {s}
    /\ UNCHANGED <<database, kills, throws, skipped, failedTrees, lateTree>>

\* openDatabase() and the format guard.
CheckFormat(s) ==
    /\ boot[s].at = "open"
    /\ format' = IF format = "none" THEN "relative_v1" ELSE format
    /\ boot' = [boot EXCEPT ![s] = At(IF format' = "relative_v1"
                                      THEN "migrate" ELSE "refused")]
    /\ UNCHANGED <<json, rows, symbols, callRows, gates, bootHistory>>

\* runMigrationIfNeeded(): not for a table that has rows.
FindTrees(s) ==
    /\ boot[s].at = "migrate"
    /\ boot' = [boot EXCEPT ![s] =
          IF rows # {} THEN At("symbols")
          ELSE [At("trees") EXCEPT !.left = {t \in JsonTrees : json[t] = "json"}]]
    /\ UNCHANGED <<database, bootHistory>>

\* What failed is logged and left for good; the start goes on.
TreesFail(s, stage, failed, left) ==
    /\ CanFail
    /\ failedTrees' = failedTrees \cup failed
    /\ boot' = [boot EXCEPT ![s] = [At(stage) EXCEPT !.left = left]]
    /\ UNCHANGED <<database, kills, throws, skipped, overlap, lateTree, threw>>

\* readdirSync throws: no tree is found.
DirectoryFails(s) ==
    /\ boot[s].at = "migrate" /\ rows = {}
    /\ TreesFail(s, "symbols", {t \in JsonTrees : json[t] = "json"}, {})

\* Mutant: the table is looked at before each tree.
MigrateTreeIfEmpty(s, t) ==
    /\ boot[s].at = "trees" /\ t \in boot[s].left /\ json[t] = "json"
    /\ rows' = IF rows = {} THEN TreeOf[t] ELSE rows
    /\ boot' = IF rows = {} THEN [boot EXCEPT ![s].at = "rename", ![s].tree = {t}]
               ELSE [boot EXCEPT ![s].left = @ \ {t}]
    /\ lateTree' = (lateTree \/ PassesBegan)
    /\ UNCHANGED <<format, json, symbols, callRows, gates,
                   kills, throws, skipped, failedTrees, overlap, threw>>

\* migrateJsonToSQLite(): one transaction for a tree.
MigrateTree(s, t) ==
    /\ boot[s].at = "trees" /\ t \in boot[s].left /\ json[t] = "json"
    /\ rows' = rows \cup TreeOf[t]
    /\ boot' = [boot EXCEPT ![s].at = "rename", ![s].tree = {t}]
    /\ lateTree' = (lateTree \/ PassesBegan)
    /\ UNCHANGED <<format, json, symbols, callRows, gates,
                   kills, throws, skipped, failedTrees, overlap, threw>>

\* The rename, which throws if another server was faster.
RenameTree(s) ==
    /\ boot[s].at = "rename"
    /\ json' = [t \in JsonTrees |-> IF t \in boot[s].tree THEN "bak" ELSE json[t]]
    /\ boot' = [boot EXCEPT ![s].at = "trees", ![s].left = @ \ boot[s].tree,
                            ![s].tree = {}]
    /\ UNCHANGED <<format, rows, symbols, callRows, gates, bootHistory>>

\* A tree that cannot be read or parsed, or whose transaction is rolled back.
TreeFails(s, t) ==
    /\ boot[s].at = "trees" /\ t \in boot[s].left /\ json[t] = "json"
    /\ TreesFail(s, "trees", {t}, boot[s].left \ {t})

\* The rename throws once the rows are there.
RenameFails(s) ==
    /\ boot[s].at = "rename"
    /\ TreesFail(s, "trees", boot[s].tree, boot[s].left \ boot[s].tree)

\* A tree that another server has renamed cannot be read.
TreeIsGone(s, t) ==
    /\ boot[s].at = "trees" /\ t \in boot[s].left /\ json[t] = "bak"
    /\ boot' = [boot EXCEPT ![s].left = @ \ {t}]
    /\ UNCHANGED <<database, bootHistory>>

TreesDone(s) ==
    /\ boot[s].at = "trees" /\ boot[s].left = {}
    /\ boot' = [boot EXCEPT ![s] = At("symbols")]
    /\ UNCHANGED <<database, bootHistory>>

-----------------------------------------------------------------------------
(* The passes: run...IfNeeded() and runSubPass(). *)

\* The gate is set; the last pass also wants the gates of the languages.
Skips(p) ==
    \/ p \in gates
    \/ p = "calls" /\ ~(LanguageGates \subseteq gates)

SkipPass(s, p) ==
    /\ Before(s, p) /\ Skips(p)
    /\ boot' = [boot EXCEPT ![s] = At(After(p))]
    /\ UNCHANGED <<database, bootHistory>>

\* Mutant: the gate is set before the loop.
BeginPassGated(s, p) ==
    /\ Before(s, p) /\ ~Skips(p)
    /\ boot' = [boot EXCEPT ![s] = [At(p) EXCEPT !.running = TRUE, !.left = SourcesOf(p)]]
    /\ gates' = gates \cup {p}
    /\ UNCHANGED <<format, json, rows, symbols, callRows, bootHistory>>

BeginPass(s, p) ==
    /\ Before(s, p) /\ ~Skips(p)
    /\ boot' = [boot EXCEPT ![s] = [At(p) EXCEPT !.running = TRUE, !.left = SourcesOf(p)]]
    /\ UNCHANGED <<database, bootHistory>>

VisitSource(s, p, f) ==
    /\ Running(s, p) /\ f \in boot[s].left
    /\ Extract(f, p = "calls")
    /\ boot' = [boot EXCEPT ![s].left = @ \ {f}]
    /\ UNCHANGED <<format, json, rows, gates, bootHistory>>

\* A file that cannot be read, parsed or written is logged and left out.
SkipSource(s, p, f) ==
    /\ Running(s, p) /\ f \in boot[s].left
    /\ CanFail
    /\ skipped' = skipped \cup {f}
    /\ boot' = [boot EXCEPT ![s].left = @ \ {f}]
    /\ UNCHANGED <<database, kills, throws, failedTrees, overlap, lateTree, threw>>

SetGate(s, p) ==
    /\ Running(s, p) /\ boot[s].left = {}
    /\ gates' = gates \cup {p}
    /\ boot' = [boot EXCEPT ![s] = At(After(p))]
    /\ UNCHANGED <<format, json, rows, symbols, callRows, bootHistory>>

\* A statement of a pass throws: init() logs it and goes on.
PassThrows(s, p) ==
    /\ \/ Before(s, p)
       \/ Running(s, p) /\ boot[s].left = {}
    /\ CanFail
    /\ throws' = throws + 1
    /\ threw' = threw \cup {s}
    /\ boot' = [boot EXCEPT ![s] = At(AfterThrow(p))]
    /\ UNCHANGED <<database, kills, skipped, failedTrees, overlap, lateTree>>

\* buildFileTree() and the sweep: sources without a row are added in order.
BuildTree(s) ==
    /\ boot[s].at = "tree"
    /\ LET new == Sources \ rows
       IN  callRows' = callRows \cup
             UNION {CallsFrom(f, symbols \cup {g \in new : g < f}) : f \in new}
    /\ rows' = Sources
    /\ symbols' = symbols \cup (Sources \ rows)
    /\ boot' = [boot EXCEPT ![s] = At("up")]
    /\ UNCHANGED <<format, json, gates, bootHistory>>

Kill(s) ==
    /\ boot[s].at # "off" /\ CanFail
    /\ kills' = kills + 1
    /\ boot' = [boot EXCEPT ![s] = At("off")]
    /\ UNCHANGED <<database, throws, skipped, failedTrees, overlap, lateTree, threw>>

-----------------------------------------------------------------------------
\* A new project, one with trees of the JSON version, one of an older version
\* with rows, and one with a flag this version does not know.
BootInit ==
    /\ rows \in {{}, Sources}
    /\ format \in {"none", "other"}
    /\ json \in [JsonTrees -> {"none", "json"}]
    /\ rows # {} => \A t \in JsonTrees : json[t] = "none"
    /\ symbols = {} /\ callRows = {} /\ gates = {}
    /\ boot = [s \in Servers |-> At("off")]
    /\ kills = 0 /\ throws = 0 /\ skipped = {} /\ failedTrees = {}
    /\ overlap = FALSE /\ lateTree = FALSE /\ threw = {}

Step(s) ==
    \/ CheckFormat(s) \/ FindTrees(s) \/ RenameTree(s) \/ TreesDone(s) \/ BuildTree(s)
    \/ DirectoryFails(s) \/ RenameFails(s)
    \/ \E t \in JsonTrees : MigrateTree(s, t) \/ TreeFails(s, t) \/ TreeIsGone(s, t)
    \/ \E i \in DOMAIN Passes :
         LET p == Passes[i]
         IN  \/ SkipPass(s, p) \/ BeginPass(s, p) \/ SetGate(s, p) \/ PassThrows(s, p)
             \/ \E f \in Sources : VisitSource(s, p, f) \/ SkipSource(s, p, f)

BootNext == \E s \in Servers : StartServer(s) \/ Step(s) \/ Kill(s)

BootSpec == BootInit /\ [][BootNext]_bootVars

\* A server that was not killed goes on.
BootFairness == \A s \in Servers : WF_bootVars(Step(s))

-----------------------------------------------------------------------------
\* Every table holds what its declaration says, and only rows have symbols.
BootTypeOK ==
    /\ format \in {"none", "relative_v1", "other"}
    /\ json \in [JsonTrees -> {"none", "json", "bak"}]
    /\ symbols \subseteq rows /\ rows \subseteq Sources
    /\ callRows \subseteq CallRow
    /\ gates \subseteq {Passes[i] : i \in DOMAIN Passes}
    /\ {kills, throws} \subseteq 0..MaxFaults
    /\ skipped \subseteq Sources /\ failedTrees \subseteq JsonTrees /\ threw \subseteq Servers
    /\ \A s \in Servers : boot[s].left \subseteq Sources \cup JsonTrees

\* A JSON tree is put aside only once its rows are in the database, wherever
\* the servers were killed.
BackupIsMigrated ==
    \A t \in JsonTrees : json[t] = "bak" => TreeOf[t] \subseteq rows

\* A gate stands for work that is done: every row of its language has symbols,
\* but for sources that could not be read.  Only a second server that
\* commits one more tree after a pass has begun leaves sources nobody visits.
GatesMeanSymbols ==
    ~lateTree => \A p \in gates : SourcesOf(p) \subseteq symbols \cup skipped

\* Killing servers in their passes leaves no call row with a caller that is
\* gone.  Two first starts at once do, and so does a first pass that throws
\* while the last succeeds: it runs again, and the gate of the last is set.
CallersSurviveBoots ==
    overlap \/ throws > 0 \/ \A c \in callRows : c.callerLive

\* A server whose passes did not throw has brought every pass to its gate.
UpMeansGated ==
    \A s \in Servers : boot[s].at = "up" /\ s \notin threw =>
        \A i \in DOMAIN Passes : Passes[i] \in gates

\* Starting alone and without a kill, a server migrates every tree it finds but
\* those that fail.  (After a kill between two trees the table has rows, and the
\* others stay; so does, for good, a tree that failed.)
TreesAreMigrated ==
    (\E s \in Servers : boot[s].at = "up") /\ kills = 0 /\ ~overlap =>
        \A t \in JsonTrees : json[t] = "json" => t \in failedTrees

\* What the gates claim has been done, no tree of the JSON version is lost, and
\* none is left behind that did not fail, wherever a start was killed or threw.
BootIsSound ==
    /\ BootTypeOK
    /\ GatesMeanSymbols /\ CallersSurviveBoots /\ UpMeansGated
    /\ BackupIsMigrated /\ TreesAreMigrated

\* Every start comes to an end, whatever it finds in the database.
BootEnds == []<>(\A s \in Servers : ~Starting(s))
=============================================================================
