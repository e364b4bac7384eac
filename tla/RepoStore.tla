----------------------------- MODULE RepoStore -----------------------------
(***************************************************************************)
(* The Nexus dashboard's projects: the registry file nexus.json            *)
(* (nexus/discover.ts), the map of read-only databases (repo-store.ts),    *)
(* the routes that remove, restore and query a project (server.ts) and the *)
(* start that connects them (main.ts).  A handler runs without an await    *)
(* from its first read to its answer, so it is one step; a kill may tear   *)
(* the write of the registry in it.  The order of the registry's list only *)
(* decides which of two projects of one name is kept, and is any.          *)
(***************************************************************************)
EXTENDS Naturals, FiniteSets

CONSTANTS
    Projects,    \* directories that may hold .filescope/data.db
    NameOf,      \* the last component of each
    Distant,     \* those more than two levels below the home directory
    NoRepo,      \* no entry, no file, no broker query
    Torn,        \* a registry file cut short by a kill
    MaxDiskSteps, \* bound: changes of the data.db files
    MaxKills     \* bound: kills of the Nexus process

Registries == [repos : SUBSET Projects, blacklist : SUBSET Projects]
Entries == [path : Projects, online : BOOLEAN]
Progress == {"connecting", "asked", "online", "offline"}

ASSUME StoreAssumption ==
    /\ IsFiniteSet(Projects) /\ Distant \subseteq Projects
    /\ MaxDiskSteps \in Nat /\ MaxKills \in Nat
    /\ NoRepo # Torn /\ {NoRepo, Torn} \cap Registries = {}
    /\ NoRepo \notin Entries /\ NoRepo \notin Progress

VARIABLES
    dbFile,    \* data.db of each project: "missing", "ok" or "damaged"
    registry,  \* nexus.json: NoRepo, Torn, or one of Registries
    nexus,     \* the process: "down", "discover", "open" or "up"
    repos,     \* the map: name -> NoRepo or an entry; db # null iff online
    open,      \* connections the process holds to each database
    broker,    \* the one GET /api/system/broker looked at: its progress
    leaked,    \* history: connections whose entry was overwritten
    removed,   \* history: projects the user removed and has not restored
    failed,    \* history: restores that threw after the registry was written
    torn,      \* history: the registry was torn
    diskSteps, kills

storeVars == <<dbFile, registry, nexus, repos, open, broker, leaked, removed, failed, torn,
               diskSteps, kills>>
memory == <<repos, open, broker, leaked, failed>>

Names == {NameOf[p] : p \in Projects}
Readable == registry \notin {NoRepo, Torn}
Empty == [repos |-> {}, blacklist |-> {}]
Registry == IF Readable THEN registry ELSE Empty   \* readRegistry() ?? { repos: [] }
Served == {repos[n].path : n \in {m \in Names : repos[m] # NoRepo}}

StoreInit ==
    /\ dbFile \in [Projects -> {"missing", "ok"}]
    /\ registry = NoRepo
    /\ nexus = "down"
    /\ repos = [n \in Names |-> NoRepo]
    /\ open = [p \in Projects |-> 0]
    /\ broker = NoRepo
    /\ leaked = [p \in Projects |-> 0]
    /\ removed = {} /\ failed = {} /\ torn = FALSE
    /\ diskSteps = 0 /\ kills = 0

-----------------------------------------------------------------------------
(* The other processes: a project's server creates its database, its user  *)
(* deletes it, a crash or a full disk damages it.                          *)
ChangeDb(p) ==
    /\ diskSteps < MaxDiskSteps
    /\ diskSteps' = diskSteps + 1
    /\ \E d \in {"missing", "ok", "damaged"} :
         /\ d # dbFile[p] /\ (d = "damaged" => dbFile[p] = "ok")
         /\ dbFile' = [dbFile EXCEPT ![p] = d]
    /\ UNCHANGED <<registry, nexus, memory, removed, torn, kills>>

-----------------------------------------------------------------------------
(* main() *)

\* A process that has ended holds nothing.
Gone ==
    /\ nexus' = "down"
    /\ repos' = [n \in Names |-> NoRepo]
    /\ open' = [p \in Projects |-> 0]
    /\ leaked' = [p \in Projects |-> 0]
    /\ failed' = {} /\ broker' = NoRepo

\* readRegistry: null when the file does not exist or cannot be parsed.
BeginNexus ==
    /\ nexus = "down"
    /\ nexus' = IF Readable THEN "open" ELSE "discover"
    /\ UNCHANGED <<dbFile, registry, memory, removed, torn, diskSteps, kills>>

\* discoverRepos looks two levels deep; the registry begins without blacklist.
Found == {p \in Projects \ Distant : dbFile[p] # "missing"}
Discover ==
    /\ nexus = "discover"
    /\ registry' = [repos |-> Found, blacklist |-> {}]
    /\ nexus' = "open"
    /\ UNCHANGED <<dbFile, memory, removed, torn, diskSteps, kills>>

\* main skips what is blacklisted.
ToOpen == Registry.repos \ Registry.blacklist

\* openRepo for every project; of namesakes the last one opened has the entry.
\* A database that cannot be read throws, and main ends the process.
OpenAll ==
    /\ nexus = "open"
    /\ IF \E p \in ToOpen : dbFile[p] = "damaged"
       THEN Gone
       ELSE /\ nexus' = "up"
            /\ repos' \in {r \in [Names -> [path : ToOpen, online : BOOLEAN] \cup {NoRepo}] :
                 \A n \in Names :
                   IF \E p \in ToOpen : NameOf[p] = n
                   THEN r[n] # NoRepo /\ NameOf[r[n].path] = n
                          /\ r[n].online = (dbFile[r[n].path] = "ok")
                   ELSE r[n] = NoRepo}
            /\ open' = [p \in Projects |-> IF p \in ToOpen /\ dbFile[p] = "ok" THEN 1 ELSE 0]
            /\ leaked' = [p \in Projects |->
                  IF \E n \in Names : repos'[n] # NoRepo /\ repos'[n].path = p THEN 0 ELSE open'[p]]
            /\ UNCHANGED <<broker, failed>>
    /\ UNCHANGED <<dbFile, registry, removed, torn, diskSteps, kills>>

-----------------------------------------------------------------------------
(* At work *)

\* Mutant: the online entries are looked at.
BackOnlineInverted ==
    {n \in Names : repos[n] # NoRepo /\ repos[n].online /\ dbFile[repos[n].path] = "ok"}

\* The offline entries whose database can be opened now.
BackOnline ==
    {n \in Names : repos[n] # NoRepo /\ ~repos[n].online /\ dbFile[repos[n].path] = "ok"}

\* recheckOffline, every 60 seconds; a database that throws stays offline.
Recheck ==
    /\ nexus = "up"
    /\ BackOnline # {}
    /\ repos' = [n \in Names |-> IF n \in BackOnline THEN [repos[n] EXCEPT !.online = TRUE] ELSE repos[n]]
    /\ open' = [p \in Projects |->
                  IF \E n \in BackOnline : repos[n].path = p THEN open[p] + 1 ELSE open[p]]
    /\ UNCHANGED <<dbFile, registry, nexus, broker, leaked, removed, failed, torn, diskSteps, kills>>

\* Mutant: the connection of a removed entry stays open.
ClosedNot(n) == open

\* removeRepo closes the entry's connection.
Closed(n) ==
    [open EXCEPT ![repos[n].path] = IF repos[n].online THEN @ - 1 ELSE @]

\* Mutant: the registry keeps the project.
WithoutProjectListed(n) ==
    [Registry EXCEPT !.blacklist = @ \cup {repos[n].path}]

\* The registry without the projects of this name, the removed one blacklisted.
WithoutProject(n) ==
    [repos |-> {p \in Registry.repos : NameOf[p] # n},
     blacklist |-> Registry.blacklist \cup {repos[n].path}]

\* DELETE /api/repos/:repoName
DeleteProject(n) ==
    /\ nexus = "up" /\ repos[n] # NoRepo
    /\ open' = Closed(n)
    /\ repos' = [repos EXCEPT ![n] = NoRepo]
    /\ registry' = WithoutProject(n)
    /\ removed' = removed \cup {repos[n].path}
    /\ UNCHANGED <<dbFile, nexus, broker, leaked, failed, torn, diskSteps, kills>>

WithProject(p) == [repos |-> Registry.repos \cup {p}, blacklist |-> Registry.blacklist \ {p}]

\* openRepo replaces the entry of that name without closing what it held.
OpenRepo(p) ==
    LET n == NameOf[p]
        held == repos[n] # NoRepo /\ repos[n].online IN
    /\ repos' = [repos EXCEPT ![n] = [path |-> p, online |-> dbFile[p] = "ok"]]
    /\ open' = IF dbFile[p] = "ok" THEN [open EXCEPT ![p] = @ + 1] ELSE open
    /\ leaked' = IF held THEN [leaked EXCEPT ![repos[n].path] = @ + 1] ELSE leaked

\* POST /api/repos/:repoName/restore, from a page that lists p as blacklisted,
\* perhaps no longer truly.  A throw of openRepo answers 500.
RestoreProject(p) ==
    /\ nexus = "up"
    /\ p \in Registry.blacklist \cup Registry.repos
    /\ open[p] < 2     \* bound: repeated restores
    /\ registry' = WithProject(p)
    /\ removed' = removed \ {p}
    /\ IF dbFile[p] = "damaged"
         THEN failed' = failed \cup {p} /\ UNCHANGED <<repos, open, leaked>>
         ELSE failed' = failed \ {p} /\ OpenRepo(p)
    /\ UNCHANGED <<dbFile, nexus, broker, torn, diskSteps, kills>>

\* GET /api/system/broker: a connection of its own to the broker's socket ...
AskBroker ==
    /\ nexus = "up" /\ broker = NoRepo
    /\ broker' = "connecting"
    /\ UNCHANGED <<dbFile, registry, nexus, repos, open, leaked, removed, failed, torn, diskSteps, kills>>

\* ... is accepted and sends the request; a broker may close it unanswered ...
BrokerAccepts ==
    /\ broker = "connecting"
    /\ broker' = "asked"
    /\ UNCHANGED <<dbFile, registry, nexus, repos, open, leaked, removed, failed, torn, diskSteps, kills>>

\* ... or answer.
BrokerAnswers ==
    /\ broker = "asked"
    /\ broker' = "online"
    /\ UNCHANGED <<dbFile, registry, nexus, repos, open, leaked, removed, failed, torn, diskSteps, kills>>

\* An error of the socket, or two seconds without an answer.
QueryFails ==
    /\ broker \in {"connecting", "asked"}
    /\ broker' = "offline"
    /\ UNCHANGED <<dbFile, registry, nexus, repos, open, leaked, removed, failed, torn, diskSteps, kills>>

\* The route replies, with the offline values if need be.
BrokerReply ==
    /\ broker \in {"online", "offline"}
    /\ broker' = NoRepo
    /\ UNCHANGED <<dbFile, registry, nexus, repos, open, leaked, removed, failed, torn, diskSteps, kills>>

-----------------------------------------------------------------------------
\* SIGTERM: closeAll, then the end; or a kill between two steps.
StopOrKill ==
    /\ nexus # "down" /\ kills < MaxKills
    /\ kills' = kills + 1
    /\ Gone
    /\ UNCHANGED <<dbFile, registry, removed, torn, diskSteps>>

\* A kill while writeFileSync has truncated the registry and not yet written it.
\* The user has been told nothing of what the handler did.
KillInWrite ==
    /\ kills < MaxKills
    /\ nexus = "discover" \/ (nexus = "up" /\ (Served # {} \/ Registry.blacklist # {}))
    /\ kills' = kills + 1
    /\ registry' = Torn /\ torn' = TRUE
    /\ Gone
    /\ UNCHANGED <<dbFile, removed, diskSteps>>

StoreRequest ==
    \/ \E n \in Names : DeleteProject(n)
    \/ \E p \in Projects : RestoreProject(p)
StoreNext ==
    \/ \E p \in Projects : ChangeDb(p)
    \/ BeginNexus \/ Discover \/ OpenAll
    \/ Recheck
    \/ StoreRequest
    \/ AskBroker \/ BrokerAccepts \/ BrokerAnswers \/ QueryFails \/ BrokerReply
    \/ StopOrKill \/ KillInWrite

\* The interval timer of recheckOffline, the two seconds of queryBrokerStatus.
StoreFairness == WF_storeVars(Recheck) /\ WF_storeVars(QueryFails)
StoreSpec == StoreInit /\ [][StoreNext]_storeVars /\ StoreFairness

-----------------------------------------------------------------------------
StoreTypeOK ==
    /\ dbFile \in [Projects -> {"missing", "ok", "damaged"}]
    /\ registry \in Registries \cup {NoRepo, Torn}
    /\ nexus \in {"down", "discover", "open", "up"}
    /\ repos \in [Names -> Entries \cup {NoRepo}]
    /\ \A n \in Names : repos[n] # NoRepo => NameOf[repos[n].path] = n
    /\ open \in [Projects -> Nat] /\ leaked \in [Projects -> Nat]
    /\ broker \in Progress \cup {NoRepo}
    /\ removed \subseteq Projects /\ failed \subseteq Projects
    /\ diskSteps \in 0..MaxDiskSteps /\ kills \in 0..MaxKills

\* resolveRepo hands a request an open database, and a connection is held for
\* every online entry and for no other, but for those openRepo overwrote.
ConnectionsMatchEntries ==
    \A p \in Projects :
        open[p] = leaked[p] + Cardinality({n \in Names :
                                repos[n] # NoRepo /\ repos[n].path = p /\ repos[n].online})

Unique(p) == \A q \in Projects : NameOf[q] = NameOf[p] => q = p

\* What the dashboard serves is what a restart would serve: the map and the file
\* agree after every removal and restore, of projects without a namesake; a
\* restore that threw (openRepo, after the registry was written) is the exception.
ServedMatchesRegistry ==
    nexus = "up" =>
        \A p \in Projects : Unique(p) =>
            LET listed == p \in Registry.repos \ Registry.blacklist IN
            (p \in Served => listed) /\ (listed => p \in Served \cup failed)

\* No project of a unique name drops out of the registry, and none is both
\* listed and blacklisted, whatever is removed, restored and restarted.
RegistryKeepsProjects ==
    [][ registry \notin {NoRepo, Torn} /\ registry' # Torn =>
          /\ registry'.repos \cap registry'.blacklist = {}
          /\ \A p \in registry.repos \cup registry.blacklist :
               Unique(p) => p \in registry'.repos \cup registry'.blacklist ]_storeVars

\* A removed project stays away until it is restored, restarts included,
\* unless a kill tore the registry and the start looked for projects again.
RemovedStaysAway == torn \/ removed \cap Served = {}

\* Map, connections and registry of the dashboard agree, restarts included.
StoreIsSound ==
    /\ StoreTypeOK /\ ConnectionsMatchEntries
    /\ ServedMatchesRegistry /\ RemovedStaysAway

\* A project whose database appears while the dashboard runs comes online.
ComesOnline ==
    \A n \in Names :
        (nexus = "up" /\ repos[n] # NoRepo /\ dbFile[repos[n].path] = "ok")
            ~> (nexus # "up" \/ repos[n] = NoRepo \/ repos[n].online \/ dbFile[repos[n].path] # "ok")

\* The status page gets an answer whatever the broker does.
BrokerQueryEnds == (broker = "asked") ~> (broker # "asked")

\* The dashboard learns of databases and of the broker, whatever they do.
NexusAnswers == ComesOnline /\ BrokerQueryEnds
=============================================================================
