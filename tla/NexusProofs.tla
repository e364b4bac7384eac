---------------------------- MODULE NexusProofs ----------------------------
(***************************************************************************)
(* Theorems about the Nexus dashboard: module RepoStore for any number of  *)
(* projects, changes on disk, removals, restores and kills, and module     *)
(* LogTailer for any number of writers, browsers, lines and restarts.      *)
(***************************************************************************)
EXTENDS RepoStore, LogTailer, FiniteSetTheorems, SequenceTheorems, TLAPS

-----------------------------------------------------------------------------
(* The inductive invariant of the map, the connections and the registry. *)

\* A connection is held by the entry of the project's name.
OnlineAt(p) == repos[NameOf[p]] # NoRepo /\ repos[NameOf[p]].path = p /\ repos[NameOf[p]].online
ServedAt(p) == repos[NameOf[p]] # NoRepo /\ repos[NameOf[p]].path = p

ConnectionsCounted ==
    \A p \in Projects : open[p] = leaked[p] + (IF OnlineAt(p) THEN 1 ELSE 0)

\* The registry is searched for projects only when there is none to read, and
\* lists no project twice.
RegistryParts ==
    /\ nexus = "discover" => ~Readable
    /\ Registry.repos \cap Registry.blacklist = {}

\* What was removed is blacklisted and not served, unless the list was lost.
RemovedParts ==
    ~torn => /\ registry # Torn /\ removed \subseteq Registry.blacklist
             /\ \A p \in removed : ~ServedAt(p)

ListedMatchesServed ==
    nexus = "up" =>
        \A p \in Projects : Unique(p) =>
            /\ ServedAt(p) => p \in Registry.repos \ Registry.blacklist
            /\ p \in Registry.repos \ Registry.blacklist => ServedAt(p) \/ p \in failed

StoreInv ==
    StoreTypeOK /\ ConnectionsCounted /\ RegistryParts /\ RemovedParts /\ ListedMatchesServed

-----------------------------------------------------------------------------
(* Facts about the entries and the registry. *)

LEMMA RegistryFacts ==
    ASSUME StoreTypeOK
    PROVE  /\ Registry \in Registries
           /\ Registry.repos \subseteq Projects /\ Registry.blacklist \subseteq Projects
           /\ Readable => Registry = registry
           /\ ~Readable => Registry = Empty
<1>1. Empty \in Registries
  BY DEF Empty, Registries
<1>2. Registry \in Registries
  BY <1>1 DEF StoreTypeOK, Registry, Readable
<1>3. Registry.repos \subseteq Projects /\ Registry.blacklist \subseteq Projects
  BY <1>2 DEF Registries
<1> QED
  BY <1>2, <1>3 DEF Registry

LEMMA EntryFacts ==
    ASSUME StoreTypeOK, NEW n \in Names, repos[n] # NoRepo
    PROVE  /\ repos[n] \in Entries /\ repos[n].path \in Projects /\ repos[n].online \in BOOLEAN
           /\ NameOf[repos[n].path] = n /\ ServedAt(repos[n].path)
<1>1. repos[n] \in Entries /\ NameOf[repos[n].path] = n
  BY DEF StoreTypeOK
<1>2. repos[n].path \in Projects /\ repos[n].online \in BOOLEAN
  BY <1>1 DEF Entries
<1> QED
  BY <1>1, <1>2 DEF ServedAt

LEMMA NameFacts == \A p \in Projects : NameOf[p] \in Names
BY DEF Names

(* What the map serves, project by project.                                *)
LEMMA ServedFacts ==
    ASSUME StoreTypeOK
    PROVE  /\ Served = {p \in Projects : ServedAt(p)}
           /\ \A p \in Projects : (\E n \in Names : repos[n] # NoRepo /\ repos[n].path = p) <=> ServedAt(p)
<1>1. \A p \in Projects : (\E n \in Names : repos[n] # NoRepo /\ repos[n].path = p) => ServedAt(p)
  BY EntryFacts
<1>2. \A p \in Projects : ServedAt(p) => \E n \in Names : repos[n] # NoRepo /\ repos[n].path = p
  BY NameFacts DEF ServedAt
<1>3. \A p \in Served : p \in Projects /\ ServedAt(p)
  BY EntryFacts DEF Served
<1>4. \A p \in Projects : ServedAt(p) => p \in Served
  BY NameFacts DEF ServedAt, Served
<1> QED
  BY <1>1, <1>2, <1>3, <1>4

-----------------------------------------------------------------------------
(* The steps, by what they do to map and registry. *)

Sound == ConnectionsCounted /\ RegistryParts /\ RemovedParts /\ ListedMatchesServed

(* Files change, the start goes on, the broker is asked.                   *)
LEMMA NothingServedChanges ==
    ASSUME StoreInv, UNCHANGED <<registry, repos, open, leaked, removed, failed, torn>>,
           \/ nexus' = nexus \/ nexus' = "open"
           \/ nexus' = "discover" /\ ~Readable
    PROVE  Sound'
<1>1. UNCHANGED <<Readable, Registry>> /\ \A p : OnlineAt(p)' = OnlineAt(p) /\ ServedAt(p)' = ServedAt(p)
  BY DEF Readable, Registry, OnlineAt, ServedAt
<1>2. ConnectionsCounted'
  BY <1>1 DEF StoreInv, ConnectionsCounted
<1>3. RegistryParts' /\ RemovedParts'
  BY <1>1 DEF StoreInv, RegistryParts, RemovedParts
<1>4. ListedMatchesServed'
  BY <1>1 DEF StoreInv, ListedMatchesServed
<1> QED
  BY <1>2, <1>3, <1>4 DEF Sound

(* The process ends, perhaps in the middle of writing the registry.        *)
LEMMA NothingServed ==
    ASSUME StoreInv, Gone, UNCHANGED removed,
           \/ UNCHANGED <<registry, torn>>
           \/ registry' = Torn /\ torn' = TRUE
    PROVE  Sound'
<1>1. \A p \in Projects : ~OnlineAt(p)' /\ ~ServedAt(p)' /\ open'[p] = 0 /\ leaked'[p] = 0
  BY NameFacts DEF Gone, OnlineAt, ServedAt
<1>2. ConnectionsCounted' /\ ListedMatchesServed'
  BY <1>1 DEF ConnectionsCounted, ListedMatchesServed, Gone
<1>3. CASE UNCHANGED <<registry, torn>>
  <2>1. Registry' = Registry
    BY <1>3 DEF Registry, Readable
  <2>2. RegistryParts'
    BY <2>1 DEF StoreInv, RegistryParts, Gone
  <2>3. RemovedParts'
    BY <1>1, <1>3, <2>1 DEF StoreInv, StoreTypeOK, RemovedParts
  <2> QED
    BY <1>2, <2>2, <2>3 DEF Sound
<1>4. CASE registry' = Torn /\ torn' = TRUE
  <2>1. Registry' = Empty
    BY <1>4 DEF Registry, Readable
  <2> QED
    BY <1>2, <1>4, <2>1 DEF Sound, RegistryParts, RemovedParts, Gone, Empty
<1> QED
  BY <1>3, <1>4

LEMMA DiscoverStep == StoreInv /\ Discover => Sound'
<1> SUFFICES ASSUME StoreInv, Discover PROVE Sound'
  OBVIOUS
<1>1. ~Readable /\ Registry = Empty /\ UNCHANGED <<repos, open, leaked, removed, failed, torn>>
  BY RegistryFacts DEF StoreInv, RegistryParts, Discover, memory
<1>2. registry' \in Registries /\ registry'.blacklist = {}
  <2>1. Found \in SUBSET Projects
    BY DEF Found
  <2> QED
    BY <2>1 DEF Discover, Registries
<1>3. Registry' = registry'
  BY <1>2, StoreAssumption DEF Registry, Readable
<1>4. \A p : OnlineAt(p)' = OnlineAt(p) /\ ServedAt(p)' = ServedAt(p)
  BY <1>1 DEF OnlineAt, ServedAt
<1>5. ConnectionsCounted'
  BY <1>1, <1>4 DEF StoreInv, ConnectionsCounted
<1>6. RegistryParts'
  BY <1>2, <1>3 DEF RegistryParts, Discover
<1>7. RemovedParts'
  <2>1. ~torn => removed = {}
    BY <1>1 DEF StoreInv, RemovedParts, Empty
  <2>2. registry' # Torn
    BY <1>2, StoreAssumption
  <2> QED
    BY <1>1, <2>1, <2>2 DEF RemovedParts
<1>8. ListedMatchesServed'
  BY DEF ListedMatchesServed, Discover
<1> QED
  BY <1>5, <1>6, <1>7, <1>8 DEF Sound

(* The start opens what the registry lists.                                *)
LEMMA OpenAllStep == StoreInv /\ StoreTypeOK' /\ OpenAll => Sound'
<1> SUFFICES ASSUME StoreInv, StoreTypeOK', OpenAll PROVE Sound'
  OBVIOUS
<1>0. UNCHANGED <<registry, removed, torn>> /\ nexus = "open"
  BY DEF OpenAll
<1>1. CASE \E p \in ToOpen : dbFile[p] = "damaged"
  BY <1>0, <1>1, NothingServed DEF OpenAll
<1>2. CASE ~\E p \in ToOpen : dbFile[p] = "damaged"
  <2>1. /\ nexus' = "up" /\ failed' = failed
        /\ \A n \in Names :
              IF \E p \in ToOpen : NameOf[p] = n
              THEN /\ repos'[n] # NoRepo /\ NameOf[repos'[n].path] = n
                   /\ repos'[n].online = (dbFile[repos'[n].path] = "ok")
              ELSE repos'[n] = NoRepo
        /\ open' = [p \in Projects |-> IF p \in ToOpen /\ dbFile[p] = "ok" THEN 1 ELSE 0]
        /\ leaked' = [p \in Projects |->
              IF \E n \in Names : repos'[n] # NoRepo /\ repos'[n].path = p THEN 0 ELSE open'[p]]
    BY <1>2 DEF OpenAll
  <2>2. \A n \in Names : repos'[n] # NoRepo => repos'[n] \in [path : ToOpen, online : BOOLEAN]
    BY <1>2 DEF OpenAll
  <2>3. \A n \in Names : repos'[n] # NoRepo => repos'[n].path \in ToOpen
    BY <2>2
  <2>4. ToOpen \subseteq Projects /\ Registry' = Registry /\ dbFile' = dbFile
    BY <1>0, RegistryFacts DEF ToOpen, StoreInv, Registry, Readable, OpenAll
  <2>5. ASSUME NEW p \in Projects
        PROVE  /\ ServedAt(p)' => p \in ToOpen
               /\ p \in ToOpen /\ Unique(p) => ServedAt(p)'
               /\ open'[p] = leaked'[p] + (IF OnlineAt(p)' THEN 1 ELSE 0)
    <3> DEFINE n == NameOf[p]
    <3>1. n \in Names
      BY NameFacts
    <3>2. ServedAt(p)' = (repos'[n] # NoRepo /\ repos'[n].path = p)
      BY DEF ServedAt
    <3>3. OnlineAt(p)' = (repos'[n] # NoRepo /\ repos'[n].path = p /\ repos'[n].online)
      BY DEF OnlineAt
    <3>4. (\E m \in Names : repos'[m] # NoRepo /\ repos'[m].path = p) <=> ServedAt(p)'
      BY <2>1, <3>1, <3>2
    <3>5. ServedAt(p)' => p \in ToOpen
      BY <2>3, <3>1, <3>2
    <3>6. p \in ToOpen /\ Unique(p) => ServedAt(p)'
      <4>1. SUFFICES ASSUME p \in ToOpen, Unique(p) PROVE ServedAt(p)'
        OBVIOUS
      <4>2. repos'[n] # NoRepo /\ NameOf[repos'[n].path] = n /\ repos'[n].path \in Projects
        BY <2>1, <2>3, <2>4, <3>1, <4>1
      <4> QED
        BY <3>2, <4>1, <4>2 DEF Unique
    <3>7. open'[p] = leaked'[p] + (IF OnlineAt(p)' THEN 1 ELSE 0)
      <4>1. CASE ServedAt(p)'
        <5>1. leaked'[p] = 0 /\ open'[p] = IF dbFile[p] = "ok" THEN 1 ELSE 0
          BY <2>1, <3>4, <3>5, <4>1
        <5>2. OnlineAt(p)' <=> dbFile[p] = "ok"
          BY <2>1, <3>1, <3>2, <3>3, <4>1
        <5> QED
          BY <5>1, <5>2
      <4>2. CASE ~ServedAt(p)'
        <5>1. leaked'[p] = open'[p] /\ ~OnlineAt(p)' /\ open'[p] \in {0, 1}
          BY <2>1, <3>2, <3>3, <3>4, <4>2
        <5> QED
          BY <5>1
      <4> QED
        BY <4>1, <4>2
    <3> QED
      BY <3>5, <3>6, <3>7
  <2>6. ConnectionsCounted'
    BY <2>5 DEF ConnectionsCounted
  <2>7. RegistryParts'
    BY <2>1, <2>4 DEF StoreInv, RegistryParts
  <2>8. RemovedParts'
    BY <1>0, <2>4, <2>5 DEF StoreInv, StoreTypeOK, RemovedParts, ToOpen
  <2>9. ListedMatchesServed'
    BY <2>4, <2>5 DEF ListedMatchesServed, ToOpen
  <2> QED
    BY <2>6, <2>7, <2>8, <2>9 DEF Sound
<1> QED
  BY <1>1, <1>2

(* Databases that can be opened now come online.                           *)
LEMMA RecheckStep == StoreInv /\ StoreTypeOK' /\ Recheck => Sound'
<1> SUFFICES ASSUME StoreInv, StoreTypeOK', Recheck PROVE Sound'
  OBVIOUS
<1>1. UNCHANGED <<registry, nexus, leaked, removed, failed, torn>> /\ Registry' = Registry
  BY DEF Recheck, Registry, Readable
<1>2. ASSUME NEW n \in Names
      PROVE  /\ (repos'[n] # NoRepo) <=> (repos[n] # NoRepo)
             /\ repos[n] # NoRepo => repos'[n].path = repos[n].path
             /\ repos[n] # NoRepo => (repos'[n].online <=> repos[n].online \/ n \in BackOnline)
  <2>1. CASE n \in BackOnline
    <3>1. repos[n] \in Entries /\ repos[n] # NoRepo
      BY <2>1, EntryFacts DEF BackOnline, StoreInv
    <3>2. repos'[n] = [repos[n] EXCEPT !.online = TRUE]
      BY <2>1 DEF Recheck
    <3>3. repos'[n] \in Entries /\ repos'[n].path = repos[n].path /\ repos'[n].online = TRUE
      BY <3>1, <3>2 DEF Entries
    <3> QED
      BY <2>1, <3>1, <3>3, StoreAssumption
  <2>2. CASE n \notin BackOnline
    BY <2>2 DEF Recheck
  <2> QED
    BY <2>1, <2>2
<1>3. \A p \in Projects : ServedAt(p)' <=> ServedAt(p)
  BY <1>2, NameFacts DEF ServedAt
<1>4. ASSUME NEW p \in Projects
      PROVE  open'[p] = leaked'[p] + (IF OnlineAt(p)' THEN 1 ELSE 0)
  <2> DEFINE n == NameOf[p]
  <2>0. n \in Names /\ open[p] = leaked[p] + (IF OnlineAt(p) THEN 1 ELSE 0)
        /\ open[p] \in Nat /\ leaked[p] \in Nat
    BY NameFacts DEF StoreInv, StoreTypeOK, ConnectionsCounted
  <2>1. open'[p] = IF \E m \in BackOnline : repos[m].path = p THEN open[p] + 1 ELSE open[p]
    BY DEF Recheck
  <2>2. (\E m \in BackOnline : repos[m].path = p) <=> (n \in BackOnline /\ repos[n].path = p)
    BY EntryFacts DEF BackOnline, StoreInv
  <2>3. (n \in BackOnline /\ repos[n].path = p) => ~OnlineAt(p) /\ OnlineAt(p)'
    BY <1>2, <2>0 DEF BackOnline, OnlineAt
  <2>4. ~(n \in BackOnline /\ repos[n].path = p) => (OnlineAt(p) <=> OnlineAt(p)')
    BY <1>2, <2>0 DEF OnlineAt
  <2> QED
    BY <1>1, <2>0, <2>1, <2>2, <2>3, <2>4
<1>5. ConnectionsCounted'
  BY <1>4 DEF ConnectionsCounted
<1>6. RegistryParts'
  BY <1>1 DEF StoreInv, RegistryParts, Readable
<1>7. RemovedParts'
  BY <1>1, <1>3 DEF StoreInv, StoreTypeOK, RemovedParts
<1>8. ListedMatchesServed'
  BY <1>1, <1>3 DEF StoreInv, ListedMatchesServed
<1> QED
  BY <1>5, <1>6, <1>7, <1>8 DEF Sound

\* A readable registry that a handler has written.
Wrote(r) == registry' = r /\ r \in Registries

LEMMA WrittenRegistry ==
    ASSUME NEW r, Wrote(r)
    PROVE  Registry' = r /\ registry' # Torn /\ Readable'
BY StoreAssumption DEF Wrote, Registry, Readable

(* A removed project: its entry, its connection and its listing go.        *)
LEMMA DeleteStep ==
    ASSUME StoreInv, NEW n \in Names, DeleteProject(n)
    PROVE  Sound'
<1> DEFINE q == repos[n].path
           r == WithoutProject(n)
<1>1. /\ repos[n] # NoRepo /\ nexus = "up" /\ UNCHANGED <<nexus, leaked, failed, torn>>
      /\ open' = Closed(n) /\ repos' = [repos EXCEPT ![n] = NoRepo]
      /\ registry' = r /\ removed' = removed \cup {q}
  BY DEF DeleteProject
<1>2. q \in Projects /\ NameOf[q] = n /\ ServedAt(q) /\ repos[n].online \in BOOLEAN
  BY <1>1, EntryFacts DEF StoreInv
<1>3. Registry.repos \subseteq Projects /\ Registry.blacklist \subseteq Projects
  BY RegistryFacts DEF StoreInv
<1>4. r.repos = {p \in Registry.repos : NameOf[p] # n} /\ r.blacklist = Registry.blacklist \cup {q}
  BY DEF WithoutProject
<1>5. Wrote(r)
  BY <1>1, <1>2, <1>3 DEF WithoutProject, Wrote, Registries
<1> HIDE DEF r
<1>6. Registry' = r /\ registry' # Torn /\ Readable'
  BY <1>5, WrittenRegistry
<1>7. ASSUME NEW p \in Projects
      PROVE  /\ NameOf[p] = n => ~ServedAt(p)' /\ ~OnlineAt(p)'
             /\ NameOf[p] # n => /\ ServedAt(p)' = ServedAt(p)
                                 /\ OnlineAt(p)' = OnlineAt(p)
  <2>1. NameOf[p] \in Names /\ repos'[NameOf[p]] = IF NameOf[p] = n THEN NoRepo ELSE repos[NameOf[p]]
    BY <1>1, NameFacts DEF StoreInv, StoreTypeOK
  <2> QED
    BY <2>1 DEF ServedAt, OnlineAt
<1>8. ASSUME NEW p \in Projects
      PROVE  open'[p] = leaked'[p] + (IF OnlineAt(p)' THEN 1 ELSE 0)
  <2>0. /\ open[p] = leaked[p] + (IF OnlineAt(p) THEN 1 ELSE 0)
        /\ open[p] \in Nat /\ leaked[p] \in Nat /\ leaked'[p] = leaked[p]
    BY <1>1 DEF StoreInv, StoreTypeOK, ConnectionsCounted
  <2>1. open'[p] = IF p = q /\ repos[n].online THEN open[p] - 1 ELSE open[p]
    BY <1>1, <1>2 DEF Closed, StoreInv, StoreTypeOK
  <2>2. CASE NameOf[p] = n
    <3>1. OnlineAt(p) <=> p = q /\ repos[n].online
      BY <1>1, <2>2 DEF OnlineAt
    <3> QED
      BY <1>7, <2>0, <2>1, <2>2, <3>1
  <2>3. CASE NameOf[p] # n
    BY <1>2, <1>7, <2>0, <2>1, <2>3
  <2> QED
    BY <2>2, <2>3
<1>9. ConnectionsCounted'
  BY <1>8 DEF ConnectionsCounted
<1>10. RegistryParts'
  <2>1. q \notin r.repos /\ r.repos \subseteq Registry.repos
    BY <1>2, <1>4
  <2> QED
    BY <1>1, <1>4, <1>6, <2>1 DEF StoreInv, RegistryParts
<1>11. RemovedParts'
  BY <1>1, <1>2, <1>4, <1>6, <1>7 DEF StoreInv, StoreTypeOK, RemovedParts
<1>12. ListedMatchesServed'
  <2>1. SUFFICES ASSUME NEW p \in Projects, Unique(p)
                 PROVE  /\ ServedAt(p)' => p \in r.repos \ r.blacklist
                        /\ p \in r.repos \ r.blacklist => ServedAt(p)' \/ p \in failed
    BY <1>1, <1>6 DEF ListedMatchesServed
  <2>2. /\ ServedAt(p) => p \in Registry.repos \ Registry.blacklist
        /\ p \in Registry.repos \ Registry.blacklist => ServedAt(p) \/ p \in failed
    BY <1>1, <2>1 DEF StoreInv, ListedMatchesServed
  <2>3. CASE NameOf[p] = n
    BY <1>4, <1>7, <2>3
  <2>4. CASE NameOf[p] # n
    BY <1>2, <1>4, <1>7, <2>2, <2>4
  <2> QED
    BY <2>3, <2>4
<1> QED
  BY <1>9, <1>10, <1>11, <1>12 DEF Sound

(* A restored project is listed again, and opened or reported as failed;   *)
(* an entry of its name that it replaces leaves its connection open.       *)
LEMMA RestoreStep ==
    ASSUME StoreInv, NEW p \in Projects, RestoreProject(p)
    PROVE  Sound'
<1> DEFINE n == NameOf[p]
           r == WithProject(p)
           held == repos[n] # NoRepo /\ repos[n].online
<1>1. /\ nexus = "up" /\ UNCHANGED <<nexus, torn, dbFile>>
      /\ registry' = r /\ removed' = removed \ {p}
  BY DEF RestoreProject
<1>2. n \in Names /\ Registry.repos \subseteq Projects /\ Registry.blacklist \subseteq Projects
  BY NameFacts, RegistryFacts DEF StoreInv
<1>3. r.repos = Registry.repos \cup {p} /\ r.blacklist = Registry.blacklist \ {p}
  BY DEF WithProject
<1>4. Wrote(r)
  BY <1>1, <1>2 DEF WithProject, Wrote, Registries
<1> HIDE DEF r
<1>5. Registry' = r /\ registry' # Torn /\ Readable'
  BY <1>4, WrittenRegistry
<1>6. RegistryParts'
  BY <1>1, <1>3, <1>5 DEF StoreInv, RegistryParts
<1>7. CASE dbFile[p] = "damaged"
  <2>1. failed' = failed \cup {p} /\ UNCHANGED <<repos, open, leaked>>
    BY <1>7 DEF RestoreProject
  <2>2. \A x \in Projects : (ServedAt(x)' <=> ServedAt(x)) /\ (OnlineAt(x)' <=> OnlineAt(x))
    BY <2>1 DEF ServedAt, OnlineAt
  <2>3. ConnectionsCounted'
    BY <2>1, <2>2 DEF StoreInv, ConnectionsCounted
  <2>4. RemovedParts'
    BY <1>1, <1>3, <1>5, <2>2 DEF StoreInv, StoreTypeOK, RemovedParts
  <2>5. ListedMatchesServed'
    BY <1>1, <1>3, <1>5, <2>1, <2>2 DEF StoreInv, ListedMatchesServed
  <2> QED
    BY <1>6, <2>3, <2>4, <2>5 DEF Sound
<1>8. CASE dbFile[p] # "damaged"
  <2> DEFINE entry == [path |-> p, online |-> dbFile[p] = "ok"]
  <2>1. /\ failed' = failed \ {p}
        /\ repos' = [repos EXCEPT ![n] = entry]
        /\ open' = IF dbFile[p] = "ok" THEN [open EXCEPT ![p] = @ + 1] ELSE open
        /\ leaked' = IF held THEN [leaked EXCEPT ![repos[n].path] = @ + 1] ELSE leaked
    BY <1>8 DEF RestoreProject, OpenRepo
  <2>2. entry \in Entries /\ entry.path = p /\ (entry.online <=> dbFile[p] = "ok") /\ entry # NoRepo
    <3>1. entry \in Entries
      BY DEF Entries
    <3>2. entry.path = p /\ (entry.online <=> dbFile[p] = "ok")
      OBVIOUS
    <3> HIDE DEF entry
    <3> QED
      BY <3>1, <3>2, StoreAssumption
  <2> HIDE DEF entry
  <2>3. ASSUME NEW x \in Projects
        PROVE  /\ NameOf[x] = n => /\ ServedAt(x)' <=> x = p
                                   /\ OnlineAt(x)' <=> x = p /\ dbFile[p] = "ok"
               /\ NameOf[x] # n => /\ ServedAt(x)' <=> ServedAt(x)
                                   /\ OnlineAt(x)' <=> OnlineAt(x)
    <3>1. NameOf[x] \in Names /\ repos'[NameOf[x]] = IF NameOf[x] = n THEN entry ELSE repos[NameOf[x]]
      BY <1>2, <2>1, NameFacts DEF StoreInv, StoreTypeOK
    <3> QED
      BY <2>2, <3>1 DEF ServedAt, OnlineAt
  <2>4. held => repos[n].path \in Projects /\ NameOf[repos[n].path] = n
    BY <1>2, EntryFacts DEF StoreInv
  <2>5. ASSUME NEW x \in Projects
        PROVE  open'[x] = leaked'[x] + (IF OnlineAt(x)' THEN 1 ELSE 0)
    <3>0. /\ open[x] = leaked[x] + (IF OnlineAt(x) THEN 1 ELSE 0)
          /\ open[x] \in Nat /\ leaked[x] \in Nat
      BY DEF StoreInv, StoreTypeOK, ConnectionsCounted
    <3>1. open'[x] = IF x = p /\ dbFile[p] = "ok" THEN open[x] + 1 ELSE open[x]
      BY <2>1 DEF StoreInv, StoreTypeOK
    <3>2. leaked'[x] = IF held /\ x = repos[n].path THEN leaked[x] + 1 ELSE leaked[x]
      BY <2>1, <2>4 DEF StoreInv, StoreTypeOK
    <3>3. CASE NameOf[x] = n
      <4>1. OnlineAt(x) <=> held /\ x = repos[n].path
        BY <3>3 DEF OnlineAt
      <4>2. OnlineAt(x)' <=> x = p /\ dbFile[p] = "ok"
        BY <2>3, <3>3
      <4> QED
        BY <3>0, <3>1, <3>2, <4>1, <4>2
    <3>4. CASE NameOf[x] # n
      BY <2>3, <2>4, <3>0, <3>1, <3>2, <3>4
    <3> QED
      BY <3>3, <3>4
  <2>6. ConnectionsCounted'
    BY <2>5 DEF ConnectionsCounted
  <2>7. RemovedParts'
    <3>1. \A x \in removed' : x \in Projects /\ x # p
      BY <1>1 DEF StoreInv, StoreTypeOK
    <3>2. ~torn => \A x \in removed' : ~ServedAt(x)'
      BY <1>1, <2>3, <3>1 DEF StoreInv, RemovedParts
    <3> QED
      BY <1>1, <1>3, <1>5, <3>2 DEF StoreInv, RemovedParts
  <2>8. ListedMatchesServed'
    <3>1. SUFFICES ASSUME NEW x \in Projects, Unique(x)
                   PROVE  /\ ServedAt(x)' => x \in r.repos \ r.blacklist
                          /\ x \in r.repos \ r.blacklist => ServedAt(x)' \/ x \in failed'
      BY <1>1, <1>5 DEF ListedMatchesServed
    <3>2. /\ ServedAt(x) => x \in Registry.repos \ Registry.blacklist
          /\ x \in Registry.repos \ Registry.blacklist => ServedAt(x) \/ x \in failed
      BY <1>1, <3>1 DEF StoreInv, ListedMatchesServed
    <3>3. CASE x = p
      BY <1>3, <2>3, <3>3
    <3>4. CASE x # p
      <4>1. NameOf[x] # n
        BY <3>1, <3>4 DEF Unique
      <4> QED
        BY <1>3, <2>1, <2>3, <3>2, <3>4, <4>1
    <3> QED
      BY <3>3, <3>4
  <2> QED
    BY <1>6, <2>6, <2>7, <2>8 DEF Sound
<1> QED
  BY <1>7, <1>8

-----------------------------------------------------------------------------
(* Types. *)

LEMMA GoneTypes ==
    ASSUME StoreTypeOK, Gone
    PROVE  /\ nexus' = "down" /\ repos' \in [Names -> Entries \cup {NoRepo}]
           /\ \A n \in Names : repos'[n] = NoRepo
           /\ open' \in [Projects -> Nat] /\ leaked' \in [Projects -> Nat]
           /\ broker' \in Progress \cup {NoRepo} /\ failed' \subseteq Projects
BY DEF Gone

LEMMA StoreTypesStep == StoreInv /\ [StoreNext]_storeVars => StoreTypeOK'
<1> SUFFICES ASSUME StoreInv, [StoreNext]_storeVars PROVE StoreTypeOK'
  OBVIOUS
<1> USE StoreAssumption
<1>t. StoreTypeOK
  BY DEF StoreInv
<1>1. ASSUME NEW p \in Projects, ChangeDb(p)
      PROVE  StoreTypeOK'
  BY <1>t, <1>1 DEF ChangeDb, memory, StoreTypeOK
<1>2. CASE BeginNexus
  BY <1>t, <1>2 DEF BeginNexus, memory, StoreTypeOK
<1>3. CASE Discover
  <2>1. registry' \in Registries
    <3>1. Found \in SUBSET Projects
      BY DEF Found
    <3> QED
      BY <1>3, <3>1 DEF Discover, Registries
  <2> QED
    BY <1>t, <1>3, <2>1 DEF Discover, memory, StoreTypeOK
<1>4. CASE OpenAll
  <2>1. CASE \E p \in ToOpen : dbFile[p] = "damaged"
    BY <1>t, <1>4, <2>1, GoneTypes DEF OpenAll, StoreTypeOK
  <2>2. CASE ~\E p \in ToOpen : dbFile[p] = "damaged"
    <3>1. /\ nexus' = "up" /\ UNCHANGED <<broker, failed>>
          /\ repos' \in [Names -> [path : ToOpen, online : BOOLEAN] \cup {NoRepo}]
          /\ \A n \in Names :
                IF \E p \in ToOpen : NameOf[p] = n
                THEN /\ repos'[n] # NoRepo /\ NameOf[repos'[n].path] = n
                     /\ repos'[n].online = (dbFile[repos'[n].path] = "ok")
                ELSE repos'[n] = NoRepo
          /\ open' = [p \in Projects |-> IF p \in ToOpen /\ dbFile[p] = "ok" THEN 1 ELSE 0]
          /\ leaked' = [p \in Projects |->
                IF \E n \in Names : repos'[n] # NoRepo /\ repos'[n].path = p THEN 0 ELSE open'[p]]
      BY <1>4, <2>2 DEF OpenAll
    <3>2. ToOpen \subseteq Projects
      BY <1>t, RegistryFacts DEF ToOpen
    <3>3. [path : ToOpen, online : BOOLEAN] \subseteq Entries
      BY <3>2 DEF Entries
    <3>4. repos' \in [Names -> Entries \cup {NoRepo}]
      BY <3>1, <3>3
    <3>5. \A n \in Names : repos'[n] # NoRepo => NameOf[repos'[n].path] = n
      BY <3>1
    <3>6. open' \in [Projects -> Nat]
      BY <3>1
    <3>7. leaked' \in [Projects -> Nat]
      BY <3>1, <3>6
    <3> QED
      BY <1>t, <1>4, <3>1, <3>4, <3>5, <3>6, <3>7 DEF OpenAll, StoreTypeOK
  <2> QED
    BY <2>1, <2>2
<1>5. CASE Recheck
  <2>1. ASSUME NEW n \in Names
        PROVE  /\ repos'[n] \in Entries \cup {NoRepo}
               /\ repos'[n] # NoRepo => NameOf[repos'[n].path] = n
    <3>1. CASE n \in BackOnline
      <4>1. repos[n] \in Entries /\ NameOf[repos[n].path] = n
        BY <1>t, <3>1, EntryFacts DEF BackOnline
      <4>2. repos'[n] = [repos[n] EXCEPT !.online = TRUE]
        BY <1>5, <3>1 DEF Recheck
      <4> QED
        BY <4>1, <4>2 DEF Entries
    <3>2. CASE n \notin BackOnline
      BY <1>t, <1>5, <3>2 DEF Recheck, StoreTypeOK
    <3> QED
      BY <3>1, <3>2
  <2>2. repos' \in [Names -> Entries \cup {NoRepo}]
    <3>1. DOMAIN repos' = Names /\ repos' = [n \in Names |-> repos'[n]]
      BY <1>5 DEF Recheck
    <3> QED
      BY <2>1, <3>1
  <2>3. open' \in [Projects -> Nat]
    BY <1>t, <1>5 DEF Recheck, StoreTypeOK
  <2> QED
    BY <1>t, <1>5, <2>1, <2>2, <2>3 DEF Recheck, StoreTypeOK
<1>6. ASSUME NEW n \in Names, DeleteProject(n)
      PROVE  StoreTypeOK'
  <2>1. repos[n] # NoRepo /\ repos[n].path \in Projects
    BY <1>t, <1>6, EntryFacts DEF DeleteProject
  <2>2. registry' \in Registries
    <3>1. Registry.repos \subseteq Projects /\ Registry.blacklist \subseteq Projects
      BY <1>t, RegistryFacts
    <3> QED
      BY <1>6, <2>1, <3>1 DEF DeleteProject, WithoutProject, Registries
  <2>3. open' \in [Projects -> Nat]
    <3> DEFINE q == repos[n].path
    <3>1. repos[n].online => open[q] - 1 \in Nat
      <4>1. repos[n].online => OnlineAt(q)
        BY <1>t, <2>1, EntryFacts DEF OnlineAt
      <4> QED
        BY <1>t, <2>1, <4>1 DEF StoreInv, ConnectionsCounted, StoreTypeOK
    <3> QED
      BY <1>t, <1>6, <2>1, <3>1 DEF DeleteProject, Closed, StoreTypeOK
  <2>4. repos' \in [Names -> Entries \cup {NoRepo}]
        /\ \A m \in Names : repos'[m] # NoRepo => NameOf[repos'[m].path] = m
    BY <1>t, <1>6 DEF DeleteProject, StoreTypeOK
  <2>5. removed' \subseteq Projects
    BY <1>t, <1>6, <2>1 DEF DeleteProject, StoreTypeOK
  <2> QED
    BY <1>t, <1>6, <2>2, <2>3, <2>4, <2>5 DEF DeleteProject, StoreTypeOK
<1>7. ASSUME NEW p \in Projects, RestoreProject(p)
      PROVE  StoreTypeOK'
  <2>1. registry' \in Registries
    <3>1. Registry.repos \subseteq Projects /\ Registry.blacklist \subseteq Projects
      BY <1>t, RegistryFacts
    <3> QED
      BY <1>7, <3>1 DEF RestoreProject, WithProject, Registries
  <2>2. removed' \subseteq Projects /\ failed' \subseteq Projects
    BY <1>t, <1>7 DEF RestoreProject, StoreTypeOK
  <2>3. CASE dbFile[p] = "damaged"
    BY <1>t, <1>7, <2>1, <2>2, <2>3 DEF RestoreProject, StoreTypeOK
  <2>4. CASE dbFile[p] # "damaged"
    <3> DEFINE entry == [path |-> p, online |-> dbFile[p] = "ok"]
               n == NameOf[p]
               held == repos[n] # NoRepo /\ repos[n].online
    <3>1. /\ repos' = [repos EXCEPT ![n] = entry]
          /\ open' = IF dbFile[p] = "ok" THEN [open EXCEPT ![p] = @ + 1] ELSE open
          /\ leaked' = IF held THEN [leaked EXCEPT ![repos[n].path] = @ + 1] ELSE leaked
      BY <1>7, <2>4 DEF RestoreProject, OpenRepo
    <3>2. entry \in Entries /\ entry.path = p /\ n \in Names
      BY NameFacts DEF Entries
    <3>3. open' \in [Projects -> Nat]
      BY <1>t, <3>1 DEF StoreTypeOK
    <3>4. leaked' \in [Projects -> Nat]
      <4>1. held => repos[n].path \in Projects
        BY <1>t, <3>2, EntryFacts
      <4> QED
        BY <1>t, <3>1, <4>1 DEF StoreTypeOK
    <3> HIDE DEF entry
    <3>5. repos' \in [Names -> Entries \cup {NoRepo}]
      BY <1>t, <3>1, <3>2 DEF StoreTypeOK
    <3>6. \A m \in Names : repos'[m] # NoRepo => NameOf[repos'[m].path] = m
      BY <1>t, <3>1, <3>2 DEF StoreTypeOK
    <3> QED
      BY <1>t, <1>7, <2>1, <2>2, <3>3, <3>4, <3>5, <3>6 DEF RestoreProject, StoreTypeOK
  <2> QED
    BY <2>3, <2>4
<1>8. CASE AskBroker \/ BrokerAccepts \/ BrokerAnswers \/ QueryFails \/ BrokerReply
  BY <1>t, <1>8 DEF AskBroker, BrokerAccepts, BrokerAnswers, QueryFails, BrokerReply, Progress, StoreTypeOK
<1>9. CASE StopOrKill \/ KillInWrite
  <2>1. kills' \in 0..MaxKills /\ registry' \in Registries \cup {NoRepo, Torn}
    BY <1>t, <1>9 DEF StopOrKill, KillInWrite, StoreTypeOK
  <2> QED
    BY <1>t, <1>9, <2>1, GoneTypes DEF StopOrKill, KillInWrite, StoreTypeOK
<1>10. CASE UNCHANGED storeVars
  BY <1>t, <1>10 DEF storeVars, StoreTypeOK
<1> QED
  BY <1>1, <1>2, <1>3, <1>4, <1>5, <1>6, <1>7, <1>8, <1>9, <1>10 DEF StoreNext, StoreRequest

-----------------------------------------------------------------------------
(* The invariant. *)

LEMMA StoreInvInit == StoreInit => StoreInv
<1> SUFFICES ASSUME StoreInit PROVE StoreInv
  OBVIOUS
<1>1. StoreTypeOK
  BY StoreAssumption DEF StoreInit, StoreTypeOK
<1>2. \A p \in Projects : ~OnlineAt(p) /\ ~ServedAt(p)
  BY NameFacts DEF StoreInit, OnlineAt, ServedAt
<1>3. ConnectionsCounted /\ ListedMatchesServed
  BY <1>2 DEF StoreInit, ConnectionsCounted, ListedMatchesServed
<1>4. ~Readable /\ Registry = Empty
  BY DEF StoreInit, Registry, Readable
<1>5. RegistryParts /\ RemovedParts
  BY <1>4, StoreAssumption DEF StoreInit, RegistryParts, RemovedParts, Empty
<1> QED
  BY <1>1, <1>3, <1>5 DEF StoreInv

LEMMA StoreInvStep == StoreInv /\ [StoreNext]_storeVars => StoreInv'
<1> SUFFICES ASSUME StoreInv, [StoreNext]_storeVars PROVE Sound'
  BY StoreTypesStep DEF StoreInv, Sound
<1>t. StoreTypeOK'
  BY StoreTypesStep
<1>1. CASE \/ \E p \in Projects : ChangeDb(p)
           \/ BeginNexus \/ AskBroker \/ BrokerAccepts \/ BrokerAnswers \/ QueryFails \/ BrokerReply
           \/ UNCHANGED storeVars
  <2>1. UNCHANGED <<registry, repos, open, leaked, removed, failed, torn>>
    BY <1>1 DEF ChangeDb, BeginNexus, AskBroker, BrokerAccepts, BrokerAnswers, QueryFails, BrokerReply,
                storeVars, memory
  <2>2. nexus' = nexus \/ nexus' = "open" \/ (nexus' = "discover" /\ ~Readable)
    BY <1>1 DEF ChangeDb, BeginNexus, AskBroker, BrokerAccepts, BrokerAnswers, QueryFails, BrokerReply,
                storeVars
  <2> QED
    BY <2>1, <2>2, NothingServedChanges
<1>2. CASE StopOrKill \/ KillInWrite
  BY <1>2, NothingServed DEF StopOrKill, KillInWrite
<1> QED
  BY <1>t, <1>1, <1>2, DiscoverStep, OpenAllStep, RecheckStep, DeleteStep, RestoreStep
  DEF StoreNext, StoreRequest

(* A project has one name, so an entry of that name holds its connection.  *)
LEMMA EntriesOf ==
    ASSUME StoreTypeOK, NEW p \in Projects
    PROVE  Cardinality({n \in Names : repos[n] # NoRepo /\ repos[n].path = p /\ repos[n].online})
              = IF OnlineAt(p) THEN 1 ELSE 0
<1> DEFINE held == {n \in Names : repos[n] # NoRepo /\ repos[n].path = p /\ repos[n].online}
<1>1. \A n \in held : n = NameOf[p]
  BY EntryFacts
<1>2. CASE OnlineAt(p)
  <2>1. held = {NameOf[p]}
    BY <1>1, <1>2, NameFacts DEF OnlineAt
  <2> QED
    BY <1>2, <2>1, FS_Singleton
<1>3. CASE ~OnlineAt(p)
  <2>1. held = {}
    BY <1>1, <1>3 DEF OnlineAt
  <2> QED
    BY <1>3, <2>1, FS_EmptySet
<1> QED
  BY <1>2, <1>3

LEMMA StoreInvSound == StoreInv => StoreIsSound
<1> SUFFICES ASSUME StoreInv PROVE StoreIsSound
  OBVIOUS
<1>1. StoreTypeOK /\ Served = {p \in Projects : ServedAt(p)}
  BY ServedFacts DEF StoreInv
<1>2. ConnectionsMatchEntries
  BY <1>1, EntriesOf DEF StoreInv, ConnectionsCounted, ConnectionsMatchEntries
<1>3. ServedMatchesRegistry
  BY <1>1 DEF StoreInv, ListedMatchesServed, ServedMatchesRegistry
<1>4. RemovedStaysAway
  BY <1>1 DEF StoreInv, RemovedParts, RemovedStaysAway
<1> QED
  BY <1>1, <1>2, <1>3, <1>4 DEF StoreIsSound

(* Whatever is removed, restored, damaged and killed: connections are held *)
(* for the entries only, map and registry agree, and a removed project is  *)
(* not served again, restarts included.                                    *)
THEOREM StoreStaysSound == StoreSpec => []StoreIsSound
<1> QED
  BY StoreInvInit, StoreInvStep, StoreInvSound, PTL DEF StoreSpec

LEMMA RegistryKept ==
    ASSUME StoreInv, [StoreNext]_storeVars, Readable, registry' # Torn
    PROVE  /\ registry'.repos \cap registry'.blacklist = {}
           /\ \A p \in registry.repos \cup registry.blacklist :
                Unique(p) => p \in registry'.repos \cup registry'.blacklist
<1>1. StoreTypeOK /\ Registry = registry /\ registry.repos \cap registry.blacklist = {}
      /\ registry.repos \subseteq Projects /\ registry.blacklist \subseteq Projects
  BY RegistryFacts DEF StoreInv, RegistryParts
<1>2. CASE registry' = registry
  BY <1>1, <1>2
<1>3. ASSUME NEW n \in Names, DeleteProject(n)
      PROVE  /\ registry'.repos \cap registry'.blacklist = {}
             /\ \A p \in registry.repos \cup registry.blacklist :
                  Unique(p) => p \in registry'.repos \cup registry'.blacklist
  <2>1. repos[n].path \in Projects /\ NameOf[repos[n].path] = n
    BY <1>1, <1>3, EntryFacts DEF DeleteProject
  <2>2. /\ registry'.repos = {p \in registry.repos : NameOf[p] # n}
        /\ registry'.blacklist = registry.blacklist \cup {repos[n].path}
    BY <1>1, <1>3 DEF DeleteProject, WithoutProject
  <2>3. \A p \in Projects : Unique(p) /\ NameOf[p] = n => p = repos[n].path
    BY <2>1 DEF Unique
  <2> QED
    BY <1>1, <2>1, <2>2, <2>3
<1>4. ASSUME NEW p \in Projects, RestoreProject(p)
      PROVE  /\ registry'.repos = registry.repos \cup {p}
             /\ registry'.blacklist = registry.blacklist \ {p}
  BY <1>1, <1>4 DEF RestoreProject, WithProject
<1>5. ~Discover
  BY DEF Discover, StoreInv, RegistryParts
<1>6. CASE \/ \E p \in Projects : ChangeDb(p)
           \/ BeginNexus \/ OpenAll \/ Recheck
           \/ AskBroker \/ BrokerAccepts \/ BrokerAnswers \/ QueryFails \/ BrokerReply
           \/ StopOrKill \/ KillInWrite \/ UNCHANGED storeVars
  BY <1>2, <1>6 DEF ChangeDb, BeginNexus, OpenAll, Recheck, AskBroker, BrokerAccepts, BrokerAnswers,
                    QueryFails, BrokerReply, StopOrKill, KillInWrite, storeVars
<1> QED
  BY <1>1, <1>3, <1>4, <1>5, <1>6 DEF StoreNext, StoreRequest

(* The registry never loses a project of a unique name, nor lists one that *)
(* it blacklists.                                                          *)
THEOREM RegistryNeverLosesProjects == StoreSpec => RegistryKeepsProjects
<1>1. StoreInv /\ [StoreNext]_storeVars
      => [registry \notin {NoRepo, Torn} /\ registry' # Torn =>
            /\ registry'.repos \cap registry'.blacklist = {}
            /\ \A p \in registry.repos \cup registry.blacklist :
                 Unique(p) => p \in registry'.repos \cup registry'.blacklist]_storeVars
  BY RegistryKept DEF Readable
<1> QED
  BY <1>1, StoreInvInit, StoreInvStep, PTL DEF StoreSpec, RegistryKeepsProjects

-----------------------------------------------------------------------------
(* The inductive invariant of the log. *)

WritersOf(f) == {w \in Writers : FileOf[w] = f}
Appending(f) == {w \in WritersOf(f) : wpc[w] = "append"}

\* A writer that will append has found room before.
RoomLeft ==
    \A f \in Files :
        Size(f) + Cardinality(Appending(f)) <= LogMaxSize + Cardinality(WritersOf(f))

\* A file holds the lines written since it was last truncated.
First(f) == written[f] - Size(f)
Numbered ==
    \A f \in Files :
        /\ Size(f) <= written[f]
        /\ content[f] # Off => \A i \in 1..Len(content[f]) : content[f][i] = <<f, First(f) + i>>

\* Browsers are connected to a running dashboard.
Streamed ==
    /\ tailer # "up" => \A c \in Clients : got[c] = Off
    /\ \A c \in Clients : got[c] # Off =>
          /\ from[c] \in 1..Len(shown) + 1
          /\ got[c] = SubSeq(shown, from[c], Len(shown))

\* A file that is read or watched is there, and stays.
ReadingFile ==
    /\ reading # Off => tailer = "up" /\ content[reading[1]] # Off
    /\ \A f \in Files : watched[f] => content[f] # Off

\* The files initLogTailer has not come to, and the one it is about to measure.
Unseeded(f) ==
    /\ tailer \in {"seed", "stat", "watch"}
    /\ \E j \in DOMAIN LogFiles :
          LogFiles[j] = f /\ (j > at \/ (j = at /\ tailer = "seed"))
InStat(f) == tailer = "stat" /\ LogFiles[at] = f

\* No line of f beyond the offset has been shown; an offset beyond the file's end
\* will start again at its first line.
Mark(f) ==
    IF InStat(f) THEN written[f]
    ELSE IF offset[f] > Size(f) THEN First(f) ELSE First(f) + offset[f]

UpTo(s, f, n) == \A i \in 1..Len(s) : s[i][1] = f => s[i][2] <= n

Marked ==
    tailer # "down" =>
        \A f \in Files : /\ UpTo(shown, f, Mark(f))
                         /\ Unseeded(f) => offset[f] = 0 /\ UpTo(shown, f, 0)

\* While a file is not truncated, the offset stays in it and what is before the
\* offset and not from before the start has been shown.
Caught ==
    tailer # "down" =>
        \A f \in Files : ~cut[f] =>
            /\ offset[f] <= Size(f)
            /\ \A i \in 1..offset[f] :
                  content[f][i][2] > base[f] => content[f][i] \in Range(shown)

LogInv ==
    /\ LogTypeOK /\ RoomLeft /\ Numbered /\ Streamed /\ RingIsLatest /\ ReadingFile
    /\ ShownOnceInOrder /\ Marked /\ Caught

-----------------------------------------------------------------------------
(* Ends of sequences. *)

(* A piece of a sequence.                                                  *)
LEMMA Piece ==
    ASSUME NEW S, NEW s \in Seq(S), NEW a \in Nat \ {0}, NEW b \in Nat, b <= Len(s), a <= b + 1
    PROVE  /\ SubSeq(s, a, b) \in Seq(S) /\ Len(SubSeq(s, a, b)) = b - a + 1
           /\ \A i \in 1..b - a + 1 : SubSeq(s, a, b)[i] = s[a + i - 1]
<1>1. \A i \in a..b : s[i] \in S
  OBVIOUS
<1>2. a \in Int /\ b \in Int
  OBVIOUS
<1>3. /\ SubSeq(s, a, b) \in Seq(S)
      /\ Len(SubSeq(s, a, b)) = IF a <= b THEN b - a + 1 ELSE 0
      /\ \A i \in 1..b - a + 1 : SubSeq(s, a, b)[i] = s[a + i - 1]
  BY <1>1, <1>2, SubSeqProperties
<1> QED
  BY <1>3

(* The last n elements, or all.                                            *)
LEMMA LastOfFacts ==
    ASSUME NEW S, NEW s \in Seq(S), NEW n \in Nat
    PROVE  /\ LastOf(s, n) \in Seq(S) /\ Len(LastOf(s, n)) = IF Len(s) > n THEN n ELSE Len(s)
           /\ LastOf(s, n) = SubSeq(s, Len(s) - Len(LastOf(s, n)) + 1, Len(s))
           /\ \A i \in 1..Len(LastOf(s, n)) :
                 LastOf(s, n)[i] = s[Len(s) - Len(LastOf(s, n)) + i]
<1> DEFINE k == IF Len(s) > n THEN Len(s) - n + 1 ELSE 1
<1>1. k \in Nat \ {0} /\ k <= Len(s) + 1 /\ Len(s) \in Nat
  OBVIOUS
<1>2. LastOf(s, n) = SubSeq(s, k, Len(s))
  BY DEF LastOf
<1>3. Len(s) - k + 1 = IF Len(s) > n THEN n ELSE Len(s)
  OBVIOUS
<1> HIDE DEF k
<1>4. /\ SubSeq(s, k, Len(s)) \in Seq(S) /\ Len(SubSeq(s, k, Len(s))) = Len(s) - k + 1
      /\ \A i \in 1..Len(s) - k + 1 : SubSeq(s, k, Len(s))[i] = s[k + i - 1]
  <2>1. Len(s) <= Len(s)
    BY <1>1
  <2> QED
    BY <1>1, <2>1, Piece
<1>5. Len(LastOf(s, n)) = Len(s) - k + 1 /\ LastOf(s, n) \in Seq(S)
  BY <1>2, <1>4
<1>6. Len(s) - Len(LastOf(s, n)) + 1 = k
  BY <1>1, <1>5
<1>7. \A i \in 1..Len(LastOf(s, n)) : LastOf(s, n)[i] = s[Len(s) - Len(LastOf(s, n)) + i]
  <2>1. \A i \in 1..Len(s) - k + 1 : k + i - 1 = Len(s) - (Len(s) - k + 1) + i
    BY <1>1
  <2> QED
    BY <1>2, <1>4, <1>5, <2>1
<1> QED
  BY <1>2, <1>3, <1>5, <1>6, <1>7

(* Cutting a sequence before and after appending to it gives the same.     *)
LEMMA LastOfConcat ==
    ASSUME NEW S, NEW s \in Seq(S), NEW t \in Seq(S), NEW n \in Nat
    PROVE  LastOf(LastOf(s, n) \o t, n) = LastOf(s \o t, n)
<1> DEFINE l == LastOf(s, n)
           u == l \o t
           v == s \o t
<1>1. /\ l \in Seq(S) /\ Len(l) = IF Len(s) > n THEN n ELSE Len(s)
      /\ \A i \in 1..Len(l) : l[i] = s[Len(s) - Len(l) + i]
  BY LastOfFacts
<1>2. Len(s) \in Nat /\ Len(t) \in Nat /\ Len(l) \in Nat
  BY <1>1
<1> HIDE DEF l
<1>3. /\ u \in Seq(S) /\ Len(u) = Len(l) + Len(t)
      /\ \A i \in 1..Len(l) + Len(t) : u[i] = IF i <= Len(l) THEN l[i] ELSE t[i - Len(l)]
  BY <1>1, ConcatProperties
<1>4. /\ v \in Seq(S) /\ Len(v) = Len(s) + Len(t)
      /\ \A i \in 1..Len(s) + Len(t) : v[i] = IF i <= Len(s) THEN s[i] ELSE t[i - Len(s)]
  BY ConcatProperties
<1> HIDE DEF u, v
<1>5. /\ LastOf(u, n) \in Seq(S) /\ Len(LastOf(u, n)) = IF Len(u) > n THEN n ELSE Len(u)
      /\ \A i \in 1..Len(LastOf(u, n)) : LastOf(u, n)[i] = u[Len(u) - Len(LastOf(u, n)) + i]
  BY <1>3, LastOfFacts
<1>6. /\ LastOf(v, n) \in Seq(S) /\ Len(LastOf(v, n)) = IF Len(v) > n THEN n ELSE Len(v)
      /\ \A i \in 1..Len(LastOf(v, n)) : LastOf(v, n)[i] = v[Len(v) - Len(LastOf(v, n)) + i]
  BY <1>4, LastOfFacts
<1>m. /\ Len(l) = IF Len(s) > n THEN n ELSE Len(s)
      /\ Len(u) = Len(l) + Len(t) /\ Len(v) = Len(s) + Len(t)
  BY <1>1, <1>3, <1>4
<1>7. /\ Len(LastOf(u, n)) = IF Len(u) > n THEN n ELSE Len(u)
      /\ Len(LastOf(u, n)) = Len(LastOf(v, n))
  <2>1. Len(LastOf(u, n)) = IF Len(u) > n THEN n ELSE Len(u)
    BY <1>5
  <2>2. Len(LastOf(v, n)) = IF Len(v) > n THEN n ELSE Len(v)
    BY <1>6
  <2>3. (IF Len(u) > n THEN n ELSE Len(u)) = IF Len(v) > n THEN n ELSE Len(v)
    BY <1>2, <1>m
  <2> QED
    BY <2>1, <2>2, <2>3
<1>8. ASSUME NEW i \in 1..Len(LastOf(u, n))
      PROVE  LastOf(u, n)[i] = LastOf(v, n)[i]
  <2> DEFINE m == Len(LastOf(u, n))
             a == Len(u) - m + i
             b == Len(v) - m + i
  <2>0. m \in Nat /\ i \in 1..m /\ m = IF Len(u) > n THEN n ELSE Len(u)
    BY <1>2, <1>m, <1>7
  <2>1. LastOf(u, n)[i] = u[a] /\ LastOf(v, n)[i] = v[b]
    BY <1>5, <1>6, <1>7
  <2> HIDE DEF m
  <2>2. a \in 1..Len(l) + Len(t) /\ b \in 1..Len(s) + Len(t) /\ b = a + (Len(s) - Len(l))
    <3>1. i \in Nat /\ 1 <= i /\ i <= m /\ Len(l) <= Len(s)
      BY <1>2, <1>m, <2>0
    <3>2. m <= Len(l) + Len(t)
      BY <1>2, <1>m, <2>0
    <3>3. Len(u) = Len(l) + Len(t) /\ Len(v) = Len(s) + Len(t)
      BY <1>m
    <3> QED
      BY <1>2, <2>0, <3>1, <3>2, <3>3
  <2> HIDE DEF a, b
  <2>3. CASE a <= Len(l)
    <3>0. a \in 1..Len(l) /\ a \in 1..Len(l) + Len(t) /\ b <= Len(s)
      BY <1>2, <2>2, <2>3
    <3>1. u[a] = l[a] /\ v[b] = s[b] /\ a \in 1..Len(l)
      BY <1>3, <1>4, <2>2, <2>3, <3>0
    <3>2. l[a] = s[b]
      <4>1. Len(s) - Len(l) + a = b
        BY <1>2, <2>2, <3>1
      <4> QED
        BY <1>1, <3>1, <4>1
    <3> QED
      BY <2>1, <3>1, <3>2
  <2>4. CASE a > Len(l)
    <3>0. ~(a <= Len(l)) /\ ~(b <= Len(s)) /\ a - Len(l) = b - Len(s)
      BY <1>2, <2>2, <2>4
    <3>1. u[a] = t[a - Len(l)] /\ v[b] = t[b - Len(s)] /\ a - Len(l) = b - Len(s)
      BY <1>3, <1>4, <2>2, <3>0
    <3> QED
      BY <2>1, <3>1
  <2> QED
    BY <1>2, <2>2, <2>3, <2>4
<1>9. LastOf(u, n) = LastOf(v, n)
  BY <1>5, <1>6, <1>7, <1>8, SeqEqual
<1> QED
  BY <1>9 DEF l, u, v

(* What was read from a place on, and what is read next.                   *)
LEMMA RestConcat ==
    ASSUME NEW S, NEW s \in Seq(S), NEW t \in Seq(S), NEW a \in 1..Len(s) + 1
    PROVE  SubSeq(s \o t, a, Len(s \o t)) = SubSeq(s, a, Len(s)) \o t
<1> DEFINE v == s \o t
           r == SubSeq(s, a, Len(s))
           w == r \o t
           z == SubSeq(v, a, Len(v))
<1>0. Len(s) \in Nat /\ Len(t) \in Nat /\ a \in Nat \ {0} /\ a <= Len(s) + 1
  OBVIOUS
<1>1. /\ v \in Seq(S) /\ Len(v) = Len(s) + Len(t)
      /\ \A i \in 1..Len(s) + Len(t) : v[i] = IF i <= Len(s) THEN s[i] ELSE t[i - Len(s)]
  BY ConcatProperties
<1>2. /\ r \in Seq(S) /\ Len(r) = Len(s) - a + 1
      /\ \A i \in 1..Len(s) - a + 1 : r[i] = s[a + i - 1]
  <2>1. Len(s) <= Len(s)
    BY <1>0
  <2> QED
    BY <1>0, <2>1, Piece
<1> HIDE DEF v, r
<1>3. /\ w \in Seq(S) /\ Len(w) = Len(r) + Len(t)
      /\ \A i \in 1..Len(r) + Len(t) : w[i] = IF i <= Len(r) THEN r[i] ELSE t[i - Len(r)]
  BY <1>2, ConcatProperties
<1>4. /\ z \in Seq(S) /\ Len(z) = Len(v) - a + 1
      /\ \A i \in 1..Len(v) - a + 1 : z[i] = v[a + i - 1]
  <2>1. Len(v) <= Len(v) /\ a <= Len(v) + 1 /\ Len(v) \in Nat
    BY <1>0, <1>1
  <2> QED
    BY <1>0, <1>1, <2>1, Piece
<1> HIDE DEF w, z
<1>5. Len(z) = Len(w)
  BY <1>0, <1>1, <1>2, <1>3, <1>4
<1>6. ASSUME NEW i \in 1..Len(z)
      PROVE  z[i] = w[i]
  <2>1. z[i] = v[a + i - 1] /\ a + i - 1 \in 1..Len(s) + Len(t) /\ i \in Nat
    BY <1>0, <1>1, <1>4
  <2>2. w[i] = IF i <= Len(r) THEN r[i] ELSE t[i - Len(r)]
    BY <1>3, <1>5
  <2>3. CASE i <= Len(r)
    <3>1. r[i] = s[a + i - 1] /\ a + i - 1 <= Len(s)
      BY <1>0, <1>2, <2>1, <2>3
    <3> QED
      BY <1>1, <2>1, <2>2, <2>3, <3>1
  <2>4. CASE i > Len(r)
    <3>0. i \in Nat /\ Len(r) = Len(s) - a + 1
      BY <1>2, <2>1
    <3>1. a + i - 1 > Len(s) /\ a + i - 1 - Len(s) = i - Len(r)
      BY <1>0, <2>4, <3>0
    <3>2. v[a + i - 1] = t[a + i - 1 - Len(s)]
      BY <1>0, <1>1, <2>1, <3>1
    <3>3. ~(i <= Len(r))
      BY <1>0, <2>4, <3>0
    <3> QED
      BY <2>1, <2>2, <3>1, <3>2, <3>3
  <2> QED
    BY <1>0, <1>2, <2>1, <2>3, <2>4
<1>7. z = w
  BY <1>3, <1>4, <1>5, <1>6, SeqEqual
<1> QED
  BY <1>7 DEF z, w, v, r

-----------------------------------------------------------------------------
(* The log: what its constants and its types say. *)

LEMMA LogFacts ==
    ASSUME LogTypeOK
    PROVE  /\ LogFiles[at] \in Files /\ Len(LogFiles) \in Nat /\ at \in 1..Len(LogFiles)
           /\ \A i, j \in DOMAIN LogFiles : LogFiles[i] = LogFiles[j] => i = j
           /\ \A w \in Writers : FileOf[w] \in Files
           /\ \A f \in Files : content[f] = Off \/ content[f] \in Seq(Lines)
           /\ \A f \in Files : Size(f) \in Nat /\ (Size(f) > 0 => content[f] # Off)
           /\ \A f \in Files : content[f] # Off => Size(f) = Len(content[f])
           /\ \A f \in Files : written[f] \in Nat /\ offset[f] \in Nat
<1>1. LogFiles \in Seq(STRING) /\ LogFiles[at] \in Files
  BY LogAssumption DEF LogTypeOK, Files, Range
<1>2. \A i, j \in DOMAIN LogFiles : LogFiles[i] = LogFiles[j] => i = j
  BY LogAssumption DEF IsInjective
<1>3. \A f \in Files : content[f] = Off \/ content[f] \in Seq(Lines)
  BY DEF LogTypeOK
<1>4. \A f \in Files : Size(f) \in Nat /\ (Size(f) > 0 => content[f] # Off)
  BY <1>3 DEF Size
<1> QED
  BY <1>1, <1>2, <1>3, <1>4, LogAssumption DEF LogTypeOK, Size

LEMMA WriterFacts ==
    ASSUME NEW f \in Files
    PROVE  /\ IsFiniteSet(WritersOf(f)) /\ Cardinality(WritersOf(f)) \in Nat
           /\ IsFiniteSet(Appending(f)) /\ Cardinality(Appending(f)) \in Nat
           /\ Cardinality(Appending(f)) <= Cardinality(WritersOf(f))
<1>1. IsFiniteSet(WritersOf(f))
  BY LogAssumption, FS_Subset DEF WritersOf
<1>2. IsFiniteSet(Appending(f)) /\ Cardinality(Appending(f)) <= Cardinality(WritersOf(f))
  BY <1>1, FS_Subset DEF Appending
<1> QED
  BY <1>1, <1>2, FS_CardinalityType

(* A piece of a file, whether or not it is there.                          *)
LEMMA PieceOrNone ==
    ASSUME NEW S, NEW s \in Seq(S), NEW a \in Nat \ {0}, NEW b \in Nat, b <= Len(s)
    PROVE  /\ SubSeq(s, a, b) \in Seq(S)
           /\ Len(SubSeq(s, a, b)) = IF a <= b THEN b - a + 1 ELSE 0
           /\ \A i \in 1..Len(SubSeq(s, a, b)) : SubSeq(s, a, b)[i] = s[a + i - 1]
<1>1. \A i \in a..b : s[i] \in S
  OBVIOUS
<1>2. a \in Int /\ b \in Int
  OBVIOUS
<1>3. /\ SubSeq(s, a, b) \in Seq(S)
      /\ Len(SubSeq(s, a, b)) = IF a <= b THEN b - a + 1 ELSE 0
      /\ \A i \in 1..b - a + 1 : SubSeq(s, a, b)[i] = s[a + i - 1]
  BY <1>1, <1>2, SubSeqProperties
<1> QED
  BY <1>3

(* What ReadNew reads: the lines after the mark, in order.                 *)
NewLines ==
    LET f == reading[1]
        upto == offset[f] + reading[2] IN
    SubSeq(content[f], offset[f] + 1, IF upto < Size(f) THEN upto ELSE Size(f))

LEMMA NewLinesFacts ==
    ASSUME LogTypeOK, ReadingFile, Numbered, reading # Off
    PROVE  LET f == reading[1] IN
           /\ f \in Files /\ tailer = "up" /\ content[f] # Off
           /\ NewLines \in Seq(Lines) /\ Len(NewLines) \in Nat
           /\ \A i \in 1..Len(NewLines) : NewLines[i] = content[f][offset[f] + i]
           /\ \A i \in 1..Len(NewLines) : NewLines[i] = <<f, First(f) + offset[f] + i>>
           /\ offset[f] > Size(f) => Len(NewLines) = 0
           /\ offset[f] <= Size(f) => offset[f] + Len(NewLines) <= Size(f)
<1> DEFINE f == reading[1]
           upto == offset[f] + reading[2]
           b == IF upto < Size(f) THEN upto ELSE Size(f)
<1>1. f \in Files /\ reading[2] \in Nat /\ content[f] # Off /\ tailer = "up"
  BY DEF LogTypeOK, ReadingFile
<1>2. /\ content[f] \in Seq(Lines) /\ Size(f) = Len(content[f]) /\ Size(f) \in Nat
      /\ offset[f] \in Nat /\ written[f] \in Nat /\ Size(f) <= written[f]
      /\ \A i \in 1..Len(content[f]) : content[f][i] = <<f, First(f) + i>>
  BY <1>1, LogFacts DEF Numbered
<1>3. NewLines = SubSeq(content[f], offset[f] + 1, b)
  BY DEF NewLines
<1>4. b \in Nat /\ b <= Len(content[f]) /\ offset[f] + 1 \in Nat \ {0} /\ First(f) \in Nat
  BY <1>1, <1>2 DEF First
<1>5. /\ offset[f] > Size(f) => ~(offset[f] + 1 <= b)
      /\ offset[f] <= Size(f) => b - (offset[f] + 1) + 1 = b - offset[f] /\ b >= offset[f]
  BY <1>1, <1>2
<1>n. offset[f] \in Nat /\ First(f) \in Nat
  BY <1>2, <1>4
<1> HIDE DEF f, b
<1>6. /\ NewLines \in Seq(Lines)
      /\ Len(NewLines) = IF offset[f] + 1 <= b THEN b - (offset[f] + 1) + 1 ELSE 0
      /\ \A i \in 1..Len(NewLines) : NewLines[i] = content[f][offset[f] + 1 + i - 1]
  <2> DEFINE s == content[f]
             a == offset[f] + 1
  <2>1. s \in Seq(Lines) /\ a \in Nat \ {0} /\ b \in Nat /\ b <= Len(s)
    BY <1>2, <1>4
  <2> HIDE DEF s, a
  <2>2. /\ SubSeq(s, a, b) \in Seq(Lines)
        /\ Len(SubSeq(s, a, b)) = IF a <= b THEN b - a + 1 ELSE 0
        /\ \A i \in 1..Len(SubSeq(s, a, b)) : SubSeq(s, a, b)[i] = s[a + i - 1]
    BY <2>1, PieceOrNone
  <2> QED
    BY <1>3, <2>2 DEF s, a
<1>7. /\ Len(NewLines) \in Nat
      /\ offset[f] > Size(f) => Len(NewLines) = 0
      /\ offset[f] <= Size(f) => offset[f] + Len(NewLines) = b
  <2>1. Len(NewLines) = IF offset[f] + 1 <= b THEN b - (offset[f] + 1) + 1 ELSE 0
    BY <1>6
  <2> QED
    BY <1>2, <1>4, <1>5, <2>1
<1>8. ASSUME NEW i \in 1..Len(NewLines)
      PROVE  /\ NewLines[i] = content[f][offset[f] + i]
             /\ NewLines[i] = <<f, First(f) + offset[f] + i>>
  <2>1. /\ i \in Nat /\ offset[f] + 1 + i - 1 = offset[f] + i
        /\ First(f) + (offset[f] + i) = First(f) + offset[f] + i
    BY <1>n, <1>7
  <2>2. offset[f] + i \in 1..Len(content[f])
    <3>1. PICK o : o = offset[f]
      OBVIOUS
    <3>2. PICK m : m = Len(NewLines)
      OBVIOUS
    <3>3. PICK l : l = Size(f)
      OBVIOUS
    <3>4. /\ o \in Nat /\ m \in Nat /\ l \in Nat /\ b \in Nat /\ b <= l /\ i \in 1..m
          /\ o > l => m = 0
          /\ o <= l => o + m = b
      BY <1>2, <1>4, <1>7, <3>1, <3>2, <3>3
    <3>5. o + i \in 1..l
      BY <3>4
    <3> QED
      BY <1>2, <3>1, <3>3, <3>5
  <2>3. NewLines[i] = content[f][offset[f] + 1 + i - 1]
    BY <1>6
  <2> QED
    BY <1>2, <2>1, <2>2, <2>3
<1>9. offset[f] <= Size(f) => offset[f] + Len(NewLines) <= Size(f)
  <2>1. b <= Size(f)
    BY <1>2, <1>4
  <2> QED
    BY <1>7, <2>1
<1> QED
  BY <1>1, <1>6, <1>7, <1>8, <1>9 DEF f

-----------------------------------------------------------------------------
(* The steps of the log. *)

LEMMA LogTypesStep ==
    ASSUME LogTypeOK, ReadingFile, Numbered, RingIsLatest, [LogNext]_logVars
    PROVE  LogTypeOK'
<1>f. /\ LogFiles[at] \in Files /\ Len(LogFiles) \in Nat /\ at \in 1..Len(LogFiles)
      /\ \A w \in Writers : FileOf[w] \in Files
      /\ \A f \in Files : content[f] = Off \/ content[f] \in Seq(Lines)
      /\ \A f \in Files : Size(f) \in Nat /\ (Size(f) > 0 => content[f] # Off)
      /\ \A f \in Files : written[f] \in Nat /\ offset[f] \in Nat
  BY LogFacts
<1>e. <<>> \in Seq(Lines)
  OBVIOUS
<1>l. Len(LogFiles) >= 1 /\ DOMAIN LogFiles = 1..Len(LogFiles)
  BY LogAssumption, <1>f
<1>s. ASSUME NEW s \in Seq(Lines), Show(s)
      PROVE  ring' \in Seq(Lines) /\ shown' \in Seq(Lines)
  <2>1. ring \o s \in Seq(Lines) /\ shown \o s \in Seq(Lines)
    BY ConcatProperties DEF LogTypeOK
  <2>2. LastOf(ring \o s, RingSize) \in Seq(Lines)
    BY <2>1, LastOfFacts, LogAssumption
  <2> QED
    BY <1>s, <2>1, <2>2 DEF Show
<1>1. ASSUME NEW w \in Writers, CheckSize(w) PROVE LogTypeOK'
  BY <1>1 DEF CheckSize, LogTypeOK, ghostVars
<1>2. ASSUME NEW w \in Writers, Truncate(w) PROVE LogTypeOK'
  BY <1>2, <1>f, <1>e DEF Truncate, LogTypeOK, Notify
<1>3. ASSUME NEW w \in Writers, AppendLine(w) PROVE LogTypeOK'
  <2> DEFINE f == FileOf[w]
             line == <<f, written[f] + 1>>
             old == IF content[f] = Off THEN << >> ELSE content[f]
  <2>1. f \in Files /\ line \in Lines
    BY <1>f DEF Lines
  <2>2. old \in Seq(Lines)
    BY <1>e, <1>f
  <2> HIDE DEF line, old
  <2>3. Append(old, line) \in Seq(Lines)
    BY <2>1, <2>2
  <2>4. content' = [content EXCEPT ![f] = Append(old, line)]
    BY <1>3, <2>1 DEF AppendLine, LogTypeOK, line, old
  <2>5. content' \in [Files -> Seq(Lines) \cup {Off}]
    BY <2>1, <2>3, <2>4 DEF LogTypeOK
  <2>6. written' \in [Files -> Nat]
    <3>1. written' = [written EXCEPT ![f] = @ + 1]
      BY <1>3 DEF AppendLine
    <3>2. written \in [Files -> Nat]
      BY DEF LogTypeOK
    <3>3. written[f] + 1 \in Nat
      BY <2>1, <3>2
    <3> QED
      BY <2>1, <3>1, <3>2, <3>3
  <2>7. event' \in [Files -> BOOLEAN] /\ \A g \in Files : event'[g] => watched'[g]
    BY <1>3 DEF AppendLine, LogTypeOK, Notify
  <2> QED
    BY <1>3, <2>5, <2>6, <2>7 DEF AppendLine, LogTypeOK, ghostVars
<1>4. CASE StartNexus
  BY <1>4, <1>l, <1>e DEF StartNexus, LogTypeOK, diskVars
<1>5. CASE SeedRing
  <2>1. content[LogFiles[at]] # Off => LastOf(content[LogFiles[at]], RingSize - 1) \in Seq(Lines)
    <3>1. RingSize - 1 \in Nat
      BY LogAssumption
    <3> QED
      BY <1>f, <3>1, LastOfFacts
  <2>2. ring' \in Seq(Lines) /\ shown' \in Seq(Lines)
    BY <1>5, <1>s, <2>1 DEF SeedRing, LogTypeOK
  <2> QED
    BY <1>5, <2>2 DEF SeedRing, LogTypeOK, diskVars, ghostVars
<1>6. CASE SeedOffset
  BY <1>6, <1>f DEF SeedOffset, SeededOffset, LogTypeOK, diskVars
<1>7. CASE WatchFile
  <2>1. at' \in DOMAIN LogFiles
    BY <1>7, <1>f, <1>l DEF WatchFile
  <2>2. watched' \in [Files -> BOOLEAN] /\ \A f \in Files : event'[f] => watched'[f]
    <3>1. event' = event
      BY <1>7 DEF WatchFile
    <3>2. watched' = [watched EXCEPT ![LogFiles[at]] = content[LogFiles[at]] # Off]
      BY <1>7 DEF WatchFile
    <3>3. event[LogFiles[at]] => content[LogFiles[at]] # Off
      BY <1>f DEF LogTypeOK, ReadingFile
    <3> DEFINE there == content[LogFiles[at]] # Off
    <3>4. there \in BOOLEAN
      OBVIOUS
    <3> HIDE DEF there
    <3>5. watched' = [watched EXCEPT ![LogFiles[at]] = there] /\ (event[LogFiles[at]] => there)
      BY <3>2, <3>3 DEF there
    <3> QED
      BY <1>f, <3>1, <3>4, <3>5 DEF LogTypeOK
  <2> QED
    BY <1>7, <2>1, <2>2 DEF WatchFile, LogTypeOK, diskVars, ghostVars
<1>8. ASSUME NEW f \in Files, StatFile(f) PROVE LogTypeOK'
  <2>1. reading' \in (Files \X Nat) \cup {Off}
    BY <1>8, <1>f DEF StatFile, HasNew
  <2> QED
    BY <1>8, <1>f, <2>1 DEF StatFile, LogTypeOK, diskVars, ghostVars
<1>9. CASE ReadNew
  <2>1. /\ reading # Off /\ reading[1] \in Files
        /\ NewLines \in Seq(Lines) /\ Len(NewLines) \in Nat
    BY <1>9, NewLinesFacts DEF ReadNew
  <2>2. Show(NewLines) /\ Broadcast(NewLines)
        /\ offset' = [offset EXCEPT ![reading[1]] = offset[reading[1]] + Len(NewLines)]
    BY <1>9 DEF ReadNew, NewLines, NextOffset
  <2>3. ring' \in Seq(Lines) /\ shown' \in Seq(Lines)
    BY <1>s, <2>1, <2>2
  <2>4. got' \in [Clients -> Seq(Lines) \cup {Off}]
    <3>1. \A c \in Clients : got[c] # Off => got[c] \o NewLines \in Seq(Lines)
      BY <2>1, ConcatProperties DEF LogTypeOK
    <3> QED
      BY <2>2, <3>1 DEF Broadcast
  <2>5. offset' \in [Files -> Nat]
    BY <1>f, <2>1, <2>2 DEF LogTypeOK
  <2> QED
    BY <1>9, <2>3, <2>4, <2>5 DEF ReadNew, LogTypeOK, diskVars, ghostVars
<1>10. ASSUME NEW c \in Clients, Connect(c) PROVE LogTypeOK'
  <2>1. Len(shown) - Len(ring) + 1 \in Nat
    <3>1. Len(ring) = IF Len(shown) > RingSize THEN RingSize ELSE Len(shown)
      BY LastOfFacts, LogAssumption DEF LogTypeOK, RingIsLatest
    <3>2. Len(shown) \in Nat /\ RingSize \in Nat
      BY LogAssumption DEF LogTypeOK
    <3> QED
      BY <3>1, <3>2
  <2> QED
    BY <1>10, <2>1 DEF Connect, LogTypeOK, diskVars
<1>11. ASSUME NEW c \in Clients, Disconnect(c) PROVE LogTypeOK'
  BY <1>11 DEF Disconnect, LogTypeOK, diskVars, ghostVars
<1>12. CASE StopNexus
  BY <1>12 DEF StopNexus, LogTypeOK, diskVars, ghostVars
<1>13. CASE UNCHANGED logVars
  BY <1>13 DEF logVars, LogTypeOK
<1> QED
  BY <1>1, <1>2, <1>3, <1>4, <1>5, <1>6, <1>7, <1>8, <1>9, <1>10, <1>11, <1>12, <1>13
  DEF LogNext, LogWriterStep, LogTailStep, LogStartStep

(* The dashboard does not write the log files.                             *)
LEMMA DiskKept ==
    ASSUME \/ LogTailStep \/ LogStartStep \/ StartNexus \/ StopNexus \/ UNCHANGED logVars
           \/ \E c \in Clients : Connect(c) \/ Disconnect(c)
    PROVE  content' = content /\ written' = written /\ wpc' = wpc
<1> QED
  BY DEF LogTailStep, LogStartStep, StatFile, ReadNew, SeedRing, SeedOffset, WatchFile, StartNexus,
         StopNexus, Connect, Disconnect, diskVars, logVars

LEMMA AppendedFile ==
    ASSUME LogTypeOK, NEW w \in Writers, AppendLine(w), NEW f, f = FileOf[w]
    PROVE  /\ content'[f] # Off /\ content'[f] \in Seq(Lines)
           /\ Size(f)' = Size(f) + 1 /\ Len(content'[f]) = Size(f) + 1
           /\ content'[f][Size(f) + 1] = <<f, written[f] + 1>>
           /\ \A i \in 1..Size(f) : content[f] # Off /\ content'[f][i] = content[f][i]
           /\ written'[f] = written[f] + 1
<1> DEFINE line == <<f, written[f] + 1>>
           old == IF content[f] = Off THEN << >> ELSE content[f]
<1>1. f \in Files /\ line \in Lines
  BY LogFacts DEF Lines
<1>2. <<>> \in Seq(Lines)
  OBVIOUS
<1>3. old \in Seq(Lines) /\ Len(old) = Size(f) /\ (content[f] # Off => old = content[f])
  <2>1. CASE content[f] = Off
    BY <1>2, <2>1 DEF Size
  <2>2. CASE content[f] # Off
    BY <1>1, <2>2, LogFacts
  <2> QED
    BY <2>1, <2>2
<1>4. content' = [content EXCEPT ![f] = Append(old, line)] /\ written' = [written EXCEPT ![f] = @ + 1]
  BY <1>1 DEF AppendLine, LogTypeOK
<1> HIDE DEF line, old
<1>5. content'[f] = Append(old, line) /\ written'[f] = written[f] + 1
  BY <1>1, <1>4 DEF LogTypeOK
<1>6. /\ Append(old, line) \in Seq(Lines) /\ Len(Append(old, line)) = Size(f) + 1
      /\ Append(old, line)[Size(f) + 1] = line
      /\ \A i \in 1..Size(f) : Append(old, line)[i] = old[i]
  BY <1>1, <1>3, AppendProperties
<1>7. content'[f] # Off
  BY <1>5, <1>6, LogAssumption
<1>8. Size(f)' = Size(f) + 1
  BY <1>5, <1>6, <1>7 DEF Size
<1>9. \A i \in 1..Size(f) : content[f] # Off
  BY DEF Size
<1> QED
  BY <1>3, <1>5, <1>6, <1>7, <1>8, <1>9 DEF line

LEMMA RoomStep ==
    ASSUME LogTypeOK, RoomLeft, [LogNext]_logVars
    PROVE  RoomLeft'
<1> SUFFICES ASSUME NEW f \in Files
             PROVE  Size(f)' + Cardinality(Appending(f)') <= LogMaxSize + Cardinality(WritersOf(f))
  BY DEF RoomLeft, WritersOf
<1>f. /\ \A w \in Writers : FileOf[w] \in Files
      /\ Size(f) \in Nat /\ LogMaxSize \in Nat
  BY LogFacts, LogAssumption
<1>w. /\ IsFiniteSet(WritersOf(f)) /\ Cardinality(WritersOf(f)) \in Nat
      /\ IsFiniteSet(Appending(f)) /\ Cardinality(Appending(f)) \in Nat
      /\ Cardinality(Appending(f)) <= Cardinality(WritersOf(f))
  BY WriterFacts
<1>i. Size(f) + Cardinality(Appending(f)) <= LogMaxSize + Cardinality(WritersOf(f))
  BY DEF RoomLeft
<1>p. Appending(f)' \subseteq WritersOf(f) /\ Cardinality(Appending(f)') \in Nat
      /\ Cardinality(Appending(f)') <= Cardinality(WritersOf(f))
  <2>1. Appending(f)' \subseteq WritersOf(f)
    BY DEF Appending, WritersOf
  <2> QED
    BY <1>w, <2>1, FS_Subset, FS_CardinalityType
<1>u. ASSUME content' = content, wpc' = wpc
      PROVE  Size(f)' + Cardinality(Appending(f)') <= LogMaxSize + Cardinality(WritersOf(f))
  BY <1>u, <1>i DEF Size, Appending, WritersOf
<1>1. ASSUME NEW w \in Writers, CheckSize(w)
      PROVE  Size(f)' + Cardinality(Appending(f)') <= LogMaxSize + Cardinality(WritersOf(f))
  <2>1. Size(f)' = Size(f)
    BY <1>1 DEF CheckSize, Size
  <2>2. CASE FileOf[w] = f /\ ~Oversized(f)
    <3>1. ~(Size(f) > LogMaxSize)
      BY <2>2 DEF Oversized
    <3> QED
      BY <1>f, <1>w, <1>p, <2>1, <3>1
  <2>3. CASE FileOf[w] # f \/ Oversized(f)
    <3>1. Appending(f)' = Appending(f)
      BY <1>1, <2>3 DEF CheckSize, Appending, WritersOf, LogTypeOK
    <3> QED
      BY <1>i, <2>1, <3>1
  <2> QED
    BY <2>2, <2>3
<1>2. ASSUME NEW w \in Writers, Truncate(w)
      PROVE  Size(f)' + Cardinality(Appending(f)') <= LogMaxSize + Cardinality(WritersOf(f))
  <2>1. CASE FileOf[w] = f
    <3>1. content'[f] = << >>
      BY <1>2, <2>1 DEF Truncate, LogTypeOK
    <3>2. Size(f)' = 0
      BY <3>1 DEF Size
    <3> QED
      BY <1>f, <1>w, <1>p, <3>2
  <2>2. CASE FileOf[w] # f
    <3>1. Size(f)' = Size(f)
      BY <1>2, <1>f, <2>2 DEF Truncate, LogTypeOK, Size
    <3>2. Appending(f)' = Appending(f)
      BY <1>2, <2>2 DEF Truncate, Appending, WritersOf, LogTypeOK
    <3> QED
      BY <1>i, <3>1, <3>2
  <2> QED
    BY <2>1, <2>2
<1>3. ASSUME NEW w \in Writers, AppendLine(w)
      PROVE  Size(f)' + Cardinality(Appending(f)') <= LogMaxSize + Cardinality(WritersOf(f))
  <2>1. CASE FileOf[w] = f
    <3>1. Size(f)' = Size(f) + 1
      BY <1>3, <2>1, AppendedFile
    <3>2. w \in Appending(f) /\ Appending(f)' = Appending(f) \ {w}
      BY <1>3, <2>1 DEF AppendLine, Appending, WritersOf, LogTypeOK
    <3>3. Cardinality(Appending(f)') = Cardinality(Appending(f)) - 1
      BY <1>w, <3>2, FS_RemoveElement
    <3> QED
      BY <1>f, <1>w, <1>i, <3>1, <3>3
  <2>2. CASE FileOf[w] # f
    <3>1. Size(f)' = Size(f)
      BY <1>3, <1>f, <2>2 DEF AppendLine, LogTypeOK, Size
    <3>2. Appending(f)' = Appending(f)
      BY <1>3, <2>2 DEF AppendLine, Appending, WritersOf, LogTypeOK
    <3> QED
      BY <1>i, <3>1, <3>2
  <2> QED
    BY <2>1, <2>2
<1>4. CASE \/ LogTailStep \/ LogStartStep \/ StartNexus \/ StopNexus \/ UNCHANGED logVars
           \/ \E c \in Clients : Connect(c) \/ Disconnect(c)
  BY <1>u, <1>4, DiskKept
<1> QED
  BY <1>1, <1>2, <1>3, <1>4 DEF LogNext, LogWriterStep

LEMMA NumberedStep ==
    ASSUME LogTypeOK, Numbered, [LogNext]_logVars
    PROVE  Numbered'
<1> SUFFICES ASSUME NEW f \in Files
             PROVE  /\ Size(f)' <= written'[f]
                    /\ content'[f] # Off =>
                         \A i \in 1..Len(content'[f]) : content'[f][i] = <<f, First(f)' + i>>
  BY DEF Numbered
<1>f. \A w \in Writers : FileOf[w] \in Files
  BY LogFacts
<1>i. /\ Size(f) <= written[f] /\ Size(f) \in Nat /\ written[f] \in Nat
      /\ content[f] # Off => \A i \in 1..Len(content[f]) : content[f][i] = <<f, First(f) + i>>
  BY LogFacts DEF Numbered
<1>u. CASE content'[f] = content[f] /\ written'[f] = written[f]
  BY <1>u, <1>i DEF Size, First
<1>1. ASSUME NEW w \in Writers, CheckSize(w)
      PROVE  content'[f] = content[f] /\ written'[f] = written[f]
  BY <1>1 DEF CheckSize
<1>2. ASSUME NEW w \in Writers, Truncate(w)
      PROVE  /\ FileOf[w] # f => content'[f] = content[f] /\ written'[f] = written[f]
             /\ FileOf[w] = f => content'[f] = << >> /\ Size(f)' = 0 /\ written'[f] = written[f]
  <2>1. FileOf[w] = f => content'[f] = << >>
    BY <1>2 DEF Truncate, LogTypeOK
  <2> QED
    BY <1>2, <1>f, <2>1 DEF Truncate, LogTypeOK, Size
<1>3. ASSUME NEW w \in Writers, AppendLine(w), FileOf[w] # f
      PROVE  content'[f] = content[f] /\ written'[f] = written[f]
  BY <1>3, <1>f DEF AppendLine, LogTypeOK
<1>4. ASSUME NEW w \in Writers, AppendLine(w), FileOf[w] = f
      PROVE  /\ Size(f)' <= written'[f]
             /\ \A i \in 1..Len(content'[f]) : content'[f][i] = <<f, First(f)' + i>>
  <2>1. /\ Size(f)' = Size(f) + 1 /\ Len(content'[f]) = Size(f) + 1
        /\ content'[f][Size(f) + 1] = <<f, written[f] + 1>>
        /\ \A i \in 1..Size(f) : content[f] # Off /\ content'[f][i] = content[f][i]
        /\ written'[f] = written[f] + 1
    BY <1>4, AppendedFile
  <2>2. First(f)' = First(f) /\ First(f) + (Size(f) + 1) = written[f] + 1
    BY <1>i, <2>1 DEF First
  <2>3. \A i \in 1..Size(f) : content'[f][i] = <<f, First(f) + i>>
    BY <1>i, <2>1, LogFacts
  <2>4. \A i \in 1..Size(f) + 1 : i \in 1..Size(f) \/ i = Size(f) + 1
    BY <1>i
  <2> QED
    BY <1>i, <2>1, <2>2, <2>3, <2>4
<1>5. CASE \/ LogTailStep \/ LogStartStep \/ StartNexus \/ StopNexus \/ UNCHANGED logVars
           \/ \E c \in Clients : Connect(c) \/ Disconnect(c)
  BY <1>u, <1>5, DiskKept
<1> QED
  BY <1>u, <1>i, <1>1, <1>2, <1>3, <1>4, <1>5 DEF LogNext, LogWriterStep

(* A file does not disappear.                                              *)
LEMMA FilesStay ==
    ASSUME LogTypeOK, [LogNext]_logVars, NEW f \in Files, content[f] # Off
    PROVE  content'[f] # Off
<1>1. ASSUME NEW w \in Writers, CheckSize(w) PROVE content'[f] # Off
  BY <1>1 DEF CheckSize
<1>2. ASSUME NEW w \in Writers, Truncate(w) PROVE content'[f] # Off
  <2>1. <<>> \in Seq(Lines)
    OBVIOUS
  <2>2. << >> # Off
    BY <2>1, LogAssumption
  <2> QED
    BY <1>2, <2>2 DEF Truncate, LogTypeOK
<1>3. ASSUME NEW w \in Writers, AppendLine(w) PROVE content'[f] # Off
  <2>1. FileOf[w] = f => content'[f] # Off
    BY <1>3, AppendedFile
  <2>2. FileOf[w] # f => content'[f] = content[f]
    BY <1>3, LogFacts DEF AppendLine, LogTypeOK
  <2> QED
    BY <2>1, <2>2
<1>4. CASE \/ LogTailStep \/ LogStartStep \/ StartNexus \/ StopNexus \/ UNCHANGED logVars
           \/ \E c \in Clients : Connect(c) \/ Disconnect(c)
  BY <1>4, DiskKept
<1> QED
  BY <1>1, <1>2, <1>3, <1>4 DEF LogNext, LogWriterStep

LEMMA ReadingStep ==
    ASSUME LogTypeOK, ReadingFile, [LogNext]_logVars
    PROVE  ReadingFile'
<1>1. \A f \in Files : content[f] # Off => content'[f] # Off
  BY FilesStay
<1>2. reading # Off => reading[1] \in Files
  BY DEF LogTypeOK
<1>3. ASSUME UNCHANGED <<reading, watched, tailer>>
      PROVE  ReadingFile'
  BY <1>1, <1>2, <1>3 DEF ReadingFile
<1>4. CASE \/ LogWriterStep \/ UNCHANGED logVars \/ \E c \in Clients : Connect(c) \/ Disconnect(c)
  BY <1>3, <1>4 DEF LogWriterStep, CheckSize, Truncate, AppendLine, Connect, Disconnect, logVars
<1>5. CASE SeedRing \/ SeedOffset \/ StartNexus \/ StopNexus
  <2>1. reading' = Off
    BY <1>5 DEF SeedRing, SeedOffset, StartNexus, StopNexus, ReadingFile
  <2>2. \A f \in Files : watched'[f] => watched[f]
    BY <1>5 DEF SeedRing, SeedOffset, StartNexus, StopNexus
  <2> QED
    BY <1>1, <2>1, <2>2 DEF ReadingFile
<1>6. CASE WatchFile
  <2>1. reading' = Off
    BY <1>6 DEF WatchFile, ReadingFile
  <2>2. \A f \in Files : watched'[f] => watched[f] \/ content[f] # Off
    <3>1. CASE content[LogFiles[at]] # Off
      BY <1>6, <3>1 DEF WatchFile, LogTypeOK
    <3>2. CASE content[LogFiles[at]] = Off
      <4>1. watched' = [watched EXCEPT ![LogFiles[at]] = FALSE]
        BY <1>6, <3>2 DEF WatchFile
      <4> QED
        BY <4>1, LogFacts DEF LogTypeOK
    <3> QED
      BY <3>1, <3>2
  <2> QED
    BY <1>1, <2>1, <2>2 DEF ReadingFile
<1>7. ASSUME NEW f \in Files, StatFile(f) PROVE ReadingFile'
  <2>1. HasNew(f, IF Size(f) < offset[f] THEN 0 ELSE offset[f]) => content[f] # Off
    <3>1. Size(f) \in Nat /\ offset[f] \in Nat /\ (Size(f) > 0 => content[f] # Off)
      BY LogFacts
    <3> QED
      BY <3>1 DEF HasNew
  <2>2. UNCHANGED <<tailer, watched, content>> /\ tailer = "up"
    BY <1>7 DEF StatFile, diskVars
  <2>3. reading' = Off \/ (reading'[1] = f /\ content[f] # Off)
    BY <1>7, <2>1 DEF StatFile
  <2> QED
    BY <2>2, <2>3 DEF ReadingFile
<1>8. CASE ReadNew
  BY <1>1, <1>8 DEF ReadNew, ReadingFile
<1> QED
  BY <1>4, <1>5, <1>6, <1>7, <1>8 DEF LogNext, LogTailStep, LogStartStep

(* What comes into the ring, comes at its end.                             *)
LEMMA RingStep ==
    ASSUME LogTypeOK, ReadingFile, Numbered, RingIsLatest, [LogNext]_logVars
    PROVE  RingIsLatest'
<1>1. ASSUME NEW s \in Seq(Lines), Show(s)
      PROVE  RingIsLatest'
  <2>1. LastOf(LastOf(shown, RingSize) \o s, RingSize) = LastOf(shown \o s, RingSize)
    BY LastOfConcat, LogAssumption DEF LogTypeOK
  <2> QED
    BY <1>1, <2>1 DEF Show, RingIsLatest
<1>2. ASSUME UNCHANGED <<ring, shown>> PROVE RingIsLatest'
  BY <1>2 DEF RingIsLatest
<1>3. CASE StartNexus
  <2>1. <<>> \in Seq(Lines) /\ RingSize \in Nat
    BY LogAssumption
  <2>2. LastOf(<< >>, RingSize) \in Seq(Lines) /\ Len(LastOf(<< >>, RingSize)) = 0
    <3>1. Len(<< >>) = 0
      OBVIOUS
    <3>2. LastOf(<< >>, RingSize) \in Seq(Lines) /\ Len(LastOf(<< >>, RingSize)) = IF Len(<< >>) > RingSize THEN RingSize ELSE Len(<< >>)
      BY <2>1, LastOfFacts
    <3> QED
      BY <2>1, <3>1, <3>2
  <2>3. LastOf(<< >>, RingSize) = << >>
    BY <2>2
  <2> QED
    BY <1>3, <2>3 DEF StartNexus, RingIsLatest
<1>4. CASE SeedRing
  <2>1. CASE content[LogFiles[at]] = Off
    BY <1>2, <1>4, <2>1 DEF SeedRing
  <2>2. CASE content[LogFiles[at]] # Off
    <3>1. RingSize - 1 \in Nat /\ content[LogFiles[at]] \in Seq(Lines)
      BY <2>2, LogFacts, LogAssumption
    <3>2. LastOf(content[LogFiles[at]], RingSize - 1) \in Seq(Lines)
      BY <3>1, LastOfFacts
    <3> QED
      BY <1>1, <1>4, <2>2, <3>2 DEF SeedRing
  <2> QED
    BY <2>1, <2>2
<1>5. CASE ReadNew
  <2>1. NewLines \in Seq(Lines)
    BY <1>5, NewLinesFacts DEF ReadNew
  <2>2. Show(NewLines)
    BY <1>5 DEF ReadNew, NewLines
  <2> QED
    BY <1>1, <2>1, <2>2
<1>6. CASE \/ LogWriterStep \/ SeedOffset \/ WatchFile \/ StopNexus \/ UNCHANGED logVars
           \/ \E f \in Files : StatFile(f)
           \/ \E c \in Clients : Connect(c) \/ Disconnect(c)
  BY <1>2, <1>6 DEF LogWriterStep, CheckSize, Truncate, AppendLine, SeedOffset, WatchFile, StopNexus,
                    StatFile, Connect, Disconnect, logVars
<1> QED
  BY <1>3, <1>4, <1>5, <1>6 DEF LogNext, LogTailStep, LogStartStep

LEMMA StreamedStep ==
    ASSUME LogTypeOK, ReadingFile, Numbered, RingIsLatest, Streamed, [LogNext]_logVars
    PROVE  Streamed'
<1>t. Len(shown) \in Nat /\ Len(ring) \in Nat /\ shown \in Seq(Lines)
  BY DEF LogTypeOK
<1>1. ASSUME UNCHANGED <<got, from, shown>>, tailer' = tailer \/ tailer # "up"
      PROVE  Streamed'
  BY <1>1 DEF Streamed
<1>2. CASE \/ LogWriterStep \/ SeedOffset \/ WatchFile \/ UNCHANGED logVars \/ \E f \in Files : StatFile(f)
  BY <1>1, <1>2 DEF LogWriterStep, CheckSize, Truncate, AppendLine, SeedOffset, WatchFile,
                    StatFile, logVars, ghostVars
<1>3. CASE SeedRing \/ StartNexus
  BY <1>3 DEF SeedRing, StartNexus, Streamed
<1>4. CASE StopNexus
  BY <1>4 DEF StopNexus, Streamed
<1>5. CASE ReadNew
  <2>1. NewLines \in Seq(Lines) /\ tailer = "up"
    BY <1>5, NewLinesFacts DEF ReadNew
  <2>2. /\ shown' = shown \o NewLines /\ from' = from /\ tailer' = tailer
        /\ \A c \in Clients : got'[c] = IF got[c] = Off THEN Off ELSE got[c] \o NewLines
    BY <1>5 DEF ReadNew, NewLines, Show, Broadcast, ghostVars
  <2>3. shown' \in Seq(Lines) /\ Len(shown') = Len(shown) + Len(NewLines) /\ Len(NewLines) \in Nat
    BY <1>t, <2>1, <2>2, ConcatProperties
  <2>4. ASSUME NEW c \in Clients, got'[c] # Off
        PROVE  from'[c] \in 1..Len(shown') + 1 /\ got'[c] = SubSeq(shown', from'[c], Len(shown'))
    <3>1. got[c] # Off /\ from[c] \in 1..Len(shown) + 1 /\ got[c] = SubSeq(shown, from[c], Len(shown))
      BY <2>2, <2>4 DEF Streamed
    <3>2. SubSeq(shown \o NewLines, from[c], Len(shown \o NewLines))
             = SubSeq(shown, from[c], Len(shown)) \o NewLines
      BY <1>t, <2>1, <3>1, RestConcat
    <3>3. from[c] \in 1..Len(shown') + 1
      BY <1>t, <2>3, <3>1
    <3> QED
      BY <2>2, <3>1, <3>2, <3>3
  <2> QED
    BY <2>1, <2>2, <2>4 DEF Streamed
<1>6. ASSUME NEW c \in Clients, Connect(c) PROVE Streamed'
  <2>1. /\ Len(ring) <= Len(shown)
        /\ ring = SubSeq(shown, Len(shown) - Len(ring) + 1, Len(shown))
    <3>1. /\ Len(ring) = IF Len(shown) > RingSize THEN RingSize ELSE Len(shown)
          /\ ring = SubSeq(shown, Len(shown) - Len(ring) + 1, Len(shown))
      BY LastOfFacts, LogAssumption DEF LogTypeOK, RingIsLatest
    <3>2. Len(ring) = IF Len(shown) > RingSize THEN RingSize ELSE Len(shown)
      BY <3>1
    <3>3. RingSize \in Nat
      BY LogAssumption
    <3>4. Len(ring) <= Len(shown)
      BY <1>t, <3>2, <3>3
    <3> QED
      BY <3>1, <3>4
  <2>2. Len(shown) - Len(ring) + 1 \in 1..Len(shown) + 1
    BY <1>t, <2>1
  <2>3. /\ got' = [got EXCEPT ![c] = ring] /\ from' = [from EXCEPT ![c] = Len(shown) - Len(ring) + 1]
        /\ shown' = shown /\ tailer' = tailer /\ tailer = "up"
    BY <1>6 DEF Connect
  <2>4. got'[c] = ring /\ from'[c] = Len(shown) - Len(ring) + 1
    BY <2>3 DEF LogTypeOK
  <2>5. \A d \in Clients : d # c => got'[d] = got[d] /\ from'[d] = from[d]
    BY <2>3 DEF LogTypeOK
  <2>6. \A d \in Clients : got'[d] # Off =>
           from'[d] \in 1..Len(shown) + 1 /\ got'[d] = SubSeq(shown, from'[d], Len(shown))
    BY <2>1, <2>2, <2>4, <2>5 DEF Streamed
  <2> QED
    BY <2>3, <2>6 DEF Streamed
<1>7. ASSUME NEW c \in Clients, Disconnect(c) PROVE Streamed'
  <2>1. UNCHANGED <<shown, from, tailer>> /\ \A d \in Clients : got'[d] = Off \/ got'[d] = got[d]
    BY <1>7 DEF Disconnect, LogTypeOK, ghostVars
  <2> QED
    BY <2>1 DEF Streamed
<1> QED
  BY <1>2, <1>3, <1>4, <1>5, <1>6, <1>7 DEF LogNext, LogTailStep, LogStartStep

(* Lines of one file that come after all of it that has been shown.        *)
LEMMA ShownMore ==
    ASSUME LogTypeOK, ShownOnceInOrder, NEW f \in Files, NEW new \in Seq(Lines),
           NEW m \in Nat, NEW k \in Nat, m <= k, UpTo(shown, f, m), shown' = shown \o new,
           \A i \in 1..Len(new) : new[i] = <<f, k + i>>
    PROVE  /\ ShownOnceInOrder' /\ UpTo(shown', f, k + Len(new))
           /\ \A g \in Files, b \in Nat : g # f /\ UpTo(shown, g, b) => UpTo(shown', g, b)
<1>1. /\ Len(shown) \in Nat /\ Len(new) \in Nat /\ Len(shown') = Len(shown) + Len(new)
      /\ \A i \in 1..Len(shown') : shown'[i] = IF i <= Len(shown) THEN shown[i] ELSE new[i - Len(shown)]
  <2>1. shown \in Seq(Lines)
    BY DEF LogTypeOK
  <2>2. /\ Len(shown \o new) = Len(shown) + Len(new)
        /\ \A i \in 1..Len(shown) + Len(new) :
              (shown \o new)[i] = IF i <= Len(shown) THEN shown[i] ELSE new[i - Len(shown)]
    BY <2>1, ConcatProperties
  <2>3. Len(shown) \in Nat /\ Len(new) \in Nat
    BY <2>1
  <2> QED
    BY <2>2, <2>3
<1>2. ASSUME NEW i \in 1..Len(shown')
      PROVE  \/ i \in 1..Len(shown) /\ shown'[i] = shown[i] /\ shown[i] \in Lines
             \/ /\ i > Len(shown) /\ i - Len(shown) \in 1..Len(new)
                /\ shown'[i][1] = f /\ shown'[i][2] = k + (i - Len(shown))
  <2>1. CASE i <= Len(shown)
    <3>1. i \in 1..Len(shown)
      BY <1>1, <2>1
    <3> QED
      BY <1>1, <2>1, <3>1 DEF LogTypeOK
  <2>2. CASE ~(i <= Len(shown))
    <3>1. i > Len(shown) /\ i - Len(shown) \in 1..Len(new)
      BY <1>1, <2>2
    <3>2. shown'[i] = <<f, k + (i - Len(shown))>>
      BY <1>1, <2>2, <3>1
    <3> QED
      BY <3>1, <3>2
  <2> QED
    BY <2>1, <2>2
<1>3. \A i \in 1..Len(shown) : shown[i] \in Lines /\ shown[i][2] \in Nat
  <2>1. \A i \in 1..Len(shown) : shown[i] \in Lines
    BY DEF LogTypeOK
  <2>2. \A l \in Lines : l[2] \in Nat
    BY DEF Lines
  <2> QED
    BY <2>1, <2>2
<1>4. ASSUME NEW i \in 1..Len(shown'), NEW j \in 1..Len(shown'), i < j, shown'[i][1] = shown'[j][1]
      PROVE  shown'[i][2] < shown'[j][2]
  <2>1. CASE j <= Len(shown)
    <3>1. i \in 1..Len(shown) /\ j \in 1..Len(shown)
      BY <1>1, <1>4, <2>1
    <3>2. shown'[i] = shown[i] /\ shown'[j] = shown[j]
      BY <1>1, <3>1
    <3> QED
      BY <1>4, <3>1, <3>2 DEF ShownOnceInOrder
  <2>2. CASE ~(j <= Len(shown)) /\ i <= Len(shown)
    <3>1. shown'[j][1] = f /\ shown'[j][2] = k + (j - Len(shown)) /\ j - Len(shown) \in 1..Len(new)
      BY <1>1, <1>2, <2>2
    <3>2. i \in 1..Len(shown) /\ shown'[i] = shown[i]
      BY <1>1, <2>2
    <3>3. shown[i][2] <= m /\ shown[i][2] \in Nat
      BY <1>3, <1>4, <3>1, <3>2 DEF UpTo
    <3> QED
      BY <1>1, <3>1, <3>2, <3>3
  <2>3. CASE ~(j <= Len(shown)) /\ ~(i <= Len(shown))
    <3>1. shown'[j][2] = k + (j - Len(shown))
      BY <1>1, <1>2, <2>3
    <3>2. shown'[i][2] = k + (i - Len(shown))
      BY <1>1, <1>2, <2>3
    <3> QED
      BY <1>1, <1>4, <3>1, <3>2
  <2> QED
    BY <2>1, <2>2, <2>3
<1>5. ShownOnceInOrder'
  BY <1>4 DEF ShownOnceInOrder
<1>6. UpTo(shown', f, k + Len(new))
  <2> SUFFICES ASSUME NEW i \in 1..Len(shown'), shown'[i][1] = f
               PROVE  shown'[i][2] <= k + Len(new)
    BY DEF UpTo
  <2>1. CASE i <= Len(shown)
    <3>1. i \in 1..Len(shown) /\ shown'[i] = shown[i]
      BY <1>1, <2>1
    <3>2. shown[i][2] <= m /\ shown[i][2] \in Nat
      BY <1>3, <3>1 DEF UpTo
    <3> QED
      BY <1>1, <3>1, <3>2
  <2>2. CASE ~(i <= Len(shown))
    <3>1. shown'[i][2] = k + (i - Len(shown)) /\ i - Len(shown) <= Len(new)
      BY <1>1, <1>2, <2>2
    <3> QED
      BY <1>1, <3>1
  <2> QED
    BY <2>1, <2>2
<1>7. \A g \in Files, b \in Nat : g # f /\ UpTo(shown, g, b) => UpTo(shown', g, b)
  BY <1>2 DEF UpTo
<1> QED
  BY <1>5, <1>6, <1>7

LEMMA MarkFacts ==
    ASSUME LogTypeOK, Numbered, NEW f \in Files
    PROVE  /\ Mark(f) \in Nat /\ First(f) \in Nat /\ Mark(f) <= written[f] /\ First(f) <= Mark(f)
           /\ Size(f) \in Nat /\ written[f] \in Nat /\ offset[f] \in Nat
           /\ First(f) + Size(f) = written[f]
<1>1. Size(f) \in Nat /\ written[f] \in Nat /\ offset[f] \in Nat /\ Size(f) <= written[f]
  BY LogFacts DEF Numbered
<1>2. First(f) \in Nat /\ First(f) + Size(f) = written[f] /\ First(f) <= written[f]
  BY <1>1 DEF First
<1> QED
  BY <1>1, <1>2 DEF Mark

MarkBetween ==
    \A f \in Files : Mark(f) \in Nat /\ First(f) \in Nat /\ First(f) <= Mark(f)

LEMMA MarkNext == LogTypeOK' /\ Numbered' => MarkBetween'
<1>1. LogTypeOK /\ Numbered => MarkBetween
  BY MarkFacts DEF MarkBetween
<1> QED
  BY <1>1, PTL

(* A higher mark, the same lines.                                          *)
LEMMA MarkRaised ==
    ASSUME LogTypeOK, Numbered, LogTypeOK', Numbered', NEW f \in Files, UpTo(shown, f, Mark(f)),
           shown' = shown, Mark(f) <= Mark(f)'
    PROVE  UpTo(shown', f, Mark(f)')
<1>1. Mark(f) \in Nat /\ Mark(f)' \in Nat
  BY MarkFacts, MarkNext DEF MarkBetween
<1> SUFFICES ASSUME NEW i \in 1..Len(shown), shown[i][1] = f
             PROVE  shown[i][2] <= Mark(f)'
  BY DEF UpTo
<1>2. shown[i][2] <= Mark(f)
  BY DEF UpTo
<1>3. shown[i][2] \in Nat
  <2>1. shown[i] \in Lines
    BY DEF LogTypeOK
  <2> QED
    BY <2>1 DEF Lines
<1> QED
  BY <1>1, <1>2, <1>3

LEMMA WriterMarks ==
    ASSUME LogTypeOK, Numbered, LogTypeOK', Numbered', LogWriterStep, NEW f \in Files
    PROVE  Mark(f) <= Mark(f)' /\ UNCHANGED <<tailer, at, offset, shown>>
<1>f. \A w \in Writers : FileOf[w] \in Files
  BY LogFacts
<1>1. UNCHANGED <<tailer, at, offset, shown>>
  BY DEF LogWriterStep, CheckSize, Truncate, AppendLine
<1>2. (InStat(f)' <=> InStat(f)) /\ offset'[f] = offset[f]
  BY <1>1 DEF InStat
<1>m. /\ Mark(f) \in Nat /\ First(f) \in Nat /\ Mark(f) <= written[f] /\ First(f) <= Mark(f)
      /\ Size(f) \in Nat /\ written[f] \in Nat /\ offset[f] \in Nat
      /\ First(f) + Size(f) = written[f]
  BY MarkFacts
<1>3. CASE content'[f] = content[f] /\ written'[f] = written[f]
  <2>1. Size(f)' = Size(f) /\ First(f)' = First(f)
    BY <1>3 DEF Size, First
  <2> QED
    BY <1>1, <1>2, <1>3, <1>m, <2>1 DEF Mark
<1>4. ASSUME NEW w \in Writers, Truncate(w), FileOf[w] = f
      PROVE  Mark(f) <= Mark(f)'
  <2>1. content'[f] = << >> /\ written'[f] = written[f]
    BY <1>4 DEF Truncate, LogTypeOK
  <2>2. Size(f)' = 0
    BY <2>1 DEF Size
  <2>3. First(f)' = written[f]
    BY <1>m, <2>1, <2>2 DEF First
  <2>4. Mark(f)' \in Nat /\ First(f)' <= Mark(f)'
    BY MarkNext DEF MarkBetween
  <2> QED
    BY <1>m, <2>3, <2>4
<1>5. ASSUME NEW w \in Writers, AppendLine(w), FileOf[w] = f
      PROVE  Mark(f) <= Mark(f)'
  <2>1. Size(f)' = Size(f) + 1 /\ written'[f] = written[f] + 1
    BY <1>5, AppendedFile
  <2>2. First(f)' = First(f)
    BY <1>m, <2>1 DEF First
  <2>3. CASE InStat(f)
    BY <1>2, <1>m, <2>1, <2>3 DEF Mark
  <2>4. CASE ~InStat(f)
    BY <1>2, <1>m, <2>1, <2>2, <2>4 DEF Mark
  <2> QED
    BY <2>3, <2>4
<1>6. ASSUME NEW w \in Writers, FileOf[w] # f, Truncate(w) \/ AppendLine(w)
      PROVE  content'[f] = content[f] /\ written'[f] = written[f]
  BY <1>6, <1>f DEF Truncate, AppendLine, LogTypeOK
<1>7. ASSUME NEW w \in Writers, CheckSize(w)
      PROVE  content'[f] = content[f] /\ written'[f] = written[f]
  BY <1>7 DEF CheckSize
<1>8. Mark(f) <= Mark(f)'
  BY <1>3, <1>4, <1>5, <1>6, <1>7 DEF LogWriterStep
<1> QED
  BY <1>1, <1>8

LEMMA MarkedStep ==
    ASSUME LogTypeOK, ReadingFile, Numbered, ShownOnceInOrder, Marked, LogTypeOK', Numbered',
           [LogNext]_logVars
    PROVE  ShownOnceInOrder' /\ Marked'
<1>m. ASSUME NEW f \in Files
      PROVE  /\ Mark(f) \in Nat /\ First(f) \in Nat /\ Mark(f) <= written[f] /\ First(f) <= Mark(f)
             /\ Size(f) \in Nat /\ written[f] \in Nat /\ offset[f] \in Nat
             /\ First(f) + Size(f) = written[f]
  BY MarkFacts
<1>f. /\ LogFiles[at] \in Files
      /\ \A i, j \in DOMAIN LogFiles : LogFiles[i] = LogFiles[j] => i = j
  BY LogFacts
<1>u. ASSUME shown' = shown, tailer' # "down" => tailer # "down",
             \A f \in Files : /\ Mark(f) <= Mark(f)'
                              /\ Unseeded(f)' => Unseeded(f) /\ offset'[f] = offset[f]
      PROVE  ShownOnceInOrder' /\ Marked'
  <2>1. ShownOnceInOrder'
    BY <1>u DEF ShownOnceInOrder
  <2>2. ASSUME NEW f \in Files, tailer' # "down"
        PROVE  UpTo(shown', f, Mark(f)') /\ (Unseeded(f)' => offset'[f] = 0 /\ UpTo(shown', f, 0))
    <3>1. UpTo(shown, f, Mark(f)) /\ (Unseeded(f) => offset[f] = 0 /\ UpTo(shown, f, 0))
      BY <1>u, <2>2 DEF Marked
    <3>2. UpTo(shown', f, Mark(f)')
      BY <1>u, <3>1, MarkRaised
    <3>3. UpTo(shown', f, 0) <=> UpTo(shown, f, 0)
      BY <1>u DEF UpTo
    <3> QED
      BY <1>u, <3>1, <3>2, <3>3
  <2> QED
    BY <2>1, <2>2 DEF Marked
<1>s. ASSUME UNCHANGED <<content, written, offset, tailer, at, shown>>
      PROVE  ShownOnceInOrder' /\ Marked'
  <2>1. \A f \in Files : Mark(f)' = Mark(f) /\ (Unseeded(f)' <=> Unseeded(f))
    BY <1>s DEF Mark, First, Size, InStat, Unseeded
  <2> QED
    BY <1>s, <1>u, <1>m, <2>1
<1>1. CASE LogWriterStep
  <2>1. UNCHANGED <<tailer, at, offset, shown>>
    BY <1>1 DEF LogWriterStep, CheckSize, Truncate, AppendLine
  <2>2. \A f \in Files : Unseeded(f)' <=> Unseeded(f)
    BY <2>1 DEF Unseeded
  <2>3. \A f \in Files : Mark(f) <= Mark(f)'
    BY <1>1, WriterMarks
  <2> QED
    BY <1>u, <2>1, <2>2, <2>3
<1>2. CASE UNCHANGED logVars \/ \E c \in Clients : Connect(c) \/ Disconnect(c)
  BY <1>s, <1>2 DEF logVars, Connect, Disconnect, diskVars
<1>3. CASE StopNexus
  BY <1>3 DEF StopNexus, Marked, ShownOnceInOrder
<1>4. CASE StartNexus
  BY <1>4 DEF StartNexus, Marked, ShownOnceInOrder, UpTo
<1>5. CASE SeedOffset
  <2>0. PICK f \in Files : f = LogFiles[at]
    BY <1>f
  <2>1. /\ tailer = "stat" /\ tailer' = "watch" /\ at' = at /\ shown' = shown
        /\ offset' = [offset EXCEPT ![f] = Size(f)]
        /\ content' = content /\ written' = written
    BY <1>5, <2>0 DEF SeedOffset, SeededOffset, diskVars
  <2>2. \A g \in Files : Size(g)' = Size(g) /\ First(g)' = First(g)
    BY <2>1 DEF Size, First
  <2>3. Mark(f)' = written[f] /\ Mark(f) = written[f]
    <3>1. offset'[f] = Size(f) /\ ~InStat(f)' /\ InStat(f)
      BY <1>f, <2>0, <2>1 DEF LogTypeOK, InStat
    <3>2. Mark(f)' = First(f) + Size(f)
      BY <1>f, <2>0, <1>m, <2>1, <2>2, <3>1 DEF Mark
    <3> QED
      BY <1>f, <2>0, <1>m, <3>1, <3>2 DEF Mark
  <2>4. ASSUME NEW g \in Files, g # f
        PROVE  Mark(g)' = Mark(g) /\ offset'[g] = offset[g]
    <3>1. offset'[g] = offset[g] /\ ~InStat(g)' /\ ~InStat(g)
      BY <1>f, <2>0, <2>1, <2>4 DEF LogTypeOK, InStat
    <3> QED
      BY <2>2, <3>1 DEF Mark
  <2>5. ~Unseeded(f)' /\ \A g \in Files : Unseeded(g)' => Unseeded(g)
    <3>1. \A j \in DOMAIN LogFiles : LogFiles[j] = f => j = at
      BY <1>f, <2>0 DEF LogTypeOK
    <3>2. ~(at > at)
      BY LogFacts
    <3> QED
      BY <2>1, <3>1, <3>2, <2>0 DEF Unseeded
  <2>6. \A g \in Files : Mark(g) <= Mark(g)'
    BY <1>m, <2>3, <2>4
  <2> QED
    BY <1>u, <2>1, <2>4, <2>5, <2>6
<1>6. CASE WatchFile
  <2>1. /\ tailer = "watch" /\ content' = content /\ written' = written /\ offset' = offset /\ shown' = shown
        /\ tailer' = "up" \/ (tailer' = "seed" /\ at' = at + 1)
    BY <1>6 DEF WatchFile, diskVars, ghostVars
  <2>2. \A g \in Files : Mark(g)' = Mark(g)
    BY <2>1 DEF Mark, First, Size, InStat
  <2>3. \A g \in Files : Unseeded(g)' => Unseeded(g)
    <3>1. at \in Nat /\ \A j \in DOMAIN LogFiles : j \in Nat
      BY LogFacts, LogAssumption
    <3>2. \A j \in DOMAIN LogFiles : j > at + 1 \/ j = at + 1 => j > at
      BY <3>1
    <3> QED
      BY <2>1, <3>2 DEF Unseeded
  <2> QED
    BY <1>u, <1>m, <2>1, <2>2, <2>3
<1>7. ASSUME NEW f \in Files, StatFile(f) PROVE ShownOnceInOrder' /\ Marked'
  <2>1. /\ tailer = "up" /\ UNCHANGED <<content, written, tailer, at, shown>>
        /\ offset' = [offset EXCEPT ![f] = IF Size(f) < offset[f] THEN 0 ELSE offset[f]]
    BY <1>7 DEF StatFile, diskVars
  <2>2. \A g \in Files : Size(g)' = Size(g) /\ First(g)' = First(g) /\ ~InStat(g) /\ ~InStat(g)' /\ ~Unseeded(g)'
    BY <2>1 DEF Size, First, InStat, Unseeded
  <2>3. Mark(f)' = Mark(f)
    <3>1. offset'[f] = IF Size(f) < offset[f] THEN 0 ELSE offset[f]
      BY <2>1 DEF LogTypeOK
    <3> QED
      BY <1>m, <2>2, <3>1 DEF Mark
  <2>4. \A g \in Files : g # f => Mark(g)' = Mark(g)
    <3>1. \A g \in Files : g # f => offset'[g] = offset[g]
      BY <2>1 DEF LogTypeOK
    <3> QED
      BY <2>2, <3>1 DEF Mark
  <2>5. \A g \in Files : Mark(g) <= Mark(g)'
    BY <1>m, <2>3, <2>4
  <2> QED
    BY <1>u, <2>1, <2>2, <2>5
<1>8. CASE SeedRing
  <2>0. PICK f \in Files : f = LogFiles[at]
    BY <1>f
  <2>1. /\ tailer = "seed" /\ at' = at /\ content' = content /\ written' = written /\ offset' = offset
        /\ content[f] = Off => tailer' = "watch" /\ shown' = shown
        /\ content[f] # Off => tailer' = "stat" /\ shown' = shown \o LastOf(content[f], RingSize - 1)
    BY <1>8, <2>0 DEF SeedRing, Show, diskVars, ghostVars
  <2>2. \A g \in Files : /\ Size(g)' = Size(g) /\ First(g)' = First(g) /\ ~InStat(g)
                         /\ Unseeded(g)' => Unseeded(g)
    BY <2>1 DEF Size, First, InStat, Unseeded
  <2>3. CASE content[f] = Off
    <3>1. \A g \in Files : Mark(g)' = Mark(g)
      BY <2>1, <2>2, <2>3 DEF Mark, InStat
    <3> QED
      BY <1>u, <1>m, <2>1, <2>2, <2>3, <3>1
  <2>4. CASE content[f] # Off
    <3> DEFINE new == LastOf(content[f], RingSize - 1)
               k == written[f] - Len(new)
    <3>0. /\ f \in Files /\ content[f] \in Seq(Lines) /\ Size(f) = Len(content[f])
          /\ \A i \in 1..Len(content[f]) : content[f][i] = <<f, First(f) + i>>
      BY <1>f, <2>0, <2>4, LogFacts DEF Numbered
    <3>1. /\ new \in Seq(Lines) /\ Len(new) = IF Size(f) > RingSize - 1 THEN RingSize - 1 ELSE Size(f)
          /\ \A i \in 1..Len(new) : new[i] = content[f][Size(f) - Len(new) + i]
      <4>1. RingSize - 1 \in Nat
        BY LogAssumption
      <4>2. /\ new \in Seq(Lines)
            /\ Len(new) = IF Len(content[f]) > RingSize - 1 THEN RingSize - 1 ELSE Len(content[f])
            /\ \A i \in 1..Len(new) : new[i] = content[f][Len(content[f]) - Len(new) + i]
        BY <3>0, <4>1, LastOfFacts
      <4> HIDE DEF new
      <4> QED
        BY <3>0, <4>2
    <3>2. Len(new) \in Nat /\ Len(new) <= Size(f)
      <4>1. RingSize - 1 \in Nat /\ Len(new) = IF Size(f) > RingSize - 1 THEN RingSize - 1 ELSE Size(f)
        BY <3>1, LogAssumption
      <4> QED
        BY <1>m, <3>0, <4>1
    <3> HIDE DEF new
    <3>3. k \in Nat /\ k + Len(new) = written[f]
      BY <1>m, <3>0, <3>2
    <3>n. /\ First(f) \in Nat /\ Size(f) \in Nat /\ written[f] \in Nat
          /\ First(f) + Size(f) = written[f]
      BY <1>m, <3>0
    <3>4. \A i \in 1..Len(new) : new[i] = <<f, k + i>>
      <4> SUFFICES ASSUME NEW i \in 1..Len(new) PROVE new[i] = <<f, k + i>>
        OBVIOUS
      <4>1. /\ Size(f) - Len(new) + i \in 1..Size(f)
            /\ First(f) + (Size(f) - Len(new) + i) = k + i
        BY <3>n, <3>2
      <4>2. content[f][Size(f) - Len(new) + i] = <<f, First(f) + (Size(f) - Len(new) + i)>>
        BY <3>0, <4>1
      <4> QED
        BY <3>1, <4>1, <4>2
    <3> HIDE DEF k
    <3>5. Unseeded(f) /\ UpTo(shown, f, 0)
      <4>1. Unseeded(f)
        BY <2>0, <2>1 DEF Unseeded, LogTypeOK
      <4> QED
        BY <2>1, <3>0, <4>1 DEF Marked
    <3>6. /\ ShownOnceInOrder' /\ UpTo(shown', f, k + Len(new))
          /\ \A g \in Files, b \in Nat : g # f /\ UpTo(shown, g, b) => UpTo(shown', g, b)
      <4>1. shown' = shown \o new
        BY <2>1, <2>4 DEF new
      <4>2. 0 \in Nat /\ 0 <= k
        BY <3>3
      <4> QED
        BY <3>0, <3>1, <3>3, <3>4, <3>5, <4>1, <4>2, ShownMore
    <3>7. /\ Mark(f)' = written[f] /\ ~Unseeded(f)'
          /\ \A g \in Files : g # f => Mark(g)' = Mark(g)
      <4>1. InStat(f)' /\ \A g \in Files : g # f => ~InStat(g)'
        BY <2>0, <2>1, <2>4 DEF InStat
      <4>2. ~Unseeded(f)'
        <5>1. \A j \in DOMAIN LogFiles : LogFiles[j] = f => j = at
          BY <1>f, <2>0 DEF LogTypeOK
        <5>2. ~(at > at)
          BY LogFacts
        <5> QED
          BY <2>1, <2>4, <5>1, <5>2, <2>0 DEF Unseeded
      <4> QED
        BY <2>1, <2>2, <4>1, <4>2 DEF Mark
    <3>8. ASSUME NEW g \in Files
          PROVE  UpTo(shown', g, Mark(g)') /\ (Unseeded(g)' => offset'[g] = 0 /\ UpTo(shown', g, 0))
      <4>1. CASE g = f
        <5>1. UpTo(shown', f, Mark(f)')
          BY <3>3, <3>6, <3>7
        <5> QED
          BY <3>7, <4>1, <5>1
      <4>2. CASE g # f
        <5>1. UpTo(shown, g, Mark(g)) /\ (Unseeded(g) => offset[g] = 0 /\ UpTo(shown, g, 0))
          BY <2>1 DEF Marked
        <5>2. UpTo(shown', g, Mark(g)')
          BY <1>m, <3>6, <3>7, <4>2, <5>1
        <5>3. UpTo(shown, g, 0) => UpTo(shown', g, 0)
          BY <3>6, <4>2
        <5> QED
          BY <2>1, <2>2, <5>1, <5>2, <5>3
      <4> QED
        BY <4>1, <4>2
    <3> QED
      BY <3>6, <3>8 DEF Marked
  <2> QED
    BY <2>3, <2>4
<1>9. CASE ReadNew
  <2>0. PICK f \in Files : f = reading[1]
    BY <1>9 DEF ReadNew, LogTypeOK
  <2>1. /\ reading # Off /\ UNCHANGED <<content, written, tailer, at>>
        /\ shown' = shown \o NewLines
        /\ offset' = [offset EXCEPT ![f] = offset[f] + Len(NewLines)]
    BY <1>9, <2>0 DEF ReadNew, Show, NewLines, NextOffset, diskVars
  <2>2. /\ tailer = "up" /\ NewLines \in Seq(Lines) /\ Len(NewLines) \in Nat
        /\ \A i \in 1..Len(NewLines) : NewLines[i] = <<f, First(f) + offset[f] + i>>
        /\ offset[f] > Size(f) => Len(NewLines) = 0
        /\ offset[f] <= Size(f) => offset[f] + Len(NewLines) <= Size(f)
    BY <2>0, <2>1, NewLinesFacts
  <2>3. \A g \in Files : Size(g)' = Size(g) /\ First(g)' = First(g) /\ ~InStat(g) /\ ~InStat(g)' /\ ~Unseeded(g)'
    BY <2>1, <2>2 DEF Size, First, InStat, Unseeded
  <2>4. offset'[f] = offset[f] + Len(NewLines) /\ \A g \in Files : g # f => offset'[g] = offset[g]
    BY <2>1 DEF LogTypeOK
  <2>5. /\ \A i \in 1..Len(NewLines) : NewLines[i] = <<f, Mark(f) + i>>
        /\ Mark(f)' = Mark(f) + Len(NewLines)
    <3>0. /\ First(f) \in Nat /\ Size(f) \in Nat /\ offset[f] \in Nat /\ Len(NewLines) \in Nat
      BY <1>m, <2>2
    <3>1. CASE offset[f] > Size(f)
      <4>1. Mark(f) = First(f) /\ Len(NewLines) = 0
        BY <2>2, <2>3, <3>1 DEF Mark
      <4>2. offset'[f] = offset[f] /\ Mark(f)' = First(f)
        BY <2>3, <2>4, <3>0, <3>1, <4>1 DEF Mark
      <4> QED
        BY <3>0, <4>1, <4>2
    <3>2. CASE offset[f] <= Size(f)
      <4>0. offset'[f] = offset[f] + Len(NewLines) /\ offset'[f] <= Size(f)
        BY <2>2, <2>4, <3>2
      <4>1. Mark(f) = First(f) + offset[f]
        BY <2>3, <3>0, <3>2 DEF Mark
      <4>2. Mark(f)' = First(f) + offset'[f]
        BY <2>3, <3>0, <4>0 DEF Mark
      <4> QED
        BY <2>2, <3>0, <4>0, <4>1, <4>2
    <3> QED
      BY <3>0, <3>1, <3>2
  <2>6. /\ ShownOnceInOrder' /\ UpTo(shown', f, Mark(f) + Len(NewLines))
        /\ \A g \in Files, b \in Nat : g # f /\ UpTo(shown, g, b) => UpTo(shown', g, b)
    <3>1. UpTo(shown, f, Mark(f)) /\ Mark(f) \in Nat /\ Mark(f) <= Mark(f)
      BY <1>m, <2>2 DEF Marked
    <3> QED
      BY <2>1, <2>2, <2>5, <3>1, ShownMore
  <2>7. ASSUME NEW g \in Files
        PROVE  UpTo(shown', g, Mark(g)')
    <3>1. CASE g = f
      BY <2>5, <2>6, <3>1
    <3>2. CASE g # f
      <4>1. Mark(g)' = Mark(g)
        BY <2>3, <2>4, <3>2 DEF Mark
      <4>2. UpTo(shown, g, Mark(g))
        BY <2>2 DEF Marked
      <4> QED
        BY <1>m, <2>6, <3>2, <4>1, <4>2
    <3> QED
      BY <3>1, <3>2
  <2> QED
    BY <2>3, <2>6, <2>7 DEF Marked
<1> QED
  BY <1>1, <1>2, <1>3, <1>4, <1>5, <1>6, <1>7, <1>8, <1>9 DEF LogNext, LogTailStep, LogStartStep

(* What has been shown stays shown while the process runs.                 *)
LEMMA ShownStays ==
    ASSUME LogTypeOK, LogTypeOK', ReadingFile, Numbered, [LogNext]_logVars, ~StartNexus
    PROVE  Range(shown) \subseteq Range(shown')
<1>1. ASSUME NEW s \in Seq(Lines), shown' = shown \o s
      PROVE  Range(shown) \subseteq Range(shown')
  <2>1. /\ shown \in Seq(Lines) /\ Len(shown \o s) = Len(shown) + Len(s)
        /\ \A i \in 1..Len(shown) + Len(s) :
              (shown \o s)[i] = IF i <= Len(shown) THEN shown[i] ELSE s[i - Len(shown)]
    BY ConcatProperties DEF LogTypeOK
  <2>2. \A i \in 1..Len(shown) : i \in 1..Len(shown') /\ shown'[i] = shown[i]
    <3>1. Len(shown) \in Nat /\ Len(s) \in Nat
      BY <2>1
    <3>2. \A i \in 1..Len(shown) : i \in 1..Len(shown) + Len(s) /\ i <= Len(shown)
      BY <3>1
    <3> QED
      BY <1>1, <2>1, <3>2
  <2>3. DOMAIN shown = 1..Len(shown) /\ DOMAIN shown' = 1..Len(shown')
    BY DEF LogTypeOK
  <2> QED
    BY <2>2, <2>3 DEF Range
<1>2. CASE shown' = shown
  BY <1>2
<1>3. CASE SeedRing
  <2>1. CASE content[LogFiles[at]] = Off
    BY <1>2, <1>3, <2>1 DEF SeedRing
  <2>2. CASE content[LogFiles[at]] # Off
    <3>1. RingSize - 1 \in Nat /\ content[LogFiles[at]] \in Seq(Lines)
      BY <2>2, LogFacts, LogAssumption
    <3>2. LastOf(content[LogFiles[at]], RingSize - 1) \in Seq(Lines)
      BY <3>1, LastOfFacts
    <3> QED
      BY <1>1, <1>3, <2>2, <3>2 DEF SeedRing, Show
  <2> QED
    BY <2>1, <2>2
<1>4. CASE ReadNew
  <2>1. NewLines \in Seq(Lines)
    BY <1>4, NewLinesFacts DEF ReadNew
  <2>2. shown' = shown \o NewLines
    BY <1>4 DEF ReadNew, NewLines, Show
  <2> QED
    BY <1>1, <2>1, <2>2
<1>5. CASE \/ LogWriterStep \/ SeedOffset \/ WatchFile \/ StopNexus \/ UNCHANGED logVars
           \/ \E f \in Files : StatFile(f)
           \/ \E c \in Clients : Connect(c) \/ Disconnect(c)
  BY <1>2, <1>5 DEF LogWriterStep, CheckSize, Truncate, AppendLine, SeedOffset, WatchFile, StopNexus,
                    StatFile, Connect, Disconnect, logVars
<1> QED
  BY <1>3, <1>4, <1>5 DEF LogNext, LogTailStep, LogStartStep

CaughtIn(f) ==
    /\ offset[f] <= Size(f)
    /\ \A i \in 1..offset[f] : content[f][i][2] > base[f] => content[f][i] \in Range(shown)

LEMMA CaughtStep ==
    ASSUME LogTypeOK, ReadingFile, Numbered, Caught, LogTypeOK', [LogNext]_logVars
    PROVE  Caught'
<1> SUFFICES ASSUME NEW f \in Files, tailer' # "down", ~cut'[f]
             PROVE  CaughtIn(f)'
  BY DEF Caught, CaughtIn
<1>f. /\ LogFiles[at] \in Files /\ \A w \in Writers : FileOf[w] \in Files
      /\ Size(f) \in Nat /\ offset[f] \in Nat /\ written[f] \in Nat
  BY LogFacts
<1>i. tailer # "down" /\ ~cut[f] => CaughtIn(f)
  BY DEF Caught, CaughtIn
<1>s. ~StartNexus => Range(shown) \subseteq Range(shown')
  BY ShownStays
<1>u. ASSUME tailer # "down", ~StartNexus, UNCHANGED <<content, cut, base>>, offset'[f] = offset[f]
      PROVE  CaughtIn(f)'
  <2>1. Size(f)' = Size(f) /\ CaughtIn(f)
    BY <1>i, <1>u DEF Size
  <2> QED
    BY <1>s, <1>u, <2>1 DEF CaughtIn
<1>1. CASE StartNexus
  <2>1. offset'[f] = 0 /\ Size(f)' = Size(f)
    BY <1>1 DEF StartNexus, diskVars, Size
  <2> QED
    BY <1>f, <2>1 DEF CaughtIn
<1>2. ASSUME NEW w \in Writers, CheckSize(w) PROVE CaughtIn(f)'
  BY <1>2, <1>u DEF CheckSize, StartNexus, ghostVars
<1>3. ASSUME NEW w \in Writers, Truncate(w) PROVE CaughtIn(f)'
  <2>1. FileOf[w] # f
    BY <1>3 DEF Truncate, LogTypeOK
  <2>2. /\ content'[f] = content[f] /\ cut'[f] = cut[f]
        /\ UNCHANGED <<tailer, offset, shown, base>>
    BY <1>3, <1>f, <2>1 DEF Truncate, LogTypeOK
  <2>3. Size(f)' = Size(f) /\ CaughtIn(f)
    BY <1>i, <2>2 DEF Size
  <2> QED
    BY <2>2, <2>3 DEF CaughtIn
<1>4. ASSUME NEW w \in Writers, AppendLine(w) PROVE CaughtIn(f)'
  <2>1. UNCHANGED <<tailer, offset, shown, cut, base>>
    BY <1>4 DEF AppendLine, ghostVars
  <2>2. CaughtIn(f)
    BY <1>i, <2>1
  <2>3. CASE FileOf[w] # f
    <3>1. content'[f] = content[f]
      BY <1>4, <1>f, <2>3 DEF AppendLine, LogTypeOK
    <3>2. Size(f)' = Size(f)
      BY <3>1 DEF Size
    <3> QED
      BY <2>1, <2>2, <3>1, <3>2 DEF CaughtIn
  <2>4. CASE FileOf[w] = f
    <3>1. Size(f)' = Size(f) + 1 /\ \A i \in 1..Size(f) : content'[f][i] = content[f][i]
      BY <1>4, <2>4, AppendedFile
    <3>2. \A i \in 1..offset[f] : i \in 1..Size(f)
      BY <1>f, <2>2 DEF CaughtIn
    <3>3. offset'[f] <= Size(f)'
      BY <1>f, <2>1, <2>2, <3>1 DEF CaughtIn
    <3>4. \A i \in 1..offset'[f] : content'[f][i] = content[f][i]
      BY <2>1, <3>1, <3>2
    <3> QED
      BY <2>1, <2>2, <3>3, <3>4 DEF CaughtIn
  <2> QED
    BY <2>3, <2>4
<1>5. CASE SeedRing \/ WatchFile \/ \E c \in Clients : Connect(c) \/ Disconnect(c)
  BY <1>5, <1>u DEF SeedRing, WatchFile, Connect, Disconnect, StartNexus, diskVars, ghostVars
<1>6. CASE SeedOffset
  <2>1. /\ tailer = "stat" /\ UNCHANGED <<content, written, cut, shown>> /\ ~StartNexus
        /\ offset' = [offset EXCEPT ![LogFiles[at]] = Size(LogFiles[at])]
        /\ base' = [base EXCEPT ![LogFiles[at]] = written[LogFiles[at]]]
    BY <1>6 DEF SeedOffset, SeededOffset, StartNexus, diskVars
  <2>2. CASE LogFiles[at] # f
    <3>1. offset'[f] = offset[f] /\ base'[f] = base[f]
      BY <1>f, <2>1, <2>2 DEF LogTypeOK
    <3>2. Size(f)' = Size(f) /\ CaughtIn(f)
      BY <1>i, <2>1 DEF Size
    <3> QED
      BY <2>1, <3>1, <3>2 DEF CaughtIn
  <2>3. CASE LogFiles[at] = f
    <3>1. offset'[f] = Size(f) /\ base'[f] = written[f] /\ Size(f)' = Size(f)
      BY <1>f, <2>1, <2>3 DEF LogTypeOK, Size
    <3>2. ASSUME NEW i \in 1..Size(f)
          PROVE  ~(content[f][i][2] > written[f])
      <4>1. content[f] # Off /\ Size(f) = Len(content[f])
        BY <1>f, LogFacts DEF Size
      <4>2. content[f][i][2] = First(f) + i
        BY <4>1 DEF Numbered
      <4>3. Size(f) <= written[f]
        BY DEF Numbered
      <4> QED
        BY <1>f, <4>2, <4>3 DEF First
    <3> QED
      BY <1>f, <2>1, <3>1, <3>2 DEF CaughtIn
  <2> QED
    BY <2>2, <2>3
<1>7. ASSUME NEW g \in Files, StatFile(g) PROVE CaughtIn(f)'
  <2>1. /\ tailer = "up" /\ UNCHANGED <<content, cut, base>> /\ ~StartNexus
        /\ offset' = [offset EXCEPT ![g] = IF Size(g) < offset[g] THEN 0 ELSE offset[g]]
    BY <1>7 DEF StatFile, StartNexus, diskVars, ghostVars
  <2>2. CaughtIn(f)
    BY <1>i, <2>1
  <2>3. ~(Size(f) < offset[f])
    BY <1>f, <2>2 DEF CaughtIn
  <2>4. offset'[f] = offset[f]
    BY <2>1, <2>3 DEF LogTypeOK
  <2> QED
    BY <1>u, <2>1, <2>4
<1>8. CASE ReadNew
  <2>0. PICK g \in Files : g = reading[1]
    BY <1>8 DEF ReadNew, LogTypeOK
  <2>1. /\ reading # Off /\ UNCHANGED <<content, tailer, cut, base>> /\ ~StartNexus
        /\ shown' = shown \o NewLines
        /\ offset' = [offset EXCEPT ![g] = offset[g] + Len(NewLines)]
    <3>1. reading # Off /\ tailer = "up"
      BY <1>8 DEF ReadNew, ReadingFile
    <3> QED
      BY <1>8, <2>0, <3>1 DEF ReadNew, Show, NewLines, NextOffset, diskVars, ghostVars, StartNexus
  <2>2. tailer = "up"
    BY <2>1 DEF ReadingFile
  <2>3. CASE g # f
    <3>1. offset'[f] = offset[f]
      BY <2>1, <2>3 DEF LogTypeOK
    <3> QED
      BY <1>u, <2>1, <2>2, <3>1
  <2>4. CASE g = f
    <3>1. CaughtIn(f) /\ Size(f)' = Size(f)
      BY <1>i, <2>1, <2>2 DEF Size
    <3>2. /\ NewLines \in Seq(Lines) /\ Len(NewLines) \in Nat
          /\ \A i \in 1..Len(NewLines) : NewLines[i] = content[f][offset[f] + i]
          /\ offset[f] <= Size(f) => offset[f] + Len(NewLines) <= Size(f)
      BY <2>0, <2>1, <2>4, NewLinesFacts
    <3>3. offset'[f] = offset[f] + Len(NewLines) /\ offset'[f] <= Size(f)
      BY <2>1, <2>4, <3>1, <3>2 DEF LogTypeOK, CaughtIn
    <3>4. \A i \in 1..Len(NewLines) : NewLines[i] \in Range(shown')
      <4>1. /\ shown \in Seq(Lines) /\ Len(shown \o NewLines) = Len(shown) + Len(NewLines)
            /\ \A i \in 1..Len(shown) + Len(NewLines) :
                 (shown \o NewLines)[i] = IF i <= Len(shown) THEN shown[i] ELSE NewLines[i - Len(shown)]
        BY <3>2, ConcatProperties DEF LogTypeOK
      <4>2. Len(shown) \in Nat /\ Len(NewLines) \in Nat /\ DOMAIN shown' = 1..Len(shown')
        BY <3>2 DEF LogTypeOK
      <4>3. \A i \in 1..Len(NewLines) :
               /\ i + Len(shown) \in 1..Len(shown) + Len(NewLines) /\ ~(i + Len(shown) <= Len(shown))
               /\ i + Len(shown) - Len(shown) = i
        BY <4>2
      <4>4. \A i \in 1..Len(NewLines) : i + Len(shown) \in DOMAIN shown' /\ shown'[i + Len(shown)] = NewLines[i]
        BY <2>1, <4>1, <4>2, <4>3
      <4> QED
        BY <4>4 DEF Range
    <3>5. ASSUME NEW i \in 1..offset'[f], content[f][i][2] > base[f]
          PROVE  content[f][i] \in Range(shown')
      <4>1. CASE i <= offset[f]
        <5>1. i \in 1..offset[f]
          BY <1>f, <3>3, <4>1
        <5> QED
          BY <1>s, <2>1, <3>1, <3>5, <5>1 DEF CaughtIn
      <4>2. CASE ~(i <= offset[f])
        <5>1. i - offset[f] \in 1..Len(NewLines) /\ offset[f] + (i - offset[f]) = i
          <6>1. offset[f] \in Nat /\ Len(NewLines) \in Nat /\ offset'[f] = offset[f] + Len(NewLines)
            BY <1>f, <3>2, <3>3
          <6> QED
            BY <4>2, <6>1
        <5>2. NewLines[i - offset[f]] = content[f][i]
          BY <3>2, <5>1
        <5> QED
          BY <3>4, <5>1, <5>2
      <4> QED
        BY <4>1, <4>2
    <3> QED
      BY <2>1, <3>1, <3>3, <3>5 DEF CaughtIn
  <2> QED
    BY <2>3, <2>4
<1>9. CASE StopNexus
  BY <1>9 DEF StopNexus
<1>10. CASE UNCHANGED logVars
  BY <1>10, <1>u DEF logVars, StartNexus
<1> QED
  BY <1>1, <1>2, <1>3, <1>4, <1>5, <1>6, <1>7, <1>8, <1>9, <1>10
  DEF LogNext, LogWriterStep, LogTailStep, LogStartStep

-----------------------------------------------------------------------------
(* The invariant of the log. *)

LEMMA LogInvInit == LogInit => LogInv
<1> SUFFICES ASSUME LogInit PROVE LogInv
  OBVIOUS
<1>e. <<>> \in Seq(Lines) /\ Len(<< >>) = 0 /\ RingSize \in Nat
  BY LogAssumption
<1>1. LogTypeOK
  <2>1. DOMAIN LogFiles = 1..Len(LogFiles) /\ 1 \in DOMAIN LogFiles
    BY LogAssumption
  <2> QED
    BY <1>e, <2>1 DEF LogInit, LogTypeOK
<1>2. \A f \in Files : Size(f) = 0
  <2>1. \A f \in Files : content[f] = Off \/ content[f] = << >>
    BY DEF LogInit
  <2> QED
    BY <1>e, <2>1 DEF Size
<1>3. RoomLeft
  <2> SUFFICES ASSUME NEW f \in Files
               PROVE  Size(f) + Cardinality(Appending(f)) <= LogMaxSize + Cardinality(WritersOf(f))
    BY DEF RoomLeft
  <2>1. /\ Cardinality(Appending(f)) \in Nat /\ Cardinality(WritersOf(f)) \in Nat
        /\ Cardinality(Appending(f)) <= Cardinality(WritersOf(f)) /\ LogMaxSize \in Nat
    BY WriterFacts, LogAssumption
  <2> QED
    BY <1>2, <2>1
<1>4. Numbered
  <2>1. \A f \in Files : content[f] # Off => Len(content[f]) = 0
    BY <1>2 DEF Size
  <2> QED
    BY <1>2, <2>1 DEF LogInit, Numbered
<1>5. RingIsLatest
  <2>1. LastOf(<< >>, RingSize) \in Seq(Lines) /\ Len(LastOf(<< >>, RingSize)) = IF Len(<< >>) > RingSize THEN RingSize ELSE Len(<< >>)
    BY <1>e, LastOfFacts
  <2>2. LastOf(<< >>, RingSize) \in Seq(Lines) /\ Len(LastOf(<< >>, RingSize)) = 0
    BY <1>e, <2>1
  <2>3. LastOf(<< >>, RingSize) = << >>
    BY <2>2
  <2> QED
    BY <2>3 DEF LogInit, RingIsLatest
<1>6. ShownOnceInOrder
  BY <1>e DEF LogInit, ShownOnceInOrder
<1>7. Streamed /\ ReadingFile /\ Marked /\ Caught
  BY DEF LogInit, Streamed, ReadingFile, Marked, Caught
<1> QED
  BY <1>1, <1>3, <1>4, <1>5, <1>6, <1>7 DEF LogInv

LEMMA LogInvStep == LogInv /\ [LogNext]_logVars => LogInv'
<1> SUFFICES ASSUME LogInv, [LogNext]_logVars PROVE LogInv'
  OBVIOUS
<1>1. LogTypeOK' /\ Numbered' /\ ReadingFile' /\ RoomLeft'
  BY LogTypesStep, NumberedStep, ReadingStep, RoomStep DEF LogInv
<1>2. RingIsLatest' /\ Streamed'
  BY RingStep, StreamedStep DEF LogInv
<1>3. ShownOnceInOrder' /\ Marked'
  BY <1>1, MarkedStep DEF LogInv
<1>4. Caught'
  BY <1>1, CaughtStep DEF LogInv
<1> QED
  BY <1>1, <1>2, <1>3, <1>4 DEF LogInv

LEMMA LogInvShown == LogInv => LogIsShown
<1> SUFFICES ASSUME LogInv PROVE LogIsShown
  OBVIOUS
<1>1. LogBounded
  <2> SUFFICES ASSUME NEW f \in Files PROVE Size(f) <= LogMaxSize + Cardinality(WritersOf(f))
    BY DEF LogBounded, WritersOf
  <2>1. Size(f) \in Nat /\ Size(f) + Cardinality(Appending(f)) <= LogMaxSize + Cardinality(WritersOf(f))
    BY LogFacts DEF LogInv, RoomLeft
  <2>2. Cardinality(Appending(f)) \in Nat /\ Cardinality(WritersOf(f)) \in Nat /\ LogMaxSize \in Nat
    BY WriterFacts, LogAssumption
  <2> QED
    BY <2>1, <2>2
<1>2. ClientsSeeTheStream
  BY DEF LogInv, Streamed, ClientsSeeTheStream
<1>3. NothingSkipped
  <2> SUFFICES ASSUME NEW f \in Files, tailer = "up", ~cut[f], content[f] # Off,
                      NEW i \in 1..Len(content[f]), i <= offset[f], content[f][i][2] > base[f]
               PROVE  content[f][i] \in Range(shown)
    BY DEF NothingSkipped
  <2>1. offset[f] \in Nat
    BY LogFacts DEF LogInv
  <2>2. i \in 1..offset[f]
    BY <2>1
  <2> QED
    BY <2>2 DEF LogInv, Caught
<1> QED
  BY <1>1, <1>2, <1>3 DEF LogInv, LogIsShown

(* However the writers' system calls, truncations, events, reads, browsers *)
(* and restarts of the dashboard interleave, each browser sees the stream  *)
(* from the ring's first line on, no line is shown twice or out of order,  *)
(* nothing before the offset of a file that was not truncated is skipped,  *)
(* and a log file stays bounded.                                           *)
THEOREM LogStaysShown == LogSpec => []LogIsShown
<1> QED
  BY LogInvInit, LogInvStep, LogInvShown, PTL DEF LogSpec
=============================================================================
