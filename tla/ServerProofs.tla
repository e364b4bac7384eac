---------------------------- MODULE ServerProofs ----------------------------
(***************************************************************************)
(* Theorems about the parts of a server's life that share no state: status *)
(* requests (StatusQuery), the supervisor (Supervisor), the switch from    *)
(* one project to another (ProjectSwitch), the start on a database that is *)
(* empty or of an older version (FirstBoot) and the file watcher with its  *)
(* coordinator (FileWatcher), each for every value of its constants.       *)
(***************************************************************************)
EXTENDS StatusQuery, Supervisor, ProjectSwitch, FirstBoot, FileWatcher,
        FiniteSetTheorems, SequenceTheorems, TLAPS

-----------------------------------------------------------------------------
(* Status requests.                                                        *)

StatusInv ==
    /\ status \in [Requests -> {"unasked", "waiting", "live", "disk", "offline"}]
    /\ PendingIsWaiting

(* The map of pending requests and the callers that wait agree, through    *)
(* answers that come late, timeouts and broken connections (client.ts      *)
(* requestStatus, handleBrokerMessage and the 'close' handler).            *)
THEOREM PendingAreWaiting == StatusSpec => []PendingIsWaiting
<1>1. StatusInit => StatusInv
  BY DEF StatusInit, StatusInv, PendingIsWaiting
<1>2. StatusInv /\ [StatusNext]_statusVars => StatusInv'
  <2> SUFFICES ASSUME StatusInv, [StatusNext]_statusVars PROVE StatusInv'
    OBVIOUS
  <2> USE DEF StatusInv, PendingIsWaiting
  <2>1. ASSUME NEW r \in Requests, Ask(r) PROVE StatusInv'
    BY <2>1 DEF Ask
  <2>2. ASSUME NEW r \in Requests, BrokerAnswers(r) PROVE StatusInv'
    BY <2>2 DEF BrokerAnswers
  <2>3. ASSUME NEW r \in Requests, Receive(r) PROVE StatusInv'
    BY <2>3 DEF Receive, Resolve
  <2>4. ASSUME NEW r \in Requests, TimeOut(r) PROVE StatusInv'
    BY <2>4 DEF TimeOut, Resolve
  <2>5. CASE Break
    BY <2>5 DEF Break, Resolve
  <2>6. CASE Reconnect
    BY <2>6 DEF Reconnect
  <2>7. CASE UNCHANGED statusVars
    BY <2>7 DEF statusVars
  <2> QED
    BY <2>1, <2>2, <2>3, <2>4, <2>5, <2>6, <2>7 DEF StatusNext
<1>3. StatusInv => PendingIsWaiting
  BY DEF StatusInv
<1> QED
  BY <1>1, <1>2, <1>3, PTL DEF StatusSpec


-----------------------------------------------------------------------------
(* The supervisor.                                                         *)

\* The loop has not come to the repository yet.
Untouched(i) == i > at \/ (i = at /\ loop = "starts")

Idle(r) == alive[r] = 0 /\ dead[r] = 0 /\ r \notin opening \cup greeting \cup restarts

SupervisorTypes ==
    /\ at \in 1..Len(Repos) + 1 /\ loop \in {"starts", "awaits"}
    /\ loop = "awaits" => at <= Len(Repos)
    /\ opening \cup greeting \cup restarts \cup lost \subseteq Registered
    /\ alive \in [Registered -> Nat] /\ dead \in [Registered -> Nat] /\ children \in [Registered -> Nat]
    /\ signal \in {"none", "grace", "killed", "exited", "crashed", "failed"}
    /\ slowOpen \in BOOLEAN /\ exits \in 0..MaxExits

\* The inductive invariant.  The loop starts only what nothing else started;
\* a server is listed until its exit event; what was killed stays dead.
SupervisorInv ==
    /\ SupervisorTypes
    /\ \A i \in DOMAIN Repos : Untouched(i) => Idle(Repos[i])
    /\ \A r \in Registered :
          /\ alive[r] + dead[r] <= 1 /\ alive[r] + dead[r] <= children[r]
          /\ r \in opening => alive[r] = 0 /\ dead[r] = 0 /\ r \notin restarts
          /\ r \in restarts => alive[r] = 0 /\ dead[r] = 0
    /\ signal = "killed" /\ ~slowOpen => opening = {} /\ \A r \in Registered : alive[r] = 0
    /\ NoServerLeft

(* It says what the runs check.                                            *)
LEMMA SupervisorInvIsSound == SupervisorInv => SupervisorIsSound
<1> SUFFICES ASSUME SupervisorInv PROVE SupervisorIsSound
  OBVIOUS
<1>1. SupervisorTypeOK
  BY DEF SupervisorInv, SupervisorTypes, SupervisorTypeOK
<1>2. ASSUME NEW r \in Registered, NEW S
      PROVE  Cardinality({r} \cap S) = IF r \in S THEN 1 ELSE 0
  <2>1. {r} \cap S = IF r \in S THEN {r} ELSE {}
    OBVIOUS
  <2> QED
    BY <2>1, FS_Singleton, FS_EmptySet
<1>3. OneServerEach
  <2> SUFFICES ASSUME NEW r \in Registered
               PROVE  alive[r] + dead[r] + Cardinality({r} \cap opening)
                               + Cardinality({r} \cap restarts) <= 1
    BY DEF OneServerEach
  <2>1. /\ Cardinality({r} \cap opening) = IF r \in opening THEN 1 ELSE 0
        /\ Cardinality({r} \cap restarts) = IF r \in restarts THEN 1 ELSE 0
    BY <1>2
  <2>2. alive[r] \in Nat /\ dead[r] \in Nat
    BY DEF SupervisorInv, SupervisorTypes
  <2> QED
    BY <2>1, <2>2 DEF SupervisorInv
<1> QED
  BY <1>1, <1>3 DEF SupervisorInv, SupervisorIsSound

(* What every step but those of the loop leaves of the repositories to     *)
(* come: a step of a repository is not one of an untouched one.            *)
LEMMA SupervisorStep == SupervisorInv /\ [SupervisorNext]_supervisorVars => SupervisorInv'
<1> SUFFICES ASSUME SupervisorInv, [SupervisorNext]_supervisorVars PROVE SupervisorInv'
  OBVIOUS
<1>t. /\ SupervisorTypes /\ {MaxExits, MaxLost} \subseteq Nat /\ Len(Repos) \in Nat
      /\ DOMAIN Repos = 1..Len(Repos)
      /\ \A i, j \in DOMAIN Repos : Repos[i] = Repos[j] => i = j
      /\ \A i \in DOMAIN Repos : Repos[i] \in Registered
  BY SupervisorAssumption DEF SupervisorInv, Registered
<1> USE DEF SupervisorInv, SupervisorTypes, NoServerLeft, Untouched, Idle
<1>n. \A r \in Registered : alive[r] \in Nat /\ dead[r] \in Nat /\ children[r] \in Nat
  BY <1>t
<1>i. \A r \in Registered :
          /\ alive[r] + dead[r] <= 1 /\ alive[r] + dead[r] <= children[r]
          /\ r \in opening => alive[r] = 0 /\ dead[r] = 0 /\ r \notin restarts
          /\ r \in restarts => alive[r] = 0 /\ dead[r] = 0
  OBVIOUS
<1>1. CASE LoopStarts
  <2>1. UNCHANGED <<at, greeting, restarts, alive, dead, children, signal, lost, slowOpen, exits>>
    BY <1>1 DEF LoopStarts
  <2>2. /\ loop' = "awaits" /\ at \in DOMAIN Repos /\ Untouched(at) /\ Repos[at] \in Registered
        /\ opening' = opening \/ (opening' = opening \cup {Repos[at]} /\ ~shuttingDown)
    <3>1. loop = "starts" /\ at \in 1..Len(Repos) /\ loop' = "awaits"
      BY <1>1, <1>t DEF LoopStarts
    <3>2. opening' = IF shuttingDown THEN opening ELSE opening \cup {Repos[at]}
      BY <1>1 DEF LoopStarts, Started
    <3> HIDE DEF SupervisorInv, SupervisorTypes, NoServerLeft
    <3> QED
      BY <1>t, <3>1, <3>2
  <2>3. SupervisorTypes'
    BY <1>t, <2>1, <2>2
  <2>4. ASSUME NEW i \in DOMAIN Repos, Untouched(i)' PROVE Idle(Repos[i])'
    <3>1. i > at /\ Untouched(i) /\ Repos[i] # Repos[at]
      BY <1>t, <2>1, <2>2, <2>4
    <3> QED
      BY <2>1, <2>2, <3>1
  <2>5. ASSUME NEW r \in Registered
        PROVE  /\ (alive[r] + dead[r] <= 1 /\ alive[r] + dead[r] <= children[r])'
               /\ (r \in opening => alive[r] = 0 /\ dead[r] = 0 /\ r \notin restarts)'
               /\ (r \in restarts => alive[r] = 0 /\ dead[r] = 0)'
    BY <2>1, <2>2
  <2>6. /\ (signal = "killed" /\ ~slowOpen => opening = {} /\ \A r \in Registered : alive[r] = 0)'
        /\ NoServerLeft'
    BY <2>1, <2>2 DEF shuttingDown
  <2> QED
    BY <2>3, <2>4, <2>5, <2>6
<1>2. CASE LoopGoesOn
  BY <1>2, <1>t DEF LoopGoesOn, StillUp
<1>3. ASSUME NEW r \in Registered, Spawn(r) \/ SpawnFails(r) PROVE SupervisorInv'
  <2>1. /\ UNCHANGED <<at, loop, restarts, dead, signal, slowOpen, exits>>
        /\ r \in opening /\ opening' = opening \ {r} /\ greeting' = greeting \cup {r}
        /\ children' = [children EXCEPT ![r] = @ + 1] /\ lost' \subseteq Registered /\ StillUp
        /\ alive' = [alive EXCEPT ![r] = @ + 1] \/ alive' = alive
    BY <1>3, <1>t DEF Spawn, SpawnFails
  <2>2. /\ alive' \in [Registered -> Nat] /\ children' \in [Registered -> Nat]
        /\ alive'[r] \in {0, 1} /\ children'[r] = children[r] + 1
        /\ \A q \in Registered \ {r} : alive'[q] = alive[q] /\ children'[q] = children[q]
    <3>1. /\ alive \in [Registered -> Nat] /\ children \in [Registered -> Nat]
          /\ alive[r] = 0 /\ children[r] \in Nat
      BY <1>i, <1>n, <1>t, <2>1
    <3> HIDE DEF SupervisorInv, SupervisorTypes, NoServerLeft
    <3>2. /\ children' \in [Registered -> Nat] /\ children'[r] = children[r] + 1
          /\ \A q \in Registered \ {r} : children'[q] = children[q]
      BY <2>1, <3>1
    <3>3. /\ alive' \in [Registered -> Nat] /\ alive'[r] \in {0, 1}
          /\ \A q \in Registered \ {r} : alive'[q] = alive[q]
      BY <2>1, <3>1
    <3> QED
      BY <3>2, <3>3
  <2>3. SupervisorTypes'
    BY <1>t, <2>1, <2>2
  <2>4. ASSUME NEW i \in DOMAIN Repos, Untouched(i)' PROVE Idle(Repos[i])'
    <3>1. Untouched(i) /\ Repos[i] # r /\ Repos[i] \in Registered
      BY <1>t, <2>1, <2>4
    <3> QED
      BY <2>1, <2>2, <3>1
  <2>5. ASSUME NEW q \in Registered
        PROVE  /\ (alive[q] + dead[q] <= 1 /\ alive[q] + dead[q] <= children[q])'
               /\ (q \in opening => alive[q] = 0 /\ dead[q] = 0 /\ q \notin restarts)'
               /\ (q \in restarts => alive[q] = 0 /\ dead[q] = 0)'
    <3> HIDE DEF SupervisorInv, SupervisorTypes, NoServerLeft
    <3>1. CASE q = r
      BY <1>i, <1>n, <2>1, <2>2, <3>1
    <3>2. CASE q # r
      BY <1>i, <1>n, <2>1, <2>2, <3>2
    <3> QED
      BY <3>1, <3>2
  <2>6. /\ (signal = "killed" /\ ~slowOpen => opening = {} /\ \A q \in Registered : alive[q] = 0)'
        /\ NoServerLeft'
    BY <2>1 DEF StillUp
  <2> QED
    BY <2>3, <2>4, <2>5, <2>6
<1>5. ASSUME NEW r \in Registered, OpenFails(r) PROVE SupervisorInv'
  BY <1>5, <1>t DEF OpenFails, StillUp
<1>6. ASSUME NEW r \in Registered, Greeted(r) PROVE SupervisorInv'
  BY <1>6, <1>t DEF Greeted, StillUp
<1>7. ASSUME NEW r \in Registered, GreetingBreaks(r) \/ ChildDies(r) \/ ChildExited(r)
      PROVE  SupervisorInv'
  <2>1. CASE GreetingBreaks(r)
    BY <1>7, <1>t, <2>1 DEF GreetingBreaks, StillUp, shuttingDown
  <2>2. CASE ChildDies(r)
    BY <1>7, <1>t, <2>2 DEF ChildDies, StillUp, shuttingDown
  <2>3. CASE ChildExited(r)
    BY <1>7, <1>t, <2>3 DEF ChildExited, ArmedRestart, StillUp, shuttingDown
  <2> QED
    BY <1>7, <2>1, <2>2, <2>3
<1>8. ASSUME NEW r \in Registered, RestartDue(r) PROVE SupervisorInv'
  <2>1. /\ UNCHANGED <<at, loop, greeting, alive, dead, children, signal, lost, slowOpen, exits>>
        /\ r \in restarts /\ restarts' = restarts \ {r} /\ StillUp
        /\ opening' = opening \/ (opening' = opening \cup {r} /\ ~shuttingDown)
    BY <1>8 DEF RestartDue, Started
  <2>2. SupervisorTypes'
    BY <1>t, <2>1
  <2>3. ASSUME NEW i \in DOMAIN Repos, Untouched(i)' PROVE Idle(Repos[i])'
    <3>1. Untouched(i) /\ Repos[i] # r
      BY <1>t, <2>1, <2>3
    <3> QED
      BY <2>1, <3>1
  <2>4. ASSUME NEW q \in Registered
        PROVE  /\ (alive[q] + dead[q] <= 1 /\ alive[q] + dead[q] <= children[q])'
               /\ (q \in opening => alive[q] = 0 /\ dead[q] = 0 /\ q \notin restarts)'
               /\ (q \in restarts => alive[q] = 0 /\ dead[q] = 0)'
    BY <2>1
  <2>5. /\ (signal = "killed" /\ ~slowOpen => opening = {} /\ \A q \in Registered : alive[q] = 0)'
        /\ NoServerLeft'
    BY <2>1 DEF StillUp, shuttingDown
  <2> QED
    BY <2>2, <2>3, <2>4, <2>5
<1>9. CASE Signalled \/ AllGone \/ CleanExit
  BY <1>9, <1>t DEF Signalled, AllGone, CleanExit, NoChildren, shuttingDown, StillUp
<1>10. CASE GraceEnds
  <2>1. /\ UNCHANGED <<at, loop, opening, greeting, restarts, children, lost, exits>>
        /\ signal' = "killed" /\ slowOpen' = (opening # {})
        /\ alive' = [r \in Registered |-> IF children[r] > 0 THEN 0 ELSE alive[r]]
        /\ dead' = [r \in Registered |-> IF children[r] > 0 THEN dead[r] + alive[r] ELSE dead[r]]
    BY <1>10 DEF GraceEnds
  <2>2. ASSUME NEW r \in Registered
        PROVE  alive'[r] = 0 /\ dead'[r] = dead[r] + alive[r] /\ dead'[r] \in Nat
    <3> HIDE DEF SupervisorInv, SupervisorTypes, NoServerLeft
    <3>1. /\ alive'[r] = IF children[r] > 0 THEN 0 ELSE alive[r]
          /\ dead'[r] = IF children[r] > 0 THEN dead[r] + alive[r] ELSE dead[r]
      BY <2>1
    <3> QED
      BY <1>i, <1>n, <3>1
  <2>3. alive' \in [Registered -> Nat] /\ dead' \in [Registered -> Nat] /\ slowOpen' \in BOOLEAN
    BY <2>1, <2>2
  <2>4. SupervisorTypes'
    BY <1>t, <2>1, <2>3
  <2>5. ASSUME NEW i \in DOMAIN Repos, Untouched(i)' PROVE Idle(Repos[i])'
    BY <1>n, <1>t, <2>1, <2>2, <2>5
  <2>6. ASSUME NEW q \in Registered
        PROVE  /\ (alive[q] + dead[q] <= 1 /\ alive[q] + dead[q] <= children[q])'
               /\ (q \in opening => alive[q] = 0 /\ dead[q] = 0 /\ q \notin restarts)'
               /\ (q \in restarts => alive[q] = 0 /\ dead[q] = 0)'
    <3> HIDE DEF SupervisorInv, SupervisorTypes, NoServerLeft
    <3> QED
      BY <1>i, <1>n, <2>1, <2>2
  <2>7. /\ (signal = "killed" /\ ~slowOpen => opening = {} /\ \A q \in Registered : alive[q] = 0)'
        /\ NoServerLeft'
    BY <2>1, <2>2
  <2> QED
    BY <2>4, <2>5, <2>6, <2>7
<1>12. CASE UnitRestarts \/ UnitStops
  <2>1. /\ at' = 1 /\ loop' = "starts" /\ opening' = {} /\ greeting' = {} /\ restarts' = {}
        /\ alive' = NoProcess /\ dead' = NoProcess /\ children' = NoProcess
        /\ UNCHANGED <<lost, slowOpen, exits>> /\ signal' \in {"none", "exited"}
    BY <1>12 DEF UnitRestarts, UnitStops, Cleared
  <2>2. \A r \in Registered : NoProcess[r] = 0
    BY DEF NoProcess
  <2>3. NoProcess \in [Registered -> Nat] /\ 1 \in 1..Len(Repos) + 1
    BY <1>t DEF NoProcess
  <2>4. SupervisorTypes'
    BY <1>t, <2>1, <2>3
  <2> QED
    BY <1>t, <2>1, <2>2, <2>4
<1>11. CASE UNCHANGED supervisorVars
  BY <1>11, <1>t DEF supervisorVars
<1> QED
  BY <1>1, <1>2, <1>3, <1>5, <1>6, <1>7, <1>8, <1>9, <1>10, <1>11, <1>12
  DEF SupervisorNext, Opened

(* However the loop, restart timers, servers that end and a signal         *)
(* interleave, also over supervisors that a handshake ends and the unit    *)
(* starts again, a repository has at most one server, being started,       *)
(* running, dead or waiting for its restart, and none is left behind by a  *)
(* shutdown whose log files open in time (scripts/watchers.mjs).           *)
THEOREM SupervisorStaysSound == SupervisorSpec => []SupervisorIsSound
<1>1. SupervisorInit => SupervisorInv
  <2> SUFFICES ASSUME SupervisorInit PROVE SupervisorInv
    OBVIOUS
  <2>1. Len(Repos) \in Nat /\ MaxExits \in Nat /\ \A i \in DOMAIN Repos : Repos[i] \in Registered
    BY SupervisorAssumption DEF Registered
  <2>2. /\ alive \in [Registered -> Nat] /\ dead \in [Registered -> Nat]
        /\ children \in [Registered -> Nat]
        /\ \A r \in Registered : alive[r] = 0 /\ dead[r] = 0 /\ children[r] = 0
    BY DEF SupervisorInit, NothingStarted, NoProcess
  <2>3. SupervisorTypes
    <3>1. at \in 1..Len(Repos) + 1 /\ exits \in 0..MaxExits
      BY <2>1 DEF SupervisorInit, NothingStarted
    <3> QED
      BY <2>2, <3>1 DEF SupervisorInit, NothingStarted, SupervisorTypes
  <2>4. opening = {} /\ greeting = {} /\ restarts = {} /\ signal = "none"
    BY DEF SupervisorInit, NothingStarted
  <2>5. \A i \in DOMAIN Repos : Idle(Repos[i])
    BY <2>1, <2>2, <2>4 DEF Idle
  <2> QED
    BY <2>2, <2>3, <2>4, <2>5 DEF SupervisorInv, NoServerLeft
<1> QED
  BY <1>1, SupervisorStep, SupervisorInvIsSound, PTL DEF SupervisorSpec

-----------------------------------------------------------------------------
(* The switch from one project to another.                                 *)

SwitchStages == {"none", "config", "passes", "sweep", "done", "failed"}

SwitchTypes ==
    /\ {root, open, relRoot, watched} \subseteq Projects \cup {NoProject}
    /\ initialized \in BOOLEAN /\ life \in {"running", "draining", "closed"}
    /\ overlapped \in BOOLEAN
    /\ timers \subseteq File /\ handler \subseteq File
    /\ handler = {} \/ \E f \in File : handler = {f}
    /\ jobs \subseteq Job
    /\ call \in [Inits -> [at : SwitchStages, project : Projects \cup {NoProject}]]
    /\ \A i \in Inits : InInit(i) => call[i].project \in Projects
    /\ (\E i \in Inits : call[i].at # "none") => root \in Projects
    /\ fileRows \in [Projects -> [Paths -> Projects \cup {NoProject}]]
    /\ summaries \in [Projects -> [Paths -> [of : Projects, relative : BOOLEAN] \cup {NoProject}]]
    /\ events \in 0..MaxEvents

\* Until the first init() is over nothing is handled.
FirstAlone ==
    call[1].at \notin {"done", "failed"} =>
        /\ ~initialized /\ handler = {}
        /\ \A i \in Inits : i # 1 => call[i].at = "none"

\* The open database has the root its paths are translated with.
OpenIsRelRoot == open # NoProject => open = relRoot

\* One call of init() at a time, none failed so far, no shutdown yet.
Orderly ==
    life = "running" /\ ~overlapped /\ \A i \in Inits : call[i].at # "failed"

\* How far an orderly init() has brought root, database and watcher together.
InStep ==
    Orderly =>
        /\ \A i, j \in Inits : InInit(i) /\ InInit(j) => i = j
        /\ \A i \in Inits :
              /\ InInit(i) => root = call[i].project
              /\ call[i].at = "config" => open = NoProject
              /\ call[i].at \in {"passes", "sweep"} => open = root /\ relRoot = root
              /\ call[i].at = "sweep" => watched = root
        /\ initialized /\ (\A i \in Inits : ~InInit(i)) =>
              root = open /\ relRoot = open /\ watched = open

SwitchInv ==
    SwitchTypes /\ FirstAlone /\ OpenIsRelRoot /\ InStep
    /\ NoForeignRows /\ OnlyResubmittedCross

(* It says what the runs check.                                            *)
LEMMA SwitchInvIsSound == SwitchInv => SwitchIsSound
<1> SUFFICES ASSUME SwitchInv PROVE SwitchIsSound
  OBVIOUS
<1>1. Cardinality(handler) <= 1
  <2>1. Cardinality(handler) \in {0, 1}
    <3>1. handler = {} \/ \E f \in File : handler = {f}
      BY DEF SwitchInv, SwitchTypes
    <3>2. (\A f : Cardinality({f}) = 1) /\ Cardinality({}) = 0
      BY FS_Singleton, FS_EmptySet
    <3> QED
      BY <3>1, <3>2
  <2> QED
    BY <2>1
<1>2. SwitchTypeOK
  BY <1>1 DEF SwitchInv, SwitchTypes, SwitchTypeOK
<1>3. FirstSweepAlone
  BY DEF SwitchInv, FirstAlone, FirstSweepAlone, Sweeping
<1>4. OneProject
  BY DEF SwitchInv, InStep, Orderly, InInit, OneProject
<1> QED
  BY <1>2, <1>3, <1>4 DEF SwitchInv, SwitchIsSound

(* What a handler or a pass records, the database of the same project      *)
(* takes in; it takes nothing else.                                        *)
LEMMA RecordKeeps ==
    ASSUME SwitchInv, NEW f \in File, Record(f)
    PROVE  /\ fileRows' \in [Projects -> [Paths -> Projects \cup {NoProject}]]
           /\ \A p \in Projects, x \in Paths : fileRows'[p][x] \in {NoProject, p}
BY DEF SwitchInv, SwitchTypes, OpenIsRelRoot, NoForeignRows, Record, UnderRoot, File

(* Types, case by case.                                                    *)
LEMMA SwitchTypesStep == SwitchInv /\ [SwitchNext]_switchVars => SwitchTypes'
<1> SUFFICES ASSUME SwitchInv, [SwitchNext]_switchVars PROVE SwitchTypes'
  OBVIOUS
<1>t. SwitchTypes /\ SwitchInv /\ MaxEvents \in Nat
  BY SwitchConstants DEF SwitchInv
<1> USE DEF SwitchTypes
<1>1. ASSUME NEW i \in Inits, NEW p \in Projects, InitBegin(i, p) PROVE SwitchTypes'
  BY <1>1, <1>t DEF InitBegin, InInit, SwitchStages
<1>2. ASSUME NEW i \in Inits, InitOpen(i) PROVE SwitchTypes'
  BY <1>2, <1>t DEF InitOpen, InInit, SwitchStages
<1>3. ASSUME NEW i \in Inits, InitTree(i) PROVE SwitchTypes'
  <2>1. PICK stage \in {"sweep", "failed"} : call' = [call EXCEPT ![i].at = stage]
    BY <1>3 DEF InitTree
  <2>2. /\ call' \in [Inits -> [at : SwitchStages, project : Projects \cup {NoProject}]]
        /\ \A k \in Inits : call'[k].project = call[k].project
        /\ \A k \in Inits : k # i => call'[k] = call[k]
    BY <1>t, <2>1 DEF SwitchStages
  <2>3. /\ {watched'} \subseteq Projects \cup {NoProject}
        /\ InInit(i) /\ call[i].at # "none"
    BY <1>3, <1>t DEF InitTree, InInit
  <2>4. \A k \in Inits : InInit(k)' => call'[k].project \in Projects
    BY <1>t, <2>2, <2>3 DEF InInit
  <2> QED
    BY <1>3, <1>t, <2>2, <2>4, <2>3 DEF InitTree
<1>4. ASSUME NEW i \in Inits, InitReady(i) PROVE SwitchTypes'
  <2>1. /\ call' \in [Inits -> [at : SwitchStages, project : Projects \cup {NoProject}]]
        /\ \A k \in Inits : k # i => call'[k] = call[k]
        /\ call'[i].at = "done" /\ root \in Projects
    BY <1>4, <1>t DEF InitReady, Sweeping, SwitchStages
  <2>2. jobs' \subseteq Job
    <3>1. PICK stale \in SUBSET Paths :
             jobs' = jobs \cup {[of |-> root, path |-> x, relative |-> TRUE] : x \in stale}
      BY <1>4 DEF InitReady
    <3>2. \A x \in Paths : [of |-> root, path |-> x, relative |-> TRUE] \in Job
      BY <2>1 DEF Job
    <3> QED
      BY <1>t, <3>1, <3>2
  <2> QED
    BY <1>4, <1>t, <2>1, <2>2 DEF InitReady, InInit
<1>5. ASSUME NEW i \in Inits, NEW x \in Paths, InitWrites(i, x) PROVE SwitchTypes'
  <2>1. <<call[i].project, x>> \in File
    BY <1>5, <1>t DEF InitWrites, InInit, File
  <2> QED
    BY <1>5, <1>t, <2>1, RecordKeeps DEF InitWrites, InInit
<1>6. ASSUME NEW i \in Inits, NEW x \in Paths, SweepWrites(i, x) PROVE SwitchTypes'
  <2>1. <<root, x>> \in File
    BY <1>6, <1>t DEF SweepWrites, Sweeping, File
  <2> QED
    BY <1>6, <1>t, <2>1, RecordKeeps DEF SweepWrites, InInit
<1>7. ASSUME NEW x \in Paths, FileEvent(x) PROVE SwitchTypes'
  BY <1>7, <1>t DEF FileEvent, InInit, File
<1>8. ASSUME NEW f \in File, BeginHandling(f) PROVE SwitchTypes'
  BY <1>8, <1>t DEF BeginHandling, InInit
<1>9. ASSUME NEW f \in File, EndHandling(f) PROVE SwitchTypes'
  <2>1. [of |-> f[1], path |-> f[2], relative |-> FALSE] \in Job
    BY DEF File, Job
  <2> QED
    BY <1>9, <1>t, <2>1, RecordKeeps DEF EndHandling, InInit
<1>10. ASSUME NEW j \in Job, Answer(j) PROVE SwitchTypes'
  <2>1. [of |-> j.of, relative |-> j.relative] \in [of : Projects, relative : BOOLEAN]
        /\ j.path \in Paths
    BY DEF Job
  <2>2. summaries' \in [Projects -> [Paths -> [of : Projects, relative : BOOLEAN] \cup {NoProject}]]
    BY <1>10, <1>t, <2>1 DEF Answer, UnderRoot
  <2> QED
    BY <1>10, <1>t, <2>2 DEF Answer, InInit
<1>11. CASE Shutdown \/ CloseDown
  BY <1>11, <1>t DEF Shutdown, CloseDown, InInit
<1>12. CASE UNCHANGED switchVars
  BY <1>12, <1>t DEF switchVars, InInit
<1> QED
  BY <1>1, <1>2, <1>3, <1>4, <1>5, <1>6, <1>7, <1>8, <1>9, <1>10, <1>11, <1>12 DEF SwitchNext

(* What it says of calls, step by step.                                    *)
LEMMA SwitchCallsStep ==
    SwitchInv /\ [SwitchNext]_switchVars => (FirstAlone /\ OpenIsRelRoot /\ InStep)'
<1> SUFFICES ASSUME SwitchInv, [SwitchNext]_switchVars
             PROVE  (FirstAlone /\ OpenIsRelRoot /\ InStep)'
  OBVIOUS
<1>t. /\ call \in [Inits -> [at : SwitchStages, project : Projects \cup {NoProject}]]
      /\ FirstAlone /\ OpenIsRelRoot /\ InStep /\ 1 \in Inits /\ Inits \subseteq Nat
      /\ life \in {"running", "draining", "closed"} /\ initialized \in BOOLEAN
      /\ overlapped \in BOOLEAN
  BY SwitchConstants DEF SwitchInv, SwitchTypes
<1>1. ASSUME NEW i \in Inits, NEW p \in Projects, InitBegin(i, p)
      PROVE  (FirstAlone /\ OpenIsRelRoot /\ InStep)'
  <2>1. /\ call'[i] = [at |-> "config", project |-> p]
        /\ \A k \in Inits : k # i => call'[k] = call[k]
        /\ call[i].at = "none"
        /\ i # 1 => call[1].at \in {"done", "failed"}
    BY <1>1, <1>t DEF InitBegin, MayBegin
  <2>2. FirstAlone'
    BY <1>1, <1>t, <2>1 DEF InitBegin, MayBegin, FirstAlone
  <2>3. OpenIsRelRoot'
    BY <1>1 DEF InitBegin, OpenIsRelRoot
  <2>4. ASSUME Orderly' PROVE Orderly /\ \A k \in Inits : k # i => ~InInit(k)
    <3>1. overlapped' = (overlapped \/ \E j \in Inits : InInit(j)) /\ ~overlapped'
      BY <1>1, <2>4 DEF InitBegin, Orderly
    <3>2. ~overlapped /\ \A j \in Inits : ~InInit(j)
      BY <3>1
    <3> QED
      BY <1>1, <2>1, <2>4, <3>2 DEF InitBegin, Orderly
  <2>5. InStep'
    BY <1>1, <1>t, <2>1, <2>4 DEF InitBegin, InStep, InInit
  <2> QED
    BY <2>2, <2>3, <2>5
<1>2. ASSUME NEW i \in Inits, NEW stage \in SwitchStages \ {"none"},
             call' = [call EXCEPT ![i].at = stage], InInit(i), UNCHANGED <<life, overlapped>>
      PROVE  /\ call'[i].at = stage /\ call'[i].project = call[i].project
             /\ \A k \in Inits : k # i => call'[k] = call[k]
             /\ Orderly' =>
                  /\ Orderly
                  /\ \A k \in Inits : k # i => ~InInit(k) /\ ~InInit(k)'
                  /\ \A k \in Inits : k # i => call'[k].at \in {"none", "done"}
  BY <1>2, <1>t DEF SwitchStages, InInit, Orderly, InStep
<1>3. ASSUME NEW i \in Inits, InitOpen(i) PROVE (FirstAlone /\ OpenIsRelRoot /\ InStep)'
  <2>1. PICK stage \in {"failed", "passes"} : call' = [call EXCEPT ![i].at = stage]
    BY <1>3 DEF InitOpen
  <2>2. InInit(i) /\ stage \in SwitchStages \ {"none"}
    BY <1>3 DEF InitOpen, InInit, SwitchStages
  <2>3. OpenIsRelRoot'
    BY <1>3 DEF InitOpen, OpenIsRelRoot
  <2>4. FirstAlone'
    BY <1>3, <1>t, <1>2, <2>1, <2>2 DEF InitOpen, InInit, FirstAlone
  <2>5. InStep'
    BY <1>3, <1>t, <1>2, <2>1, <2>2 DEF InitOpen, InStep, InInit, Orderly
  <2> QED
    BY <2>3, <2>4, <2>5
<1>4. ASSUME NEW i \in Inits, InitTree(i) PROVE (FirstAlone /\ OpenIsRelRoot /\ InStep)'
  <2>1. PICK stage \in {"sweep", "failed"} : call' = [call EXCEPT ![i].at = stage]
    BY <1>4 DEF InitTree
  <2>2. InInit(i) /\ stage \in SwitchStages \ {"none"}
    BY <1>4 DEF InitTree, InInit, SwitchStages
  <2>3. OpenIsRelRoot'
    BY <1>4, <1>t DEF InitTree, OpenIsRelRoot
  <2>4. FirstAlone'
    BY <1>4, <1>t, <1>2, <2>1, <2>2 DEF InitTree, InInit, FirstAlone
  <2>5. Orderly' => watched' = root
    <3>1. Orderly' => call'[i].at # "failed"
      BY DEF Orderly
    <3>2. call' = [call EXCEPT ![i].at = "failed"] => call'[i].at = "failed"
      BY <1>t DEF SwitchStages
    <3> QED
      BY <1>4, <3>1, <3>2 DEF InitTree
  <2>6. InStep'
    BY <1>4, <1>t, <1>2, <2>1, <2>2, <2>5 DEF InitTree, InStep, InInit, Orderly
  <2> QED
    BY <2>3, <2>4, <2>6
<1>5. ASSUME NEW i \in Inits, InitReady(i) PROVE (FirstAlone /\ OpenIsRelRoot /\ InStep)'
  <2>1. call' = [call EXCEPT ![i].at = "done"] /\ InInit(i) /\ "done" \in SwitchStages \ {"none"}
    BY <1>5 DEF InitReady, Sweeping, InInit, SwitchStages
  <2>2. FirstAlone'
    BY <1>5, <1>t, <1>2, <2>1 DEF InitReady, InInit, FirstAlone
  <2>3. InStep'
    BY <1>5, <1>t, <1>2, <2>1 DEF InitReady, Sweeping, InStep, InInit, Orderly
  <2> QED
    BY <1>5, <1>t, <2>2, <2>3 DEF InitReady, OpenIsRelRoot
<1>6. ASSUME UNCHANGED <<root, open, relRoot, watched, call, initialized, life, overlapped>>,
             handler' = {} \/ initialized
      PROVE  (FirstAlone /\ OpenIsRelRoot /\ InStep)'
  BY <1>6, <1>t DEF FirstAlone, OpenIsRelRoot, InStep, InInit, Orderly
<1>7. CASE Shutdown \/ CloseDown
  BY <1>7, <1>t
  DEF Shutdown, CloseDown, MutexFree, FirstAlone, OpenIsRelRoot, InStep, InInit, Orderly
<1>8. ASSUME NEW i \in Inits, NEW x \in Paths, InitWrites(i, x) \/ SweepWrites(i, x)
      PROVE  (FirstAlone /\ OpenIsRelRoot /\ InStep)'
  BY <1>8, <1>t
  DEF InitWrites, SweepWrites, FirstAlone, OpenIsRelRoot, InStep, InInit, Orderly
<1>9. ASSUME NEW x \in Paths, FileEvent(x) PROVE (FirstAlone /\ OpenIsRelRoot /\ InStep)'
  BY <1>9, <1>t DEF FileEvent, FirstAlone, OpenIsRelRoot, InStep, InInit, Orderly
<1>10. ASSUME NEW f \in File, BeginHandling(f) \/ EndHandling(f)
       PROVE  (FirstAlone /\ OpenIsRelRoot /\ InStep)'
  BY <1>6, <1>10 DEF BeginHandling, EndHandling, Handled
<1>11. ASSUME NEW j \in Job, Answer(j) PROVE (FirstAlone /\ OpenIsRelRoot /\ InStep)'
  BY <1>11, <1>t DEF Answer, FirstAlone, OpenIsRelRoot, InStep, InInit, Orderly
<1>12. CASE UNCHANGED switchVars
  BY <1>12, <1>t DEF switchVars, FirstAlone, OpenIsRelRoot, InStep, InInit, Orderly
<1> QED
  BY <1>1, <1>3, <1>4, <1>5, <1>7, <1>8, <1>9, <1>10, <1>11, <1>12 DEF SwitchNext

(* Rows and summaries: what a step records belongs to the open database,   *)
(* but for what a resubmitted job names by its relative path.              *)
LEMMA SwitchRowsStep ==
    SwitchInv /\ [SwitchNext]_switchVars => (NoForeignRows /\ OnlyResubmittedCross)'
<1> SUFFICES ASSUME SwitchInv, [SwitchNext]_switchVars
             PROVE  NoForeignRows' /\ OnlyResubmittedCross'
  OBVIOUS
<1>t. SwitchTypes /\ OpenIsRelRoot /\ NoForeignRows /\ OnlyResubmittedCross
  BY DEF SwitchInv
<1>1. ASSUME NEW f \in File, Record(f), UNCHANGED summaries
      PROVE  NoForeignRows' /\ OnlyResubmittedCross'
  BY <1>1, <1>t, RecordKeeps DEF NoForeignRows, OnlyResubmittedCross
<1>2. ASSUME NEW i \in Inits, NEW x \in Paths, InitWrites(i, x)
      PROVE  NoForeignRows' /\ OnlyResubmittedCross'
  <2>1. <<call[i].project, x>> \in File
    BY <1>2, <1>t DEF SwitchTypes, InitWrites, InInit, File
  <2> QED
    BY <1>1, <1>2, <2>1 DEF InitWrites
<1>3. ASSUME NEW i \in Inits, NEW x \in Paths, SweepWrites(i, x)
      PROVE  NoForeignRows' /\ OnlyResubmittedCross'
  <2>1. <<root, x>> \in File
    BY <1>3, <1>t DEF SwitchTypes, SweepWrites, Sweeping, File
  <2> QED
    BY <1>1, <1>3, <2>1 DEF SweepWrites
<1>4. ASSUME NEW f \in File, EndHandling(f) PROVE NoForeignRows' /\ OnlyResubmittedCross'
  BY <1>1, <1>4 DEF EndHandling
<1>5. ASSUME NEW j \in Job, Answer(j) PROVE NoForeignRows' /\ OnlyResubmittedCross'
  <2>1. NoForeignRows'
    BY <1>5, <1>t DEF Answer, NoForeignRows
  <2>2. CASE UNCHANGED summaries
    BY <1>t, <2>1, <2>2 DEF OnlyResubmittedCross
  <2>3. CASE ~UNCHANGED summaries
    <3>1. /\ summaries' = [summaries EXCEPT
                             ![open][j.path] = [of |-> j.of, relative |-> j.relative]]
          /\ UnderRoot(<<IF j.relative THEN root ELSE j.of, j.path>>)
      BY <1>5, <2>3 DEF Answer
    <3>2. j.of = open \/ j.relative
      BY <1>t, <3>1 DEF UnderRoot, OpenIsRelRoot, Job
    <3>3. summaries \in [Projects ->
                           [Paths -> [of : Projects, relative : BOOLEAN] \cup {NoProject}]]
      BY <1>t DEF SwitchTypes
    <3> QED
      BY <1>t, <2>1, <3>1, <3>2, <3>3 DEF OnlyResubmittedCross
  <2> QED
    BY <2>2, <2>3
<1>6. ASSUME UNCHANGED <<fileRows, summaries>>
      PROVE  NoForeignRows' /\ OnlyResubmittedCross'
  BY <1>6, <1>t DEF NoForeignRows, OnlyResubmittedCross
<1> QED
  BY <1>2, <1>3, <1>4, <1>5, <1>6
  DEF SwitchNext, InitBegin, InitOpen, InitTree, InitReady, FileEvent, BeginHandling,
      Shutdown, CloseDown, switchVars

(* Two projects never mix in one server: whatever timers, handlers, jobs   *)
(* and starts are left over from the project before, tables describe files *)
(* of their own project, and an orderly init() brings root, database and   *)
(* watcher together (coordinator.ts init, db/repository.ts relIn).         *)
THEOREM SwitchStaysSound == SwitchSpec => []SwitchIsSound
<1>1. SwitchInit => SwitchInv
  <2> SUFFICES ASSUME SwitchInit PROVE SwitchInv
    OBVIOUS
  <2>1. /\ call \in [Inits -> [at : SwitchStages, project : Projects \cup {NoProject}]]
        /\ \A i \in Inits : call[i].at = "none"
        /\ 0 \in 0..MaxEvents
    BY SwitchConstants DEF SwitchInit, SwitchStages
  <2>2. SwitchTypes
    BY <2>1 DEF SwitchInit, SwitchTypes, InInit
  <2> QED
    BY <2>1, <2>2
    DEF SwitchInit, SwitchInv, FirstAlone, OpenIsRelRoot, InStep, InInit, NoForeignRows,
        OnlyResubmittedCross
<1>2. SwitchInv /\ [SwitchNext]_switchVars => SwitchInv'
  BY SwitchTypesStep, SwitchCallsStep, SwitchRowsStep DEF SwitchInv
<1> QED
  BY <1>1, <1>2, SwitchInvIsSound, PTL DEF SwitchSpec

-----------------------------------------------------------------------------
(* The first start.                                                        *)

PassNames == {Passes[i] : i \in DOMAIN Passes}
BootState == [at : Stages \cup PassNames, running : BOOLEAN,
              left : SUBSET (Sources \cup JsonTrees), tree : SUBSET JsonTrees]

BootTypes ==
    /\ format \in {"none", "relative_v1", "other"}
    /\ json \in [JsonTrees -> {"none", "json", "bak"}]
    /\ symbols \subseteq rows /\ rows \subseteq Sources
    /\ callRows \subseteq CallRow
    /\ gates \subseteq PassNames
    /\ boot \in [Servers -> BootState]
    /\ skipped \subseteq Sources /\ failedTrees \subseteq JsonTrees /\ threw \subseteq Servers
    /\ \A s \in Servers : boot[s].running => boot[s].at \in PassNames /\ boot[s].left \subseteq rows

\* Faults are counted; a pass throws in a server that knows.
FaultsCounted ==
    /\ kills \in Nat /\ throws \in Nat /\ IsFiniteSet(skipped)
    /\ kills + throws + Cardinality(skipped) <= MaxFaults
    /\ throws = 0 => threw = {}

\* A tree about to be renamed is in the database.
RenamedIsMigrated ==
    /\ BackupIsMigrated
    /\ \A s \in Servers : boot[s].at = "rename" => \A t \in boot[s].tree : TreeOf[t] \subseteq rows

\* A server whose passes do not throw has the gates of the passes behind it.
Behind(x, gs) ==
    /\ \A i \in DOMAIN Passes : x = Passes[i] => \A j \in 1..i - 1 : Passes[j] \in gs
    /\ x \in {"tree", "up"} => PassNames \subseteq gs

GatesBehind == \A s \in Servers \ threw : Behind(boot[s].at, gates)

\* What a running pass has not visited is still left.
VisitedOrLeft ==
    ~lateTree =>
        /\ \A p \in gates : SourcesOf(p) \subseteq symbols \cup skipped
        /\ \A s \in Servers : boot[s].running =>
              SourcesOf(boot[s].at) \subseteq boot[s].left \cup symbols \cup skipped

\* One server starts at a time, and its pass has no gate yet.
StartsAlone ==
    ~overlap =>
        /\ \A r, s \in Servers : Starting(r) /\ Starting(s) => r = s
        /\ \A s \in Servers : boot[s].running => boot[s].at \notin gates

\* There are calls only once the passes before the last have their gates.
CallsComeLast ==
    ~overlap /\ throws = 0 =>
        /\ \A c \in callRows : c.callerLive
        /\ callRows # {} => \A i \in 1..Len(Passes) - 1 : Passes[i] \in gates

\* No tree is left but those that failed.
NoJson == \A t \in JsonTrees : json[t] = "json" => t \in failedTrees
Migrating(s) == boot[s].at \in {"trees", "rename"}

\* A start finds every tree, and an earlier one that was not killed left none, but
\* for what failed.
TreesFound ==
    ~overlap /\ kills = 0 =>
        /\ \A s \in Servers : Migrating(s) => \A t \in JsonTrees :
              json[t] = "json" => t \in boot[s].left \cup failedTrees
        /\ \A s \in Servers : boot[s].at \in PassNames \cup {"tree", "up"} => NoJson
        /\ rows # {} => NoJson \/ \E s \in Servers : Migrating(s)

BootInv ==
    /\ BootTypes /\ FaultsCounted /\ RenamedIsMigrated /\ GatesBehind /\ VisitedOrLeft
    /\ StartsAlone /\ CallsComeLast /\ TreesFound

(* The passes, in their order.                                             *)
LEMMA PassFacts ==
    /\ Len(Passes) \in Nat /\ Len(Passes) >= 2 /\ DOMAIN Passes = 1..Len(Passes)
    /\ Passes[1] = "symbols" /\ Passes[Len(Passes)] = "calls"
    /\ \A i \in 1..Len(Passes) : Passes[i] \in LanguageGates <=> i # 1 /\ i # Len(Passes)
    /\ LanguageGates \subseteq PassNames
    /\ \A i, j \in 1..Len(Passes) : Passes[i] = Passes[j] => i = j
    /\ \A i \in 1..Len(Passes) : Passes[i] \notin Stages \ {"symbols", "calls"}
<1> DEFINE n == Len(Languages)
           first == <<"symbols">>
           last == <<"calls">>
           S == {"symbols", "calls"} \cup LanguageGates
<1>1. /\ Languages \in Seq(S) /\ n \in Nat /\ DOMAIN Languages = 1..n
      /\ \A i \in 1..n : Languages[i] \notin Stages
      /\ \A i, j \in 1..n : Languages[i] = Languages[j] => i = j
  <2>1. Languages \in Seq(LanguageGates)
    BY BootConstants DEF LanguageGates
  <2> QED
    BY <2>1, BootConstants
<1>2. /\ first \in Seq(S) /\ Len(first) = 1 /\ first[1] = "symbols"
      /\ last \in Seq(S) /\ Len(last) = 1 /\ last[1] = "calls"
  <2>0. "symbols" \in S /\ "calls" \in S
    OBVIOUS
  <2> HIDE DEF S
  <2>1. /\ <<"symbols">> \in Seq(S) /\ Len(<<"symbols">>) = 1
        /\ <<"calls">> \in Seq(S) /\ Len(<<"calls">>) = 1
    BY <2>0
  <2>2. <<"symbols">>[1] = "symbols" /\ <<"calls">>[1] = "calls"
    OBVIOUS
  <2> QED
    BY <2>1, <2>2
<1> HIDE DEF first, last, S
<1>3. /\ first \o Languages \in Seq(S) /\ Len(first \o Languages) = n + 1
      /\ (first \o Languages)[1] = "symbols"
      /\ \A i \in 2..n + 1 : (first \o Languages)[i] = Languages[i - 1]
  <2>1. /\ first \o Languages \in Seq(S) /\ Len(first \o Languages) = 1 + n
        /\ \A i \in 1..1 + n :
              (first \o Languages)[i] = IF i <= 1 THEN first[i] ELSE Languages[i - 1]
    <3>0. first \in Seq(S) /\ Languages \in Seq(S)
      BY <1>1, <1>2
    <3>1. /\ first \o Languages \in Seq(S)
          /\ Len(first \o Languages) = Len(first) + Len(Languages)
          /\ \A i \in 1..Len(first) + Len(Languages) :
                (first \o Languages)[i] = IF i <= Len(first) THEN first[i] ELSE Languages[i - Len(first)]
      BY <3>0, ConcatProperties
    <3>2. Len(first) = 1
      BY <1>2
    <3> QED
      BY <3>1, <3>2
  <2>2. /\ 1 + n = n + 1 /\ 1 \in 1..1 + n /\ 1 <= 1
        /\ \A i \in 2..n + 1 : i \in 1..1 + n /\ ~(i <= 1)
    BY <1>1
  <2> QED
    BY <1>2, <2>1, <2>2
<1>4. /\ Passes \in Seq(S) /\ Len(Passes) = n + 2
      /\ \A i \in 1..n + 1 : Passes[i] = (first \o Languages)[i]
      /\ Passes[n + 2] = "calls"
  <2>1. Passes = (first \o Languages) \o last
    BY DEF Passes, first, last
  <2> HIDE DEF Passes
  <2> QED
    BY <1>1, <1>2, <1>3, <2>1
<1> HIDE DEF n
<1>5. /\ DOMAIN Passes = 1..n + 2 /\ Passes[1] = "symbols" /\ Passes[n + 2] = "calls"
      /\ \A i \in 2..n + 1 : Passes[i] = Languages[i - 1] /\ i - 1 \in 1..n
  <2>1. 1 \in 1..n + 1 /\ \A i \in 2..n + 1 : i \in 1..n + 1 /\ i - 1 \in 1..n
    BY <1>1
  <2> QED
    BY <1>3, <1>4, <2>1
<1>6. \A i \in 1..n + 2 : i = 1 \/ i = n + 2 \/ i \in 2..n + 1
  BY <1>1
<1>7. \A i \in 2..n + 1 : i # 1 /\ i # n + 2 /\ Passes[i] \notin Stages
  BY <1>1, <1>5
<1>8. "symbols" \in Stages /\ "calls" \in Stages
  BY DEF Stages
<1>9. \A i, j \in 1..n + 2 : Passes[i] = Passes[j] => i = j
  <2> SUFFICES ASSUME NEW i \in 1..n + 2, NEW j \in 1..n + 2, Passes[i] = Passes[j] PROVE i = j
    OBVIOUS
  <2>1. CASE i \in 2..n + 1 /\ j \in 2..n + 1
    <3>1. Languages[i - 1] = Languages[j - 1] /\ i - 1 \in 1..n /\ j - 1 \in 1..n
      BY <1>5, <2>1
    <3>2. i - 1 = j - 1
      BY <1>1, <3>1
    <3> QED
      BY <1>1, <3>2
  <2>2. CASE ~(i \in 2..n + 1 /\ j \in 2..n + 1)
    BY <1>5, <1>6, <1>7, <1>8, <2>2
  <2> QED
    BY <2>1, <2>2
<1>10. \A i \in 2..n + 1 : Passes[i] \in LanguageGates
  BY <1>1, <1>5 DEF LanguageGates
<1>11. /\ \A p \in LanguageGates : p \notin Stages
       /\ LanguageGates \subseteq PassNames
  <2> SUFFICES ASSUME NEW k \in 1..n PROVE Languages[k] \notin Stages /\ Languages[k] \in PassNames
    BY <1>1 DEF LanguageGates
  <2>1. k + 1 \in 2..n + 1 /\ k + 1 - 1 = k /\ k + 1 \in 1..n + 2
    BY <1>1
  <2>2. Languages[k] = Passes[k + 1]
    BY <1>5, <2>1
  <2> QED
    BY <1>1, <1>5, <2>1, <2>2 DEF PassNames
<1>12. \A i \in 1..n + 2 : Passes[i] \in LanguageGates <=> i # 1 /\ i # n + 2
  BY <1>5, <1>6, <1>7, <1>8, <1>10, <1>11
<1>13. \A i \in 1..n + 2 : Passes[i] \notin Stages \ {"symbols", "calls"}
  BY <1>5, <1>6, <1>7
<1>14. n + 2 \in Nat /\ n + 2 >= 2
  BY <1>1
<1> QED
  BY <1>4, <1>5, <1>9, <1>11, <1>12, <1>13, <1>14

LEMMA StageFacts ==
    \A x \in Stages \ {"symbols", "calls"} : x \notin PassNames
<1> SUFFICES ASSUME NEW x \in Stages \ {"symbols", "calls"}, NEW i \in 1..Len(Passes), x = Passes[i]
             PROVE  FALSE
  BY PassFacts DEF PassNames
<1> QED
  BY PassFacts

(* What comes after a pass.                                                *)
LEMMA AfterFacts ==
    /\ \A i \in 1..Len(Passes) : After(Passes[i]) = IF i = Len(Passes) THEN "tree" ELSE Passes[i + 1]
    /\ \A p \in PassNames : /\ After(p) \in PassNames \cup {"tree"}
                            /\ AfterThrow(p) \in PassNames \cup {"tree"}
<1>1. /\ Len(Passes) \in Nat /\ Len(Passes) >= 2 /\ DOMAIN Passes = 1..Len(Passes)
      /\ Passes[Len(Passes)] = "calls"
      /\ \A i, j \in 1..Len(Passes) : Passes[i] = Passes[j] => i = j
  BY PassFacts
<1>2. ASSUME NEW i \in 1..Len(Passes)
      PROVE  After(Passes[i]) = IF i = Len(Passes) THEN "tree" ELSE Passes[i + 1]
  <2> DEFINE k == CHOOSE j \in DOMAIN Passes : Passes[j] = Passes[i]
  <2>1. k \in DOMAIN Passes /\ Passes[k] = Passes[i]
    <3>1. \E j \in DOMAIN Passes : Passes[j] = Passes[i]
      BY <1>1
    <3> QED
      BY <3>1
  <2>2. After(Passes[i]) = IF k = Len(Passes) THEN "tree" ELSE Passes[k + 1]
    BY DEF After
  <2> HIDE DEF k
  <2>3. k = i
    BY <1>1, <2>1
  <2> QED
    BY <2>2, <2>3
<1>3. \A i \in 1..Len(Passes) : i # Len(Passes) => i + 1 \in 1..Len(Passes)
  <2>1. Len(Passes) \in Nat
    BY <1>1
  <2> QED
    BY <2>1
<1>4. \A p \in PassNames : After(p) \in PassNames \cup {"tree"}
  BY <1>1, <1>2, <1>3 DEF PassNames
<1>5. "calls" \in PassNames
  BY <1>1 DEF PassNames
<1> QED
  BY <1>2, <1>4, <1>5 DEF AfterThrow

(* A server that is put at a stage.                                        *)
LEMMA PlacedFacts ==
    ASSUME boot \in [Servers -> BootState], NEW s \in Servers, NEW x \in Stages \cup PassNames,
           boot' = [boot EXCEPT ![s] = At(x)]
    PROVE  /\ boot' \in [Servers -> BootState]
           /\ boot'[s].at = x /\ ~boot'[s].running /\ boot'[s].left = {} /\ boot'[s].tree = {}
           /\ \A r \in Servers : r # s => boot'[r] = boot[r]
<1>1. At(x) \in BootState /\ At(x).at = x /\ At(x).running = FALSE /\ At(x).left = {} /\ At(x).tree = {}
  BY DEF At, BootState
<1> HIDE DEF At, BootState
<1> QED
  BY <1>1

(* A server of which something is left.                                    *)
LEMMA LeftFacts ==
    ASSUME boot \in [Servers -> BootState], NEW s \in Servers, NEW f \in Sources \cup JsonTrees,
           boot' = [boot EXCEPT ![s].left = @ \ {f}]
    PROVE  /\ boot' \in [Servers -> BootState]
           /\ boot'[s].at = boot[s].at /\ boot'[s].running = boot[s].running
           /\ boot'[s].tree = boot[s].tree /\ boot'[s].left = boot[s].left \ {f}
           /\ \A r \in Servers : r # s => boot'[r] = boot[r]
<1>1. boot[s] \in BootState
  OBVIOUS
<1>2. boot'[s] = [boot[s] EXCEPT !.left = boot[s].left \ {f}]
  OBVIOUS
<1>3. boot'[s] \in BootState
  BY <1>1, <1>2 DEF BootState
<1> QED
  BY <1>1, <1>2, <1>3 DEF BootState

(* A server that begins a pass.                                            *)
LEMMA BegunFacts ==
    ASSUME BootTypes, NEW s \in Servers, NEW p \in PassNames, BeginPass(s, p)
    PROVE  /\ boot' \in [Servers -> BootState]
           /\ boot'[s].at = p /\ boot'[s].running /\ boot'[s].left = SourcesOf(p)
           /\ boot'[s].left \subseteq rows /\ boot[s].at = p
           /\ \A r \in Servers : r # s => boot'[r] = boot[r]
<1> DEFINE new == [At(p) EXCEPT !.running = TRUE, !.left = SourcesOf(p)]
<1>1. SourcesOf(p) \subseteq rows /\ rows \subseteq Sources
  BY DEF SourcesOf, BootTypes
<1>2. new \in BootState /\ new.at = p /\ new.running = TRUE /\ new.left = SourcesOf(p)
  BY <1>1 DEF At, BootState
<1>3. boot' = [boot EXCEPT ![s] = new] /\ boot[s].at = p
  BY DEF BeginPass, Before
<1> HIDE DEF new
<1> QED
  BY <1>1, <1>2, <1>3 DEF BootTypes

PassStep(s, p) ==
    \/ SkipPass(s, p) \/ BeginPass(s, p) \/ SetGate(s, p) \/ PassThrows(s, p)
    \/ \E f \in Sources : VisitSource(s, p, f) \/ SkipSource(s, p, f)

TreeFault(s) ==
    DirectoryFails(s) \/ RenameFails(s) \/ \E t \in JsonTrees : TreeFails(s, t)

LEMMA BootCases ==
    ASSUME [BootNext]_bootVars
    PROVE  \/ UNCHANGED bootVars
           \/ \E s \in Servers :
                \/ StartServer(s) \/ Kill(s) \/ CheckFormat(s) \/ FindTrees(s) \/ RenameTree(s)
                \/ TreesDone(s) \/ BuildTree(s) \/ TreeFault(s)
                \/ \E t \in JsonTrees : MigrateTree(s, t) \/ TreeIsGone(s, t)
                \/ \E p \in PassNames : PassStep(s, p)
<1>1. \A s \in Servers, i \in DOMAIN Passes :
         (LET p == Passes[i]
          IN  \/ SkipPass(s, p) \/ BeginPass(s, p) \/ SetGate(s, p) \/ PassThrows(s, p)
              \/ \E f \in Sources : VisitSource(s, p, f) \/ SkipSource(s, p, f))
         => \E p \in PassNames : PassStep(s, p)
  BY DEF PassNames, PassStep
<1> QED
  BY <1>1 DEF BootNext, Step, TreeFault

\* What a step of any server leaves.
Grown ==
    /\ rows \subseteq rows' /\ symbols \subseteq symbols' /\ gates \subseteq gates'
    /\ skipped \subseteq skipped' /\ (overlap => overlap') /\ (lateTree => lateTree')

LEMMA BootRowsGrow ==
    ASSUME BootTypes, [BootNext]_bootVars
    PROVE  Grown
<1> DEFINE Still == UNCHANGED <<rows, symbols, gates, skipped>>
<1>s. ASSUME Still, (overlap => overlap'), (lateTree => lateTree') PROVE Grown
  BY <1>s DEF Grown
<1>1. CASE UNCHANGED bootVars
  BY <1>1, <1>s DEF bootVars, database, bootHistory
<1>2. ASSUME NEW s \in Servers, StartServer(s) PROVE Grown
  <2>1. overlap' <=> (overlap \/ \E r \in Servers : Starting(r))
    BY <1>2 DEF StartServer
  <2>2. Still /\ (overlap => overlap')
    BY <1>2, <2>1 DEF StartServer, database
  <2>3. lateTree => lateTree'
    BY <1>2 DEF StartServer
  <2> QED
    BY <1>s, <2>2, <2>3
<1>3. ASSUME NEW s \in Servers, Kill(s) \/ FindTrees(s) \/ TreesDone(s) PROVE Grown
  <2>1. UNCHANGED <<rows, symbols, gates, skipped, overlap, lateTree>>
    BY <1>3 DEF Kill, FindTrees, TreesDone, database, bootHistory
  <2> QED
    BY <1>s, <2>1
<1>4. ASSUME NEW s \in Servers, CheckFormat(s) \/ RenameTree(s) PROVE Grown
  <2>1. UNCHANGED <<rows, symbols, gates, skipped, overlap, lateTree>>
    BY <1>4 DEF CheckFormat, RenameTree, bootHistory
  <2> QED
    BY <1>s, <2>1
<1>5. ASSUME NEW s \in Servers, BuildTree(s) PROVE Grown
  <2>1. /\ rows' = Sources /\ symbols' = symbols \cup (Sources \ rows)
        /\ UNCHANGED <<gates, skipped, overlap, lateTree>>
    BY <1>5 DEF bootHistory, BuildTree
  <2> QED
    BY <2>1 DEF Grown, BootTypes
<1>6. ASSUME NEW s \in Servers, NEW t \in JsonTrees, MigrateTree(s, t) PROVE Grown
  <2>1. lateTree' <=> (lateTree \/ PassesBegan)
    BY <1>6 DEF MigrateTree
  <2>2. lateTree => lateTree'
    BY <2>1
  <2>3. rows' = rows \cup TreeOf[t] /\ UNCHANGED <<symbols, gates, skipped, overlap>>
    BY <1>6 DEF MigrateTree
  <2> QED
    BY <2>2, <2>3 DEF Grown
<1>7. ASSUME NEW s \in Servers, NEW t \in JsonTrees, TreeIsGone(s, t) PROVE Grown
  BY <1>7, <1>s DEF database, bootHistory, TreeIsGone
<1>8. ASSUME NEW s \in Servers, NEW p \in PassNames, SkipPass(s, p) \/ BeginPass(s, p) \/ PassThrows(s, p)
      PROVE  Grown
  <2>1. UNCHANGED <<rows, symbols, gates, skipped, overlap, lateTree>>
    BY <1>8 DEF database, bootHistory, SkipPass, BeginPass, PassThrows
  <2> QED
    BY <1>s, <2>1
<1>9. ASSUME NEW s \in Servers, NEW p \in PassNames, SetGate(s, p) PROVE Grown
  BY <1>9 DEF bootHistory, SetGate, Grown
<1>10. ASSUME NEW s \in Servers, NEW p \in PassNames, NEW f \in Sources, VisitSource(s, p, f) PROVE Grown
  <2>1. symbols' = symbols \cup {f} /\ UNCHANGED <<rows, gates, skipped, overlap, lateTree>>
    BY <1>10 DEF bootHistory, VisitSource, Extract
  <2> QED
    BY <2>1 DEF Grown
<1>11. ASSUME NEW s \in Servers, NEW p \in PassNames, NEW f \in Sources, SkipSource(s, p, f) PROVE Grown
  BY <1>11 DEF database, SkipSource, Grown
<1>12. ASSUME NEW s \in Servers, TreeFault(s) PROVE Grown
  <2>1. UNCHANGED <<rows, symbols, gates, skipped, overlap, lateTree>>
    BY <1>12 DEF TreeFault, DirectoryFails, RenameFails, TreeFails, TreesFail, database
  <2> QED
    BY <1>s, <2>1
<1> QED
  BY <1>12, <1>1, <1>2, <1>3, <1>4, <1>5, <1>6, <1>7, <1>8, <1>9, <1>10, <1>11, BootCases DEF PassStep

LEMMA CallTypes ==
    ASSUME NEW cs \in SUBSET CallRow, NEW f \in Sources, NEW known \in SUBSET Sources
    PROVE  /\ Orphans(cs, f) \subseteq CallRow /\ CallsFrom(f, known) \subseteq CallRow
           /\ \A c \in CallsFrom(f, known) : c.callerLive
           /\ \A c \in Orphans(cs, f) : ~c.callerLive => \E d \in cs : ~d.callerLive \/ d.caller = f
<1>1. ASSUME NEW c \in cs
      PROVE  LET o == [c EXCEPT !.callerLive = @ /\ c.caller # f, !.calleeLive = @ /\ c.callee # f]
             IN  o \in CallRow /\ (~o.callerLive => ~c.callerLive \/ c.caller = f)
  <2> DEFINE o == [c EXCEPT !.callerLive = @ /\ c.caller # f, !.calleeLive = @ /\ c.callee # f]
             a == c.callerLive /\ c.caller # f
             b == c.calleeLive /\ c.callee # f
  <2>1. /\ c.caller \in Sources /\ c.callee \in Sources /\ DOMAIN c = {"caller", "callee", "callerLive", "calleeLive"}
        /\ c = [caller |-> c.caller, callee |-> c.callee, callerLive |-> c.callerLive, calleeLive |-> c.calleeLive]
    BY DEF CallRow
  <2>2. a \in BOOLEAN /\ b \in BOOLEAN
    OBVIOUS
  <2>3. o = [c EXCEPT !.callerLive = a, !.calleeLive = b]
    OBVIOUS
  <2>4. ~a => ~c.callerLive \/ c.caller = f
    OBVIOUS
  <2> HIDE DEF a, b, o
  <2>5. o = [caller |-> c.caller, callee |-> c.callee, callerLive |-> a, calleeLive |-> b]
    BY <2>1, <2>3
  <2>6. o \in CallRow /\ o.callerLive = a
    BY <2>1, <2>2, <2>5 DEF CallRow
  <2> QED
    BY <2>4, <2>6 DEF o
<1>2. ASSUME NEW d \in CallsOf[f] \cap known
      PROVE  [caller |-> f, callee |-> d, callerLive |-> TRUE, calleeLive |-> TRUE] \in CallRow
  BY DEF CallRow
<1>3. CallsFrom(f, known) \subseteq CallRow /\ \A c \in CallsFrom(f, known) : c.callerLive
  BY <1>2 DEF CallsFrom
<1>4. Orphans(cs, f) \subseteq CallRow
  BY <1>1 DEF Orphans
<1>5. \A c \in Orphans(cs, f) : ~c.callerLive => \E d \in cs : ~d.callerLive \/ d.caller = f
  BY <1>1 DEF Orphans
<1> QED
  BY <1>3, <1>4, <1>5

\* The fields of the start that the types are about, but for boot.
TablesTyped ==
    /\ format \in {"none", "relative_v1", "other"}
    /\ json \in [JsonTrees -> {"none", "json", "bak"}]
    /\ symbols \subseteq rows /\ rows \subseteq Sources
    /\ callRows \subseteq CallRow
    /\ gates \subseteq PassNames
    /\ skipped \subseteq Sources /\ failedTrees \subseteq JsonTrees /\ threw \subseteq Servers

\* The start of server s, which the step is of.
StartTyped(s) ==
    /\ boot' \in [Servers -> BootState]
    /\ boot'[s].running => boot'[s].at \in PassNames /\ boot'[s].left \subseteq rows'
    /\ \A r \in Servers : r # s => boot'[r] = boot[r]

LEMMA StartTypes ==
    ASSUME BootTypes, NEW s \in Servers, [BootNext]_bootVars, StartTyped(s), TablesTyped'
    PROVE  BootTypes'
<1>1. rows \subseteq rows'
  BY BootRowsGrow DEF Grown
<1>2. \A r \in Servers : boot'[r].running => boot'[r].at \in PassNames /\ boot'[r].left \subseteq rows'
  BY <1>1 DEF BootTypes, StartTyped
<1> QED
  BY <1>2 DEF BootTypes, StartTyped, TablesTyped

LEMMA PlacedTyped ==
    ASSUME BootTypes, NEW s \in Servers, NEW x \in Stages \cup PassNames,
           boot' = [boot EXCEPT ![s] = At(x)]
    PROVE  StartTyped(s)
<1> QED
  BY PlacedFacts DEF StartTyped, BootTypes

LEMMA LeftTyped ==
    ASSUME BootTypes, NEW s \in Servers, NEW f \in Sources \cup JsonTrees,
           boot' = [boot EXCEPT ![s].left = @ \ {f}], rows' = rows
    PROVE  StartTyped(s)
<1>1. boot \in [Servers -> BootState]
      /\ (boot[s].running => boot[s].at \in PassNames /\ boot[s].left \subseteq rows)
  BY DEF BootTypes
<1>2. /\ boot' \in [Servers -> BootState]
      /\ boot'[s].at = boot[s].at /\ boot'[s].running = boot[s].running
      /\ boot'[s].left = boot[s].left \ {f}
      /\ \A r \in Servers : r # s => boot'[r] = boot[r]
  BY <1>1, LeftFacts
<1> QED
  BY <1>1, <1>2 DEF StartTyped

LEMMA TreeMoves ==
    ASSUME BootTypes, NEW s \in Servers
    PROVE  /\ FindTrees(s) => StartTyped(s) /\ ~boot'[s].running
           /\ RenameTree(s) => /\ StartTyped(s) /\ ~boot'[s].running
                               /\ boot'[s].at = "trees" /\ boot'[s].left = boot[s].left \ boot[s].tree
           /\ \A t \in JsonTrees : MigrateTree(s, t) =>
                 /\ StartTyped(s) /\ boot'[s].running = FALSE
                 /\ boot'[s].at = "rename" /\ boot'[s].tree = {t} /\ boot'[s].left = boot[s].left
<1>s. "trees" \notin PassNames /\ "rename" \notin PassNames
  <2>1. "trees" \in Stages \ {"symbols", "calls"} /\ "rename" \in Stages \ {"symbols", "calls"}
    BY DEF Stages
  <2> QED
    BY <2>1, StageFacts
<1>b. boot \in [Servers -> BootState] /\ boot[s] \in BootState
      /\ (boot[s].running => boot[s].at \in PassNames)
  BY DEF BootTypes
<1>1. ASSUME FindTrees(s) PROVE StartTyped(s) /\ ~boot'[s].running
  <2>1. CASE rows # {}
    <3>1. boot' = [boot EXCEPT ![s] = At("symbols")] /\ "symbols" \in Stages
      BY <1>1, <2>1 DEF FindTrees, Stages
    <3> QED
      BY <3>1, PlacedTyped, PlacedFacts DEF BootTypes
  <2>2. CASE ~(rows # {})
    <3> DEFINE new == [At("trees") EXCEPT !.left = {t \in JsonTrees : json[t] = "json"}]
    <3>1. boot' = [boot EXCEPT ![s] = new]
      BY <1>1, <2>2 DEF FindTrees
    <3>2. new \in BootState /\ new.running = FALSE
      BY DEF At, BootState, Stages
    <3> HIDE DEF new
    <3> QED
      BY <1>b, <3>1, <3>2 DEF StartTyped
  <2> QED
    BY <2>1, <2>2
<1>2. ASSUME RenameTree(s)
      PROVE  /\ StartTyped(s) /\ ~boot'[s].running
             /\ boot'[s].at = "trees" /\ boot'[s].left = boot[s].left \ boot[s].tree
  <2>1. ~boot[s].running
    BY <1>2, <1>b, <1>s DEF RenameTree
  <2>2. boot'[s] = [boot[s] EXCEPT !.at = "trees", !.left = boot[s].left \ boot[s].tree, !.tree = {}]
    BY <1>2, <1>b DEF RenameTree
  <2>3. /\ boot'[s] \in BootState /\ boot'[s].running = boot[s].running
        /\ boot'[s].at = "trees" /\ boot'[s].left = boot[s].left \ boot[s].tree
    BY <1>b, <2>2 DEF BootState, Stages
  <2>4. boot' \in [Servers -> BootState] /\ \A r \in Servers : r # s => boot'[r] = boot[r]
    BY <1>2, <1>b, <2>3 DEF RenameTree
  <2> QED
    BY <2>1, <2>3, <2>4 DEF StartTyped
<1>3. ASSUME NEW t \in JsonTrees, MigrateTree(s, t)
      PROVE  /\ StartTyped(s) /\ boot'[s].running = FALSE
             /\ boot'[s].at = "rename" /\ boot'[s].tree = {t} /\ boot'[s].left = boot[s].left
  <2>1. ~boot[s].running
    BY <1>3, <1>b, <1>s DEF MigrateTree
  <2>2. boot'[s] = [boot[s] EXCEPT !.at = "rename", !.tree = {t}]
    BY <1>3, <1>b DEF MigrateTree
  <2>3. /\ boot'[s] \in BootState /\ boot'[s].running = boot[s].running
        /\ boot'[s].at = "rename" /\ boot'[s].left = boot[s].left /\ boot'[s].tree = {t}
    <3>1. "rename" \in Stages
      BY DEF Stages
    <3>2. /\ boot[s].running \in BOOLEAN /\ boot[s].left \in SUBSET (Sources \cup JsonTrees)
          /\ boot[s] = [at |-> boot[s].at, running |-> boot[s].running, left |-> boot[s].left, tree |-> boot[s].tree]
      BY <1>b DEF BootState
    <3>3. boot'[s] = [at |-> "rename", running |-> boot[s].running, left |-> boot[s].left, tree |-> {t}]
      BY <2>2, <3>2
    <3>4. {t} \in SUBSET JsonTrees
      OBVIOUS
    <3> QED
      BY <3>1, <3>2, <3>3, <3>4 DEF BootState
  <2>4. boot' \in [Servers -> BootState] /\ \A r \in Servers : r # s => boot'[r] = boot[r]
    BY <1>3, <1>b, <2>3 DEF MigrateTree
  <2>5. boot'[s].running = FALSE
    BY <1>b, <2>1, <2>3 DEF BootState
  <2> QED
    BY <2>3, <2>4, <2>5 DEF StartTyped
<1> QED
  BY <1>1, <1>2, <1>3

\* What a failure of trees does.
FaultMoves(s) ==
    /\ UNCHANGED <<format, json, rows, symbols, callRows, gates, kills, throws, skipped,
                   overlap, lateTree, threw>>
    /\ failedTrees' \subseteq JsonTrees /\ failedTrees \subseteq failedTrees'
    /\ StartTyped(s) /\ ~boot'[s].running /\ boot'[s].tree = {}
    /\ \/ /\ boot[s].at = "migrate" /\ boot'[s].at = "symbols" /\ rows = {}
          /\ \A t \in JsonTrees : json[t] = "json" => t \in failedTrees'
       \/ /\ boot[s].at \in {"trees", "rename"} /\ boot'[s].at = "trees"
          /\ boot[s].left \subseteq boot'[s].left \cup failedTrees'

FailMoves(s, stage, failed, left) ==
    /\ UNCHANGED <<format, json, rows, symbols, callRows, gates, kills, throws, skipped,
                   overlap, lateTree, threw>>
    /\ failedTrees' = failedTrees \cup failed
    /\ StartTyped(s) /\ ~boot'[s].running /\ boot'[s].tree = {}
    /\ boot'[s].at = stage /\ boot'[s].left = left

LEMMA FaultFacts ==
    ASSUME BootTypes, NEW s \in Servers, TreeFault(s)
    PROVE  FaultMoves(s)
<1>b. boot \in [Servers -> BootState] /\ boot[s] \in BootState /\ failedTrees \subseteq JsonTrees
  BY DEF BootTypes
<1>1. ASSUME NEW stage \in {"symbols", "trees"}, NEW failed \in SUBSET JsonTrees,
             NEW left \in SUBSET (Sources \cup JsonTrees), TreesFail(s, stage, failed, left)
      PROVE  FailMoves(s, stage, failed, left)
  <2> DEFINE new == [At(stage) EXCEPT !.left = left]
  <2>1. /\ new \in BootState /\ new.running = FALSE /\ new.tree = {} /\ new.at = stage
        /\ new.left = left
    BY DEF At, BootState, Stages
  <2>2. boot' = [boot EXCEPT ![s] = new] /\ failedTrees' = failedTrees \cup failed
    BY <1>1 DEF TreesFail
  <2>3. UNCHANGED <<format, json, rows, symbols, callRows, gates, kills, throws, skipped,
                    overlap, lateTree, threw>>
    BY <1>1 DEF TreesFail, database
  <2> HIDE DEF new
  <2> QED
    BY <1>b, <2>1, <2>2, <2>3 DEF StartTyped, FailMoves
<1>2. CASE DirectoryFails(s)
  <2>1. /\ boot[s].at = "migrate" /\ rows = {}
        /\ TreesFail(s, "symbols", {t \in JsonTrees : json[t] = "json"}, {})
    BY <1>2 DEF DirectoryFails
  <2>2. {t \in JsonTrees : json[t] = "json"} \in SUBSET JsonTrees /\ {} \in SUBSET (Sources \cup JsonTrees)
    OBVIOUS
  <2>3. FailMoves(s, "symbols", {t \in JsonTrees : json[t] = "json"}, {})
    BY <1>1, <2>1, <2>2
  <2> QED
    BY <1>b, <2>1, <2>3 DEF FailMoves, FaultMoves
<1>3. ASSUME NEW t \in JsonTrees, TreeFails(s, t) PROVE FaultMoves(s)
  <2>1. boot[s].at = "trees" /\ TreesFail(s, "trees", {t}, boot[s].left \ {t})
    BY <1>3 DEF TreeFails
  <2>2. boot[s].left \ {t} \in SUBSET (Sources \cup JsonTrees) /\ {t} \in SUBSET JsonTrees
    BY <1>b DEF BootState
  <2>3. FailMoves(s, "trees", {t}, boot[s].left \ {t})
    BY <1>1, <2>1, <2>2
  <2> QED
    BY <1>b, <2>1, <2>3 DEF FailMoves, FaultMoves
<1>4. CASE RenameFails(s)
  <2>1. boot[s].at = "rename" /\ TreesFail(s, "trees", boot[s].tree, boot[s].left \ boot[s].tree)
    BY <1>4 DEF RenameFails
  <2>2. boot[s].left \ boot[s].tree \in SUBSET (Sources \cup JsonTrees) /\ boot[s].tree \in SUBSET JsonTrees
    BY <1>b DEF BootState
  <2>3. FailMoves(s, "trees", boot[s].tree, boot[s].left \ boot[s].tree)
    BY <1>1, <2>1, <2>2
  <2>4. boot[s].tree \in SUBSET JsonTrees
    BY <1>b DEF BootState
  <2> QED
    BY <1>b, <2>1, <2>3, <2>4 DEF FailMoves, FaultMoves
<1> QED
  BY <1>2, <1>3, <1>4 DEF TreeFault

LEMMA BootTypesStep ==
    ASSUME BootTypes, [BootNext]_bootVars
    PROVE  BootTypes'
<1>b. boot \in [Servers -> BootState] /\ TablesTyped /\ PassNames \cup {"tree"} \subseteq Stages \cup PassNames
  BY DEF BootTypes, TablesTyped, Stages
<1>1. CASE UNCHANGED bootVars
  BY <1>1 DEF bootVars, database, bootHistory, BootTypes
<1>2. ASSUME NEW s \in Servers, StartServer(s) \/ Kill(s) \/ CheckFormat(s) \/ TreesDone(s) PROVE BootTypes'
  <2>1. TablesTyped'
    BY <1>2, <1>b DEF StartServer, Kill, CheckFormat, TreesDone, database, bootHistory, TablesTyped
  <2>2. \E x \in Stages : boot' = [boot EXCEPT ![s] = At(x)]
    BY <1>2 DEF StartServer, Kill, CheckFormat, TreesDone, Stages
  <2> QED
    BY <2>1, <2>2, PlacedTyped, StartTypes
<1>3. ASSUME NEW s \in Servers, FindTrees(s) PROVE BootTypes'
  <2>1. TablesTyped'
    BY <1>3, <1>b DEF FindTrees, database, bootHistory, TablesTyped
  <2> QED
    BY <1>3, <2>1, TreeMoves, StartTypes
<1>4. ASSUME NEW s \in Servers, RenameTree(s) PROVE BootTypes'
  <2>1. TablesTyped'
    BY <1>4, <1>b DEF RenameTree, bootHistory, TablesTyped
  <2> QED
    BY <1>4, <2>1, TreeMoves, StartTypes
<1>5. ASSUME NEW s \in Servers, NEW t \in JsonTrees, MigrateTree(s, t) PROVE BootTypes'
  <2>1. TablesTyped'
    BY <1>5, <1>b, BootConstants DEF MigrateTree, TablesTyped
  <2> QED
    BY <1>5, <2>1, TreeMoves, StartTypes
<1>6. ASSUME NEW s \in Servers, NEW t \in JsonTrees, TreeIsGone(s, t) PROVE BootTypes'
  <2>1. TablesTyped'
    BY <1>6, <1>b DEF TreeIsGone, database, bootHistory, TablesTyped
  <2>2. StartTyped(s)
    <3>1. boot' = [boot EXCEPT ![s].left = @ \ {t}] /\ rows' = rows
      BY <1>6 DEF TreeIsGone, database
    <3> QED
      BY <3>1, LeftTyped
  <2> QED
    BY <2>1, <2>2, StartTypes
<1>7. ASSUME NEW s \in Servers, BuildTree(s) PROVE BootTypes'
  <2>1. callRows' \subseteq CallRow
    <3> DEFINE new == Sources \ rows
               made(f) == CallsFrom(f, symbols \cup {g \in new : g < f})
    <3>1. \A f \in new : made(f) \subseteq CallRow
      <4>1. \A f \in new : symbols \cup {g \in new : g < f} \subseteq Sources
        BY DEF BootTypes
      <4>2. {} \subseteq CallRow
        OBVIOUS
      <4> QED
        BY <4>1, <4>2, CallTypes
    <3>2. callRows' = callRows \cup UNION {made(f) : f \in new}
      BY <1>7 DEF BuildTree
    <3> QED
      BY <1>b, <3>1, <3>2 DEF TablesTyped
  <2>2. TablesTyped'
    BY <1>7, <1>b, <2>1 DEF BuildTree, bootHistory, TablesTyped
  <2>3. StartTyped(s)
    BY <1>7, <1>b, PlacedTyped DEF BuildTree, Stages
  <2> QED
    BY <2>2, <2>3, StartTypes
<1>8. ASSUME NEW s \in Servers, NEW p \in PassNames, SkipPass(s, p) \/ SetGate(s, p) \/ PassThrows(s, p)
      PROVE  BootTypes'
  <2>1. TablesTyped'
    BY <1>8, <1>b DEF SkipPass, SetGate, PassThrows, database, bootHistory, TablesTyped
  <2>2. StartTyped(s)
    BY <1>8, <1>b, AfterFacts, PlacedTyped DEF SkipPass, SetGate, PassThrows
  <2> QED
    BY <2>1, <2>2, StartTypes
<1>9. ASSUME NEW s \in Servers, NEW p \in PassNames, BeginPass(s, p) PROVE BootTypes'
  <2>1. TablesTyped' /\ rows' = rows
    BY <1>9, <1>b DEF BeginPass, database, bootHistory, TablesTyped
  <2>2. StartTyped(s)
    BY <1>9, <2>1, BegunFacts DEF StartTyped
  <2> QED
    BY <2>1, <2>2, StartTypes
<1>10. ASSUME NEW s \in Servers, NEW p \in PassNames, NEW f \in Sources, VisitSource(s, p, f)
       PROVE  BootTypes'
  <2>0. f \in rows /\ boot' = [boot EXCEPT ![s].left = @ \ {f}] /\ rows' = rows /\ Extract(f, p = "calls")
    BY <1>10 DEF VisitSource, Running, BootTypes
  <2>1. callRows' \subseteq CallRow
    <3>1. callRows \subseteq CallRow /\ CallerRows(f) \subseteq callRows /\ symbols \subseteq Sources
      BY DEF BootTypes, CallerRows
    <3>2. /\ Orphans(callRows, f) \subseteq CallRow /\ Orphans(callRows \ CallerRows(f), f) \subseteq CallRow
          /\ CallsFrom(f, symbols) \subseteq CallRow
      BY <3>1, CallTypes
    <3> QED
      BY <2>0, <3>2 DEF Extract
  <2>2. TablesTyped'
    BY <1>10, <1>b, <2>0, <2>1 DEF VisitSource, Extract, bootHistory, TablesTyped
  <2>3. StartTyped(s)
    BY <2>0, LeftTyped
  <2> QED
    BY <2>2, <2>3, StartTypes
<1>11. ASSUME NEW s \in Servers, NEW p \in PassNames, NEW f \in Sources, SkipSource(s, p, f)
       PROVE  BootTypes'
  <2>1. TablesTyped' /\ rows' = rows
    BY <1>11, <1>b DEF SkipSource, database, TablesTyped
  <2>2. StartTyped(s)
    <3>1. boot' = [boot EXCEPT ![s].left = @ \ {f}]
      BY <1>11 DEF SkipSource
    <3> QED
      BY <2>1, <3>1, LeftTyped
  <2> QED
    BY <2>1, <2>2, StartTypes
<1>12. ASSUME NEW s \in Servers, TreeFault(s) PROVE BootTypes'
  <2>1. FaultMoves(s)
    BY <1>12, FaultFacts
  <2>2. TablesTyped' /\ StartTyped(s)
    BY <1>b, <2>1 DEF FaultMoves, TablesTyped
  <2> QED
    BY <2>2, StartTypes
<1> QED
  BY <1>12, <1>1, <1>2, <1>3, <1>4, <1>5, <1>6, <1>7, <1>8, <1>9, <1>10, <1>11, BootCases DEF PassStep

\* A start that is put at a stage other than those of the trees.
Placed(s, x) == boot' = [boot EXCEPT ![s] = At(x)]

LEMMA BootMoves ==
    ASSUME BootTypes, [BootNext]_bootVars
    PROVE  \/ UNCHANGED bootVars
           \/ \E s \in Servers :
                \/ StartServer(s) /\ Placed(s, "open")
                \/ Kill(s) /\ Placed(s, "off")
                \/ CheckFormat(s) /\ \E x \in {"migrate", "refused"} : Placed(s, x)
                \/ FindTrees(s) /\ \/ rows # {} /\ Placed(s, "symbols")
                                   \/ /\ rows = {} /\ StartTyped(s) /\ boot'[s].at = "trees"
                                      /\ ~boot'[s].running
                                      /\ boot'[s].left = {t \in JsonTrees : json[t] = "json"}
                \/ RenameTree(s)
                \/ TreeFault(s) /\ FaultMoves(s)
                \/ TreesDone(s) /\ Placed(s, "symbols")
                \/ BuildTree(s) /\ Placed(s, "up")
                \/ \E t \in JsonTrees : MigrateTree(s, t) \/ TreeIsGone(s, t)
                \/ \E p \in PassNames :
                     \/ SkipPass(s, p) /\ Placed(s, After(p))
                     \/ BeginPass(s, p)
                     \/ SetGate(s, p) /\ Placed(s, After(p))
                     \/ PassThrows(s, p) /\ Placed(s, AfterThrow(p))
                     \/ \E f \in Sources : VisitSource(s, p, f) \/ SkipSource(s, p, f)
<1>1. ASSUME NEW s \in Servers, FindTrees(s)
      PROVE  \/ rows # {} /\ Placed(s, "symbols")
             \/ /\ rows = {} /\ StartTyped(s) /\ boot'[s].at = "trees"
                /\ ~boot'[s].running
                /\ boot'[s].left = {t \in JsonTrees : json[t] = "json"}
  <2>1. CASE rows # {}
    BY <1>1, <2>1 DEF FindTrees, Placed
  <2>2. CASE ~(rows # {})
    <3> DEFINE new == [At("trees") EXCEPT !.left = {t \in JsonTrees : json[t] = "json"}]
    <3>1. boot' = [boot EXCEPT ![s] = new]
      BY <1>1, <2>2 DEF FindTrees
    <3>2. new.at = "trees" /\ new.left = {t \in JsonTrees : json[t] = "json"}
      BY DEF At
    <3>3. boot'[s] = new
      BY <3>1 DEF BootTypes
    <3> QED
      BY <1>1, <2>2, <3>2, <3>3, TreeMoves
  <2> QED
    BY <2>1, <2>2
<1>2. ASSUME NEW s \in Servers
      PROVE  /\ StartServer(s) => Placed(s, "open")
             /\ Kill(s) => Placed(s, "off")
             /\ TreesDone(s) => Placed(s, "symbols")
             /\ BuildTree(s) => Placed(s, "up")
             /\ CheckFormat(s) => \E x \in {"migrate", "refused"} : Placed(s, x)
  BY DEF StartServer, Kill, TreesDone, BuildTree, CheckFormat, Placed
<1>3. ASSUME NEW s \in Servers, NEW p \in PassNames
      PROVE  /\ SkipPass(s, p) \/ SetGate(s, p) => Placed(s, After(p))
             /\ PassThrows(s, p) => Placed(s, AfterThrow(p))
  BY DEF SkipPass, SetGate, PassThrows, Placed
<1> QED
  BY <1>1, <1>2, <1>3, FaultFacts, BootCases DEF PassStep

LEMMA FaultsCountedStep ==
    ASSUME BootTypes, FaultsCounted, [BootNext]_bootVars
    PROVE  FaultsCounted'
<1>b. /\ kills \in Nat /\ throws \in Nat /\ MaxFaults \in Nat
      /\ IsFiniteSet(skipped) /\ Cardinality(skipped) \in Nat
  BY BootConstants, FS_CardinalityType DEF FaultsCounted
<1>c. CanFail => kills + throws + Cardinality(skipped) < MaxFaults
  <2>1. IsFiniteSet(failedTrees)
    BY BootConstants, FS_Subset DEF BootTypes
  <2>2. Cardinality(failedTrees) \in Nat
    BY <2>1, FS_CardinalityType
  <2> QED
    BY <1>b, <2>2 DEF CanFail
<1>1. ASSUME UNCHANGED <<kills, throws, skipped>>, threw' \subseteq threw PROVE FaultsCounted'
  BY <1>1 DEF FaultsCounted
<1>2. ASSUME NEW s \in Servers, Kill(s) PROVE FaultsCounted'
  <2>1. kills' = kills + 1 /\ UNCHANGED <<throws, skipped, threw>>
    BY <1>2 DEF Kill
  <2>2. kills + throws + Cardinality(skipped) < MaxFaults
    BY <1>2, <1>c DEF Kill
  <2>3. kills + 1 \in Nat /\ (kills + 1) + throws + Cardinality(skipped) <= MaxFaults
    BY <1>b, <2>2
  <2> QED
    BY <2>1, <2>3 DEF FaultsCounted
<1>3. ASSUME NEW s \in Servers, NEW p \in PassNames, PassThrows(s, p) PROVE FaultsCounted'
  <2>1. throws' = throws + 1 /\ UNCHANGED <<kills, skipped>>
    BY <1>3 DEF PassThrows
  <2>2. kills + throws + Cardinality(skipped) < MaxFaults
    BY <1>3, <1>c DEF PassThrows
  <2>3. throws + 1 \in Nat /\ throws + 1 # 0 /\ kills + (throws + 1) + Cardinality(skipped) <= MaxFaults
    BY <1>b, <2>2
  <2> QED
    BY <2>1, <2>3 DEF FaultsCounted
<1>4. ASSUME NEW s \in Servers, NEW p \in PassNames, NEW f \in Sources, SkipSource(s, p, f)
      PROVE  FaultsCounted'
  <2>1. skipped' = skipped \cup {f} /\ UNCHANGED <<kills, throws, threw>>
    BY <1>4 DEF SkipSource
  <2>2. kills + throws + Cardinality(skipped) < MaxFaults
    BY <1>4, <1>c DEF SkipSource
  <2>3. IsFiniteSet(skipped \cup {f}) /\ Cardinality(skipped \cup {f}) \in Nat
        /\ Cardinality(skipped \cup {f}) <= Cardinality(skipped) + 1
    <3>1. CASE f \in skipped
      <4>1. skipped \cup {f} = skipped
        BY <3>1
      <4> QED
        BY <1>b, <4>1
    <3>2. CASE f \notin skipped
      BY <1>b, <3>2, FS_AddElement
    <3> QED
      BY <3>1, <3>2
  <2>4. kills + throws + Cardinality(skipped \cup {f}) <= MaxFaults
    BY <1>b, <2>2, <2>3
  <2> QED
    BY <2>1, <2>3, <2>4 DEF FaultsCounted
<1>5. CASE UNCHANGED bootVars
  BY <1>1, <1>5 DEF bootVars, bootHistory
<1>6. ASSUME NEW s \in Servers, StartServer(s) PROVE FaultsCounted'
  BY <1>1, <1>6 DEF StartServer
<1>7. ASSUME NEW s \in Servers,
             CheckFormat(s) \/ FindTrees(s) \/ RenameTree(s) \/ TreesDone(s) \/ BuildTree(s)
      PROVE  FaultsCounted'
  BY <1>1, <1>7 DEF CheckFormat, FindTrees, RenameTree, TreesDone, BuildTree, bootHistory
<1>8. ASSUME NEW s \in Servers, NEW t \in JsonTrees, MigrateTree(s, t) \/ TreeIsGone(s, t)
      PROVE  FaultsCounted'
  BY <1>1, <1>8 DEF MigrateTree, TreeIsGone, bootHistory
<1>9. ASSUME NEW s \in Servers, NEW p \in PassNames, SkipPass(s, p) \/ BeginPass(s, p) \/ SetGate(s, p)
      PROVE  FaultsCounted'
  BY <1>1, <1>9 DEF SkipPass, BeginPass, SetGate, bootHistory
<1>10. ASSUME NEW s \in Servers, NEW p \in PassNames, NEW f \in Sources, VisitSource(s, p, f)
       PROVE  FaultsCounted'
  BY <1>1, <1>10 DEF VisitSource, bootHistory
<1>11. ASSUME NEW s \in Servers, TreeFault(s) PROVE FaultsCounted'
  BY <1>1, <1>11, FaultFacts DEF FaultMoves
<1> QED
  BY <1>11, <1>2, <1>3, <1>4, <1>5, <1>6, <1>7, <1>8, <1>9, <1>10, BootCases DEF PassStep

\* The other starts stay where they are.
LEMMA OthersStay ==
    ASSUME BootTypes, [BootNext]_bootVars
    PROVE  \/ UNCHANGED bootVars
           \/ \E s \in Servers : \A r \in Servers : r # s => boot'[r] = boot[r]
<1>b. boot \in [Servers -> BootState]
  BY DEF BootTypes
<1>1. ASSUME NEW s \in Servers, NEW x, Placed(s, x) PROVE \A r \in Servers : r # s => boot'[r] = boot[r]
  BY <1>1, <1>b DEF Placed
<1>2. ASSUME NEW s \in Servers, NEW f, boot' = [boot EXCEPT ![s].left = @ \ {f}]
      PROVE  \A r \in Servers : r # s => boot'[r] = boot[r]
  BY <1>2, <1>b
<1>3. ASSUME NEW s \in Servers, RenameTree(s) PROVE \A r \in Servers : r # s => boot'[r] = boot[r]
  BY <1>3, TreeMoves DEF StartTyped
<1>4. ASSUME NEW s \in Servers, NEW t \in JsonTrees, MigrateTree(s, t) \/ TreeIsGone(s, t)
      PROVE  \A r \in Servers : r # s => boot'[r] = boot[r]
  BY <1>2, <1>4, TreeMoves DEF StartTyped, TreeIsGone
<1>5. ASSUME NEW s \in Servers, NEW p \in PassNames, NEW f \in Sources,
             BeginPass(s, p) \/ VisitSource(s, p, f) \/ SkipSource(s, p, f)
      PROVE  \A r \in Servers : r # s => boot'[r] = boot[r]
  BY <1>2, <1>5, BegunFacts DEF VisitSource, SkipSource
<1>6. ASSUME NEW s \in Servers, NEW p \in PassNames, BeginPass(s, p)
      PROVE  \A r \in Servers : r # s => boot'[r] = boot[r]
  BY <1>6, BegunFacts
<1> QED
  BY <1>1, <1>3, <1>4, <1>5, <1>6, BootMoves DEF StartTyped, FaultMoves

\* The names that are not those of passes.
LEMMA NotPasses ==
    /\ \A x \in {"off", "open", "refused", "migrate", "trees", "rename", "tree", "up"} : x \notin PassNames
    /\ "symbols" \in PassNames /\ "calls" \in PassNames
    /\ PassNames \cup {"tree"} \subseteq Stages \cup PassNames
<1>1. \A x \in {"off", "open", "refused", "migrate", "trees", "rename", "tree", "up"} :
         x \in Stages \ {"symbols", "calls"}
  BY DEF Stages
<1>2. "symbols" \in PassNames /\ "calls" \in PassNames
  <2>0. Len(Passes) \in Nat /\ Len(Passes) >= 2
    BY PassFacts
  <2>1. 1 \in 1..Len(Passes) /\ Len(Passes) \in 1..Len(Passes)
    BY <2>0
  <2> QED
    BY <2>1, PassFacts DEF PassNames
<1> QED
  BY <1>1, <1>2, StageFacts DEF Stages

LEMMA RenamedIsMigratedStep ==
    ASSUME BootTypes, RenamedIsMigrated, [BootNext]_bootVars
    PROVE  RenamedIsMigrated'
<1>b. boot \in [Servers -> BootState]
  BY DEF BootTypes
<1>g. rows \subseteq rows'
  BY BootRowsGrow DEF Grown
<1>r. ASSUME NEW s \in Servers,
             \A r \in Servers : r # s => boot'[r] = boot[r],
             boot'[s].at = "rename" => \A t \in boot'[s].tree : TreeOf[t] \subseteq rows'
      PROVE  \A r \in Servers : boot'[r].at = "rename" => \A t \in boot'[r].tree : TreeOf[t] \subseteq rows'
  BY <1>r, <1>g DEF RenamedIsMigrated
<1>j. ASSUME json' = json PROVE BackupIsMigrated'
  BY <1>j, <1>g DEF RenamedIsMigrated, BackupIsMigrated
<1>1. CASE UNCHANGED bootVars
  BY <1>1 DEF bootVars, database, RenamedIsMigrated, BackupIsMigrated
<1>2. ASSUME NEW s \in Servers, NEW x \in (Stages \ {"rename"}) \cup PassNames, Placed(s, x), json' = json
      PROVE  RenamedIsMigrated'
  <2>1. boot'[s].at = x /\ x # "rename" /\ \A r \in Servers : r # s => boot'[r] = boot[r]
    BY <1>b, <1>2, PlacedFacts, NotPasses DEF Placed
  <2> QED
    BY <1>2, <1>r, <1>j, <2>1 DEF RenamedIsMigrated
<1>3. ASSUME NEW s \in Servers, StartServer(s) \/ Kill(s) \/ CheckFormat(s) \/ TreesDone(s) \/ BuildTree(s)
      PROVE  RenamedIsMigrated'
  <2>1. json' = json
    BY <1>3 DEF StartServer, Kill, CheckFormat, TreesDone, BuildTree, database
  <2>2. \E x \in {"open", "off", "migrate", "refused", "symbols", "up"} : Placed(s, x)
    BY <1>3 DEF StartServer, Kill, CheckFormat, TreesDone, BuildTree, Placed
  <2>3. {"open", "off", "migrate", "refused", "symbols", "up"} \subseteq Stages \ {"rename"}
    BY DEF Stages
  <2> QED
    BY <1>2, <2>1, <2>2, <2>3
<1>4. ASSUME NEW s \in Servers, FindTrees(s),
             \/ Placed(s, "symbols")
             \/ StartTyped(s) /\ boot'[s].at = "trees"
      PROVE  RenamedIsMigrated'
  <2>1. json' = json
    BY <1>4 DEF FindTrees, database
  <2>2. "symbols" \in Stages \ {"rename"}
    BY DEF Stages
  <2>3. CASE StartTyped(s) /\ boot'[s].at = "trees"
    BY <1>r, <1>j, <2>1, <2>3 DEF StartTyped, RenamedIsMigrated
  <2> QED
    BY <1>2, <1>4, <2>1, <2>2, <2>3
<1>5. ASSUME NEW s \in Servers, RenameTree(s) PROVE RenamedIsMigrated'
  <2>1. boot[s].at = "rename" /\ json' = [t \in JsonTrees |-> IF t \in boot[s].tree THEN "bak" ELSE json[t]]
    BY <1>5 DEF RenameTree
  <2>2. BackupIsMigrated'
    BY <2>1, <1>g DEF RenamedIsMigrated, BackupIsMigrated
  <2>3. boot'[s].at = "trees" /\ \A r \in Servers : r # s => boot'[r] = boot[r]
    BY <1>5, TreeMoves DEF StartTyped
  <2> QED
    BY <1>r, <2>2, <2>3 DEF RenamedIsMigrated
<1>6. ASSUME NEW s \in Servers, NEW t \in JsonTrees, MigrateTree(s, t) PROVE RenamedIsMigrated'
  <2>1. boot'[s].tree = {t} /\ \A r \in Servers : r # s => boot'[r] = boot[r]
    BY <1>6, TreeMoves DEF StartTyped
  <2>2. TreeOf[t] \subseteq rows' /\ json' = json
    BY <1>6 DEF MigrateTree
  <2> QED
    BY <1>r, <1>j, <2>1, <2>2 DEF RenamedIsMigrated
<1>7. ASSUME NEW s \in Servers, NEW f \in Sources \cup JsonTrees, json' = json,
             boot' = [boot EXCEPT ![s].left = @ \ {f}]
      PROVE  RenamedIsMigrated'
  <2>1. boot'[s].at = boot[s].at /\ boot'[s].tree = boot[s].tree /\ \A r \in Servers : r # s => boot'[r] = boot[r]
    BY <1>b, <1>7, LeftFacts
  <2> QED
    BY <1>7, <1>r, <1>g, <1>j, <2>1 DEF RenamedIsMigrated
<1>8. ASSUME NEW s \in Servers, NEW t \in JsonTrees, TreeIsGone(s, t) PROVE RenamedIsMigrated'
  BY <1>7, <1>8 DEF TreeIsGone, database
<1>9. ASSUME NEW s \in Servers, NEW p \in PassNames, SkipPass(s, p) \/ SetGate(s, p) \/ PassThrows(s, p)
      PROVE  RenamedIsMigrated'
  <2>1. json' = json /\ \E x \in PassNames \cup {"tree"} : Placed(s, x)
    BY <1>9, AfterFacts DEF SkipPass, SetGate, PassThrows, database, Placed
  <2>2. PassNames \cup {"tree"} \subseteq (Stages \ {"rename"}) \cup PassNames
    BY DEF Stages
  <2> QED
    BY <1>2, <2>1, <2>2
<1>10. ASSUME NEW s \in Servers, NEW p \in PassNames, BeginPass(s, p) PROVE RenamedIsMigrated'
  <2>1. boot'[s].at = p /\ p # "rename" /\ \A r \in Servers : r # s => boot'[r] = boot[r]
    BY <1>10, BegunFacts, NotPasses
  <2>2. json' = json
    BY <1>10 DEF BeginPass, database
  <2> QED
    BY <1>r, <1>j, <2>1, <2>2 DEF RenamedIsMigrated
<1>11. ASSUME NEW s \in Servers, NEW p \in PassNames, NEW f \in Sources,
              VisitSource(s, p, f) \/ SkipSource(s, p, f)
       PROVE  RenamedIsMigrated'
  BY <1>7, <1>11 DEF VisitSource, SkipSource, database
<1>12. ASSUME NEW s \in Servers, FaultMoves(s) PROVE RenamedIsMigrated'
  <2>1. json' = json /\ boot'[s].tree = {} /\ \A r \in Servers : r # s => boot'[r] = boot[r]
    BY <1>12 DEF FaultMoves, StartTyped
  <2> QED
    BY <1>r, <1>j, <2>1 DEF RenamedIsMigrated
<1> QED
  BY <1>12, <1>1, <1>3, <1>4, <1>5, <1>6, <1>8, <1>9, <1>10, <1>11, BootMoves

LEMMA BehindFacts ==
    /\ \A x \in Stages \ {"calls", "tree", "up"}, gs \in SUBSET PassNames : Behind(x, gs)
    /\ \A x, g \in SUBSET PassNames, h \in SUBSET PassNames : Behind(x, g) /\ g \subseteq h => Behind(x, h)
    /\ \A p \in PassNames, gs \in SUBSET PassNames : Behind(p, gs) /\ p \in gs => Behind(After(p), gs)
    /\ \A gs \in SUBSET PassNames : Behind("calls", gs) => LanguageGates \subseteq gs
<1>n. Len(Passes) \in Nat /\ Len(Passes) >= 2
  BY PassFacts
<1>d. DOMAIN Passes = 1..Len(Passes)
  BY PassFacts
<1>1. ASSUME NEW x \in Stages \ {"calls", "tree", "up"}, NEW gs \in SUBSET PassNames PROVE Behind(x, gs)
  <2>1. ASSUME NEW i \in 1..Len(Passes), x = Passes[i] PROVE \A j \in 1..i - 1 : Passes[j] \in gs
    <3>1. x = "symbols"
      BY <2>1, PassFacts
    <3>2. 1 \in 1..Len(Passes)
      BY <1>n
    <3>3. i = 1
      BY <2>1, <3>1, <3>2, PassFacts
    <3>4. 1..i - 1 = {}
      BY <3>3
    <3> QED
      BY <3>4
  <2> QED
    BY <1>d, <2>1 DEF Behind
<1>2. ASSUME NEW x, NEW g \in SUBSET PassNames, NEW h \in SUBSET PassNames, Behind(x, g), g \subseteq h
      PROVE  Behind(x, h)
  BY <1>2 DEF Behind
<1>3. ASSUME NEW p \in PassNames, NEW gs \in SUBSET PassNames, Behind(p, gs), p \in gs
      PROVE  Behind(After(p), gs)
  <2>1. PICK i \in 1..Len(Passes) : p = Passes[i]
    BY <1>d DEF PassNames
  <2>2. \A j \in 1..i - 1 : Passes[j] \in gs
    BY <1>3, <1>d, <2>1 DEF Behind
  <2>3. \A j \in 1..i : j = i \/ j \in 1..i - 1
    OBVIOUS
  <2>4. \A j \in 1..i : Passes[j] \in gs
    BY <1>3, <2>1, <2>2, <2>3
  <2>5. CASE i = Len(Passes)
    <3>1. After(p) = "tree"
      BY <2>1, <2>5, AfterFacts
    <3>2. PassNames \subseteq gs
      BY <1>d, <2>4, <2>5 DEF PassNames
    <3> QED
      BY <3>1, <3>2, NotPasses DEF Behind, PassNames
  <2>6. CASE i # Len(Passes)
    <3>1. After(p) = Passes[i + 1]
      BY <2>1, <2>6, AfterFacts
    <3>2. i + 1 \in 1..Len(Passes) /\ (i + 1) - 1 = i
      BY <1>n, <2>6
    <3>3. \A k \in 1..Len(Passes) : Passes[i + 1] = Passes[k] => k = i + 1
      BY <3>2, PassFacts
    <3>4. After(p) \in PassNames
      BY <1>d, <3>1, <3>2 DEF PassNames
    <3> QED
      BY <1>d, <2>4, <3>1, <3>2, <3>3, <3>4, NotPasses DEF Behind
  <2> QED
    BY <2>5, <2>6
<1>4. ASSUME NEW gs \in SUBSET PassNames, Behind("calls", gs) PROVE LanguageGates \subseteq gs
  <2>1. Len(Passes) \in 1..Len(Passes)
    BY <1>n
  <2>2. \A j \in 1..Len(Passes) - 1 : Passes[j] \in gs
    BY <1>d, <1>4, <2>1, PassFacts DEF Behind
  <2>3. ASSUME NEW p \in LanguageGates PROVE p \in gs
    <3>0. p \in PassNames
      BY PassFacts
    <3>1. PICK j \in 1..Len(Passes) : p = Passes[j]
      BY <1>d, <3>0 DEF PassNames
    <3>2. j # Len(Passes)
      BY <3>1, PassFacts
    <3>3. j \in 1..Len(Passes) - 1
      BY <1>n, <3>2
    <3> QED
      BY <2>2, <3>1, <3>3
  <2> QED
    BY <2>3
<1> QED
  BY <1>1, <1>2, <1>3, <1>4

LEMMA GatesBehindStep ==
    ASSUME BootTypes, GatesBehind, [BootNext]_bootVars
    PROVE  GatesBehind'
<1>b. boot \in [Servers -> BootState] /\ gates \in SUBSET PassNames
  BY DEF BootTypes
<1>g. gates \subseteq gates' /\ gates' \in SUBSET PassNames
  BY BootRowsGrow, BootTypesStep DEF Grown, BootTypes
<1>m. \A x : Behind(x, gates) => Behind(x, gates')
  BY <1>g DEF Behind
<1>r. ASSUME NEW s \in Servers,
             \A r \in Servers : r # s => boot'[r] = boot[r],
             threw \subseteq threw' \cup {s},
             s \notin threw' => Behind(boot'[s].at, gates')
      PROVE  GatesBehind'
  <2>1. ASSUME NEW r \in Servers, r \notin threw', r # s PROVE Behind(boot'[r].at, gates')
    <3>1. boot'[r] = boot[r] /\ Behind(boot[r].at, gates)
      BY <1>r, <2>1 DEF GatesBehind
    <3> QED
      BY <1>m, <3>1
  <2> QED
    BY <1>r, <2>1 DEF GatesBehind
<1>s. ASSUME NEW s \in Servers,
             \A r \in Servers : r # s => boot'[r] = boot[r],
             threw' = threw, boot'[s].at = boot[s].at
      PROVE  GatesBehind'
  <2>1. s \notin threw' => Behind(boot'[s].at, gates')
    BY <1>s, <1>m DEF GatesBehind
  <2> QED
    BY <1>r, <1>s, <2>1
<1>p. ASSUME NEW s \in Servers, NEW x, Placed(s, x)
      PROVE  boot'[s].at = x /\ \A r \in Servers : r # s => boot'[r] = boot[r]
  <2>1. boot'[s] = At(x)
    BY <1>b, <1>p DEF Placed
  <2> QED
    BY <1>b, <1>p, <2>1 DEF Placed, At
<1>1. CASE UNCHANGED bootVars
  BY <1>1 DEF bootVars, database, bootHistory, GatesBehind
<1>2. ASSUME NEW s \in Servers, NEW x \in Stages \ {"calls", "tree", "up"}, Placed(s, x),
             threw \subseteq threw' \cup {s}
      PROVE  GatesBehind'
  BY <1>2, <1>g, <1>p, <1>r, BehindFacts
<1>3. ASSUME NEW s \in Servers, StartServer(s) \/ Kill(s) \/ CheckFormat(s) \/ TreesDone(s)
      PROVE  GatesBehind'
  <2>1. threw \subseteq threw' \cup {s}
    BY <1>3 DEF StartServer, Kill, CheckFormat, TreesDone, bootHistory
  <2>2. \E x \in {"open", "off", "migrate", "refused", "symbols"} : Placed(s, x)
    BY <1>3 DEF StartServer, Kill, CheckFormat, TreesDone, Placed
  <2>3. {"open", "off", "migrate", "refused", "symbols"} \subseteq Stages \ {"calls", "tree", "up"}
    BY DEF Stages
  <2> QED
    BY <1>2, <2>1, <2>2, <2>3
<1>4. ASSUME NEW s \in Servers, FindTrees(s),
             \/ Placed(s, "symbols")
             \/ StartTyped(s) /\ boot'[s].at = "trees"
      PROVE  GatesBehind'
  <2>1. threw' = threw
    BY <1>4 DEF FindTrees, bootHistory
  <2>2. {"symbols", "trees"} \subseteq Stages \ {"calls", "tree", "up"}
    BY DEF Stages
  <2>3. CASE Placed(s, "symbols")
    BY <1>2, <2>1, <2>2, <2>3
  <2>4. CASE StartTyped(s) /\ boot'[s].at = "trees"
    BY <1>g, <1>r, <2>1, <2>2, <2>4, BehindFacts DEF StartTyped
  <2> QED
    BY <1>4, <2>3, <2>4
<1>5. ASSUME NEW s \in Servers, NEW t \in JsonTrees, RenameTree(s) \/ MigrateTree(s, t)
      PROVE  GatesBehind'
  <2>1. threw' = threw
    BY <1>5 DEF RenameTree, MigrateTree, bootHistory
  <2>2. boot'[s].at \in {"trees", "rename"} /\ \A r \in Servers : r # s => boot'[r] = boot[r]
    BY <1>5, TreeMoves DEF StartTyped
  <2>3. {"rename", "trees"} \subseteq Stages \ {"calls", "tree", "up"}
    BY DEF Stages
  <2> QED
    BY <1>g, <1>r, <2>1, <2>2, <2>3, BehindFacts
<1>6. ASSUME NEW s \in Servers, RenameTree(s) PROVE GatesBehind'
  <2>1. threw' = threw
    BY <1>6 DEF RenameTree, bootHistory
  <2>2. boot'[s].at = "trees" /\ \A r \in Servers : r # s => boot'[r] = boot[r]
    BY <1>6, TreeMoves DEF StartTyped
  <2>3. "trees" \in Stages \ {"calls", "tree", "up"}
    BY DEF Stages
  <2> QED
    BY <1>g, <1>r, <2>1, <2>2, <2>3, BehindFacts
<1>7. ASSUME NEW s \in Servers, NEW f \in Sources \cup JsonTrees, threw' = threw,
             boot' = [boot EXCEPT ![s].left = @ \ {f}]
      PROVE  GatesBehind'
  BY <1>b, <1>7, <1>s, LeftFacts
<1>8. ASSUME NEW s \in Servers, NEW t \in JsonTrees, TreeIsGone(s, t) PROVE GatesBehind'
  BY <1>7, <1>8 DEF TreeIsGone, bootHistory
<1>9. ASSUME NEW s \in Servers, BuildTree(s) PROVE GatesBehind'
  <2>1. boot[s].at = "tree" /\ threw' = threw /\ Placed(s, "up")
    BY <1>9 DEF BuildTree, bootHistory, Placed
  <2>2. s \notin threw => PassNames \subseteq gates'
    BY <1>g, <2>1 DEF GatesBehind, Behind
  <2>3. s \notin threw => Behind("up", gates')
    BY <2>2, NotPasses DEF Behind, PassNames
  <2> QED
    BY <1>p, <1>r, <2>1, <2>3
<1>10. ASSUME NEW s \in Servers, NEW p \in PassNames, SkipPass(s, p) \/ SetGate(s, p) PROVE GatesBehind'
  <2>1. boot[s].at = p /\ threw' = threw /\ Placed(s, After(p))
    BY <1>10 DEF SkipPass, SetGate, Before, Running, bootHistory, Placed
  <2>2. s \notin threw => Behind(p, gates')
    BY <1>m, <2>1 DEF GatesBehind
  <2>3. s \notin threw => p \in gates'
    <3>1. CASE SkipPass(s, p)
      <4>1. gates' = gates /\ Skips(p)
        BY <3>1 DEF SkipPass, database
      <4> QED
        BY <1>b, <2>2, <4>1, BehindFacts DEF Skips
    <3>2. CASE SetGate(s, p)
      BY <3>2 DEF SetGate
    <3> QED
      BY <1>10, <3>1, <3>2
  <2>4. s \notin threw => Behind(After(p), gates')
    BY <1>g, <2>2, <2>3, BehindFacts
  <2> QED
    BY <1>p, <1>r, <2>1, <2>4
<1>11. ASSUME NEW s \in Servers, NEW p \in PassNames, PassThrows(s, p) PROVE GatesBehind'
  <2>1. threw' = threw \cup {s} /\ Placed(s, AfterThrow(p))
    BY <1>11 DEF PassThrows, Placed
  <2> QED
    BY <1>p, <1>r, <2>1
<1>12. ASSUME NEW s \in Servers, NEW p \in PassNames, BeginPass(s, p) PROVE GatesBehind'
  <2>1. threw' = threw
    BY <1>12 DEF BeginPass, bootHistory
  <2> QED
    BY <1>12, <1>s, <2>1, BegunFacts
<1>13. ASSUME NEW s \in Servers, NEW p \in PassNames, NEW f \in Sources,
              VisitSource(s, p, f) \/ SkipSource(s, p, f)
       PROVE  GatesBehind'
  BY <1>7, <1>13 DEF VisitSource, SkipSource, bootHistory
<1>14. ASSUME NEW s \in Servers, FaultMoves(s) PROVE GatesBehind'
  <2>1. threw' = threw
    BY <1>14 DEF FaultMoves
  <2>2. boot'[s].at \in {"symbols", "trees"} /\ \A r \in Servers : r # s => boot'[r] = boot[r]
    BY <1>14 DEF FaultMoves, StartTyped
  <2>3. {"symbols", "trees"} \subseteq Stages \ {"calls", "tree", "up"}
    BY DEF Stages
  <2> QED
    BY <1>g, <1>r, <2>1, <2>2, <2>3, BehindFacts
<1> QED
  BY <1>14, <1>1, <1>3, <1>4, <1>5, <1>6, <1>8, <1>9, <1>10, <1>11, <1>12, <1>13, BootMoves

\* What a step of start s does to the servers that start, and to the gates.
StartMoves(s) ==
    /\ \A r \in Servers : r # s => boot'[r] = boot[r]
    /\ \/ overlap' <=> (overlap \/ \E r \in Servers : Starting(r))
       \/ overlap' = overlap /\ boot'[s].at = "off"
       \/ overlap' = overlap /\ Starting(s)
    /\ gates' = gates \/ (Starting(s) /\ ~boot'[s].running)
    /\ boot'[s].running => \/ boot'[s].at \notin gates
                           \/ (boot[s].running /\ boot'[s].at = boot[s].at)

LEMMA PassesStart ==
    /\ \A s \in Servers : boot[s].at \in PassNames => Starting(s)
    /\ \A s \in Servers : boot[s].at \in {"open", "migrate", "trees", "rename", "tree"} => Starting(s)
<1> QED
  BY NotPasses DEF Starting

LEMMA BootStartMoves ==
    ASSUME BootTypes, [BootNext]_bootVars
    PROVE  UNCHANGED bootVars \/ \E s \in Servers : StartMoves(s)
<1>b. boot \in [Servers -> BootState]
  BY DEF BootTypes
<1>p. ASSUME NEW s \in Servers, NEW x, Placed(s, x)
      PROVE  boot'[s].at = x /\ ~boot'[s].running /\ \A r \in Servers : r # s => boot'[r] = boot[r]
  <2>1. boot'[s] = At(x)
    BY <1>b, <1>p DEF Placed
  <2> QED
    BY <1>b, <1>p, <2>1 DEF Placed, At
<1>l. ASSUME NEW s \in Servers, NEW f \in Sources \cup JsonTrees, boot' = [boot EXCEPT ![s].left = @ \ {f}]
      PROVE  /\ boot'[s].at = boot[s].at /\ boot'[s].running = boot[s].running
             /\ \A r \in Servers : r # s => boot'[r] = boot[r]
  BY <1>b, <1>l, LeftFacts
<1>1. ASSUME NEW s \in Servers, StartServer(s), Placed(s, "open") PROVE StartMoves(s)
  <2>1. gates' = gates
    BY <1>1 DEF StartServer, database
  <2>2. overlap' <=> (overlap \/ \E r \in Servers : Starting(r))
    BY <1>1 DEF StartServer
  <2> QED
    BY <1>1, <1>p, <2>1, <2>2 DEF StartMoves
<1>2. ASSUME NEW s \in Servers, Kill(s), Placed(s, "off") PROVE StartMoves(s)
  <2>1. gates' = gates /\ overlap' = overlap
    BY <1>2 DEF Kill, database
  <2> QED
    BY <1>2, <1>p, <2>1 DEF StartMoves
<1>3. ASSUME NEW s \in Servers, NEW x, Placed(s, x),
             CheckFormat(s) \/ TreesDone(s) \/ BuildTree(s) \/ FindTrees(s)
      PROVE  StartMoves(s)
  <2>1. gates' = gates /\ overlap' = overlap
    BY <1>3 DEF CheckFormat, TreesDone, BuildTree, FindTrees, database, bootHistory
  <2>2. boot[s].at \in {"open", "migrate", "trees", "rename", "tree"}
    BY <1>3 DEF CheckFormat, TreesDone, BuildTree, FindTrees
  <2> QED
    BY <1>3, <1>p, <2>1, <2>2, PassesStart DEF StartMoves
<1>4. ASSUME NEW s \in Servers, FindTrees(s), StartTyped(s), ~boot'[s].running PROVE StartMoves(s)
  <2>1. gates' = gates /\ overlap' = overlap
    BY <1>4 DEF FindTrees, database, bootHistory
  <2>2. boot[s].at = "migrate"
    BY <1>4 DEF FindTrees
  <2> QED
    BY <1>4, <2>1, <2>2, PassesStart DEF StartMoves, StartTyped
<1>5. ASSUME NEW s \in Servers, RenameTree(s) PROVE StartMoves(s)
  <2>1. gates' = gates /\ overlap' = overlap /\ boot[s].at = "rename"
    BY <1>5 DEF RenameTree, bootHistory
  <2> QED
    BY <1>5, <2>1, PassesStart, TreeMoves DEF StartMoves, StartTyped
<1>6. ASSUME NEW s \in Servers, NEW t \in JsonTrees, MigrateTree(s, t) PROVE StartMoves(s)
  <2>1. gates' = gates /\ overlap' = overlap /\ boot[s].at = "trees"
    BY <1>6 DEF MigrateTree
  <2>2. ~boot'[s].running /\ \A r \in Servers : r # s => boot'[r] = boot[r]
    BY <1>6, TreeMoves DEF StartTyped
  <2> QED
    BY <2>1, <2>2, PassesStart DEF StartMoves
<1>7. ASSUME NEW s \in Servers, NEW t \in JsonTrees, TreeIsGone(s, t) PROVE StartMoves(s)
  <2>1. /\ gates' = gates /\ overlap' = overlap /\ boot[s].at = "trees"
        /\ boot' = [boot EXCEPT ![s].left = @ \ {t}]
    BY <1>7 DEF TreeIsGone, database, bootHistory
  <2>2. Starting(s)
    BY <2>1, PassesStart
  <2>3. /\ boot'[s].at = boot[s].at /\ (boot'[s].running => boot[s].running)
        /\ \A r \in Servers : r # s => boot'[r] = boot[r]
    BY <1>l, <2>1
  <2> QED
    BY <2>1, <2>2, <2>3 DEF StartMoves
<1>8. ASSUME NEW s \in Servers, NEW p \in PassNames, NEW x, Placed(s, x),
             SkipPass(s, p) \/ SetGate(s, p) \/ PassThrows(s, p)
      PROVE  StartMoves(s)
  <2>1. overlap' = overlap /\ boot[s].at = p
    BY <1>8 DEF SkipPass, SetGate, PassThrows, Before, Running, bootHistory
  <2> QED
    BY <1>8, <1>p, <2>1, PassesStart DEF StartMoves
<1>9. ASSUME NEW s \in Servers, NEW p \in PassNames, BeginPass(s, p) PROVE StartMoves(s)
  <2>1. overlap' = overlap /\ gates' = gates /\ p \notin gates
    BY <1>9 DEF BeginPass, Skips, database, bootHistory
  <2>2. boot'[s].at = p /\ boot[s].at = p /\ \A r \in Servers : r # s => boot'[r] = boot[r]
    BY <1>9, BegunFacts
  <2>3. Starting(s)
    BY <2>2, PassesStart
  <2> QED
    BY <2>1, <2>2, <2>3 DEF StartMoves
<1>10. ASSUME NEW s \in Servers, NEW p \in PassNames, NEW f \in Sources,
              VisitSource(s, p, f) \/ SkipSource(s, p, f)
       PROVE  StartMoves(s)
  <2>1. /\ overlap' = overlap /\ gates' = gates /\ boot[s].at = p
        /\ boot' = [boot EXCEPT ![s].left = @ \ {f}]
    BY <1>10 DEF VisitSource, SkipSource, Running, database, bootHistory
  <2>2. Starting(s)
    BY <2>1, PassesStart
  <2>3. /\ boot'[s].at = boot[s].at /\ (boot'[s].running => boot[s].running)
        /\ \A r \in Servers : r # s => boot'[r] = boot[r]
    BY <1>l, <2>1
  <2> QED
    BY <2>1, <2>2, <2>3 DEF StartMoves
<1>11. ASSUME NEW s \in Servers, FaultMoves(s) PROVE StartMoves(s)
  <2>1. gates' = gates /\ overlap' = overlap /\ ~boot'[s].running
        /\ \A r \in Servers : r # s => boot'[r] = boot[r]
    BY <1>11 DEF FaultMoves, StartTyped
  <2>2. Starting(s)
    BY <1>11, PassesStart DEF FaultMoves
  <2> QED
    BY <2>1, <2>2 DEF StartMoves
<1> QED
  BY <1>11, <1>1, <1>2, <1>3, <1>4, <1>5, <1>6, <1>7, <1>8, <1>9, <1>10, BootMoves

LEMMA StartsAloneStep ==
    ASSUME BootTypes, StartsAlone, [BootNext]_bootVars
    PROVE  StartsAlone'
<1>1. CASE UNCHANGED bootVars
  BY <1>1 DEF bootVars, database, bootHistory, StartsAlone, Starting
<1>2. ASSUME NEW s \in Servers, StartMoves(s), ~overlap'
      PROVE  /\ \A r, q \in Servers : Starting(r)' /\ Starting(q)' => r = q
             /\ \A r \in Servers : boot'[r].running => boot'[r].at \notin gates'
  <2>1. ~overlap
    BY <1>2, BootRowsGrow DEF Grown
  <2>2. \A r, q \in Servers : Starting(r) /\ Starting(q) => r = q
    BY <2>1 DEF StartsAlone
  <2>3. \A r \in Servers : boot[r].running => boot[r].at \notin gates /\ Starting(r)
    BY <2>1, PassesStart DEF StartsAlone, BootTypes
  <2>4. \A r \in Servers : r # s => (Starting(r)' <=> Starting(r)) /\ boot'[r] = boot[r]
    BY <1>2 DEF StartMoves, Starting
  <2>5. \A r, q \in Servers : Starting(r)' /\ Starting(q)' => r = q
    <3>1. CASE overlap' <=> (overlap \/ \E r \in Servers : Starting(r))
      BY <1>2, <2>4, <3>1
    <3>2. CASE boot'[s].at = "off"
      BY <2>2, <2>4, <3>2 DEF Starting
    <3>3. CASE Starting(s)
      BY <2>2, <2>4, <3>3
    <3> QED
      BY <1>2, <3>1, <3>2, <3>3 DEF StartMoves
  <2>6. \A r \in Servers : boot'[r].running => boot'[r].at \notin gates'
    <3>1. CASE gates' = gates
      BY <1>2, <2>3, <2>4, <3>1 DEF StartMoves
    <3>2. CASE Starting(s) /\ ~boot'[s].running
      BY <2>2, <2>3, <2>4, <3>2
    <3> QED
      BY <1>2, <3>1, <3>2 DEF StartMoves
  <2> QED
    BY <2>5, <2>6
<1>3. CASE \E s \in Servers : StartMoves(s)
  BY <1>2, <1>3 DEF StartsAlone
<1> QED
  BY <1>1, <1>3, BootStartMoves

LEMMA VisitedOrLeftStep ==
    ASSUME BootTypes, VisitedOrLeft, [BootNext]_bootVars
    PROVE  VisitedOrLeft'
<1>b. boot \in [Servers -> BootState] /\ \A s \in Servers : boot[s].running => boot[s].at \in PassNames
  BY DEF BootTypes
<1>g. rows \subseteq rows' /\ symbols \subseteq symbols' /\ skipped \subseteq skipped' /\ (lateTree => lateTree')
  BY BootRowsGrow DEF Grown
<1>p. ASSUME NEW s \in Servers, NEW x, Placed(s, x)
      PROVE  ~boot'[s].running /\ \A r \in Servers : r # s => boot'[r] = boot[r]
  <2>1. boot'[s] = At(x)
    BY <1>b, <1>p DEF Placed
  <2> QED
    BY <1>b, <1>p, <2>1 DEF Placed, At
<1>r. ASSUME NEW s \in Servers,
             \A r \in Servers : r # s => boot'[r] = boot[r],
             rows' \subseteq rows \cup symbols',
             \/ gates' = gates
             \/ ~lateTree => \A p \in gates' : SourcesOf(p) \subseteq symbols \cup skipped,
             boot'[s].running /\ ~lateTree =>
                SourcesOf(boot'[s].at) \subseteq boot'[s].left \cup symbols' \cup skipped'
      PROVE  VisitedOrLeft'
  <2>1. \A p : SourcesOf(p)' \subseteq SourcesOf(p) \cup symbols'
    BY <1>r DEF SourcesOf
  <2>2. ~lateTree => \A p \in gates' : SourcesOf(p) \subseteq symbols \cup skipped
    BY <1>r DEF VisitedOrLeft
  <2>3. ASSUME ~lateTree, NEW r \in Servers, boot'[r].running
        PROVE  SourcesOf(boot'[r].at) \subseteq boot'[r].left \cup symbols' \cup skipped'
    <3>1. CASE r = s
      BY <1>r, <2>3, <3>1
    <3>2. CASE r # s
      BY <1>r, <1>g, <2>3, <3>2 DEF VisitedOrLeft
    <3> QED
      BY <3>1, <3>2
  <2> QED
    BY <1>g, <2>1, <2>2, <2>3 DEF VisitedOrLeft
<1>1. CASE UNCHANGED bootVars
  BY <1>1 DEF bootVars, database, bootHistory, VisitedOrLeft, SourcesOf
<1>2. ASSUME NEW s \in Servers, NEW x, Placed(s, x),
             StartServer(s) \/ Kill(s) \/ CheckFormat(s) \/ TreesDone(s) \/ FindTrees(s)
      PROVE  VisitedOrLeft'
  <2>1. rows' = rows /\ gates' = gates
    BY <1>2 DEF StartServer, Kill, CheckFormat, TreesDone, FindTrees, database
  <2> QED
    BY <1>2, <1>p, <1>r, <2>1
<1>3. ASSUME NEW s \in Servers, FindTrees(s), StartTyped(s), ~boot'[s].running PROVE VisitedOrLeft'
  <2>1. rows' = rows /\ gates' = gates
    BY <1>3 DEF FindTrees, database
  <2> QED
    BY <1>3, <1>r, <2>1 DEF StartTyped
<1>4. ASSUME NEW s \in Servers, RenameTree(s) PROVE VisitedOrLeft'
  <2>1. rows' = rows /\ gates' = gates
    BY <1>4 DEF RenameTree
  <2> QED
    BY <1>4, <1>r, <2>1, TreeMoves DEF StartTyped
<1>5. ASSUME NEW s \in Servers, NEW t \in JsonTrees, MigrateTree(s, t) PROVE VisitedOrLeft'
  <2>1. lateTree' <=> (lateTree \/ PassesBegan)
    BY <1>5 DEF MigrateTree
  <2>2. gates' = gates
    BY <1>5 DEF MigrateTree
  <2>3. ~boot'[s].running /\ \A r \in Servers : r # s => boot'[r] = boot[r]
    BY <1>5, TreeMoves DEF StartTyped
  <2>4. ~lateTree' => gates' = {} /\ \A r \in Servers : ~boot'[r].running
    BY <2>1, <2>2, <2>3 DEF PassesBegan
  <2> QED
    BY <2>4 DEF VisitedOrLeft
<1>6. ASSUME NEW s \in Servers, NEW t \in JsonTrees, TreeIsGone(s, t) PROVE VisitedOrLeft'
  <2>1. rows' = rows /\ gates' = gates /\ boot[s].at = "trees" /\ boot' = [boot EXCEPT ![s].left = @ \ {t}]
    BY <1>6 DEF TreeIsGone, database
  <2>2. ~boot[s].running
    BY <1>b, <2>1, NotPasses
  <2>3. ~boot'[s].running /\ \A r \in Servers : r # s => boot'[r] = boot[r]
    BY <1>b, <2>1, <2>2, LeftFacts
  <2> QED
    BY <1>r, <2>1, <2>3
<1>7. ASSUME NEW s \in Servers, BuildTree(s), Placed(s, "up") PROVE VisitedOrLeft'
  <2>1. rows' \subseteq rows \cup symbols' /\ gates' = gates
    BY <1>7 DEF BuildTree
  <2> QED
    BY <1>7, <1>p, <1>r, <2>1
<1>8. ASSUME NEW s \in Servers, NEW p \in PassNames, NEW x, Placed(s, x), SkipPass(s, p) \/ PassThrows(s, p)
      PROVE  VisitedOrLeft'
  <2>1. rows' = rows /\ gates' = gates
    BY <1>8 DEF SkipPass, PassThrows, database
  <2> QED
    BY <1>8, <1>p, <1>r, <2>1
<1>9. ASSUME NEW s \in Servers, NEW p \in PassNames, NEW x, Placed(s, x), SetGate(s, p) PROVE VisitedOrLeft'
  <2>1. rows' = rows /\ gates' = gates \cup {p} /\ boot[s].running /\ boot[s].at = p /\ boot[s].left = {}
    BY <1>9 DEF SetGate, Running
  <2>2. ~lateTree => \A q \in gates' : SourcesOf(q) \subseteq symbols \cup skipped
    BY <2>1 DEF VisitedOrLeft
  <2> QED
    BY <1>9, <1>p, <1>r, <2>1, <2>2
<1>10. ASSUME NEW s \in Servers, NEW p \in PassNames, BeginPass(s, p) PROVE VisitedOrLeft'
  <2>1. rows' = rows /\ gates' = gates
    BY <1>10 DEF BeginPass, database
  <2>2. boot'[s].at = p /\ boot'[s].left = SourcesOf(p) /\ \A r \in Servers : r # s => boot'[r] = boot[r]
    BY <1>10, BegunFacts
  <2>3. boot'[s].running /\ ~lateTree =>
           SourcesOf(boot'[s].at) \subseteq boot'[s].left \cup symbols' \cup skipped'
    BY <2>2
  <2> QED
    BY <1>r, <2>1, <2>2, <2>3
<1>11. ASSUME NEW s \in Servers, NEW p \in PassNames, NEW f \in Sources,
              VisitSource(s, p, f) \/ SkipSource(s, p, f)
       PROVE  VisitedOrLeft'
  <2>1. /\ rows' = rows /\ gates' = gates /\ boot[s].running /\ f \in symbols' \cup skipped'
        /\ boot' = [boot EXCEPT ![s].left = @ \ {f}]
    BY <1>11 DEF VisitSource, SkipSource, Running, Extract, database
  <2>2. boot'[s].at = boot[s].at /\ boot'[s].left = boot[s].left \ {f} /\ \A r \in Servers : r # s => boot'[r] = boot[r]
    BY <1>b, <2>1, LeftFacts
  <2>3. boot'[s].running /\ ~lateTree =>
           SourcesOf(boot'[s].at) \subseteq boot'[s].left \cup symbols' \cup skipped'
    BY <1>g, <2>1, <2>2 DEF VisitedOrLeft
  <2> QED
    BY <1>r, <2>1, <2>2, <2>3
<1>12. ASSUME NEW s \in Servers, FaultMoves(s) PROVE VisitedOrLeft'
  <2>1. rows' = rows /\ gates' = gates /\ ~boot'[s].running /\ \A r \in Servers : r # s => boot'[r] = boot[r]
    BY <1>12 DEF FaultMoves, StartTyped
  <2> QED
    BY <1>r, <2>1
<1> QED
  BY <1>12, <1>1, <1>2, <1>3, <1>4, <1>5, <1>6, <1>7, <1>8, <1>9, <1>10, <1>11, BootMoves

LEMMA CallsComeLastStep ==
    ASSUME BootTypes, FaultsCounted, GatesBehind, StartsAlone, CallsComeLast, [BootNext]_bootVars
    PROVE  CallsComeLast'
<1> DEFINE Gated(gs) == \A i \in 1..Len(Passes) - 1 : Passes[i] \in gs
<1>g. gates \subseteq gates' /\ (overlap => overlap')
  BY BootRowsGrow DEF Grown
<1>n. Len(Passes) \in Nat /\ Len(Passes) >= 2
  BY PassFacts
<1>d. DOMAIN Passes = 1..Len(Passes)
  BY PassFacts
<1>t. throws' = 0 => throws = 0
  <2>1. ASSUME NEW s \in Servers, NEW p \in PassNames, PassThrows(s, p) PROVE throws' # 0
    <3>1. throws \in Nat /\ throws' = throws + 1
      BY <2>1 DEF FaultsCounted, PassThrows
    <3> QED
      BY <3>1
  <2>2. CASE UNCHANGED bootVars
    BY <2>2 DEF bootVars, bootHistory
  <2>3. ASSUME NEW s \in Servers,
               \/ StartServer(s) \/ Kill(s) \/ CheckFormat(s) \/ FindTrees(s) \/ RenameTree(s)
               \/ TreesDone(s) \/ BuildTree(s)
        PROVE  throws' = throws
    BY <2>3 DEF StartServer, Kill, CheckFormat, FindTrees, RenameTree, TreesDone, BuildTree, bootHistory
  <2>4. ASSUME NEW s \in Servers, NEW t \in JsonTrees, MigrateTree(s, t) \/ TreeIsGone(s, t)
        PROVE  throws' = throws
    BY <2>4 DEF MigrateTree, TreeIsGone, bootHistory
  <2>5. ASSUME NEW s \in Servers, NEW p \in PassNames, SkipPass(s, p) \/ BeginPass(s, p) \/ SetGate(s, p)
        PROVE  throws' = throws
    BY <2>5 DEF SkipPass, BeginPass, SetGate, bootHistory
  <2>7. ASSUME NEW s \in Servers, TreeFault(s) PROVE throws' = throws
    BY <2>7, FaultFacts DEF FaultMoves
  <2>6. ASSUME NEW s \in Servers, NEW p \in PassNames, NEW f \in Sources,
               VisitSource(s, p, f) \/ SkipSource(s, p, f)
        PROVE  throws' = throws
    BY <2>6 DEF VisitSource, SkipSource, bootHistory
  <2> QED
    BY <2>7, <2>1, <2>2, <2>3, <2>4, <2>5, <2>6, BootCases DEF PassStep
<1> SUFFICES ASSUME ~overlap', throws' = 0
             PROVE  (\A c \in callRows' : c.callerLive) /\ (callRows' # {} => Gated(gates'))
  BY DEF CallsComeLast
<1>i. ~overlap /\ threw = {} /\ (\A c \in callRows : c.callerLive) /\ (callRows # {} => Gated(gates))
  BY <1>g, <1>t DEF CallsComeLast, FaultsCounted
<1>m. Gated(gates) => Gated(gates')
  BY <1>g
<1>s. ASSUME callRows' = callRows
      PROVE  (\A c \in callRows' : c.callerLive) /\ (callRows' # {} => Gated(gates'))
  BY <1>s, <1>i, <1>m
<1>1. CASE callRows' = callRows
  BY <1>s, <1>1
<1>2. ASSUME NEW s \in Servers, NEW p \in PassNames, NEW f \in Sources, VisitSource(s, p, f), p # "calls"
      PROVE  callRows' = {}
  <2>1. boot[s].at = p /\ boot[s].running /\ callRows' = Orphans(callRows, f)
    BY <1>2 DEF VisitSource, Running, Extract
  <2>2. p \notin gates
    BY <1>i, <2>1 DEF StartsAlone
  <2>3. PICK i \in 1..Len(Passes) : p = Passes[i]
    BY <1>d DEF PassNames
  <2>4. i # Len(Passes)
    BY <1>2, <2>3, PassFacts
  <2>5. i \in 1..Len(Passes) - 1
    BY <1>n, <2>4
  <2>6. callRows = {}
    BY <1>i, <2>2, <2>3, <2>5
  <2> QED
    BY <2>1, <2>6 DEF Orphans
<1>3. ASSUME NEW s \in Servers, NEW f \in Sources, VisitSource(s, "calls", f)
      PROVE  (\A c \in callRows' : c.callerLive) /\ Gated(gates')
  <2>1. /\ boot[s].at = "calls"
        /\ callRows' = Orphans(callRows \ CallerRows(f), f) \cup CallsFrom(f, symbols)
    BY <1>3 DEF VisitSource, Running, Extract
  <2>2. Gated(gates)
    <3>1. Behind("calls", gates)
      BY <1>i, <2>1 DEF GatesBehind
    <3>0. Len(Passes) \in 1..Len(Passes)
      BY <1>n
    <3>2. Len(Passes) \in 1..Len(Passes) /\ Passes[Len(Passes)] = "calls"
      BY <3>0, PassFacts
    <3> QED
      BY <1>d, <3>1, <3>2 DEF Behind
  <2>3. symbols \in SUBSET Sources /\ callRows \ CallerRows(f) \in SUBSET CallRow
    BY DEF BootTypes
  <2>4. \A c \in CallsFrom(f, symbols) : c.callerLive
    BY <2>3, CallTypes
  <2>5. ASSUME NEW c \in Orphans(callRows \ CallerRows(f), f), ~c.callerLive PROVE FALSE
    <3>1. PICK d \in callRows \ CallerRows(f) : ~d.callerLive \/ d.caller = f
      BY <2>3, <2>5, CallTypes
    <3> QED
      BY <1>i, <3>1 DEF CallerRows
  <2> QED
    BY <1>m, <2>1, <2>2, <2>4, <2>5
<1>4. ASSUME NEW s \in Servers, BuildTree(s)
      PROVE  (\A c \in callRows' : c.callerLive) /\ Gated(gates')
  <2> DEFINE new == Sources \ rows
             made(f) == CallsFrom(f, symbols \cup {g \in new : g < f})
  <2>1. boot[s].at = "tree" /\ callRows' = callRows \cup UNION {made(f) : f \in new}
    BY <1>4 DEF BuildTree
  <2>2. \A f \in new : \A c \in made(f) : c.callerLive
    <3>1. \A f \in new : symbols \cup {g \in new : g < f} \subseteq Sources
      BY DEF BootTypes
    <3>2. {} \subseteq CallRow
      OBVIOUS
    <3> QED
      BY <3>1, <3>2, CallTypes
  <2>3. PassNames \subseteq gates
    BY <1>i, <2>1 DEF GatesBehind, Behind
  <2>4. Gated(gates)
    <3>1. \A i \in 1..Len(Passes) - 1 : i \in 1..Len(Passes)
      BY <1>n
    <3> QED
      BY <1>d, <2>3, <3>1 DEF PassNames
  <2> HIDE DEF new, made
  <2> QED
    BY <1>i, <1>m, <2>1, <2>2, <2>4
<1>5. ASSUME NEW s \in Servers,
             \/ StartServer(s) \/ Kill(s) \/ CheckFormat(s) \/ FindTrees(s) \/ RenameTree(s) \/ TreesDone(s)
      PROVE  callRows' = callRows
  BY <1>5 DEF StartServer, Kill, CheckFormat, FindTrees, RenameTree, TreesDone, database
<1>6. ASSUME NEW s \in Servers, NEW t \in JsonTrees, MigrateTree(s, t) \/ TreeIsGone(s, t)
      PROVE  callRows' = callRows
  BY <1>6 DEF MigrateTree, TreeIsGone, database
<1>7. ASSUME NEW s \in Servers, NEW p \in PassNames, NEW f \in Sources,
             SkipPass(s, p) \/ BeginPass(s, p) \/ SetGate(s, p) \/ PassThrows(s, p) \/ SkipSource(s, p, f)
      PROVE  callRows' = callRows
  BY <1>7 DEF SkipPass, BeginPass, SetGate, PassThrows, SkipSource, database
<1>8. ASSUME NEW s \in Servers, NEW p \in PassNames,
             SkipPass(s, p) \/ BeginPass(s, p) \/ SetGate(s, p) \/ PassThrows(s, p)
      PROVE  callRows' = callRows
  BY <1>8 DEF SkipPass, BeginPass, SetGate, PassThrows, database
<1>9. CASE UNCHANGED bootVars
  BY <1>1, <1>9 DEF bootVars, database
<1>10. ASSUME NEW s \in Servers, NEW p \in PassNames, NEW f \in Sources, VisitSource(s, p, f)
       PROVE  (\A c \in callRows' : c.callerLive) /\ (callRows' # {} => Gated(gates'))
  <2>1. CASE p = "calls"
    BY <1>3, <1>10, <2>1
  <2>2. CASE p # "calls"
    BY <1>2, <1>10, <2>2
  <2> QED
    BY <2>1, <2>2
<1> HIDE DEF Gated
<1>11. ASSUME NEW s \in Servers, TreeFault(s) PROVE callRows' = callRows
  BY <1>11, FaultFacts DEF FaultMoves
<1> QED
  BY <1>11, <1>1, <1>4, <1>5, <1>6, <1>7, <1>8, <1>9, <1>10, BootCases DEF PassStep

LEMMA TreesFoundStep ==
    ASSUME BootTypes, FaultsCounted, StartsAlone, TreesFound, [BootNext]_bootVars
    PROVE  TreesFound'
<1> DEFINE Clear(js) == \A t \in JsonTrees : js[t] = "json" => t \in failedTrees'
           Found(stage, left, js) ==
      /\ stage \in {"trees", "rename"} => \A t \in JsonTrees : js[t] = "json" => t \in left \cup failedTrees'
      /\ stage \in PassNames \cup {"tree", "up"} => Clear(js)
<1>b. boot \in [Servers -> BootState] /\ json \in [JsonTrees -> {"none", "json", "bak"}]
  BY DEF BootTypes
<1>g. overlap => overlap'
  BY BootRowsGrow DEF Grown
<1>k. kills' = 0 => UNCHANGED bootVars \/ (kills = 0 /\ \A s \in Servers : ~Kill(s))
  <2>1. ASSUME NEW s \in Servers, Kill(s) PROVE kills' # 0
    <3>1. kills \in Nat /\ kills' = kills + 1
      BY <2>1 DEF FaultsCounted, Kill
    <3> QED
      BY <3>1
  <2>3. ASSUME NEW s \in Servers,
               \/ StartServer(s) \/ CheckFormat(s) \/ FindTrees(s) \/ RenameTree(s)
               \/ TreesDone(s) \/ BuildTree(s)
        PROVE  kills' = kills
    BY <2>3 DEF StartServer, CheckFormat, FindTrees, RenameTree, TreesDone, BuildTree, bootHistory
  <2>4. ASSUME NEW s \in Servers, NEW t \in JsonTrees, MigrateTree(s, t) \/ TreeIsGone(s, t)
        PROVE  kills' = kills
    BY <2>4 DEF MigrateTree, TreeIsGone, bootHistory
  <2>5. ASSUME NEW s \in Servers, NEW p \in PassNames,
               SkipPass(s, p) \/ BeginPass(s, p) \/ SetGate(s, p) \/ PassThrows(s, p)
        PROVE  kills' = kills
    BY <2>5 DEF SkipPass, BeginPass, SetGate, PassThrows, bootHistory
  <2>6. ASSUME NEW s \in Servers, NEW p \in PassNames, NEW f \in Sources,
               VisitSource(s, p, f) \/ SkipSource(s, p, f)
        PROVE  kills' = kills
    BY <2>6 DEF VisitSource, SkipSource, bootHistory
  <2>7. ASSUME NEW s \in Servers, TreeFault(s) PROVE kills' = kills
    BY <2>7, FaultFacts DEF FaultMoves
  <2> QED
    BY <2>1, <2>3, <2>4, <2>5, <2>6, <2>7, BootCases DEF PassStep
<1>f. failedTrees \subseteq failedTrees'
  <2>1. ASSUME NEW s \in Servers,
               \/ StartServer(s) \/ Kill(s) \/ CheckFormat(s) \/ FindTrees(s) \/ RenameTree(s)
               \/ TreesDone(s) \/ BuildTree(s)
        PROVE  failedTrees' = failedTrees
    BY <2>1 DEF StartServer, Kill, CheckFormat, FindTrees, RenameTree, TreesDone, BuildTree, bootHistory
  <2>2. ASSUME NEW s \in Servers, NEW t \in JsonTrees, MigrateTree(s, t) \/ TreeIsGone(s, t)
        PROVE  failedTrees' = failedTrees
    BY <2>2 DEF MigrateTree, TreeIsGone, bootHistory
  <2>3. ASSUME NEW s \in Servers, NEW p \in PassNames,
               SkipPass(s, p) \/ BeginPass(s, p) \/ SetGate(s, p) \/ PassThrows(s, p)
        PROVE  failedTrees' = failedTrees
    BY <2>3 DEF SkipPass, BeginPass, SetGate, PassThrows, bootHistory
  <2>4. ASSUME NEW s \in Servers, NEW p \in PassNames, NEW f \in Sources,
               VisitSource(s, p, f) \/ SkipSource(s, p, f)
        PROVE  failedTrees' = failedTrees
    BY <2>4 DEF VisitSource, SkipSource, bootHistory
  <2>5. CASE UNCHANGED bootVars
    BY <2>5 DEF bootVars, bootHistory
  <2>6. ASSUME NEW s \in Servers, TreeFault(s) PROVE failedTrees \subseteq failedTrees'
    BY <2>6, FaultFacts DEF FaultMoves
  <2> QED
    BY <2>1, <2>2, <2>3, <2>4, <2>5, <2>6, BootCases DEF PassStep
<1>0. CASE UNCHANGED bootVars
  BY <1>0 DEF bootVars, database, bootHistory, TreesFound, NoJson, Migrating
<1> SUFFICES ASSUME ~overlap', kills' = 0, ~UNCHANGED bootVars
             PROVE  /\ \A s \in Servers : Found(boot'[s].at, boot'[s].left, json')
                    /\ rows' # {} => Clear(json') \/ \E s \in Servers : Migrating(s)'
  BY <1>0 DEF TreesFound, Migrating, NoJson
<1>i. /\ \A s \in Servers : Found(boot[s].at, boot[s].left, json)
      /\ rows # {} => Clear(json) \/ \E s \in Servers : Migrating(s)
      /\ \A r, s \in Servers : Starting(r) /\ Starting(s) => r = s
      /\ \A s \in Servers : ~Kill(s)
  BY <1>f, <1>g, <1>k DEF TreesFound, Migrating, NoJson, StartsAlone
<1>n. ASSUME Clear(json') PROVE \A stage, left : Found(stage, left, json')
  BY <1>n 
<1>m. \A stage, left : Found(stage, left, json) /\ stage \in PassNames \cup {"tree", "up"} => Clear(json)
  OBVIOUS
<1>r. ASSUME NEW s \in Servers,
             \A r \in Servers : r # s => boot'[r] = boot[r],
             json' = json, Found(boot'[s].at, boot'[s].left, json)
      PROVE  \A r \in Servers : Found(boot'[r].at, boot'[r].left, json')
  <2> HIDE DEF Found
  <2> QED
    BY <1>r, <1>i
<1>p. ASSUME NEW s \in Servers, NEW x, Placed(s, x)
      PROVE  boot'[s].at = x /\ \A r \in Servers : r # s => boot'[r] = boot[r]
  <2>1. boot'[s] = At(x)
    BY <1>b, <1>p DEF Placed
  <2> QED
    BY <1>b, <1>p, <2>1 DEF Placed, At
<1> DEFINE Goal == /\ \A s \in Servers : Found(boot'[s].at, boot'[s].left, json')
                   /\ rows' # {} => Clear(json') \/ \E s \in Servers : Migrating(s)'
<1>q. ASSUME Clear(json') PROVE Goal
  BY <1>n, <1>q
<1>o. ASSUME NEW s \in Servers, ~Migrating(s), rows' = rows, json' = json,
             \A r \in Servers : r # s => boot'[r] = boot[r]
      PROVE  rows' # {} => Clear(json') \/ \E r \in Servers : Migrating(r)'
  BY <1>i, <1>o DEF Migrating
<1>1. ASSUME NEW s \in Servers, NEW x \in {"open", "migrate", "refused"}, Placed(s, x),
             StartServer(s) \/ CheckFormat(s)
      PROVE  Goal
  <2>1. /\ rows' = rows /\ json' = json
        /\ boot[s].at \in {"off", "open"}
    BY <1>1 DEF StartServer, CheckFormat, database
  <2>2. \A left : Found(x, left, json)
    BY NotPasses
  <2>3. ~Migrating(s)
    BY <2>1 DEF Migrating
  <2> HIDE DEF Found
  <2> QED
    BY <1>1, <1>p, <1>r, <1>o, <2>1, <2>2, <2>3
<1>2. ASSUME NEW s \in Servers, FindTrees(s), rows # {} PROVE Goal
  <2>1. json' = json /\ boot[s].at = "migrate"
    BY <1>2 DEF FindTrees, database
  <2>2. \A r \in Servers : Migrating(r) => r = s
    BY <1>i, <2>1, PassesStart DEF Migrating
  <2>3. Clear(json')
    BY <1>i, <1>2, <2>1, <2>2 DEF Migrating
  <2> QED
    BY <1>q, <2>3
<1>3. ASSUME NEW s \in Servers, FindTrees(s), rows = {}, StartTyped(s), boot'[s].at = "trees",
             boot'[s].left = {t \in JsonTrees : json[t] = "json"}
      PROVE  Goal
  <2>1. json' = json /\ rows' = {}
    BY <1>3 DEF FindTrees, database
  <2>2. Found(boot'[s].at, boot'[s].left, json)
    BY <1>3, NotPasses
  <2>3. \A r \in Servers : r # s => boot'[r] = boot[r]
    BY <1>3 DEF StartTyped
  <2> HIDE DEF Found
  <2> QED
    BY <1>r, <2>1, <2>2, <2>3
<1>4. ASSUME NEW s \in Servers, RenameTree(s) PROVE Goal
  <2>1. boot[s].at = "rename" /\ json' = [t \in JsonTrees |-> IF t \in boot[s].tree THEN "bak" ELSE json[t]]
    BY <1>4 DEF RenameTree
  <2>2. boot'[s].at = "trees" /\ boot'[s].left = boot[s].left \ boot[s].tree
        /\ \A r \in Servers : r # s => boot'[r] = boot[r]
    BY <1>4, TreeMoves DEF StartTyped
  <2>3. \A t \in JsonTrees : json'[t] = "json" => json[t] = "json" /\ t \notin boot[s].tree
    BY <2>1
  <2>4. Found(boot'[s].at, boot'[s].left, json')
    BY <1>i, <2>1, <2>2, <2>3, NotPasses
  <2>5. \A r \in Servers : r # s => Found(boot'[r].at, boot'[r].left, json')
    BY <1>i, <2>2, <2>3
  <2>6. Migrating(s)'
    BY <2>2 DEF Migrating
  <2> HIDE DEF Found
  <2> QED
    BY <2>4, <2>5, <2>6
<1>5. ASSUME NEW s \in Servers, NEW t \in JsonTrees, MigrateTree(s, t) PROVE Goal
  <2>1. boot[s].at = "trees" /\ json' = json
    BY <1>5 DEF MigrateTree
  <2>2. boot'[s].at = "rename" /\ boot'[s].left = boot[s].left /\ \A r \in Servers : r # s => boot'[r] = boot[r]
    BY <1>5, TreeMoves DEF StartTyped
  <2>3. Found(boot'[s].at, boot'[s].left, json)
    BY <1>i, <2>1, <2>2, NotPasses
  <2>4. Migrating(s)'
    BY <2>2 DEF Migrating
  <2> HIDE DEF Found
  <2> QED
    BY <1>r, <2>1, <2>2, <2>3, <2>4
<1>6. ASSUME NEW s \in Servers, NEW t \in JsonTrees, TreeIsGone(s, t) PROVE Goal
  <2>1. boot[s].at = "trees" /\ json' = json /\ json[t] = "bak" /\ boot' = [boot EXCEPT ![s].left = @ \ {t}]
    BY <1>6 DEF TreeIsGone, database
  <2>2. boot'[s].at = "trees" /\ boot'[s].left = boot[s].left \ {t} /\ \A r \in Servers : r # s => boot'[r] = boot[r]
    BY <1>b, <2>1, LeftFacts
  <2>3. Found(boot'[s].at, boot'[s].left, json)
    BY <1>i, <2>1, <2>2, NotPasses
  <2>4. Migrating(s)'
    BY <2>2 DEF Migrating
  <2> HIDE DEF Found
  <2> QED
    BY <1>r, <2>1, <2>2, <2>3, <2>4
<1>7. ASSUME NEW s \in Servers, TreesDone(s) PROVE Goal
  <2>1. boot[s].at = "trees" /\ json' = json /\ boot[s].left = {}
    BY <1>7 DEF TreesDone, database
  <2>2. Clear(json')
    BY <1>i, <2>1 
  <2> QED
    BY <1>q, <2>2
<1>8. ASSUME NEW s \in Servers, boot[s].at \in PassNames \cup {"tree", "up"}, json' = json PROVE Goal
  <2>1. Clear(json)
    BY <1>8, <1>i, <1>m
  <2>2. Clear(json')
    BY <1>8, <2>1 
  <2> QED
    BY <1>q, <2>2
<1>9. ASSUME NEW s \in Servers, BuildTree(s) PROVE Goal
  BY <1>8, <1>9 DEF BuildTree
<1>10. ASSUME NEW s \in Servers, NEW p \in PassNames,
              SkipPass(s, p) \/ BeginPass(s, p) \/ SetGate(s, p) \/ PassThrows(s, p)
       PROVE  Goal
  <2>1. boot[s].at = p /\ json' = json
    BY <1>10 DEF SkipPass, BeginPass, SetGate, PassThrows, Before, Running, database
  <2> QED
    BY <1>8, <2>1
<1>11. ASSUME NEW s \in Servers, NEW p \in PassNames, NEW f \in Sources,
              VisitSource(s, p, f) \/ SkipSource(s, p, f)
       PROVE  Goal
  <2>1. boot[s].at = p /\ json' = json
    BY <1>11 DEF VisitSource, SkipSource, Running, database
  <2> QED
    BY <1>8, <2>1
<1>13. ASSUME NEW s \in Servers, FaultMoves(s) PROVE Goal
  <2>1. json' = json /\ rows' = rows /\ \A r \in Servers : r # s => boot'[r] = boot[r]
    BY <1>13 DEF FaultMoves, StartTyped
  <2>2. CASE boot[s].at = "migrate" /\ (\A t \in JsonTrees : json[t] = "json" => t \in failedTrees')
    BY <1>q, <2>1, <2>2
  <2>3. CASE /\ boot[s].at \in {"trees", "rename"} /\ boot'[s].at = "trees"
             /\ boot[s].left \subseteq boot'[s].left \cup failedTrees'
    <3>1. Found(boot'[s].at, boot'[s].left, json)
      BY <1>i, <2>3, NotPasses
    <3>2. Migrating(s)'
      BY <2>3 DEF Migrating
    <3> HIDE DEF Found
    <3> QED
      BY <1>r, <2>1, <3>1, <3>2
  <2> QED
    BY <1>13, <2>2, <2>3 DEF FaultMoves
<1>12. Goal
  <2> HIDE DEF Goal, Found
  <2> QED
    BY <1>i, <1>1, <1>2, <1>3, <1>4, <1>5, <1>6, <1>7, <1>9, <1>10, <1>11, <1>13, BootMoves
<1> QED
  BY <1>12

LEMMA BootInvInit ==
    ASSUME BootInit
    PROVE  BootInv
<1>1. /\ boot \in [Servers -> BootState]
      /\ \A s \in Servers : boot[s].at = "off" /\ ~boot[s].running
  <2>1. At("off") \in BootState /\ At("off").at = "off" /\ At("off").running = FALSE
    BY DEF At, BootState, Stages
  <2>2. boot = [s \in Servers |-> At("off")]
    BY DEF BootInit
  <2> QED
    BY <2>1, <2>2
<1>2. BootTypes
  BY <1>1 DEF BootInit, BootTypes
<1>3. FaultsCounted
  <2>1. IsFiniteSet({}) /\ Cardinality({}) = 0
    BY FS_EmptySet
  <2>2. kills = 0 /\ throws = 0 /\ skipped = {} /\ threw = {}
    BY DEF BootInit
  <2>3. MaxFaults \in Nat /\ 0 + 0 + 0 = 0 /\ 0 \in Nat
    BY BootConstants
  <2>4. 0 + 0 + 0 <= MaxFaults
    BY <2>3
  <2> QED
    BY <2>1, <2>2, <2>3, <2>4 DEF FaultsCounted
<1>4. RenamedIsMigrated
  BY <1>1 DEF BootInit, RenamedIsMigrated, BackupIsMigrated
<1>5. GatesBehind
  <2>1. "off" \in Stages \ {"calls", "tree", "up"}
    BY DEF Stages
  <2>2. gates \in SUBSET PassNames
    BY DEF BootInit
  <2> QED
    BY <1>1, <2>1, <2>2, BehindFacts DEF GatesBehind
<1>6. VisitedOrLeft /\ StartsAlone /\ CallsComeLast
  BY <1>1 DEF BootInit, VisitedOrLeft, StartsAlone, Starting, CallsComeLast
<1>7. TreesFound
  <2>1. rows # {} => NoJson
    BY DEF BootInit, NoJson
  <2> QED
    BY <1>1, <2>1, NotPasses DEF TreesFound, Migrating
<1> QED
  BY <1>2, <1>3, <1>4, <1>5, <1>6, <1>7 DEF BootInv

LEMMA BootInvIsSound ==
    ASSUME BootInv
    PROVE  BootIsSound
<1>1. BootTypeOK
  <2>1. kills \in 0..MaxFaults /\ throws \in 0..MaxFaults
    <3>1. kills \in Nat /\ throws \in Nat /\ Cardinality(skipped) \in Nat /\ MaxFaults \in Nat
      BY BootConstants, FS_CardinalityType DEF BootInv, FaultsCounted
    <3>2. kills + throws + Cardinality(skipped) <= MaxFaults
      BY DEF BootInv, FaultsCounted
    <3> QED
      BY <3>1, <3>2
  <2>2. \A s \in Servers : boot[s].left \subseteq Sources \cup JsonTrees
    BY DEF BootInv, BootTypes, BootState
  <2> QED
    BY <2>1, <2>2 DEF BootTypeOK, BootInv, BootTypes, PassNames
<1>2. GatesMeanSymbols
  BY DEF BootInv, VisitedOrLeft, GatesMeanSymbols
<1>3. CallersSurviveBoots
  <2>1. throws \in Nat
    BY DEF BootInv, FaultsCounted
  <2>2. throws = 0 \/ throws > 0
    BY <2>1
  <2> QED
    BY <2>2 DEF BootInv, CallsComeLast, CallersSurviveBoots
<1>4. UpMeansGated
  BY DEF BootInv, GatesBehind, Behind, UpMeansGated, PassNames
<1>5. BackupIsMigrated
  BY DEF BootInv, RenamedIsMigrated
<1>6. TreesAreMigrated
  BY DEF BootInv, TreesFound, TreesAreMigrated, NoJson
<1> QED
  BY <1>1, <1>2, <1>3, <1>4, <1>5, <1>6 DEF BootIsSound

\* Wherever the starts of any number of servers are killed or throw, the gates
\* stand for work that is done, no tree is put aside before its rows are there
\* or, unless it failed, left behind by a start alone, and no first start loses its call rows
\* (coordinator.ts init(), migrate/*.ts).
THEOREM BootStaysSound == BootSpec => []BootIsSound
<1>1. BootInit => BootInv
  BY BootInvInit
<1>2. BootInv /\ [BootNext]_bootVars => BootInv'
  BY BootTypesStep, FaultsCountedStep, RenamedIsMigratedStep, GatesBehindStep,
     VisitedOrLeftStep, StartsAloneStep, CallsComeLastStep, TreesFoundStep
     DEF BootInv
<1>3. BootInv => BootIsSound
  BY BootInvIsSound
<1> QED
  BY <1>1, <1>2, <1>3, PTL DEF BootSpec

-----------------------------------------------------------------------------
(* The watcher and its coordinator.                                        *)

\* What the methods keep of one watcher after n errors.
Sound(o, n) ==
    /\ o \in [isWatching : BOOLEAN, watcher : {"null", "open", "closing"},
              errorCount : 0..n, restartAttempts : 0..n,
              restartTimer : BOOLEAN, stabilityTimer : BOOLEAN]
    /\ o.isWatching <=> o.watcher # "null"
    /\ o.errorCount > ErrorLimit => o.watcher = "closing"
    /\ o.restartTimer => o.watcher # "open"
    /\ o.stabilityTimer => o.watcher = "open"

\* A watcher that will not watch by itself.
Quiet(o) == o.watcher # "open" /\ ~o.restartTimer

CoordinatorInv ==
    /\ created \subseteq Watchers /\ pendingThen \subseteq created
    /\ fileWatcher \in created \cup {None}
    /\ stopping \in BOOLEAN /\ slowClose \in BOOLEAN /\ errors \in 0..MaxErrors

\* The inductive invariant: a watcher that nobody refers to any more is quiet,
\* unless stop() found it waiting for its restart.
WatcherInv ==
    /\ CoordinatorInv
    /\ object \in [Watchers -> Fields]
    /\ \A w \in Watchers :
         /\ Sound(object[w], errors)
         /\ w \notin created => object[w] = New
         /\ w \in created /\ w # fileWatcher /\ w \notin pendingThen => Quiet(object[w])

-----------------------------------------------------------------------------
(* The methods.                                                             *)

(* The bound on the errors makes the counters fit their type.               *)
LEMMA SoundFields ==
    ASSUME NEW n \in 0..MaxErrors, NEW o, Sound(o, n)
    PROVE  o \in Fields
<1>1. 0..n \subseteq 0..MaxErrors
  BY ConstantsAssumption
<1> QED
  BY <1>1 DEF Sound, Fields

(* A new watcher has everything at rest.                                    *)
LEMMA NewSound ==
    ASSUME NEW n \in Nat
    PROVE  Sound(New, n) /\ Quiet(New)
BY ConstantsAssumption DEF Sound, Quiet, New

(* A start leaves no restart pending, where none was.                       *)
LEMMA StartSound ==
    ASSUME NEW n \in Nat, NEW o, Sound(o, n), ~o.restartTimer
    PROVE  Sound(start(o), n)
<1>1. CASE o.isWatching
  BY <1>1 DEF start
<1>2. CASE ~o.isWatching
  BY <1>2, ConstantsAssumption DEF start, Sound
<1> QED
  BY <1>1, <1>2

(* After a stop a watcher is quiet, or it was between close and restart.    *)
LEMMA StopSound ==
    ASSUME NEW n \in Nat, NEW o, Sound(o, n)
    PROVE  /\ Sound(stop(o), n)
           /\ ~(o.watcher = "null" /\ o.restartTimer) => Quiet(stop(o))
<1>1. CASE o.watcher = "null"
  BY <1>1 DEF stop, Sound, Quiet
<1>2. CASE o.watcher # "null"
  BY <1>2, ConstantsAssumption DEF stop, Sound, Quiet
<1> QED
  BY <1>1, <1>2

(* A restart of an open watcher closes it and arms the timer.               *)
LEMMA RestartSound ==
    ASSUME NEW n \in Nat, NEW o, Sound(o, n), o.watcher = "open",
           NEW c \in 0..n + 1
    PROVE  Sound(restart([o EXCEPT !.errorCount = c]), n + 1)
<1> DEFINE d == Counted([o EXCEPT !.errorCount = c])
           S == [isWatching : BOOLEAN, watcher : {"null", "open", "closing"},
                 errorCount : 0..n + 1, restartAttempts : 0..n + 1,
                 restartTimer : BOOLEAN, stabilityTimer : BOOLEAN]
<1>1. o.isWatching /\ ~o.restartTimer /\ o.restartAttempts + 1 \in 0..n + 1
  BY DEF Sound
<1>2. d \in S
  BY <1>1 DEF Counted, Sound
<1>3. d.isWatching /\ d.watcher = "open" /\ ~d.stabilityTimer
  BY <1>1 DEF Counted, Sound
<1> HIDE DEF d
<1>4. /\ stop(d) \in S /\ stop(d).isWatching /\ stop(d).watcher = "closing"
      /\ ~stop(d).stabilityTimer
  BY <1>2, <1>3 DEF stop
<1> DEFINE e == stop(d)
<1> HIDE DEF e
<1>5. /\ [e EXCEPT !.restartTimer = TRUE] \in S
      /\ [e EXCEPT !.restartTimer = TRUE].isWatching
      /\ [e EXCEPT !.restartTimer = TRUE].watcher = "closing"
      /\ ~[e EXCEPT !.restartTimer = TRUE].stabilityTimer
  BY <1>4 DEF e
<1>6. Sound([e EXCEPT !.restartTimer = TRUE], n + 1)
  BY <1>5 DEF Sound
<1> QED
  BY <1>6 DEF restart, d, e

(* More errors leave room for every counter.                                *)
LEMMA SoundMonotone ==
    ASSUME NEW n \in Nat, NEW o, Sound(o, n)
    PROVE  Sound(o, n + 1)
<1>1. 0..n \subseteq 0..n + 1
  OBVIOUS
<1> QED
  BY <1>1 DEF Sound
-----------------------------------------------------------------------------
(* Each action keeps the invariant.                                         *)

(* An error counts, and may close the watcher until its timer.              *)
LEMMA OnErrorKeeps ==
    ASSUME WatcherInv, NEW w \in Watchers, OnError(w)
    PROVE  WatcherInv'
<1> DEFINE n == errors
           o == object[w]
           c == o.errorCount + 1
           failed == [o EXCEPT !.errorCount = c]
<1>1. n \in Nat /\ n + 1 \in 0..MaxErrors /\ errors' = n + 1
  BY ConstantsAssumption DEF OnError, WatcherInv, CoordinatorInv
<1>2. Sound(o, n) /\ o.watcher = "open"
  BY DEF OnError, WatcherInv
<1>3. c \in 0..n + 1 /\ failed.errorCount = c
  BY <1>1, <1>2 DEF Sound
<1>4. object' = [object EXCEPT ![w] = IF c > ErrorLimit
                                     THEN restart(failed) ELSE failed]
  BY <1>3 DEF OnError
<1>5. Sound(restart(failed), n + 1)
  BY <1>1, <1>2, <1>3, RestartSound
<1>6. c <= ErrorLimit => Sound(failed, n + 1)
  <2>1. 0..n \subseteq 0..n + 1
    BY <1>1
  <2> QED
    BY <1>2, <1>3, <2>1, ConstantsAssumption DEF Sound
<1>7. Sound(object'[w], n + 1)
  <2>1. CASE c > ErrorLimit
    BY <1>4, <1>5, <2>1 DEF WatcherInv
  <2>2. CASE ~(c > ErrorLimit)
    <3>1. c <= ErrorLimit
      BY <1>3, <2>2, ConstantsAssumption
    <3> QED
      BY <1>4, <1>6, <2>2, <3>1 DEF WatcherInv
  <2> QED
    BY <2>1, <2>2
<1> HIDE DEF c, failed
<1>8. \A v \in Watchers : v # w => object'[v] = object[v]
  BY <1>4 DEF WatcherInv
<1>9. \A v \in Watchers : Sound(object'[v], n + 1)
  BY <1>1, <1>7, <1>8, SoundMonotone DEF WatcherInv
<1>10. w \in created /\ (w = fileWatcher \/ w \in pendingThen)
  BY <1>2 DEF WatcherInv, Quiet, New
<1>11. object' \in [Watchers -> Fields]
  <2>1. \A v \in Watchers : object'[v] \in Fields
    BY <1>1, <1>9, SoundFields
  <2>2. object' = [v \in Watchers |-> object'[v]]
    BY <1>4 DEF WatcherInv
  <2> QED
    BY <2>1, <2>2
<1> QED
  BY <1>1, <1>8, <1>9, <1>10, <1>11 DEF OnError, WatcherInv, CoordinatorInv

(* A step of one watcher alone: what it must keep.                          *)
LEMMA WatcherStep ==
    ASSUME WatcherInv, NEW w \in created, NEW o,
           object' = [object EXCEPT ![w] = o], slowClose' \in BOOLEAN,
           UNCHANGED <<created, fileWatcher, stopping, errors, pendingThen>>,
           Sound(o, errors), Quiet(object[w]) => Quiet(o)
    PROVE  WatcherInv'
<1>1. w \in Watchers /\ errors \in 0..MaxErrors
  BY DEF WatcherInv, CoordinatorInv
<1>2. o \in Fields
  BY <1>1, SoundFields
<1>3. object' \in [Watchers -> Fields] /\ object'[w] = o
  BY <1>1, <1>2 DEF WatcherInv
<1>4. \A v \in Watchers : v # w => object'[v] = object[v]
  BY DEF WatcherInv
<1> QED
  BY <1>1, <1>3, <1>4 DEF WatcherInv, CoordinatorInv

(* The end of close() keeps the invariant, whatever waited for it.          *)
LEMMA ClosedKeeps ==
    ASSUME WatcherInv, NEW w \in Watchers, Closed(w)
    PROVE  WatcherInv'
<1> DEFINE o == [object[w] EXCEPT !.watcher = "null", !.isWatching = FALSE,
                                  !.errorCount = 0]
<1>1. Sound(object[w], errors) /\ object[w].watcher = "closing"
  BY DEF WatcherInv, Closed
<1>2. w \in created
  BY <1>1 DEF WatcherInv, New
<1>3. errors \in Nat
  BY ConstantsAssumption DEF WatcherInv, CoordinatorInv
<1>4. Sound(o, errors)
  <2>1. 0 \in 0..errors /\ ~(0 > ErrorLimit)
    BY <1>3, ConstantsAssumption
  <2>2. o \in [isWatching : BOOLEAN, watcher : {"null", "open", "closing"},
                errorCount : 0..errors, restartAttempts : 0..errors,
                restartTimer : BOOLEAN, stabilityTimer : BOOLEAN]
    BY <1>1, <2>1 DEF Sound
  <2>3. /\ ~o.isWatching /\ o.watcher = "null" /\ o.errorCount = 0
        /\ o.restartTimer = object[w].restartTimer
        /\ o.stabilityTimer = object[w].stabilityTimer
    BY <1>1 DEF Sound
  <2>4. ~object[w].stabilityTimer
    BY <1>1 DEF Sound
  <2> HIDE DEF o
  <2> QED
    BY <2>1, <2>2, <2>3, <2>4 DEF Sound
<1>5. Quiet(object[w]) => Quiet(o)
  BY <1>1 DEF Quiet, Sound
<1>6. object' = [object EXCEPT ![w] = o]
  BY DEF Closed, WatcherInv
<1>7. slowClose' \in BOOLEAN
  BY DEF Closed, WatcherInv, CoordinatorInv
<1> HIDE DEF o
<1> QED
  BY <1>2, <1>4, <1>5, <1>6, <1>7, WatcherStep DEF Closed

(* The restart timer starts a watcher that has none.                        *)
LEMMA RestartTimerKeeps ==
    ASSUME WatcherInv, NEW w \in Watchers, RestartTimer(w)
    PROVE  WatcherInv'
<1> DEFINE o == [object[w] EXCEPT !.restartTimer = FALSE]
<1>1. Sound(object[w], errors) /\ object[w].restartTimer
  BY DEF WatcherInv, RestartTimer
<1>2. w \in created
  BY <1>1 DEF WatcherInv, New
<1>3. errors \in Nat
  BY ConstantsAssumption DEF WatcherInv, CoordinatorInv
<1>4. Sound(o, errors) /\ ~o.restartTimer
  BY <1>1 DEF Sound
<1>5. Sound(start(o), errors)
  BY <1>3, <1>4, StartSound
<1>6. ~Quiet(object[w])
  BY <1>1 DEF Quiet
<1>7. object' = [object EXCEPT ![w] = start(o)] /\ slowClose' \in BOOLEAN
  BY DEF RestartTimer, WatcherInv, CoordinatorInv
<1> HIDE DEF o
<1> QED
  BY <1>2, <1>5, <1>6, <1>7, WatcherStep DEF RestartTimer

(* The stability timer resets the counters of an open watcher.              *)
LEMMA StabilityTimerKeeps ==
    ASSUME WatcherInv, NEW w \in Watchers, StabilityTimer(w)
    PROVE  WatcherInv'
<1> DEFINE o == [object[w] EXCEPT !.restartAttempts = 0, !.stabilityTimer = FALSE]
<1>1. Sound(object[w], errors) /\ object[w].stabilityTimer
  BY DEF WatcherInv, StabilityTimer
<1>2. w \in created
  BY <1>1 DEF WatcherInv, New
<1>3. errors \in Nat
  BY ConstantsAssumption DEF WatcherInv, CoordinatorInv
<1>4. Sound(o, errors)
  <2>1. 0 \in 0..errors
    BY <1>3
  <2>2. o \in [isWatching : BOOLEAN, watcher : {"null", "open", "closing"},
                errorCount : 0..errors, restartAttempts : 0..errors,
                restartTimer : BOOLEAN, stabilityTimer : BOOLEAN]
    BY <1>1, <2>1 DEF Sound
  <2>3. /\ o.isWatching = object[w].isWatching /\ o.watcher = object[w].watcher
        /\ o.errorCount = object[w].errorCount
        /\ o.restartTimer = object[w].restartTimer /\ ~o.stabilityTimer
    BY <1>1 DEF Sound
  <2> HIDE DEF o
  <2> QED
    BY <1>1, <2>2, <2>3 DEF Sound
<1>5. Quiet(object[w]) => Quiet(o)
  BY <1>1 DEF Quiet, Sound
<1>6. object' = [object EXCEPT ![w] = o]
  BY DEF StabilityTimer, WatcherInv
<1>7. slowClose' \in BOOLEAN
  BY DEF StabilityTimer, WatcherInv, CoordinatorInv
<1> HIDE DEF o
<1> QED
  BY <1>2, <1>4, <1>5, <1>6, <1>7, WatcherStep DEF StabilityTimer

(* The watcher the coordinator lets go is quiet, or known to be pending.    *)
LEMMA DiscardedKeeps ==
    ASSUME WatcherInv, Discard
    PROVE  /\ Discarded \in [Watchers -> Fields]
           /\ \A w \in Watchers :
                /\ Sound(Discarded[w], errors)
                /\ w \notin created => Discarded[w] = New
                /\ w \in created /\ w \notin pendingThen' => Quiet(Discarded[w])
           /\ pendingThen' \subseteq created
<1>1. errors \in Nat /\ errors \in 0..MaxErrors
  BY ConstantsAssumption DEF WatcherInv, CoordinatorInv
<1>2. pendingThen \subseteq pendingThen' /\ pendingThen' \subseteq created
  BY DEF Discard, WatcherInv, CoordinatorInv
<1>3. CASE fileWatcher = None
  BY <1>2, <1>3, ConstantsAssumption DEF Discarded, WatcherInv, CoordinatorInv
<1>4. CASE fileWatcher # None
  <2> DEFINE f == fileWatcher
  <2>1. f \in created /\ f \in Watchers
    BY <1>4 DEF WatcherInv, CoordinatorInv
  <2>2. Discarded = [object EXCEPT ![f] = stop(object[f])]
    BY <1>4 DEF Discarded
  <2>3. /\ Sound(stop(object[f]), errors)
        /\ ~Between(f) => Quiet(stop(object[f]))
    BY <1>1, <2>1, StopSound DEF WatcherInv, Between
  <2>4. stop(object[f]) \in Fields
    BY <1>1, <2>3, SoundFields
  <2>5. Between(f) => f \in pendingThen'
    BY <1>4 DEF Discard
  <2>6. \A v \in Watchers : v # f => Discarded[v] = object[v]
    BY <2>2 DEF WatcherInv
  <2>7. Discarded \in [Watchers -> Fields] /\ Discarded[f] = stop(object[f])
    BY <2>1, <2>2, <2>4 DEF WatcherInv
  <2> HIDE DEF f
  <2> QED
    BY <1>2, <2>1, <2>3, <2>5, <2>6, <2>7 DEF WatcherInv, f
<1> QED
  BY <1>3, <1>4

(* initializeFileWatcher stops the old watcher before it makes a new one.   *)
LEMMA InitializeKeeps ==
    ASSUME WatcherInv, NEW w \in Watchers, initializeFileWatcher(w)
    PROVE  WatcherInv'
<1>1. errors \in Nat /\ errors \in 0..MaxErrors
  BY ConstantsAssumption DEF WatcherInv, CoordinatorInv
<1>2. Sound(start(New), errors)
  <2>1. Sound(New, errors) /\ ~New.restartTimer
    BY <1>1, NewSound DEF New
  <2> QED
    BY <1>1, <2>1, StartSound
<1>3. start(New) \in Fields
  BY <1>1, <1>2, SoundFields
<1>4. /\ Discarded \in [Watchers -> Fields]
      /\ \A v \in Watchers :
           /\ Sound(Discarded[v], errors)
           /\ v \notin created => Discarded[v] = New
           /\ v \in created /\ v \notin pendingThen' => Quiet(Discarded[v])
      /\ pendingThen' \subseteq created
  BY DiscardedKeeps DEF initializeFileWatcher
<1>5. object' = [Discarded EXCEPT ![w] = start(New)]
  BY DEF initializeFileWatcher
<1>6. /\ object' \in [Watchers -> Fields] /\ object'[w] = start(New)
      /\ \A v \in Watchers : v # w => object'[v] = Discarded[v]
  BY <1>3, <1>4, <1>5
<1>7. CoordinatorInv'
  BY <1>4 DEF initializeFileWatcher, WatcherInv, CoordinatorInv
<1>8. errors' = errors /\ created' = created \cup {w} /\ fileWatcher' = w
  BY DEF initializeFileWatcher
<1> QED
  BY <1>2, <1>4, <1>6, <1>7, <1>8 DEF WatcherInv

(* shutdown() stops the watcher it drops.                                   *)
LEMMA ShutdownKeeps ==
    ASSUME WatcherInv, shutdown
    PROVE  WatcherInv'
<1>1. CoordinatorInv'
  BY DiscardedKeeps DEF shutdown, WatcherInv, CoordinatorInv
<1> QED
  BY <1>1, DiscardedKeeps DEF shutdown, WatcherInv
-----------------------------------------------------------------------------
(* Before the first init() there is no watcher.                             *)
LEMMA InitKeeps == Init => WatcherInv
<1> SUFFICES ASSUME Init
             PROVE  WatcherInv
  OBVIOUS
<1>1. 0 \in Nat /\ 0 \in 0..MaxErrors
  BY ConstantsAssumption
<1>2. Sound(New, 0)
  BY NewSound
<1>3. New \in Fields
  BY <1>1, <1>2, SoundFields
<1> QED
  BY <1>1, <1>2, <1>3 DEF Init, WatcherInv, CoordinatorInv

(* Every step keeps the invariant: one case per action of Next.             *)
LEMMA NextKeeps == WatcherInv /\ [Next]_vars => WatcherInv'
<1> SUFFICES ASSUME WatcherInv, [Next]_vars
             PROVE  WatcherInv'
  OBVIOUS
<1>1. ASSUME NEW w \in Watchers, OnError(w)
      PROVE  WatcherInv'
  BY <1>1, OnErrorKeeps
<1>2. ASSUME NEW w \in Watchers, Closed(w)
      PROVE  WatcherInv'
  BY <1>2, ClosedKeeps
<1>3. ASSUME NEW w \in Watchers, RestartTimer(w)
      PROVE  WatcherInv'
  BY <1>3, RestartTimerKeeps
<1>4. ASSUME NEW w \in Watchers, StabilityTimer(w)
      PROVE  WatcherInv'
  BY <1>4, StabilityTimerKeeps
<1>5. ASSUME NEW w \in Watchers, initializeFileWatcher(w)
      PROVE  WatcherInv'
  BY <1>5, InitializeKeeps
<1>6. CASE shutdown
  BY <1>6, ShutdownKeeps
<1>7. CASE UNCHANGED vars
  BY <1>7 DEF vars, WatcherInv, CoordinatorInv
<1> QED
  BY <1>1, <1>2, <1>3, <1>4, <1>5, <1>6, <1>7 DEF Next

(* The inductive invariant holds in every reachable state.                  *)
THEOREM WatcherInvariant == Spec => []WatcherInv
BY InitKeeps, NextKeeps, PTL DEF Spec

(* The fields of every watcher keep their types and agree with each other.  *)
THEOREM WatcherTypeCorrect == Spec => []TypeOK
<1>1. WatcherInv => TypeOK
  BY DEF WatcherInv, CoordinatorInv, Sound, TypeOK
<1> QED
  BY <1>1, WatcherInvariant, PTL

(* However often projects are switched and watchers fail, none but the      *)
(* coordinator's watcher watches, except one discarded while it waited for  *)
(* its restart, which stop() does not cancel.                               *)
THEOREM OneWatcherAtATime == Spec => []OneWatcher
<1>1. WatcherInv => OneWatcher
  BY DEF WatcherInv, CoordinatorInv, OneWatcher, Watching, Quiet, New
<1> QED
  BY <1>1, WatcherInvariant, PTL

(* The backoff is never reset by a timer that outlived its watcher.         *)
THEOREM BackoffNeedsStability == Spec => []StableMeansWatching
<1>1. WatcherInv => StableMeansWatching
  BY DEF WatcherInv, Sound, StableMeansWatching, Watching
<1> QED
  BY <1>1, WatcherInvariant, PTL

(* The three together, as the runs check them (file-watcher.ts:107-183).    *)
THEOREM WatchersStaySound == Spec => []WatchersAreSound
<1>1. TypeOK /\ OneWatcher /\ StableMeansWatching => WatchersAreSound
  BY DEF WatchersAreSound
<1> QED
  BY <1>1, WatcherTypeCorrect, OneWatcherAtATime, BackoffNeedsStability, PTL
=============================================================================
