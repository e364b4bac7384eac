----------------------------- MODULE Supervisor -----------------------------
(***************************************************************************)
(* The service that keeps one MCP server running for every registered      *)
(* repository: its loop over the repositories, the restart of servers that *)
(* end, and the shutdown.  scripts/watchers.mjs.                           *)
(*                                                                         *)
(* startWatcher() awaits the opening of its log file before it spawns the  *)
(* server and the handshake after; a signal may come at either await.  The *)
(* repositories are those read at the start, at least one.  A server that  *)
(* ends is dead before its exit event comes: a handshake that writes to it *)
(* in between ends the supervisor, which its systemd unit then starts      *)
(* again (scripts/filescope-watchers.service.tmpl).                        *)
(***************************************************************************)
EXTENDS Naturals, Sequences, FiniteSets

CONSTANTS
    Repos,     \* the repositories, as a sequence
    MaxExits,  \* bound: servers that end by themselves
    MaxLost    \* bound: log files that cannot be opened, servers that cannot be spawned

Registered == {Repos[i] : i \in DOMAIN Repos}

ASSUME SupervisorAssumption ==
    /\ Repos \in Seq(Registered) \ {<<>>} /\ {MaxExits, MaxLost} \subseteq Nat
    /\ \A i, j \in DOMAIN Repos : Repos[i] = Repos[j] => i = j

VARIABLES
    at,        \* the repository the loop is at
    loop,      \* whether it "starts" that one or "awaits" its startWatcher()
    opening,   \* repositories whose startWatcher() awaits the log file
    greeting,  \* those whose startWatcher() is at the handshake
    restarts,  \* those with a restart timer
    alive,     \* server processes of each repository
    dead,      \* those that ended and whose exit event is to come
    children,  \* the entries of each repository in the set of that name
    signal,    \* shutdown(): "none", "grace", "killed" or "exited"; a supervisor that ends
               \* by an exception has "crashed" before it and "failed" in it
    lost,      \* history: repositories with a failed open() or spawn()
    slowOpen,  \* history: an open() outlasted the grace period
    exits

supervisorVars == <<at, loop, opening, greeting, restarts, alive, dead, children, signal, lost,
                    slowOpen, exits>>

shuttingDown == signal \notin {"none", "crashed"}
StillUp == signal \in {"none", "grace", "killed"}
Faulty == Cardinality(lost) < MaxLost

-----------------------------------------------------------------------------
\* startWatcher() up to its first await.
Started(r) == IF shuttingDown THEN opening ELSE opening \cup {r}

\* for (const repo of repos) await startWatcher(repo)
LoopStarts ==
    /\ StillUp /\ loop = "starts" /\ at <= Len(Repos)
    /\ opening' = Started(Repos[at])
    /\ loop' = "awaits"
    /\ UNCHANGED <<at, greeting, restarts, alive, dead, children, signal, lost, slowOpen, exits>>

LoopGoesOn ==
    /\ StillUp /\ loop = "awaits" /\ Repos[at] \notin opening \cup greeting
    /\ at' = at + 1 /\ loop' = "starts"
    /\ UNCHANGED <<opening, greeting, restarts, alive, dead, children, signal, lost, slowOpen, exits>>

\* Mutant: a server is listed once it has been greeted.
SpawnUnlisted(r) ==
    /\ StillUp /\ r \in opening
    /\ opening' = opening \ {r} /\ greeting' = greeting \cup {r}
    /\ alive' = [alive EXCEPT ![r] = @ + 1]
    /\ UNCHANGED <<at, loop, restarts, dead, children, signal, lost, slowOpen, exits>>

\* The log file is open: the server is spawned and listed.  Whether a shutdown
\* has begun meanwhile is not looked at.
Spawn(r) ==
    /\ StillUp /\ r \in opening
    /\ opening' = opening \ {r} /\ greeting' = greeting \cup {r}
    /\ alive' = [alive EXCEPT ![r] = @ + 1]
    /\ children' = [children EXCEPT ![r] = @ + 1]
    /\ UNCHANGED <<at, loop, restarts, dead, signal, lost, slowOpen, exits>>

\* child.on('error'): it is listed, and no exit event will come.
SpawnFails(r) ==
    /\ StillUp /\ r \in opening /\ Faulty
    /\ opening' = opening \ {r} /\ greeting' = greeting \cup {r}
    /\ children' = [children EXCEPT ![r] = @ + 1]
    /\ lost' = lost \cup {r}
    /\ UNCHANGED <<at, loop, restarts, alive, dead, signal, slowOpen, exits>>

\* startWatcher() rejects, which its callers log.
OpenFails(r) ==
    /\ StillUp /\ r \in opening /\ Faulty
    /\ opening' = opening \ {r}
    /\ lost' = lost \cup {r}
    /\ UNCHANGED <<at, loop, greeting, restarts, alive, dead, children, signal, slowOpen, exits>>

\* initialize, initialized, scan_all.  Once its exit event has come, what is
\* written to a server goes nowhere.
Greeted(r) ==
    /\ StillUp /\ r \in greeting /\ dead[r] = 0
    /\ greeting' = greeting \ {r}
    /\ UNCHANGED <<at, loop, opening, restarts, alive, dead, children, signal, lost, slowOpen, exits>>

\* Before, the pipe breaks: the error of the stream comes after the try block,
\* and nobody listens for it.
GreetingBreaks(r) ==
    /\ StillUp /\ r \in greeting /\ dead[r] > 0
    /\ signal' = IF shuttingDown THEN "failed" ELSE "crashed"
    /\ UNCHANGED <<at, loop, opening, greeting, restarts, alive, dead, children, lost, slowOpen, exits>>

\* Mutant: a server that ends in its handshake is not restarted.
ArmedRestartGreeted(r) ==
    IF shuttingDown \/ r \in greeting THEN restarts ELSE restarts \cup {r}

\* Signalled or not, a server may end at any time.
ChildDies(r) ==
    /\ StillUp /\ alive[r] > 0
    /\ shuttingDown \/ exits < MaxExits
    /\ exits' = IF shuttingDown THEN exits ELSE exits + 1
    /\ alive' = [alive EXCEPT ![r] = @ - 1]
    /\ dead' = [dead EXCEPT ![r] = @ + 1]
    /\ UNCHANGED <<at, loop, opening, greeting, restarts, children, signal, lost, slowOpen>>

\* child.on('exit').
ArmedRestart(r) == IF shuttingDown THEN restarts ELSE restarts \cup {r}

ChildExited(r) ==
    /\ StillUp /\ dead[r] > 0
    /\ dead' = [dead EXCEPT ![r] = @ - 1]
    /\ children' = [children EXCEPT ![r] = @ - 1]
    /\ restarts' = ArmedRestart(r)
    /\ UNCHANGED <<at, loop, opening, greeting, alive, signal, lost, slowOpen, exits>>

\* Ten seconds outlast a handshake.
RestartDue(r) ==
    /\ StillUp /\ r \in restarts \ greeting
    /\ restarts' = restarts \ {r}
    /\ opening' = Started(r)
    /\ UNCHANGED <<at, loop, greeting, alive, dead, children, signal, lost, slowOpen, exits>>

-----------------------------------------------------------------------------
(* shutdown() *)

Signalled ==
    /\ ~shuttingDown
    /\ signal' = IF StillUp THEN "grace" ELSE "failed"
    /\ UNCHANGED <<at, loop, opening, greeting, restarts, alive, dead, children, lost, slowOpen, exits>>

NoChildren == \A r \in Registered : children[r] = 0

AllGone ==
    /\ signal = "grace" /\ NoChildren
    /\ signal' = "exited"
    /\ UNCHANGED <<at, loop, opening, greeting, restarts, alive, dead, children, lost, slowOpen, exits>>

\* SIGKILL ends whoever is in the set.
GraceEnds ==
    /\ signal = "grace" /\ ~NoChildren
    /\ signal' = "killed"
    /\ alive' = [r \in Registered |-> IF children[r] > 0 THEN 0 ELSE alive[r]]
    /\ dead' = [r \in Registered |-> IF children[r] > 0 THEN dead[r] + alive[r] ELSE dead[r]]
    /\ slowOpen' = (opening # {})
    /\ UNCHANGED <<at, loop, opening, greeting, restarts, children, lost, exits>>

CleanExit ==
    /\ signal = "killed"
    /\ signal' = "exited"
    /\ UNCHANGED <<at, loop, opening, greeting, restarts, alive, dead, children, lost, slowOpen, exits>>

-----------------------------------------------------------------------------
(* The systemd unit.  It kills what is left of a supervisor that failed    *)
(* (KillMode=control-group) and starts it again, unless it was stopped     *)
(* (Restart=on-failure).                                                   *)

NoProcess == [r \in Registered |-> 0]

Cleared ==
    /\ at' = 1 /\ loop' = "starts"
    /\ opening' = {} /\ greeting' = {} /\ restarts' = {}
    /\ alive' = NoProcess /\ dead' = NoProcess /\ children' = NoProcess
    /\ UNCHANGED <<lost, slowOpen, exits>>

UnitRestarts ==
    /\ signal = "crashed"
    /\ Cleared /\ signal' = "none"

UnitStops ==
    /\ signal = "failed"
    /\ Cleared /\ signal' = "exited"

-----------------------------------------------------------------------------
NothingStarted ==
    /\ at = 1 /\ loop = "starts"
    /\ opening = {} /\ greeting = {} /\ restarts = {}
    /\ alive = NoProcess /\ dead = NoProcess /\ children = NoProcess
    /\ lost = {} /\ slowOpen = FALSE /\ exits = 0

SupervisorInit == NothingStarted /\ signal = "none"

Opened(r) == Spawn(r) \/ SpawnFails(r) \/ OpenFails(r)

SupervisorNext ==
    \/ LoopStarts \/ LoopGoesOn
    \/ \E r \in Registered :
          \/ Opened(r) \/ Greeted(r) \/ GreetingBreaks(r) \/ RestartDue(r)
          \/ ChildDies(r) \/ ChildExited(r)
    \/ Signalled \/ AllGone \/ GraceEnds \/ CleanExit \/ UnitRestarts \/ UnitStops

SupervisorSpec == SupervisorInit /\ [][SupervisorNext]_supervisorVars

\* The event loop goes on, timers and exit events come, and systemd does what
\* the unit says; no server need end.
SupervisorFairness ==
    /\ WF_supervisorVars(LoopStarts \/ LoopGoesOn)
    /\ \A r \in Registered :
          WF_supervisorVars(Opened(r) \/ Greeted(r) \/ GreetingBreaks(r) \/ RestartDue(r)
                            \/ ChildExited(r))
    /\ WF_supervisorVars(AllGone \/ GraceEnds \/ CleanExit)
    /\ WF_supervisorVars(UnitRestarts \/ UnitStops)

FairSupervisor == SupervisorSpec /\ SupervisorFairness

-----------------------------------------------------------------------------
SupervisorTypeOK ==
    /\ at \in 1..Len(Repos) + 1 /\ loop \in {"starts", "awaits"}
    /\ opening \cup greeting \cup restarts \cup lost \subseteq Registered
    /\ \A r \in Registered : {alive[r], dead[r], children[r]} \subseteq Nat
    /\ signal \in {"none", "grace", "killed", "exited", "crashed", "failed"}
    /\ slowOpen \in BOOLEAN /\ exits \in 0..MaxExits

\* The loop, restart timers, late exits and a new supervisor never run two servers
\* for one repository, which would both watch it and write its database.
OneServerEach ==
    \A r \in Registered :
        alive[r] + dead[r] + Cardinality({r} \cap opening) + Cardinality({r} \cap restarts) <= 1

\* Whatever is being started when the signal comes, the supervisor leaves no
\* server behind, unless a log file takes longer to open than the grace period.
NoServerLeft ==
    signal = "exited" /\ ~slowOpen => \A r \in Registered : alive[r] = 0

\* One server for each repository while the supervisor runs, and none after.
SupervisorIsSound == SupervisorTypeOK /\ OneServerEach /\ NoServerLeft

\* A repository's server is there again however often it ends, also in its
\* handshake, be it only because the unit starts a supervisor that its handshake
\* ended.  (Not after a failed open() or spawn(), which nobody retries.)
EveryRepoIsServed ==
    \A r \in Registered : []<>(alive[r] > 0 \/ r \in lost \/ shuttingDown)

\* A supervisor that is told to stop ends.
SupervisorEnds == shuttingDown ~> signal = "exited"
=============================================================================
