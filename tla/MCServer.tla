------------------------------ MODULE MCServer ------------------------------
(***************************************************************************)
(* Four parts of a server's life, and the supervisor that starts servers.  *)
(* They share no state, each models it from its own side, so they are      *)
(* checked one at a time: a behaviour of this module is one of one of      *)
(* them.                                                                   *)
(***************************************************************************)
EXTENDS FileWatcher, FirstBoot, ProjectSwitch, StatusQuery, Supervisor

CONSTANTS t1, t2
VARIABLE part
serverVars == <<part, vars, bootVars, switchVars, statusVars, supervisorVars>>

MCRepos == <<"a", "b">>
MCLanguages == <<"python">>
MCLangOf == [f \in Sources |-> IF f = 3 THEN "python" ELSE "js"]
MCCallsOf == [f \in Sources |-> CASE f = 1 -> {2} [] f = 2 -> {1} [] OTHER -> {}]
MCTreeOf == [t \in JsonTrees |-> IF t = t1 THEN {1, 3} ELSE {2}]

\* A part that is not checked keeps one initial state, in which fairness asks no
\* step of it: a supervisor would have to start.
NoBoot == rows = {} /\ format = "none" /\ json = [t \in JsonTrees |-> "none"]
NoSupervisor == NothingStarted /\ signal = "exited"

ServerInit ==
    /\ Init /\ SwitchInit /\ StatusInit /\ BootInit
    /\ \/ part = "boot" /\ NoSupervisor
       \/ part \in {"watcher", "switch", "status"} /\ NoBoot /\ NoSupervisor
       \/ part = "supervisor" /\ NoBoot /\ SupervisorInit

ServerNext ==
    /\ UNCHANGED part
    /\ \/ part = "watcher" /\ Next /\ UNCHANGED <<bootVars, switchVars, statusVars, supervisorVars>>
       \/ part = "boot" /\ BootNext /\ UNCHANGED <<vars, switchVars, statusVars, supervisorVars>>
       \/ part = "switch" /\ SwitchNext /\ UNCHANGED <<vars, bootVars, statusVars, supervisorVars>>
       \/ part = "status" /\ StatusNext /\ UNCHANGED <<vars, bootVars, switchVars, supervisorVars>>
       \/ part = "supervisor" /\ SupervisorNext /\ UNCHANGED <<vars, bootVars, switchVars, statusVars>>

ServerSpec ==
    /\ ServerInit /\ [][ServerNext]_serverVars
    /\ WatcherFairness /\ BootFairness /\ SwitchFairness /\ StatusFairness /\ SupervisorFairness

\* A watcher that fails comes back in its server, and a server that ends comes
\* back with its supervisor.
WatchingGoesOn == WatchingResumes /\ EveryRepoIsServed

\* Whatever is asked of the server comes to an end: a start, a shutdown, a status
\* request, the end of the supervisor.
CallsEnd == BootEnds /\ ShutdownEnds /\ StatusIsAnswered /\ SupervisorEnds
=============================================================================
