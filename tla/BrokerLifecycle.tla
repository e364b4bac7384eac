-------------------------- MODULE BrokerLifecycle --------------------------
(***************************************************************************)
(* How broker processes come and go: the PID file and the socket path,     *)
(* src/broker/main.ts, and the clients that start and find a broker,       *)
(* src/broker/client.ts.  One step is one system call on the shared files; *)
(* between two of them any other process may run.                          *)
(***************************************************************************)
EXTENDS Naturals, FiniteSets

CONSTANTS
    Pids,         \* process ids of broker processes
    Clients,      \* MCP server processes
    None,         \* no such file, no connection, no process
    Empty,        \* a PID file that was opened for writing and not yet written
    MaxFailures,  \* bound: brokers killed, crashed or told to stop
    MaxLeaves     \* bound: client sessions that end

ASSUME LifecycleAssumption ==
    /\ Pids # {} /\ None \notin Pids /\ Empty \notin Pids \cup {None}
    /\ MaxFailures \in Nat /\ MaxLeaves \in Nat

VARIABLES
    pidFile,      \* the process named in broker.pid, or Empty
    writers,      \* the processes that have this broker.pid open
    sockFile,     \* the process that bound broker.sock
    pc,           \* where each broker process is, "off" if it does not run
    found,        \* the process each starting broker has read from broker.pid
    at,           \* where each client is in spawnBrokerIfNeeded/attemptConnect
    seen,         \* the process each client has read from broker.pid
    timer,        \* each client's reconnectTimer is armed
    conn,         \* the broker each client is connected to
    failures,     \* number of failures so far
    leaves,       \* number of sessions ended so far
    killed,       \* history: a broker was killed
    overlap       \* history: a broker was replaced while another process looked at its
                  \* files, started or stopped

files == <<pidFile, writers, sockFile>>
brokers == <<pc, found>>
clients == <<at, seen, timer, conn>>
counts == <<failures, leaves, killed>>
lifecycleVars == <<files, brokers, clients, counts, overlap>>

Running(b) == pc[b] # "off"
Listening(b) == pc[b] \in {"serving", "draining"}

\* A connect() to the socket it bound succeeds, also while it crashes.
Accepts(b) == pc[b] \in {"serving", "draining", "stopSock"}

\* A client that has found a socket is Checking whose it is; one that has found no
\* broker is Replacing it.
Checking(c) == at[c] \in {"existsPid", "readPid", "probe"}
Replacing(c) == at[c] \in {"rmSock", "rmPid", "spawn"}

\* Two clients replace a broker or one does while the other still checks, or a broker
\* is replaced that starts, or that has closed its server and not yet ended.
Contended ==
    \E c \in Clients :
        /\ Replacing(c)
        /\ \/ \E d \in Clients \ {c} : Replacing(d) \/ Checking(d)
           \/ \E b \in Pids : Running(b) /\ ~Listening(b)

\* A PID is not given to a new process while a file, a connection or a process
\* that has read it still names its former owner.
FreePids == {b \in Pids : /\ ~Running(b) /\ b \notin {pidFile, sockFile}
                          /\ \A c \in Clients : conn[c] # b /\ seen[c] # b
                          /\ \A d \in Pids : found[d] # b}

-----------------------------------------------------------------------------
(* A broker process. *)

Goto(b, where) == pc' = [pc EXCEPT ![b] = where] /\ UNCHANGED found

\* checkPidGuard() looks for the PID file.
ExistsPid(b) ==
    /\ pc[b] = "guard"
    /\ Goto(b, IF pidFile # None THEN "readPid" ELSE "sockOnly")
    /\ UNCHANGED <<files, clients, counts, overlap>>

\* It reads it; a file that is gone by now throws, one without a number is stale.
ReadPid(b) ==
    /\ pc[b] = "readPid"
    /\ \/ pidFile = None /\ Goto(b, "failed")
       \/ pidFile = Empty /\ Goto(b, "rmSock")
       \/ /\ pidFile \in Pids
          /\ pc' = [pc EXCEPT ![b] = "probe"]
          /\ found' = [found EXCEPT ![b] = pidFile]
    /\ UNCHANGED <<files, clients, counts, overlap>>

\* process.kill(pid, 0)
IsPidRunning(b) == Running(found[b])

Probe(b) ==
    /\ pc[b] = "probe"
    /\ pc' = [pc EXCEPT ![b] = IF IsPidRunning(b) THEN "checkSock" ELSE "rmSock"]
    /\ found' = [found EXCEPT ![b] = None]
    /\ UNCHANGED <<files, clients, counts, overlap>>

\* Mutant: a running process is trusted without a socket.
TrustsPidAlone == "off"

\* A running process is trusted only together with a socket: then this one exits.
TrustsWithSocket == IF sockFile # None THEN "off" ELSE "rmSock"

ExistsSock(b) ==
    /\ \/ pc[b] = "checkSock" /\ Goto(b, TrustsWithSocket)
       \/ pc[b] = "sockOnly" /\ Goto(b, IF sockFile # None THEN "rmSockOnly" ELSE "write")
    /\ UNCHANGED <<files, clients, counts, overlap>>

\* checkPidGuard()'s cleanup, and the end of a shutdown or a crash.
RemoveSock(b) ==
    /\ \/ pc[b] = "rmSock"     /\ Goto(b, "rmPid")
       \/ pc[b] = "rmSockOnly" /\ Goto(b, "write")
       \/ pc[b] = "stopSock"   /\ Goto(b, "stopPid")
    /\ sockFile' = None
    /\ UNCHANGED <<pidFile, writers, clients, counts, overlap>>

UnlinkPid == pidFile' = None /\ writers' = {}

\* The connections to a broker that is gone; its clients' close handlers arm
\* the reconnect timer.
DropConnections(b) ==
    /\ conn' = [c \in Clients |-> IF conn[c] = b THEN None ELSE conn[c]]
    /\ at' = [c \in Clients |-> IF conn[c] = b THEN "idle" ELSE at[c]]
    /\ timer' = [c \in Clients |-> timer[c] \/ conn[c] = b]
    /\ UNCHANGED seen

\* checkPidGuard()'s other removal.
RemoveStalePid(b) ==
    /\ pc[b] = "rmPid" /\ Goto(b, "write")
    /\ UnlinkPid
    /\ UNCHANGED <<sockFile, clients, counts, overlap>>

\* The last act of a shutdown or a crash, and of main().catch, which removes
\* only the PID file, whosever it is.
RemovePidAndExit(b) ==
    /\ pc[b] \in {"stopPid", "failed"} /\ Goto(b, "off")
    /\ UnlinkPid
    /\ DropConnections(b)
    /\ UNCHANGED <<sockFile, counts, overlap>>

\* writeFileSync(): the file is truncated or made, then written, if it is still
\* there; then the LLM server is asked for up to five seconds.
OpenPid(b) ==
    /\ pc[b] = "write" /\ Goto(b, "writing")
    /\ pidFile' = Empty /\ writers' = writers \cup {b}
    /\ UNCHANGED <<sockFile, clients, counts, overlap>>

WritePid(b) ==
    /\ pc[b] = "writing" /\ Goto(b, "starting")
    /\ pidFile' = IF b \in writers THEN b ELSE pidFile
    /\ writers' = writers \ {b}
    /\ UNCHANGED <<sockFile, clients, counts, overlap>>

\* BrokerServer.start(): binding an existing path fails with EADDRINUSE.
Listen(b) ==
    /\ pc[b] = "starting"
    /\ IF sockFile = None
       THEN sockFile' = b /\ Goto(b, "serving")
       ELSE UNCHANGED sockFile /\ Goto(b, "failed")
    /\ UNCHANGED <<pidFile, writers, clients, counts, overlap>>

Fail ==
    /\ failures < MaxFailures /\ failures' = failures + 1
    /\ UNCHANGED <<leaves, overlap>>

\* SIGTERM or SIGINT to a serving broker: it drains, still listening.
Terminate(b) ==
    /\ pc[b] = "serving" /\ Fail
    /\ Goto(b, "draining")
    /\ UNCHANGED <<files, clients, killed>>

\* The end of BrokerServer.shutdown(): the clients are destroyed and closing
\* the server unlinks its path, whoever bound it last.
CloseServer(b) ==
    /\ pc[b] = "draining"
    /\ DropConnections(b)
    /\ sockFile' = None
    /\ Goto(b, "stopSock")
    /\ UNCHANGED <<pidFile, writers, counts, overlap>>

\* uncaughtException or unhandledRejection: the files go first.
Crash(b) ==
    /\ Listening(b) /\ Fail
    /\ Goto(b, "stopSock")
    /\ UNCHANGED <<files, clients, killed>>

\* SIGKILL at any point, or SIGTERM before its handler is installed.
Kill(b) ==
    /\ Running(b) /\ Fail /\ killed' = TRUE
    /\ DropConnections(b)
    /\ pc' = [pc EXCEPT ![b] = "off"] /\ found' = [found EXCEPT ![b] = None]
    /\ writers' = writers \ {b}
    /\ UNCHANGED <<pidFile, sockFile>>

-----------------------------------------------------------------------------
(* A client. *)

GotoC(c, where) == at' = [at EXCEPT ![c] = where] /\ UNCHANGED <<seen, timer, conn>>

NoteOverlap == overlap' = (overlap \/ Contended')

\* Mutant: every socket counts as stale.
EverySocketStale == "rmSock"

\* Mutant: every socket counts as that of a broker.
EverySocketLive == "connect"

\* spawnBrokerIfNeeded(): what is looked at after a socket was found.
AfterSocket == "existsPid"

\* connect(), which is on no timer, or a tick of the reconnect timer.
Check(c) ==
    /\ at[c] = "idle"
    /\ GotoC(c, IF sockFile = None THEN "spawn" ELSE AfterSocket)
    /\ UNCHANGED <<files, brokers, counts>> /\ NoteOverlap

ClientExistsPid(c) ==
    /\ at[c] = "existsPid"
    /\ GotoC(c, IF pidFile # None THEN "readPid" ELSE "rmSock")
    /\ UNCHANGED <<files, brokers, counts>> /\ NoteOverlap

\* readFileSync() throws.  Out of connect(), the server goes on without ever
\* trying again; out of a tick, it exits, and its parent starts it anew.
LookThrows(c) ==
    /\ at' = [at EXCEPT ![c] = IF timer[c] THEN "idle" ELSE "failed"]
    /\ timer' = [timer EXCEPT ![c] = FALSE]
    /\ UNCHANGED <<seen, conn>>

ClientReadPid(c) ==
    /\ at[c] = "readPid"
    /\ \/ pidFile = None /\ LookThrows(c)
       \/ pidFile = Empty /\ GotoC(c, "rmSock")
       \/ /\ pidFile \in Pids
          /\ at' = [at EXCEPT ![c] = "probe"]
          /\ seen' = [seen EXCEPT ![c] = pidFile]
          /\ UNCHANGED <<timer, conn>>
    /\ UNCHANGED <<files, brokers, counts>> /\ NoteOverlap

\* process.kill(pid, 0)
ClientProbe(c) ==
    /\ at[c] = "probe"
    /\ at' = [at EXCEPT ![c] = IF Running(seen[c]) THEN "connect" ELSE "rmSock"]
    /\ seen' = [seen EXCEPT ![c] = None]
    /\ UNCHANGED <<files, brokers, timer, conn, counts>> /\ NoteOverlap

ClientRemovesSock(c) ==
    /\ at[c] = "rmSock"
    /\ sockFile' = None
    /\ GotoC(c, "rmPid")
    /\ UNCHANGED <<pidFile, writers, brokers, counts, overlap>>

ClientRemovesPid(c) ==
    /\ at[c] = "rmPid"
    /\ UnlinkPid
    /\ GotoC(c, "spawn")
    /\ UNCHANGED <<sockFile, brokers, counts, overlap>>

Spawn(c) ==
    /\ at[c] = "spawn"
    /\ \E b \in FreePids : pc' = [pc EXCEPT ![b] = "guard"]
    /\ GotoC(c, "wait")
    /\ UNCHANGED <<files, found, counts, overlap>>

\* waitForSocket(): until the path exists, but not longer than ten seconds.
WaitForSocket(c) ==
    /\ at[c] = "wait"
    /\ GotoC(c, "connect")
    /\ UNCHANGED <<files, brokers, counts, overlap>>

\* attemptConnect(): success clears the reconnect timer, a failure arms it.
AttemptConnect(c) ==
    /\ at[c] = "connect"
    /\ IF sockFile # None /\ Accepts(sockFile)
       THEN /\ conn' = [conn EXCEPT ![c] = sockFile]
            /\ at' = [at EXCEPT ![c] = "connected"]
            /\ timer' = [timer EXCEPT ![c] = FALSE]
       ELSE /\ at' = [at EXCEPT ![c] = "idle"]
            /\ timer' = [timer EXCEPT ![c] = TRUE]
            /\ UNCHANGED conn
    /\ UNCHANGED <<files, brokers, seen, counts, overlap>>

\* A session ends, wherever it is; a later one takes its place.
EndSession(c) ==
    /\ at[c] # "idle"
    /\ leaves < MaxLeaves /\ leaves' = leaves + 1
    /\ at' = [at EXCEPT ![c] = "idle"] /\ seen' = [seen EXCEPT ![c] = None]
    /\ conn' = [conn EXCEPT ![c] = None] /\ timer' = [timer EXCEPT ![c] = FALSE]
    /\ UNCHANGED <<files, brokers, failures, killed, overlap>>

-----------------------------------------------------------------------------
LifecycleInit ==
    /\ pidFile = None /\ sockFile = None /\ writers = {}
    /\ pc = [b \in Pids |-> "off"] /\ found = [b \in Pids |-> None]
    /\ at = [c \in Clients |-> "idle"] /\ seen = [c \in Clients |-> None]
    /\ timer = [c \in Clients |-> FALSE] /\ conn = [c \in Clients |-> None]
    /\ failures = 0 /\ leaves = 0 /\ killed = FALSE /\ overlap = FALSE

Guard(b) == ExistsPid(b) \/ ReadPid(b) \/ Probe(b) \/ ExistsSock(b)

BrokerStep(b) ==
    \/ Guard(b) \/ RemoveSock(b) \/ RemoveStalePid(b) \/ RemovePidAndExit(b)
    \/ OpenPid(b) \/ WritePid(b) \/ Listen(b) \/ CloseServer(b)

ClientStep(c) ==
    \/ Check(c) \/ ClientExistsPid(c) \/ ClientReadPid(c) \/ ClientProbe(c)
    \/ ClientRemovesSock(c) \/ ClientRemovesPid(c) \/ Spawn(c)
    \/ WaitForSocket(c) \/ AttemptConnect(c)

LifecycleNext ==
    \/ \E b \in Pids : BrokerStep(b) \/ Terminate(b) \/ Crash(b) \/ Kill(b)
    \/ \E c \in Clients : ClientStep(c) \/ EndSession(c)

LifecycleSpec == LifecycleInit /\ [][LifecycleNext]_lifecycleVars

\* Processes run on and timers fire; nobody need stop a broker.
LifecycleFairness ==
    /\ \A b \in Pids : WF_lifecycleVars(BrokerStep(b))
    /\ \A c \in Clients : WF_lifecycleVars(ClientStep(c))

-----------------------------------------------------------------------------
BrokerPoints == {"off", "guard", "readPid", "probe", "checkSock", "sockOnly", "rmSock",
                 "rmSockOnly", "rmPid", "write", "writing", "starting", "failed", "serving",
                 "draining", "stopSock", "stopPid"}
ClientPoints == {"idle", "failed", "existsPid", "readPid", "probe", "rmSock", "rmPid", "spawn",
                 "wait", "connect", "connected"}

\* The files name processes, and a client is connected exactly when it thinks so.
LifecycleTypeOK ==
    /\ pidFile \in Pids \cup {None, Empty} /\ sockFile \in Pids \cup {None}
    /\ writers \subseteq Pids
    /\ pc \in [Pids -> BrokerPoints] /\ found \in [Pids -> Pids \cup {None}]
    /\ at \in [Clients -> ClientPoints] /\ seen \in [Clients -> Pids \cup {None}]
    /\ timer \in [Clients -> BOOLEAN] /\ conn \in [Clients -> Pids \cup {None}]
    /\ failures \in 0..MaxFailures /\ leaves \in 0..MaxLeaves
    /\ killed \in BOOLEAN /\ overlap \in BOOLEAN
    /\ \A c \in Clients : (at[c] = "connected") = (conn[c] # None)
    /\ \A b \in Pids : pc[b] = "probe" => found[b] # None
    /\ \A c \in Clients : at[c] = "probe" => seen[c] # None

\* What .planning/PROJECT.md:17 says of the broker, a singleton: at most one process
\* owns all LLM communication.  Starts that race leave two.
OneServing == Cardinality({b \in Pids : Listening(b)}) <= 1

\* Whatever is killed, crashes or drains at whatever point, and whoever looks
\* meanwhile: one broker, and while it serves or drains it can be found.  Only
\* replacing a broker while others replace it, look at its files, start or stop may
\* break it: the processes then take each other's files for stale.
AloneOneReachable ==
    ~overlap => /\ OneServing
                /\ \A b \in Pids : Listening(b) => sockFile = b /\ pidFile = b

\* Discovery and cleanup keep one broker that can be found.
ProcessesAreSound == LifecycleTypeOK /\ AloneOneReachable

\* With the same exception, cleaning up removes what a dead broker left, never a
\* live broker's files.
AloneOnlyStaleRemoved ==
    [][~overlap' => \A b \in Pids : (Listening(b) /\ pc'[b] \in {"serving", "draining"})
         => (pidFile = b => pidFile' = b) /\ (sockFile = b => sockFile' = b)]_lifecycleVars

\* A broker that finds another one running gives way only to one that takes
\* connections, unless one was killed: between racing starts and stops it is never
\* a socket without a listener, or one still to come, that it gives way to.
GivesWayToServing ==
    [][\A b \in Pids : (pc[b] = "checkSock" /\ pc'[b] = "off" /\ ~killed')
         => sockFile # None /\ Accepts(sockFile)]_lifecycleVars

\* Cleanup and the guard tell a live broker from what a dead one left behind.
LiveBrokersAreRespected == AloneOnlyStaleRemoved /\ GivesWayToServing

\* Every client without a connection gets one, or has failed in connect().
ClientsServed ==
    [](~overlap) => \A c \in Clients : conn[c] = None ~> conn[c] # None \/ at[c] = "failed"
=============================================================================
