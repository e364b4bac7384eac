--------------------------- MODULE MCBrokerLive ---------------------------
(***************************************************************************)
(* What has to happen around a broker: that its queue is worked off and it *)
(* shuts down (Broker), and that its processes come and go so that clients *)
(* find one (BrokerLifecycle, where serving is one step).  The two share   *)
(* no state and are checked one at a time: a behaviour of this module is   *)
(* one of one of them, with its fairness.                                  *)
(***************************************************************************)
EXTENDS Broker, BrokerLifecycle

VARIABLE part
liveVars == <<part, vars, lifecycleVars>>

\* The processes where only the work is looked at: one broker, every client connected.
QuietLifecycle ==
    LET b == CHOOSE b \in Pids : TRUE
    IN  /\ pidFile = b /\ sockFile = b
        /\ writers = {} /\ found = [p \in Pids |-> None]
        /\ pc = [p \in Pids |-> IF p = b THEN "serving" ELSE "off"]
        /\ at = [c \in Clients |-> "connected"] /\ conn = [c \in Clients |-> b]
        /\ seen = [c \in Clients |-> None] /\ timer = [c \in Clients |-> FALSE]
        /\ failures = 0 /\ leaves = 0 /\ killed = FALSE /\ overlap = FALSE

\* The work where only the processes are looked at: a broker that has exited.
ExitedBroker ==
    /\ phase = "exited" /\ sock = [c \in Conns |-> "none"] /\ connections = {}
    /\ inbox = [c \in Conns |-> <<>>] /\ queue = {} /\ submitted = <<>> /\ tokens = 0
    /\ stopped = TRUE /\ armed = [t \in TimerIds |-> "off"] /\ loopTimer = NoTimer
    /\ currentJob = NoJob /\ running = {} /\ awaited = NoJob

LiveInit ==
    \/ part = "work" /\ Init /\ QuietLifecycle
    \/ part = "processes" /\ ExitedBroker /\ LifecycleInit

\* Bound: races beyond a replacement that overlaps another process are followed
\* between two brokers, neither of which fails.
FewerAfterOverlap == overlap' => failures' + leaves' = 0 /\ Cardinality({b \in Pids : Running(b)'}) <= 2

LiveNext ==
    /\ UNCHANGED part
    /\ \/ part = "work" /\ Next /\ UNCHANGED lifecycleVars
       \/ part = "processes" /\ LifecycleNext /\ FewerAfterOverlap /\ UNCHANGED vars

LiveSpec ==
    /\ LiveInit /\ [][LiveNext]_liveVars
    /\ Fairness /\ LifecycleFairness
=============================================================================
