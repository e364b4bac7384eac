---------------------------- MODULE StatusQuery ----------------------------
(***************************************************************************)
(* Asking the broker for its status over a connection that may break: the  *)
(* map of pending requests, their timeouts, late answers, and the figures  *)
(* on disk to fall back on.  src/broker/client.ts, src/broker/server.ts,   *)
(* src/coordinator.ts.                                                     *)
(***************************************************************************)
EXTENDS Naturals

CONSTANTS
    Requests,  \* status requests, each with an id of its own
    MaxBreaks  \* bound: broken connections

ASSUME StatusConstants == MaxBreaks \in Nat

VARIABLES
    connected,     \* socket is there and not destroyed
    pending,       \* pendingStatusRequests
    status,        \* what each request got: "unasked", "waiting", "live", "disk", "offline"
    asked,         \* requests on their way to the broker
    answered,      \* responses on their way back
    breaks         \* history: broken connections

statusVars == <<connected, pending, status, asked, answered, breaks>>

Resolve(rs, value) ==
    [r \in Requests |-> IF r \in rs /\ status[r] = "waiting" THEN value ELSE status[r]]

-----------------------------------------------------------------------------
\* getBrokerStatus() and requestStatus().
Ask(r) ==
    /\ status[r] = "unasked"
    /\ IF connected
       THEN /\ status' = [status EXCEPT ![r] = "waiting"]
            /\ pending' = pending \cup {r}
            /\ asked' = asked \cup {r}
       ELSE /\ status' = [status EXCEPT ![r] = "offline"]
            /\ UNCHANGED <<pending, asked>>
    /\ UNCHANGED <<connected, answered, breaks>>

\* handleStatus()
BrokerAnswers(r) ==
    /\ r \in asked
    /\ asked' = asked \ {r}
    /\ answered' = answered \cup {r}
    /\ UNCHANGED <<connected, pending, status, breaks>>

\* handleBrokerMessage(): a response nobody waits for is dropped.
Receive(r) ==
    /\ r \in answered
    /\ answered' = answered \ {r}
    /\ status' = Resolve({r} \cap pending, "live")
    /\ pending' = pending \ {r}
    /\ UNCHANGED <<connected, asked, breaks>>

\* Mutant: the entry goes, and nobody is told.
TimeOutSilently(r) ==
    /\ r \in pending
    /\ pending' = pending \ {r}
    /\ UNCHANGED <<connected, status, asked, answered, breaks>>

TimeOut(r) ==
    /\ r \in pending
    /\ status' = Resolve({r}, "disk")
    /\ pending' = pending \ {r}
    /\ UNCHANGED <<connected, asked, answered, breaks>>

\* 'close': what was on its way is lost, and nobody goes on waiting.
Break ==
    /\ connected /\ breaks < MaxBreaks
    /\ breaks' = breaks + 1
    /\ connected' = FALSE
    /\ status' = Resolve(pending, "disk")
    /\ pending' = {} /\ asked' = {} /\ answered' = {}

Reconnect ==
    /\ ~connected
    /\ connected' = TRUE
    /\ UNCHANGED <<pending, status, asked, answered, breaks>>

-----------------------------------------------------------------------------
StatusInit ==
    /\ connected = FALSE /\ pending = {} /\ asked = {} /\ answered = {}
    /\ status = [r \in Requests |-> "unasked"]
    /\ breaks = 0

StatusNext ==
    \/ \E r \in Requests : Ask(r) \/ BrokerAnswers(r) \/ Receive(r) \/ TimeOut(r)
    \/ Break \/ Reconnect

StatusSpec == StatusInit /\ [][StatusNext]_statusVars

\* Timers fire; the broker may never answer.
StatusFairness == \A r \in Requests : WF_statusVars(TimeOut(r))

-----------------------------------------------------------------------------
\* The map holds exactly the requests somebody waits for: a timeout, a close or
\* an answer leaves neither an entry behind nor a caller without one.
PendingIsWaiting == pending = {r \in Requests : status[r] = "waiting"}

\* Every status call returns, whether the broker answers or not: nobody waits in
\* vain, for a request of the map or for one it has forgotten.
StatusIsAnswered == []<>(\A r \in Requests : status[r] # "waiting")
=============================================================================
