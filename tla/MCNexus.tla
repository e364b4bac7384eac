------------------------------ MODULE MCNexus ------------------------------
(***************************************************************************)
(* The two parts of the Nexus process.  They share no state but the life   *)
(* of the process, which each has steps for, so they are checked one at a  *)
(* time: a behaviour of this module is one of one of them.                 *)
(***************************************************************************)
EXTENDS LogTailer, RepoStore

VARIABLE part
nexusVars == <<part, logVars, storeVars>>

MCLogFiles == <<"broker", "mcp">>
MCFileOf == [w \in Writers |-> IF w = "b1" THEN "broker" ELSE "mcp"]
MCNameOf == [p \in Projects |-> IF p = "a" THEN "a" ELSE "b"]

NoLog == content = [f \in Files |-> Off]
NoStore == dbFile = [p \in Projects |-> "missing"]

NexusInit ==
    \/ part = "log" /\ LogInit /\ NoStore /\ StoreInit
    \/ part = "store" /\ NoLog /\ LogInit /\ StoreInit

NexusNext ==
    /\ UNCHANGED part
    /\ \/ part = "log" /\ LogNext /\ UNCHANGED storeVars
       \/ part = "store" /\ StoreNext /\ UNCHANGED logVars

NexusSpec == NexusInit /\ [][NexusNext]_nexusVars /\ LogFairness /\ StoreFairness
=============================================================================
