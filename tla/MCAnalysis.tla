----------------------------- MODULE MCAnalysis -----------------------------
(***************************************************************************)
(* The analyses of the import graph and of a change, and the search in the *)
(* metadata, each on its own: they share no state, so a behaviour of this  *)
(* module is one of one of them.                                           *)
(***************************************************************************)
EXTENDS Cascade, CycleDetection, ChangePropagation, Search

VARIABLE part

analysisVars == <<part, vars, cycleVars, changeVars, searchVars>>

\* Any one file may be unreadable; or only the root, because it was deleted.
AnyFile == {{}} \cup {{f} : f \in Files}
DeletedRoot == {{Root}}

\* Of the files only the root may import itself.
LoopAtRoot ==
    dependents \in {d \in [Files -> SUBSET Files] : \A f \in Files \ {Root} : f \notin d[f]}

\* The parts that are not run start in one state.
NoCascade == dependents = [f \in Files |-> {}] /\ readable = Files
NoCycles == imports = {}
NoChange == astParsed = TRUE /\ hasRow = TRUE

NoSearch ==
    /\ rankOf = [d \in Docs |-> [t \in Words |-> 0]]
    /\ importance = [d \in Docs |-> 0]

AnalysisInit ==
    /\ \/ part = "cascade" /\ LoopAtRoot /\ NoCycles /\ NoChange /\ NoSearch
       \/ part = "cycles" /\ NoCascade /\ NoChange /\ NoSearch
       \/ part = "change" /\ NoCascade /\ NoCycles /\ NoSearch
       \/ part = "search" /\ NoCascade /\ NoCycles /\ NoChange
    /\ Init /\ CycleInit /\ ChangeInit /\ SearchInit

AnalysisNext ==
    /\ UNCHANGED part
    /\ \/ part = "cascade" /\ Next /\ UNCHANGED <<cycleVars, changeVars, searchVars>>
       \/ part = "cycles" /\ CycleNext /\ UNCHANGED <<vars, changeVars, searchVars>>
       \/ part = "change" /\ ChangeNext /\ UNCHANGED <<vars, cycleVars, searchVars>>
       \/ part = "search" /\ SearchNext /\ UNCHANGED <<vars, cycleVars, changeVars>>

AnalysisSpec == AnalysisInit /\ [][AnalysisNext]_analysisVars

Symmetric == Permutations(Nodes \ SelfEdges) \cup Permutations(Files \ {Root})

-----------------------------------------------------------------------------
\* The texts of the file whose change is followed.

Fn(e, n, h, called) ==
    [stmt |-> "decl", decl |-> "function", exported |-> e, split |-> FALSE, head |-> h, rest |-> "r",
     binds |-> <<[name |-> n, value |-> "function", calls |-> called]>>]
SplitFn == [Fn("named", "f", "f1", {"g"}) EXCEPT !.split = TRUE]
Iface(r) ==
    [stmt |-> "decl", decl |-> "interface", exported |-> "named", split |-> FALSE, head |-> "T", rest |-> r,
     binds |-> <<[name |-> "T", value |-> "type", calls |-> {}]>>]
Vars(d, e, h) ==
    [stmt |-> "decl", decl |-> d, exported |-> e, split |-> FALSE, head |-> h, rest |-> "r",
     binds |-> <<[name |-> "a", value |-> "other", calls |-> {}],
                 [name |-> "f", value |-> "function", calls |-> {"g"}]>>]
Import(p, n, as) == [stmt |-> "import", from |-> p, names |-> {[name |-> n, as |-> as]}]

MCResolves == ("x" :> "x.ts") @@ ("y" :> "y.ts") @@ ("lib" :> Package)
MCBarrels == {"index.ts"}
MCRows == {<<"x.ts", "g">>, <<"y.ts", "g">>, <<"y.ts", "h">>, <<"index.ts", "g">>}

MCTexts ==
    {<<Fn("named", "f", "f1", {"g", "h"})>>, <<Fn("named", "f", "f2", {})>>, <<Fn("default", "f", "f1", {})>>,
     <<Fn("named", "f", "f1", {}), Fn("named", "f", "f2", {})>>,
     <<Fn("named", "f", "f2", {}), Fn("named", "f", "f1", {})>>,
     <<Iface("m1")>>, <<Iface("m2"), Fn("named", "f", "f1", {})>>,
     <<Fn("no", "g", "g", {}), Fn("named", "f", "f1", {"g"}), Import("x", "g", "k")>>,
     <<Import("x", "g", "g"), Import("y", "h", "h"), Fn("named", "f", "f1", {"g", "h"})>>,
     <<Import("y", "h", "h"), Import("x", "g", "g"), Fn("named", "f", "f1", {"g"})>>,
     <<Import("y", "h", "h"), Import("x", "g", "g"), Vars("const", "named", "a = 1, f")>>,
     <<Import("x", "g", "k"), Import("y", "g", "l"), SplitFn>>,
     <<Import("lib", "g", "g"), Vars("let", "no", "l"), [stmt |-> "reexport", from |-> "y"]>>,
     <<Vars("const", "no", "c"), [stmt |-> "clause", names |-> {"f"}], [stmt |-> "value", head |-> "v"]>>}
=============================================================================
