------------------------------ MODULE MCIndex ------------------------------
(***************************************************************************)
(* The rows of one project: what they say of the files, with everything    *)
(* that is answered from them, and the scores in them.  The two are        *)
(* modelled from their own sides and checked one at a time: a behaviour of *)
(* this module is one of one of them.                                      *)
(***************************************************************************)
EXTENDS IndexQueries, Importance

VARIABLE part
indexVars == <<part, vars, importanceVars>>

\* Files 1 and 3 are TypeScript in src/, 3 is named like an entry point, 2 is a script.
MCTypeScore == [f \in Ranked |-> IF f = 2 THEN 2 ELSE 3]
MCPlaceScore == [f \in Ranked |-> IF f = 2 THEN 0 ELSE 2]
MCNameScore == [f \in Ranked |-> IF f = 3 THEN 2 ELSE 0]

\* Two files, of which the first may import the other and the third, that is yet to
\* come; edits may give any file any imports.
TwoFiles ==
    /\ content[3] = NoRow /\ OnDisk(1) /\ OnDisk(2)
    /\ content[2].imports = {}

\* The part that is not run starts in one state.
NoIndex == disk = [f \in Files |-> Missing]
NoScores == content = [f \in Ranked |-> NoRow]

IndexInit ==
    \/ part = "rows" /\ NoScores /\ Init /\ ImportanceInit
    \/ part = "scores" /\ NoIndex /\ Init /\ ImportanceInit /\ TwoFiles

\* Bound: with an exclusion, one change less.
FewerAfterExclusion == excluded' # {} => writes' <= 2

IndexNext ==
    /\ UNCHANGED part
    /\ \/ part = "rows" /\ Next /\ FewerAfterExclusion /\ UNCHANGED importanceVars
       \/ part = "scores" /\ ImportanceNext /\ UNCHANGED vars

IndexSpec == IndexInit /\ [][IndexNext]_indexVars
=============================================================================
