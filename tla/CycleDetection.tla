--------------------------- MODULE CycleDetection ---------------------------
(***************************************************************************)
(* The detection of circular imports, src/cycle-detection.ts: Tarjan's     *)
(* strongly connected components with an explicit work stack in place of   *)
(* recursion.  A step is one iteration of the work loop, so that every     *)
(* component can be judged when it is emitted; the order of the adjacency  *)
(* map and of its lists, that of the edge rows, is any.                    *)
(***************************************************************************)
EXTENDS Naturals, Sequences, FiniteSets, SequencesExt

CONSTANTS
    Nodes,     \* paths in file_dependencies
    SelfEdges  \* the nodes that may import themselves

ASSUME CycleAssumption == IsFiniteSet(Nodes) /\ SelfEdges \subseteq Nodes

VARIABLES
    imports,    \* the edge rows, as <<source, target>>
    index,      \* order of first visit, of the nodes visited so far
    lowlink,
    stack,      \* Tarjan's stack; onStack is its range
    workStack,  \* frames [node, neighbours still to look at]
    sccs        \* the components emitted so far

cycleVars == <<imports, index, lowlink, stack, workStack, sccs>>

\* buildAdjacencyList: the nodes are the two ends of every edge.
AdjKeys == {e[1] : e \in imports} \cup {e[2] : e \in imports}
Adj(n) == {e[2] : e \in {d \in imports : d[1] = n}}

Numbered == DOMAIN index
OnStack == ToSet(stack)
Top == workStack[Len(workStack)]
Parent == workStack[Len(workStack) - 1]
Lower(a, b) == IF a < b THEN a ELSE b

CycleInit ==
    /\ imports \in SUBSET ({e \in Nodes \X Nodes : e[1] # e[2]}
                             \cup {<<n, n>> : n \in SelfEdges})
    /\ index = << >> /\ lowlink = << >>
    /\ stack = << >> /\ workStack = << >> /\ sccs = {}

-----------------------------------------------------------------------------
\* f with n mapped to v, n new or not.
With(f, n, v) == [m \in DOMAIN f \cup {n} |-> IF m = n THEN v ELSE f[m]]

\* First visit: number the node and push it on both stacks; ws is the rest.
Enter(n, ws) ==
    /\ index' = With(index, n, Cardinality(Numbered))
    /\ lowlink' = With(lowlink, n, Cardinality(Numbered))
    /\ stack' = Append(stack, n)
    /\ workStack' = Append(ws, [node |-> n, todo |-> Adj(n)])
    /\ UNCHANGED <<imports, sccs>>

\* The outer loop begins a search from a node no search has reached.
Begin ==
    /\ workStack = << >>
    /\ \E n \in AdjKeys \ Numbered : Enter(n, workStack)

\* A neighbour seen before lowers the lowlink only while it is on the stack.
Lowered(w) ==
    IF w \in OnStack
    THEN [lowlink EXCEPT ![Top.node] = Lower(@, index[w])]
    ELSE lowlink

\* The next neighbour of the top frame.
Look ==
    /\ workStack # << >>
    /\ \E w \in Top.todo :
         LET looked == [workStack EXCEPT ![Len(workStack)].todo = @ \ {w}] IN
         \/ w \notin Numbered /\ Enter(w, looked)
         \/ /\ w \in Numbered
            /\ lowlink' = Lowered(w)
            /\ workStack' = looked
            /\ UNCHANGED <<imports, index, stack, sccs>>

\* Mutant: as in the recursive form, where the caller does it.
PropagatedNot == lowlink

\* A finished frame hands its lowlink to its parent ...
Propagated ==
    IF Len(workStack) > 1
    THEN [lowlink EXCEPT ![Parent.node] = Lower(@, lowlink[Top.node])]
    ELSE lowlink

\* The stack without a component that begins at position at.
Popped(at) == SubSeq(stack, 1, at - 1)

\* ... and, if it is the root of a component, pops the stack down to itself.
Finish ==
    /\ workStack # << >> /\ Top.todo = {}
    /\ workStack' = Front(workStack)
    /\ lowlink' = Propagated
    /\ IF lowlink[Top.node] = index[Top.node]
       THEN LET at == SelectInSeq(stack, LAMBDA n : n = Top.node) IN
            /\ sccs' = sccs \cup {ToSet(SubSeq(stack, at, Len(stack)))}
            /\ stack' = Popped(at)
       ELSE UNCHANGED <<sccs, stack>>
    /\ UNCHANGED <<imports, index>>

CycleNext == Begin \/ Look \/ Finish

CycleSpec == CycleInit /\ [][CycleNext]_cycleVars

-----------------------------------------------------------------------------
\* detectCycles: a lone node counts only if it imports itself.
DetectedCycles ==
    {c \in sccs : Cardinality(c) > 1 \/ \E n \in c : n \in Adj(n)}

\* get_cycles_for_file
CyclesForFile(f) == {c \in DetectedCycles : f \in c}

AllNumbered == workStack = << >> /\ AdjKeys \subseteq Numbered

\* Reference: reachability in one or more imports.
Further(R) ==
    R \cup {p \in Nodes \X Nodes : \E b \in Nodes : <<p[1], b>> \in R /\ <<b, p[2]>> \in imports}
ReachedIn[n \in 0..Cardinality(Nodes)] ==
    IF n = 0 THEN imports ELSE Further(ReachedIn[n - 1])
Reaches == ReachedIn[Cardinality(Nodes) - 1]
OnCycle == {n \in Nodes : <<n, n>> \in Reaches}
GroupOf(n, R) == {n} \cup {m \in Nodes : <<n, m>> \in R /\ <<m, n>> \in R}

\* Both stacks hold numbered nodes, the frames along the way to the top.
CycleTypeOK ==
    /\ index \in [Numbered -> Nat] /\ lowlink \in [Numbered -> Nat]
    /\ Numbered \subseteq AdjKeys
    /\ IsInjective(stack) /\ OnStack \subseteq Numbered
    /\ \A i \in 1..Len(workStack) :
         workStack[i].node \in OnStack /\ workStack[i].todo \subseteq Adj(workStack[i].node)
    /\ \A c \in sccs : c \cap OnStack = {}

\* A component is right from the moment it is emitted: no file is missing from
\* it because a lowlink did not reach its parent, none is in it by a cross edge.
EmittedAreGroups ==
    LET R == Reaches IN \A c \in sccs : \A n \in c : c = GroupOf(n, R)

\* detect_cycles reports exactly the groups of files that import each other, a
\* file that imports itself included, and get_cycles_for_file finds a group
\* exactly for the files on a cycle.
CyclesAreExact ==
    AllNumbered =>
        LET R == Reaches IN
        /\ DetectedCycles = {GroupOf(n, R) : n \in OnCycle}
        /\ \A n \in Nodes : CyclesForFile(n) # {} <=> n \in OnCycle

\* The iterative walk with its explicit stacks is Tarjan's, at every step.
CyclesAreSound == CycleTypeOK /\ EmittedAreGroups /\ CyclesAreExact
=============================================================================
