------------------------------ MODULE Cascade ------------------------------
(***************************************************************************)
(* cascadeStale() of src/cascade/cascade-engine.ts: the breadth-first walk *)
(* that marks a changed or deleted file and its dependents stale.  The     *)
(* walk runs without an await; a step is one iteration of its loop, so     *)
(* that what it does can be compared with what it should have done.        *)
(***************************************************************************)
EXTENDS Naturals, Sequences, FiniteSets, SequencesExt

CONSTANTS
    Files,       \* files of the project
    Root,        \* the file that changed or was deleted
    MaxDepth,    \* MAX_CASCADE_DEPTH
    Unreadable   \* the sets of files that may be unreadable

ASSUME CascadeAssumption ==
    /\ IsFiniteSet(Files) /\ Root \in Files /\ MaxDepth \in Nat
    /\ Unreadable \subseteq SUBSET Files

VARIABLES
    dependents,  \* getDependents(): who imports each file
    readable,    \* the files that can be read from disk
    queue,       \* the walk's queue of [file, depth]
    visited,     \* the walk's visited set
    marked       \* the files marked stale, in the order it was done

world == <<dependents, readable>>
vars == <<world, queue, visited, marked>>

\* Newly found files go to the end of the queue.
Appended(q, items) == q \o items

\* The dependents still to visit; the database returns them in any order.
NewDependents(file) == dependents[file] \ visited

\* A file counts as visited as soon as it is enqueued.
NowVisited(item) == visited \cup NewDependents(item.file)

\* Mutant: one level too few.
ExpandsBelow(item) == item.file \in readable /\ item.depth + 1 < MaxDepth

\* A file whose content cannot be read, or at the depth cap, is not expanded.
Expands(item) == item.file \in readable /\ item.depth < MaxDepth

Visit ==
    /\ queue # <<>>
    /\ marked' = Append(marked, queue[1].file)
    /\ IF Expands(queue[1])
       THEN \E order \in SetToSeqs(NewDependents(queue[1].file)) :
              /\ queue' = Appended(Tail(queue),
                    [i \in DOMAIN order |->
                        [file |-> order[i], depth |-> queue[1].depth + 1]])
              /\ visited' = NowVisited(queue[1])
       ELSE queue' = Tail(queue) /\ UNCHANGED visited
    /\ UNCHANGED world

Init ==
    /\ dependents \in [Files -> SUBSET Files]
    /\ readable \in {Files \ u : u \in Unreadable}
    /\ queue = <<[file |-> Root, depth |-> 0]>>
    /\ visited = {Root}
    /\ marked = <<>>

Next == Visit

Spec == Init /\ [][Next]_vars

-----------------------------------------------------------------------------
\* Reference: the files at most n imports away from Root, over readable files.
Within[n \in 0..MaxDepth] ==
    IF n = 0 THEN {Root}
    ELSE Within[n - 1] \cup UNION {dependents[f] : f \in Within[n - 1] \cap readable}

\* The queue and the visited set agree, within the cap.
TypeOK ==
    /\ queue \in Seq([file : Files, depth : 0..MaxDepth])
    /\ visited \subseteq Files
    /\ visited = ToSet(marked) \cup {queue[i].file : i \in DOMAIN queue}

\* The walk marks exactly the files whose shortest chain of imports from Root,
\* over readable files, is within the depth cap.
MarksWithinCap == queue = <<>> => ToSet(marked) = Within[MaxDepth]

\* No file is marked, and submitted, twice, whatever cycles the imports have.
MarkedOnce == IsInjective(marked)

\* The walk of cascadeStale() marks what it must, once, and nothing else.
WalkIsExact == TypeOK /\ MarksWithinCap /\ MarkedOnce

\* When the walk ends, whoever imports the changed or deleted file is marked.
DependentsMarked == queue = <<>> => dependents[Root] \subseteq ToSet(marked)
=============================================================================
