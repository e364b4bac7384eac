---------------------------- MODULE IndexQueries ----------------------------
(***************************************************************************)
(* What the MCP tools answer from the index of ProjectIndex: the queries   *)
(* of src/db/repository.ts and the handlers of src/mcp-server.ts that cut, *)
(* count and flag their rows.  A handler runs without an await, so an      *)
(* answer is a function of the state it is asked in.                       *)
(*                                                                         *)
(* A file exports one symbol, which bears its name, so a list sorted by    *)
(* path and line is sorted by file.  Summaries, importance and the names a *)
(* dependent imports are left out of the answers.                          *)
(***************************************************************************)
EXTENDS ProjectIndex

ASSUME QueriesAssumption == IsFiniteSet(Files)

NOT_FOUND == "NOT_FOUND"

\* maxItems, 50 unless given, clamped to [1, 500].
Clamped(maxItems) == Min({500, Max({1, maxItems})})

\* The first rows of a sorted result, its size, and whether it was cut.
Answer(sorted, maxItems) ==
    LET items == SubSeq(sorted, 1, Min({Clamped(maxItems), Len(sorted)}))
    IN  [items |-> items, total |-> Len(sorted), truncated |-> Len(items) < Len(sorted)]

\* The files in an order: before each come those that <<it, file>> has.
InOrder(files, order) ==
    [i \in 1..Cardinality(files) |->
       CHOOSE f \in files : Cardinality({g \in files : <<g, f>> \in order}) = i - 1]

ByPath(files) == InOrder(files, {p \in files \X files : p[1] < p[2]})

-----------------------------------------------------------------------------
(* Dependencies. *)

getDependenciesWithEdgeMetadata(f) == {e[2] : e \in {d \in edges : d[1] = f}}

getDependents(f) == {e[1] : e \in {d \in edges : d[2] = f}}

\* The flag is set once: the handler records the mtime it has compared.
get_file_summary(f) ==
    IF rows[f] = Missing THEN NOT_FOUND
    ELSE [stale |-> Outdated(f),
          dependencies |-> getDependenciesWithEdgeMetadata(f),
          dependents |-> ByPath(getDependents(f)),
          exports |-> symbols[f]]

-----------------------------------------------------------------------------
(* Symbols and calls. *)

\* find_symbol: an exact name, or a prefix, which any set of names may share.
find_symbol(names, maxItems) ==
    Answer(ByPath({f \in names : symbols[f] # Missing}), maxItems)

UnresolvedIn(rowsOf) == Cardinality({c \in rowsOf : ~c.callerLive \/ ~c.calleeLive})

\* The rows are counted first, then joined with the symbol at their other end,
\* whose files are the ones listed.
CallAnswer(rowsOf, others, maxItems) ==
    LET items == Answer(ByPath(others), maxItems).items
    IN  [items |-> items, total |-> Cardinality(rowsOf),
         truncated |-> Len(items) < Cardinality(rowsOf),
         unresolvedCount |-> UnresolvedIn(rowsOf)]

find_callers(f, maxItems) ==
    LET into == IF symbols[f] = Missing THEN {} ELSE CalledInto(f)
    IN  CallAnswer(into, {c.caller : c \in {d \in into : d.callerLive}}, maxItems)

find_callees(f, maxItems) ==
    LET from == IF symbols[f] = Missing THEN {} ELSE CalledFrom(f)
    IN  CallAnswer(from, {c.callee : c \in {d \in from : d.calleeLive}}, maxItems)

-----------------------------------------------------------------------------
(* list_changed_since. *)

\* Rows without mtime are left out.
getFilesChangedSince(since) == {f \in Files : rows[f] \in Versions /\ rows[f] > since}

\* A commit: git names the files that differ from it, the tables know some.
getFilesByPaths(paths) == {f \in paths : rows[f] # Missing}

\* Newest first, rows without mtime last.
ListedMtime(f) == IF rows[f] = NoMtime THEN 0 ELSE rows[f]
Newer(f, g) ==
    \/ ListedMtime(f) > ListedMtime(g)
    \/ ListedMtime(f) = ListedMtime(g) /\ f < g
Listed(files) == InOrder(files, {p \in files \X files : Newer(p[1], p[2])})

list_changed_since(since, maxItems) == Answer(Listed(getFilesChangedSince(since)), maxItems)
list_changed_since_commit(named, maxItems) == Answer(Listed(getFilesByPaths(named)), maxItems)

-----------------------------------------------------------------------------
(* The dashboard's graph, which Nexus reads from the same tables. *)

\* The edges with an end in the directory, and those of their ends that have a
\* row; the browser gives both to a library that takes no edge without its nodes.
getGraphData(directory) ==
    LET shown == {e \in edges : e[1] \in directory \/ e[2] \in directory}
    IN  [edges |-> shown,
         nodes |-> {[path |-> f, degree |-> Cardinality({e \in shown : e[1] = f})
                                             + Cardinality({e \in shown : e[2] = f})] :
                      f \in {g \in Files : rows[g] # Missing
                                            /\ \E e \in shown : g \in {e[1], e[2]}}}]

-----------------------------------------------------------------------------
\* An event for the file is on its way to its handler, or in it.
Pending(f) ==
    \/ \E i \in DOMAIN timers : timers[i][1] = f
    \/ \E i \in DOMAIN mutex : mutex[i][1] = f
    \/ work # Idle /\ work.file = f

Asked == phase = "up" /\ Undisturbed

\* A client that looks for what changed since some moment is told of every file
\* written since and of no other, unless the file's event is still on its way:
\* no handler, restart or freshness check loses a change for good.  (A row
\* that a stopped server left without mtime is never listed, and a list that
\* says it is cut may lack a file.)
ChangesAreListed ==
    Asked => \A since \in Versions, f \in Files :
        LET answer == list_changed_since(since, 50)
            listed == f \in ToSet(answer.items)
            changed == Present(f) /\ disk[f].version > since
        IN  \/ Pending(f) \/ f \in robbed
            \/ stops > 0 /\ Present(f) /\ rows[f] = NoMtime
            \/ IF answer.truncated THEN listed => changed ELSE listed <=> changed

\* The files find_symbol, get_file_summary, find_callers and find_callees name
\* exist, unless their removal is on its way, also after a restart: a removal
\* takes the symbols, both directions of edges and both ends of calls.  (Not so
\* a file that came, was imported and went before any server gave it a row.)
Named(f) ==
    ToSet(find_symbol(Files, 50).items)
      \cup (IF rows[f] = Missing THEN {}
            ELSE get_file_summary(f).dependencies \cup ToSet(get_file_summary(f).dependents))
      \cup ToSet(find_callers(f, 50).items) \cup ToSet(find_callees(f, 50).items)

AnswersNameFiles ==
    Asked => \A f \in Files : \A g \in Named(f) :
        \/ Present(g) \/ Pending(g) \/ g \in robbed
        \/ stops > 0 /\ rows[g] = Missing

\* The graph is closed: an edge has its two nodes, with degrees that count its
\* ends, unless an event of a node's file is on its way (or the file came, was
\* imported and went before any server gave it a row).
GraphIsClosed ==
    Asked => \A directory \in {Files} \cup {{f} : f \in Files} :
        LET graph == getGraphData(directory)
        IN  /\ \A e \in graph.edges, f \in Files : f \in {e[1], e[2]} =>
                   \/ \E n \in graph.nodes : n.path = f /\ n.degree > 0
                   \/ Pending(f) \/ f \in robbed \/ stops > 0
            /\ \A n \in graph.nodes : Present(n.path) \/ Pending(n.path)

\* A caller that find_callers names is a dependent in get_file_summary, unless
\* one of the two files is on its way: call rows go when the import goes.  (Not
\* so after a stop between a failed read and the event that follows it.)
CallersAreDependents ==
    Asked /\ stops = 0 => \A f \in Files : \A g \in ToSet(find_callers(f, 50).items) :
        \/ rows[f] # Missing /\ g \in ToSet(get_file_summary(f).dependents)
        \/ Pending(f) \/ Pending(g)

\* find_callers says that its list was cut only when it was: no row it counts
\* is lost in the join.  find_callees may lose some, and counts them.
CutOnlyByLimit ==
    \A f \in Files, max \in {0, 1, 50} :
        /\ find_callers(f, max).truncated => Len(find_callers(f, max).items) = Clamped(max)
        /\ find_callees(f, max).truncated =>
              \/ Len(find_callees(f, max).items) = Clamped(max)
              \/ find_callees(f, max).unresolvedCount > 0

\* What the tools and the dashboard answer holds together: the files named
\* exist, callers import what they call, and a cut list says so.
AnswersAreSound == AnswersNameFiles /\ GraphIsClosed /\ CallersAreDependents /\ CutOnlyByLimit
=============================================================================
