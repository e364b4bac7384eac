----------------------------- MODULE CycleProofs -----------------------------
(***************************************************************************)
(* The detection of circular imports of module CycleDetection, for every   *)
(* finite set of files, every set of imports among them and every order in *)
(* which the walk takes them.                                              *)
(*                                                                         *)
(* The files numbered are those emitted, which import only each other, and *)
(* those on the stack, in the order of their numbers.  The frames of the   *)
(* work stack are the branch of the search: a file on the stack is led to  *)
(* by every frame with a lower number and leads to one of them, and what   *)
(* has been looked at from above a frame has lowered a lowlink there.      *)
(***************************************************************************)
EXTENDS AnalysisProofs, CycleDetection

NodeAt(i) == workStack[i].node
TodoAt(i) == workStack[i].todo

Leads(x, y) == x = y \/ <<x, y>> \in Reaches

\* An import that the walk has taken.
Looked(x, y) ==
    <<x, y>> \in imports /\ \A i \in DOMAIN workStack : NodeAt(i) = x => y \notin TodoAt(i)

Emitted == UNION sccs

CycleTypes ==
    /\ imports \subseteq Nodes \X Nodes
    /\ index \in [Numbered -> Nat] /\ lowlink \in [Numbered -> Nat]
    /\ Numbered \subseteq AdjKeys
    /\ stack \in Seq(Nodes)
    /\ workStack \in Seq([node : Nodes, todo : SUBSET Nodes])
    /\ sccs \subseteq SUBSET Nodes

\* Numbers grow along both stacks, and the work stack is a chain of imports.
Visits ==
    /\ \A n \in Numbered : index[n] < Cardinality(Numbered)
    /\ \A i, j \in DOMAIN stack : i < j => index[stack[i]] < index[stack[j]]
    /\ \A i, j \in DOMAIN workStack : i < j => index[NodeAt(i)] < index[NodeAt(j)]
    /\ \A i \in DOMAIN workStack : NodeAt(i) \in OnStack /\ TodoAt(i) \subseteq Adj(NodeAt(i))
    /\ \A i \in DOMAIN workStack : i > 1 => <<NodeAt(i - 1), NodeAt(i)>> \in imports
    /\ OnStack \subseteq Numbered
    /\ \A x \in Numbered, y \in Nodes : Looked(x, y) => y \in Numbered

\* What has been emitted is complete, and imports nothing else.
Emissions ==
    /\ Numbered = OnStack \cup Emitted
    /\ \A c \in sccs : c # {} /\ c \cap OnStack = {}
    /\ \A e \in imports : e[1] \in Emitted => e[2] \in Emitted
    /\ \A c \in sccs : \A n \in c : c = GroupOf(n, Reaches)

\* A frame leads to the files above it on the stack, and each of these to a
\* frame that is no higher.
Branch ==
    /\ \A i \in DOMAIN workStack, y \in OnStack :
          index[NodeAt(i)] <= index[y] => Leads(NodeAt(i), y)
    /\ \A y \in OnStack : \E i \in DOMAIN workStack :
          index[NodeAt(i)] <= index[y] /\ Leads(y, NodeAt(i))

\* A lowlink is the number of a file on the stack that its frame leads to, and
\* is no more than that of any file looked at from above its frame, unless the
\* lowlink of a later frame is, which will be handed down.
Lowlinks ==
    /\ \A i \in DOMAIN workStack :
          /\ lowlink[NodeAt(i)] <= index[NodeAt(i)]
          /\ \E w \in OnStack : index[w] = lowlink[NodeAt(i)] /\ Leads(NodeAt(i), w)
    /\ \A i \in DOMAIN workStack : \A x, y \in OnStack :
          Looked(x, y) /\ index[NodeAt(i)] <= index[x] =>
              \E j \in DOMAIN workStack : j >= i /\ lowlink[NodeAt(j)] <= index[y]

CycleInv == CycleTypes /\ Visits /\ Emissions /\ Branch /\ Lowlinks

-----------------------------------------------------------------------------
(* Reachability in the graph of the imports. *)

\* What contains a file contains what it imports.
Closed(X) == \A e \in imports : e[1] \in X => e[2] \in X

(* The relations of bounded reachability, one after the other.              *)
LEMMA ReachedInRecurs ==
    ASSUME imports \subseteq Nodes \X Nodes
    PROVE  /\ ReachedIn \in [0..Cardinality(Nodes) -> SUBSET (Nodes \X Nodes)]
           /\ \A n \in 0..Cardinality(Nodes) :
                 ReachedIn[n] = IF n = 0 THEN imports ELSE Further(ReachedIn[n - 1])
<1> DEFINE N == Cardinality(Nodes)
           V == SUBSET (Nodes \X Nodes)
           next == [p \in (0..N) \X V |-> Further(p[2])]
<1>1. N \in Nat
  BY CycleAssumption, FS_CardinalityType
<1>2. \A R \in V : Further(R) \in V
  BY DEF Further
<1> HIDE DEF N
<1>3. \A i \in 0..N, R \in V : next[<<i, R>>] = Further(R)
  OBVIOUS
<1>4. imports \in V
  OBVIOUS
<1> HIDE DEF V, next
<1>5. HasSolution(0, N, V, imports, next)
  BY <1>1, <1>2, <1>3, <1>4, PrimitiveRecursion
<1>6. PICK g \in [0..N -> V] : g = [i \in 0..N |-> IF i = 0 THEN imports ELSE next[<<i, g[i - 1]>>]]
  BY <1>5 DEF HasSolution
<1>7. g = [i \in 0..N |-> IF i = 0 THEN imports ELSE Further(g[i - 1])]
  <2>1. ASSUME NEW i \in 0..N
        PROVE  g[i] = IF i = 0 THEN imports ELSE Further(g[i - 1])
    <3>1. i # 0 => i - 1 \in 0..N /\ g[i - 1] \in V
      BY <1>1
    <3>2. g[i] = IF i = 0 THEN imports ELSE next[<<i, g[i - 1]>>]
      BY <1>6
    <3> QED
      BY <1>3, <3>1, <3>2
  <2> QED
    BY <2>1
<1>8. ReachedIn = [i \in 0..N |-> IF i = 0 THEN imports ELSE Further(ReachedIn[i - 1])]
  <2>1. ReachedIn = CHOOSE f : f = [i \in 0..N |-> IF i = 0 THEN imports ELSE Further(f[i - 1])]
    BY DEF ReachedIn, N
  <2> QED
    BY <1>7, <2>1
<1>9. ASSUME NEW i \in 0..N
      PROVE  ReachedIn[i] \in V
  <2> DEFINE Bad == {k \in 0..N : ReachedIn[k] \notin V}
  <2>1. Bad = {}
    <3> SUFFICES ASSUME Bad # {}
                 PROVE  FALSE
      OBVIOUS
    <3>1. Bad \in SUBSET Nat
      OBVIOUS
    <3>2. PICK k \in Bad : \A m \in Bad : k <= m
      <4> HIDE DEF Bad
      <4> QED
        BY <3>1, LeastNat
    <3>3. k \in 0..N /\ k \in Nat /\ ReachedIn[k] \notin V
      OBVIOUS
    <3>4. k # 0 /\ k - 1 \in 0..N /\ ~(k <= k - 1)
      BY <1>1, <1>4, <1>8, <3>3
    <3>5. ReachedIn[k - 1] \in V
      BY <3>2, <3>4
    <3>6. ReachedIn[k] = Further(ReachedIn[k - 1])
      BY <1>8, <3>3, <3>4
    <3> QED
      BY <1>2, <3>3, <3>5, <3>6
  <2> QED
    BY <2>1
<1> QED
  BY <1>8, <1>9 DEF V, N

\* What Reaches is in a graph with files.
Reachability ==
    /\ imports \subseteq Reaches /\ Reaches \subseteq Nodes \X Nodes
    /\ \A a, b, c \in Nodes : <<a, b>> \in Reaches /\ <<b, c>> \in imports => <<a, c>> \in Reaches
    /\ \A a, c \in Nodes : \A X \in SUBSET Nodes :
          <<a, c>> \in Reaches /\ Adj(a) \subseteq X /\ Closed(X) => c \in X

(* As many steps as there are files, but one, are enough: as long as a step *)
(* reaches more, the files reached are more than the steps.                 *)
LEMMA ReachesIsReachability == imports \subseteq Nodes \X Nodes /\ Nodes # {} => Reachability
<1> SUFFICES ASSUME imports \subseteq Nodes \X Nodes, Nodes # {}
             PROVE  Reachability
  OBVIOUS
<1> DEFINE N == Cardinality(Nodes)
<1>1. N \in Nat /\ N # 0
  BY CycleAssumption, FS_CardinalityType, FS_EmptySet
<1>2. N - 1 \in 0..N /\ N - 1 \in Nat /\ 0 \in 0..N
  BY <1>1
<1>3. /\ \A n \in 0..N : ReachedIn[n] \in SUBSET (Nodes \X Nodes)
      /\ \A n \in 0..N : ReachedIn[n] = IF n = 0 THEN imports ELSE Further(ReachedIn[n - 1])
  BY ReachedInRecurs
<1>4. Reaches = ReachedIn[N - 1]
  BY DEF Reaches
<1> HIDE DEF N
<1>5. ASSUME NEW n \in 0..N PROVE imports \subseteq ReachedIn[n]
  <2> DEFINE Bad == {k \in 0..N : ~(imports \subseteq ReachedIn[k])}
  <2>1. Bad = {}
    <3> SUFFICES ASSUME Bad # {}
                 PROVE  FALSE
      OBVIOUS
    <3>1. Bad \in SUBSET Nat
      OBVIOUS
    <3>2. PICK k \in Bad : \A m \in Bad : k <= m
      <4> HIDE DEF Bad
      <4> QED
        BY <3>1, LeastNat
    <3>3. k \in 0..N /\ k \in Nat /\ ~(imports \subseteq ReachedIn[k])
      OBVIOUS
    <3>4. k # 0 /\ k - 1 \in 0..N /\ ~(k <= k - 1)
      BY <1>1, <1>3, <3>3
    <3>5. imports \subseteq ReachedIn[k - 1]
      BY <3>2, <3>4
    <3>6. ReachedIn[k] = Further(ReachedIn[k - 1])
      BY <1>3, <3>3, <3>4
    <3> QED
      BY <3>3, <3>5, <3>6 DEF Further
  <2> QED
    BY <2>1
<1>6. ASSUME NEW a \in Nodes, NEW X \in SUBSET Nodes, Adj(a) \subseteq X, Closed(X), NEW n \in 0..N
      PROVE  \A c \in Nodes : <<a, c>> \in ReachedIn[n] => c \in X
  <2> DEFINE Bad == {k \in 0..N : \E c \in Nodes : <<a, c>> \in ReachedIn[k] /\ c \notin X}
  <2>1. Bad = {}
    <3> SUFFICES ASSUME Bad # {}
                 PROVE  FALSE
      OBVIOUS
    <3>1. Bad \in SUBSET Nat
      OBVIOUS
    <3>2. PICK k \in Bad : \A m \in Bad : k <= m
      <4> HIDE DEF Bad
      <4> QED
        BY <3>1, LeastNat
    <3>3. k \in 0..N /\ k \in Nat
      OBVIOUS
    <3>4. PICK c \in Nodes : <<a, c>> \in ReachedIn[k] /\ c \notin X
      OBVIOUS
    <3>5. k # 0
      <4> SUFFICES ASSUME k = 0 PROVE FALSE
        OBVIOUS
      <4>1. <<a, c>> \in imports
        BY <1>3, <3>3, <3>4
      <4>2. c \in Adj(a)
        BY <4>1 DEF Adj
      <4> QED
        BY <1>6, <3>4, <4>2
    <3>6. k - 1 \in 0..N /\ ~(k <= k - 1)
      BY <1>1, <3>3, <3>5
    <3>7. ReachedIn[k] = Further(ReachedIn[k - 1])
      BY <1>3, <3>3, <3>5
    <3>8. \A b \in Nodes : <<a, b>> \in ReachedIn[k - 1] => b \in X
      BY <3>2, <3>6
    <3>9. PICK b \in Nodes : <<a, b>> \in ReachedIn[k - 1] /\ <<b, c>> \in imports
      BY <3>4, <3>7, <3>8 DEF Further
    <3> QED
      BY <1>6, <3>4, <3>8, <3>9 DEF Closed
  <2> QED
    BY <2>1
<1>7. ASSUME NEW a \in Nodes, NEW b \in Nodes, NEW c \in Nodes, <<a, b>> \in Reaches, <<b, c>> \in imports
      PROVE  <<a, c>> \in Reaches
  <2> DEFINE From(k) == {d \in Nodes : <<a, d>> \in ReachedIn[k]}
             Stays(k) == \A x, y \in Nodes : x \in From(k) /\ <<x, y>> \in imports => y \in From(k)
             Bad == {k \in 0..N : ~Stays(k) /\ ~(Cardinality(From(k)) > k)}
  <2>1. ASSUME NEW k \in 0..N PROVE IsFiniteSet(From(k)) /\ Cardinality(From(k)) \in Nat
    <3>1. IsFiniteSet(From(k))
      BY CycleAssumption, FS_Subset
    <3> QED
      BY <3>1, FS_CardinalityType
  <2>2. Bad = {}
    <3> SUFFICES ASSUME Bad # {}
                 PROVE  FALSE
      OBVIOUS
    <3>1. Bad \in SUBSET Nat
      OBVIOUS
    <3>2. PICK k \in Bad : \A m \in Bad : k <= m
      <4> HIDE DEF Bad
      <4> QED
        BY <3>1, LeastNat
    <3>3. k \in 0..N /\ k \in Nat /\ ~Stays(k) /\ ~(Cardinality(From(k)) > k)
      OBVIOUS
    <3>4. CASE k = 0
      <4>1. From(k) # {}
        BY <3>3
      <4>2. Cardinality(From(k)) # 0
        <5> HIDE DEF From
        <5> QED
          BY <2>1, <3>3, <4>1, FS_EmptySet
      <4> HIDE DEF From
      <4> QED
        BY <2>1, <3>3, <3>4, <4>2
    <3>5. CASE k # 0
      <4>1. k - 1 \in 0..N /\ ~(k <= k - 1) /\ k - 1 \in Nat
        BY <1>1, <3>3, <3>5
      <4>2. PICK R : R = ReachedIn[k - 1]
        OBVIOUS
      <4>3. ReachedIn[k] = Further(R)
        BY <1>3, <3>3, <3>5, <4>2
      <4>4. From(k - 1) \subseteq From(k)
        BY <4>2, <4>3 DEF Further
      <4>5. \A x, y \in Nodes : x \in From(k - 1) /\ <<x, y>> \in imports => y \in From(k)
        BY <4>2, <4>3 DEF Further
      <4>6. Stays(k - 1) => From(k) = From(k - 1)
        BY <4>2, <4>3 DEF Further
      <4>7. Stays(k - 1) => Stays(k)
        BY <4>2, <4>3, <4>6
      <4>8. ~Stays(k - 1) /\ From(k - 1) # From(k)
        BY <3>3, <4>5, <4>7
      <4>9. Cardinality(From(k - 1)) > k - 1
        BY <3>2, <4>1, <4>8
      <4> HIDE DEF From, Stays
      <4>10. /\ Cardinality(From(k - 1)) <= Cardinality(From(k))
             /\ Cardinality(From(k - 1)) # Cardinality(From(k))
        BY <2>1, <3>3, <4>4, <4>8, FS_Subset
      <4>11. Cardinality(From(k)) \in Nat /\ Cardinality(From(k - 1)) \in Nat
        BY <2>1, <3>3, <4>1
      <4> QED
        BY <3>3, <4>1, <4>9, <4>10, <4>11
    <3> QED
      BY <3>4, <3>5
  <2>3. Stays(N - 1) \/ Cardinality(From(N - 1)) > N - 1
    BY <1>2, <2>2
  <2>4. Stays(N - 1)
    <3>1. CASE Cardinality(From(N - 1)) > N - 1
      <4>1. From(N - 1) \subseteq Nodes
        OBVIOUS
      <4>2. Cardinality(From(N - 1)) \in Nat
        BY <1>2, <2>1
      <4>3. Cardinality(From(N - 1)) <= N
        <5> HIDE DEF From
        <5> QED
          BY <4>1, CycleAssumption, FS_Subset DEF N
      <4>4. Cardinality(From(N - 1)) = N
        <5> HIDE DEF From
        <5> QED
          BY <1>1, <3>1, <4>2, <4>3
      <4>5. From(N - 1) = Nodes
        <5> HIDE DEF From
        <5> QED
          BY <4>1, <4>4, CycleAssumption, FS_Subset DEF N
      <4> QED
        BY <4>5
    <3> QED
      BY <2>3, <3>1
  <2> QED
    BY <1>4, <1>7, <2>4
<1> QED
  BY <1>2, <1>3, <1>4, <1>5, <1>6, <1>7 DEF Reachability

(* Reaching is transitive, and begins with an import.                       *)
LEMMA LeadsOn ==
    ASSUME imports \subseteq Nodes \X Nodes
    PROVE  /\ \A e \in imports : Leads(e[1], e[2])
           /\ \A a, b, c \in Nodes : Leads(a, b) /\ Leads(b, c) => Leads(a, c)
           /\ \A a, b, c \in Nodes : <<a, b>> \in Reaches /\ Leads(b, c) => <<a, c>> \in Reaches
           /\ \A a, b \in Nodes, X \in SUBSET Nodes : Leads(a, b) /\ a \in X /\ Closed(X) => b \in X
           /\ \A a, c \in Nodes : <<a, c>> \in Reaches =>
                 \E b \in Nodes : <<a, b>> \in imports /\ Leads(b, c)
<1>1. CASE Nodes = {}
  BY <1>1
<1>2. CASE Nodes # {}
  <2>1. /\ imports \subseteq Reaches /\ Reaches \subseteq Nodes \X Nodes
        /\ \A a, b, c \in Nodes : <<a, b>> \in Reaches /\ <<b, c>> \in imports => <<a, c>> \in Reaches
        /\ \A a, c \in Nodes : \A X \in SUBSET Nodes :
              <<a, c>> \in Reaches /\ Adj(a) \subseteq X /\ Closed(X) => c \in X
    BY <1>2, ReachesIsReachability DEF Reachability
  <2>2. \A e \in imports : Leads(e[1], e[2])
    BY <2>1 DEF Leads
  <2>3. ASSUME NEW a \in Nodes, NEW b \in Nodes, NEW c \in Nodes, <<a, b>> \in Reaches, Leads(b, c)
        PROVE  <<a, c>> \in Reaches
    <3> DEFINE X == {d \in Nodes : <<a, d>> \in Reaches}
    <3>1. Closed(X)
      BY <2>1, <2>3 DEF Closed
    <3>2. Adj(b) \subseteq X
      BY <2>1, <2>3 DEF Adj
    <3> QED
      BY <2>1, <2>3, <3>1, <3>2 DEF Leads
  <2>4. \A a, b, c \in Nodes : Leads(a, b) /\ Leads(b, c) => Leads(a, c)
    BY <2>3 DEF Leads
  <2>5. ASSUME NEW a \in Nodes, NEW b \in Nodes, NEW X \in SUBSET Nodes, Leads(a, b), a \in X, Closed(X)
        PROVE  b \in X
    <3>1. Adj(a) \subseteq X
      BY <2>5 DEF Adj, Closed
    <3> QED
      BY <2>1, <2>5, <3>1 DEF Leads
  <2>6. ASSUME NEW a \in Nodes, NEW c \in Nodes, <<a, c>> \in Reaches
        PROVE  \E b \in Nodes : <<a, b>> \in imports /\ Leads(b, c)
    <3> DEFINE X == {d \in Nodes : \E b \in Nodes : <<a, b>> \in imports /\ Leads(b, d)}
    <3>1. Adj(a) \subseteq X
      BY DEF Adj, Leads
    <3>2. Closed(X)
      <4> SUFFICES ASSUME NEW e \in imports, e[1] \in X
                   PROVE  e[2] \in X
        BY DEF Closed
      <4>1. PICK b \in Nodes : <<a, b>> \in imports /\ Leads(b, e[1])
        OBVIOUS
      <4>2. Leads(b, e[2]) /\ e[2] \in Nodes
        BY <2>2, <2>4, <4>1
      <4> QED
        BY <4>1, <4>2
    <3> HIDE DEF X
    <3>3. X \in SUBSET Nodes
      BY DEF X
    <3>4. c \in X
      BY <2>1, <2>6, <3>1, <3>2, <3>3
    <3> QED
      BY <3>4 DEF X
  <2> QED
    BY <2>2, <2>3, <2>4, <2>5, <2>6
<1> QED
  BY <1>1, <1>2

(* The imports stay, and with them what reaches what.                       *)
LEMMA SameReach == imports' = imports => Reaches' = Reaches
BY DEF Reaches, ReachedIn, Further

-----------------------------------------------------------------------------
(* The first visit of a file. *)

Frame == [node : Nodes, todo : SUBSET Nodes]

\* The work stack without the import that leads to n.
Taken(ws, n) ==
    /\ ws \in Seq(Frame) /\ Len(ws) = Len(workStack)
    /\ \A i \in DOMAIN workStack :
          /\ ws[i].node = NodeAt(i)
          /\ ws[i].todo = IF i = Len(workStack) THEN TodoAt(i) \ {n} ELSE TodoAt(i)

\* What a first visit does to the two stacks and the numbers.
Entered(n, top, k) ==
    /\ Numbered' = Numbered \cup {n} /\ index'[n] = k
    /\ index' \in [Numbered' -> Nat] /\ \A m \in Numbered : index'[m] = index[m]
    /\ lowlink' \in [Numbered' -> Nat] /\ \A m \in Numbered : lowlink'[m] = lowlink[m]
    /\ lowlink'[n] = k /\ k \in Nat /\ Cardinality(Numbered') = k + 1
    /\ stack' \in Seq(Nodes) /\ Len(stack') = Len(stack) + 1 /\ OnStack' = OnStack \cup {n}
    /\ \A i \in DOMAIN stack : stack'[i] = stack[i]
    /\ stack'[Len(stack) + 1] = n
    /\ workStack' \in Seq(Frame) /\ Len(workStack') = top + 1 /\ top \in Nat
    /\ \A i \in DOMAIN workStack :
          /\ NodeAt(i)' = NodeAt(i)
          /\ TodoAt(i)' = IF i = top THEN TodoAt(i) \ {n} ELSE TodoAt(i)
    /\ NodeAt(top + 1)' = n /\ TodoAt(top + 1)' = Adj(n)
    /\ imports' = imports /\ sccs' = sccs /\ Reaches' = Reaches

LEMMA EnterEffect ==
    ASSUME CycleInv, NEW n \in Nodes, n \notin Numbered, NEW ws, Taken(ws, n), Enter(n, ws),
           NEW top, top = Len(workStack), NEW k, k = Cardinality(Numbered)
    PROVE  Entered(n, top, k)
<1>1. /\ index' = With(index, n, Cardinality(Numbered)) /\ lowlink' = With(lowlink, n, Cardinality(Numbered))
      /\ stack' = Append(stack, n) /\ workStack' = Append(ws, [node |-> n, todo |-> Adj(n)])
      /\ UNCHANGED <<imports, sccs>>
  BY DEF Enter
<1>2. /\ index \in [Numbered -> Nat] /\ lowlink \in [Numbered -> Nat] /\ stack \in Seq(Nodes)
      /\ Numbered \subseteq Nodes /\ workStack \in Seq(Frame) /\ imports \subseteq Nodes \X Nodes
  BY DEF CycleInv, CycleTypes, AdjKeys, Frame
<1>3. IsFiniteSet(Numbered) /\ Cardinality(Numbered) \in Nat
  BY <1>2, CycleAssumption, FS_Subset, FS_CardinalityType
<1>4. Numbered' = Numbered \cup {n}
  BY <1>1 DEF Numbered, With
<1>5. Cardinality(Numbered') = Cardinality(Numbered) + 1
  BY <1>3, <1>4, FS_AddElement
<1>6. /\ index' \in [Numbered' -> Nat] /\ index'[n] = Cardinality(Numbered)
      /\ \A m \in Numbered : index'[m] = index[m]
  BY <1>1, <1>2, <1>3, <1>4 DEF With, Numbered
<1>7. DOMAIN lowlink = Numbered
  BY <1>2
<1>8. /\ lowlink' \in [Numbered' -> Nat] /\ lowlink'[n] = Cardinality(Numbered)
      /\ \A m \in Numbered : lowlink'[m] = lowlink[m]
  BY <1>1, <1>2, <1>3, <1>4, <1>7 DEF With
<1>9. /\ stack' \in Seq(Nodes) /\ Len(stack') = Len(stack) + 1
      /\ \A i \in DOMAIN stack : stack'[i] = stack[i]
      /\ stack'[Len(stack) + 1] = n
  BY <1>1, <1>2
<1>10. OnStack' = OnStack \cup {n}
  <2>1. DOMAIN stack = 1..Len(stack) /\ DOMAIN stack' = 1..(Len(stack) + 1) /\ Len(stack) \in Nat
    BY <1>2, <1>9
  <2>2. ToSet(stack') = ToSet(stack) \cup {n}
    BY <1>9, <2>1 DEF ToSet
  <2> QED
    BY <2>2 DEF OnStack
<1>11. Adj(n) \in SUBSET Nodes
  BY <1>2 DEF Adj
<1>12. /\ workStack' \in Seq(Frame) /\ Len(workStack') = top + 1 /\ top \in Nat
       /\ \A i \in DOMAIN ws : workStack'[i] = ws[i]
       /\ workStack'[top + 1] = [node |-> n, todo |-> Adj(n)]
  BY <1>1, <1>11 DEF Taken, Frame
<1>13. DOMAIN ws = DOMAIN workStack
  BY <1>2 DEF Taken
<1>14. /\ \A i \in DOMAIN workStack :
              /\ NodeAt(i)' = NodeAt(i)
              /\ TodoAt(i)' = IF i = top THEN TodoAt(i) \ {n} ELSE TodoAt(i)
       /\ NodeAt(top + 1)' = n /\ TodoAt(top + 1)' = Adj(n)
  <2>1. ASSUME NEW i \in DOMAIN workStack
        PROVE  workStack'[i].node = NodeAt(i)
               /\ workStack'[i].todo = IF i = top THEN TodoAt(i) \ {n} ELSE TodoAt(i)
    BY <1>12, <1>13 DEF Taken
  <2>2. workStack'[top + 1].node = n /\ workStack'[top + 1].todo = Adj(n)
    BY <1>12
  <2> QED
    BY <2>1, <2>2 DEF NodeAt, TodoAt
<1> QED
  BY <1>1, <1>3, <1>4, <1>5, <1>6, <1>8, <1>9, <1>10, <1>12, <1>14, SameReach DEF Entered

LEMMA EnterKeeps ==
    ASSUME CycleInv, NEW n \in AdjKeys, n \notin Numbered, NEW ws, Taken(ws, n), Enter(n, ws),
           workStack # << >> => <<Top.node, n>> \in imports
    PROVE  CycleInv'
<1>1. PICK top : top = Len(workStack)
  OBVIOUS
<1>2. PICK k : k = Cardinality(Numbered)
  OBVIOUS
<1>3. /\ imports \subseteq Nodes \X Nodes /\ n \in Nodes /\ Numbered \subseteq Nodes
      /\ index \in [Numbered -> Nat] /\ lowlink \in [Numbered -> Nat] /\ Numbered \subseteq AdjKeys
      /\ stack \in Seq(Nodes) /\ workStack \in Seq(Frame) /\ sccs \subseteq SUBSET Nodes
  <2>1. CycleTypes
    BY DEF CycleInv
  <2>2. AdjKeys \subseteq Nodes
    BY <2>1 DEF CycleTypes, AdjKeys
  <2> QED
    BY <2>1, <2>2 DEF CycleTypes, Frame
<1>4. /\ Numbered' = Numbered \cup {n} /\ index'[n] = k
      /\ index' \in [Numbered' -> Nat] /\ \A m \in Numbered : index'[m] = index[m]
      /\ lowlink' \in [Numbered' -> Nat] /\ \A m \in Numbered : lowlink'[m] = lowlink[m]
      /\ lowlink'[n] = k /\ k \in Nat /\ Cardinality(Numbered') = k + 1
      /\ stack' \in Seq(Nodes) /\ Len(stack') = Len(stack) + 1 /\ OnStack' = OnStack \cup {n}
      /\ \A i \in DOMAIN stack : stack'[i] = stack[i]
      /\ stack'[Len(stack) + 1] = n
      /\ workStack' \in Seq(Frame) /\ Len(workStack') = top + 1 /\ top \in Nat
      /\ \A i \in DOMAIN workStack :
            /\ NodeAt(i)' = NodeAt(i)
            /\ TodoAt(i)' = IF i = top THEN TodoAt(i) \ {n} ELSE TodoAt(i)
      /\ NodeAt(top + 1)' = n /\ TodoAt(top + 1)' = Adj(n)
      /\ imports' = imports /\ sccs' = sccs /\ Reaches' = Reaches
  <2>1. Entered(n, top, k)
    BY <1>1, <1>2, <1>3, EnterEffect
  <2> QED
    BY <2>1 DEF Entered
<1>5. /\ \A m \in Numbered : index[m] < k
      /\ \A i, j \in DOMAIN stack : i < j => index[stack[i]] < index[stack[j]]
      /\ \A i, j \in DOMAIN workStack : i < j => index[NodeAt(i)] < index[NodeAt(j)]
      /\ \A i \in DOMAIN workStack : NodeAt(i) \in OnStack /\ TodoAt(i) \subseteq Adj(NodeAt(i))
      /\ \A i \in DOMAIN workStack : i > 1 => <<NodeAt(i - 1), NodeAt(i)>> \in imports
      /\ OnStack \subseteq Numbered
      /\ \A x \in Numbered, y \in Nodes : Looked(x, y) => y \in Numbered
  BY <1>2 DEF CycleInv, Visits
<1>6. /\ DOMAIN workStack = 1..top /\ DOMAIN workStack' = 1..(top + 1)
      /\ DOMAIN stack = 1..Len(stack) /\ DOMAIN stack' = 1..(Len(stack) + 1) /\ Len(stack) \in Nat
      /\ \A i \in DOMAIN stack : stack[i] \in OnStack
      /\ top > 0 => <<NodeAt(top), n>> \in imports
  <2>1. DOMAIN workStack = 1..top /\ DOMAIN workStack' = 1..(top + 1)
    BY <1>1, <1>3, <1>4
  <2>2. DOMAIN stack = 1..Len(stack) /\ DOMAIN stack' = 1..(Len(stack) + 1) /\ Len(stack) \in Nat
    BY <1>3, <1>4
  <2>3. \A i \in DOMAIN stack : stack[i] \in OnStack
    BY DEF OnStack, ToSet
  <2>4. top > 0 => workStack # << >>
    BY <1>1
  <2> QED
    BY <1>1, <2>1, <2>2, <2>3, <2>4 DEF Top, NodeAt
<1>7. \A i \in DOMAIN workStack' :
        \/ /\ i \in DOMAIN workStack /\ NodeAt(i)' = NodeAt(i) /\ NodeAt(i) \in OnStack
           /\ NodeAt(i) \in Numbered /\ index'[NodeAt(i)] = index[NodeAt(i)]
           /\ lowlink'[NodeAt(i)] = lowlink[NodeAt(i)]
           /\ i <= top
        \/ i = top + 1 /\ NodeAt(i)' = n /\ TodoAt(i)' = Adj(n)
  BY <1>4, <1>5, <1>6
<1>8. CycleTypes'
  <2>1. AdjKeys' = AdjKeys
    BY <1>4 DEF AdjKeys
  <2> QED
    BY <1>3, <1>4, <2>1 DEF CycleTypes, Frame
<1>9. \A x \in Numbered', y \in Nodes : Looked(x, y)' =>
        x \in Numbered /\ x # n /\ (Looked(x, y) \/ y = n)
  <2> SUFFICES ASSUME NEW x \in Numbered', NEW y \in Nodes, Looked(x, y)'
               PROVE  x \in Numbered /\ x # n /\ (Looked(x, y) \/ y = n)
    OBVIOUS
  <2>1. <<x, y>> \in imports /\ \A i \in DOMAIN workStack' : NodeAt(i)' = x => y \notin TodoAt(i)'
    BY <1>4 DEF Looked
  <2>2. x # n
    <3>1. top + 1 \in DOMAIN workStack'
      BY <1>4, <1>6
    <3> QED
      BY <1>4, <2>1, <3>1 DEF Adj
  <2>3. y = n \/ \A i \in DOMAIN workStack : NodeAt(i) = x => y \notin TodoAt(i)
    <3>1. \A i \in DOMAIN workStack : i \in DOMAIN workStack'
      BY <1>4, <1>6
    <3> QED
      BY <1>4, <2>1, <3>1
  <2> QED
    BY <1>4, <2>1, <2>2, <2>3 DEF Looked
<1>10. Visits'
  <2>1. \A m \in Numbered' : index'[m] < Cardinality(Numbered')
    BY <1>3, <1>4, <1>5
  <2>2. \A i, j \in DOMAIN stack' : i < j => index'[stack'[i]] < index'[stack'[j]]
    <3> SUFFICES ASSUME NEW i \in DOMAIN stack', NEW j \in DOMAIN stack', i < j
                 PROVE  index'[stack'[i]] < index'[stack'[j]]
      OBVIOUS
    <3>1. i \in DOMAIN stack /\ (j \in DOMAIN stack \/ j = Len(stack) + 1)
      BY <1>6
    <3>2. stack'[i] = stack[i] /\ stack[i] \in Numbered
      BY <1>4, <1>5, <1>6, <3>1
    <3>3. CASE j \in DOMAIN stack
      BY <1>4, <1>5, <1>6, <3>1, <3>2, <3>3
    <3>4. CASE j = Len(stack) + 1
      BY <1>4, <1>5, <3>2, <3>4
    <3> QED
      BY <3>1, <3>3, <3>4
  <2>3. \A i, j \in DOMAIN workStack' : i < j => index'[NodeAt(i)'] < index'[NodeAt(j)']
    <3> SUFFICES ASSUME NEW i \in DOMAIN workStack', NEW j \in DOMAIN workStack', i < j
                 PROVE  index'[NodeAt(i)'] < index'[NodeAt(j)']
      OBVIOUS
    <3>1. i \in DOMAIN workStack /\ (j \in DOMAIN workStack \/ j = top + 1)
      BY <1>4, <1>6
    <3>2. NodeAt(i)' = NodeAt(i) /\ NodeAt(i) \in Numbered
      BY <1>4, <1>5, <3>1
    <3>3. CASE j \in DOMAIN workStack
      BY <1>4, <1>5, <3>1, <3>2, <3>3
    <3>4. CASE j = top + 1
      BY <1>4, <1>5, <3>2, <3>4
    <3> QED
      BY <3>1, <3>3, <3>4
  <2>4. \A i \in DOMAIN workStack' : NodeAt(i)' \in OnStack' /\ TodoAt(i)' \subseteq Adj(NodeAt(i)')
    BY <1>4, <1>5, <1>7
  <2>5. ASSUME NEW i \in DOMAIN workStack', i > 1
        PROVE  <<NodeAt(i - 1)', NodeAt(i)'>> \in imports
    <3>1. i - 1 \in DOMAIN workStack /\ NodeAt(i - 1)' = NodeAt(i - 1)
      BY <1>4, <1>6, <2>5
    <3>2. CASE i \in DOMAIN workStack
      BY <1>4, <1>5, <2>5, <3>1, <3>2
    <3>3. CASE i = top + 1
      <4>1. i - 1 = top /\ top > 0
        BY <1>4, <2>5, <3>3
      <4> QED
        BY <1>4, <1>6, <3>1, <3>3, <4>1
    <3> QED
      BY <1>4, <1>6, <3>2, <3>3
  <2>6. \A x \in Numbered', y \in Nodes : Looked(x, y)' => y \in Numbered'
    BY <1>4, <1>5, <1>9
  <2>7. \A x \in Nodes : Adj(x)' = Adj(x)
    BY <1>4 DEF Adj
  <2>8. OnStack' \subseteq Numbered'
    BY <1>4, <1>5
  <2> QED
    BY <1>4, <2>1, <2>2, <2>3, <2>4, <2>5, <2>6, <2>7, <2>8 DEF Visits, Adj
<1>11. Emissions'
  <2>1. /\ Numbered = OnStack \cup Emitted
        /\ \A c \in sccs : c # {} /\ c \cap OnStack = {}
        /\ \A e \in imports : e[1] \in Emitted => e[2] \in Emitted
        /\ \A c \in sccs : \A m \in c : c = GroupOf(m, Reaches)
    BY DEF CycleInv, Emissions
  <2>2. Emitted' = Emitted
    BY <1>4 DEF Emitted
  <2>3. \A c \in sccs : c \cap OnStack' = {}
    BY <1>4, <2>1 DEF Emitted
  <2> QED
    BY <1>4, <2>1, <2>2, <2>3 DEF Emissions, GroupOf
<1>12. Branch'
  <2>1. /\ \A i \in DOMAIN workStack, y \in OnStack : index[NodeAt(i)] <= index[y] => Leads(NodeAt(i), y)
        /\ \A y \in OnStack : \E i \in DOMAIN workStack : index[NodeAt(i)] <= index[y] /\ Leads(y, NodeAt(i))
    BY DEF CycleInv, Branch
  <2>2. ASSUME NEW i \in DOMAIN workStack', NEW y \in OnStack', index'[NodeAt(i)'] <= index'[y]
        PROVE  Leads(NodeAt(i)', y)
    <3>1. CASE i \in DOMAIN workStack /\ y \in OnStack
      <4>1. NodeAt(i)' = NodeAt(i) /\ NodeAt(i) \in Numbered
        BY <1>4, <1>5, <3>1
      <4>2. index[NodeAt(i)] <= index[y]
        BY <1>4, <1>5, <2>2, <3>1, <4>1
      <4> QED
        BY <2>1, <3>1, <4>1, <4>2
    <3>2. CASE i \in DOMAIN workStack /\ y = n
      <4>1. i <= top /\ top \in DOMAIN workStack
        BY <1>4, <1>6, <3>2
      <4>2. NodeAt(i) \in Numbered /\ NodeAt(top) \in OnStack /\ NodeAt(top) \in Numbered
        BY <1>5, <3>2, <4>1
      <4>3. index[NodeAt(i)] <= index[NodeAt(top)]
        <5>1. index[NodeAt(i)] \in Nat /\ index[NodeAt(top)] \in Nat
          BY <1>3, <4>2
        <5>2. CASE i = top
          BY <5>1, <5>2
        <5>3. CASE i < top
          <6>1. index[NodeAt(i)] < index[NodeAt(top)]
            BY <1>5, <3>2, <4>1, <5>3
          <6> QED
            BY <5>1, <6>1
        <5>4. i \in Nat /\ top \in Nat
          BY <1>4, <1>6, <3>2
        <5> QED
          BY <4>1, <5>2, <5>3, <5>4
      <4>4. Leads(NodeAt(i), NodeAt(top))
        BY <2>1, <3>2, <4>1, <4>2, <4>3
      <4>5. <<NodeAt(top), n>> \in imports
        BY <1>4, <1>6, <4>1
      <4>6. Leads(NodeAt(top), n)
        BY <1>3, <4>5, LeadsOn
      <4> QED
        BY <1>3, <1>4, <3>2, <4>2, <4>4, <4>6, LeadsOn
    <3>3. CASE i = top + 1
      <4>1. y = n
        <5>1. k <= index'[y]
          BY <1>4, <2>2, <3>3
        <5>2. y \in OnStack => y \in Numbered /\ index'[y] = index[y] /\ index[y] < k /\ index[y] \in Nat
          BY <1>3, <1>4, <1>5
        <5> QED
          BY <1>4, <5>1, <5>2
      <4> QED
        BY <1>4, <3>3, <4>1 DEF Leads
    <3> QED
      BY <1>4, <1>6, <2>2, <3>1, <3>2, <3>3
  <2>3. ASSUME NEW y \in OnStack'
        PROVE  \E i \in DOMAIN workStack' : index'[NodeAt(i)'] <= index'[y] /\ Leads(y, NodeAt(i)')
    <3>1. CASE y \in OnStack
      <4>1. PICK i \in DOMAIN workStack : index[NodeAt(i)] <= index[y] /\ Leads(y, NodeAt(i))
        BY <2>1, <3>1
      <4>2. i \in DOMAIN workStack'
        BY <1>4, <1>6
      <4> QED
        BY <1>4, <1>5, <3>1, <4>1, <4>2
    <3>2. CASE y = n
      <4>1. top + 1 \in DOMAIN workStack'
        BY <1>4, <1>6
      <4> QED
        BY <1>4, <3>2, <4>1 DEF Leads
    <3> QED
      BY <1>4, <3>1, <3>2
  <2> QED
    BY <1>4, <2>2, <2>3 DEF Branch, Leads
<1>13. Lowlinks'
  <2>1. /\ \A i \in DOMAIN workStack :
              /\ lowlink[NodeAt(i)] <= index[NodeAt(i)]
              /\ \E w \in OnStack : index[w] = lowlink[NodeAt(i)] /\ Leads(NodeAt(i), w)
        /\ \A i \in DOMAIN workStack : \A x, y \in OnStack :
              Looked(x, y) /\ index[NodeAt(i)] <= index[x] =>
                  \E j \in DOMAIN workStack : j >= i /\ lowlink[NodeAt(j)] <= index[y]
    BY DEF CycleInv, Lowlinks
  <2>2. ASSUME NEW i \in DOMAIN workStack'
        PROVE  /\ lowlink'[NodeAt(i)'] <= index'[NodeAt(i)']
               /\ \E w \in OnStack' : index'[w] = lowlink'[NodeAt(i)'] /\ Leads(NodeAt(i)', w)
    <3>1. CASE i \in DOMAIN workStack
      <4>1. NodeAt(i)' = NodeAt(i) /\ NodeAt(i) \in Numbered
        BY <1>4, <1>5, <3>1
      <4>2. PICK w \in OnStack : index[w] = lowlink[NodeAt(i)] /\ Leads(NodeAt(i), w)
        BY <2>1, <3>1
      <4>3. w \in OnStack' /\ index'[w] = index[w]
        BY <1>4, <1>5
      <4> QED
        BY <1>4, <2>1, <3>1, <4>1, <4>2, <4>3
    <3>2. CASE i = top + 1
      BY <1>4, <3>2 DEF Leads
    <3> QED
      BY <1>7, <3>1, <3>2
  <2>3. ASSUME NEW i \in DOMAIN workStack', NEW x \in OnStack', NEW y \in OnStack', Looked(x, y)',
               index'[NodeAt(i)'] <= index'[x]
        PROVE  \E j \in DOMAIN workStack' : j >= i /\ lowlink'[NodeAt(j)'] <= index'[y]
    <3>1. x \in Numbered /\ x \in OnStack /\ (Looked(x, y) \/ y = n)
      <4>1. x \in Numbered' /\ y \in Nodes
        BY <1>3, <1>4, <1>5
      <4>2. x \in Numbered /\ x # n /\ (Looked(x, y) \/ y = n)
        BY <1>9, <2>3, <4>1
      <4> QED
        BY <1>4, <4>2
    <3>2. i \in DOMAIN workStack /\ i <= top
      <4> SUFFICES ASSUME i = top + 1 PROVE FALSE
        BY <1>7
      <4>1. k <= index[x]
        BY <1>4, <2>3, <3>1
      <4> QED
        BY <1>3, <1>4, <1>5, <3>1, <4>1
    <3>3. NodeAt(i)' = NodeAt(i) /\ NodeAt(i) \in Numbered
      BY <1>4, <1>5, <3>2
    <3>4. CASE y = n
      <4>1. top \in DOMAIN workStack /\ top \in DOMAIN workStack'
        BY <1>4, <1>6, <3>2
      <4>2. NodeAt(top)' = NodeAt(top) /\ NodeAt(top) \in Numbered
        BY <1>4, <1>5, <4>1
      <4>3. lowlink[NodeAt(top)] <= index[NodeAt(top)] /\ index[NodeAt(top)] < k
        BY <1>5, <2>1, <4>1, <4>2
      <4>4. lowlink'[NodeAt(top)'] <= index'[y]
        BY <1>3, <1>4, <3>4, <4>2, <4>3
      <4> QED
        BY <1>4, <1>6, <3>2, <4>1, <4>4
    <3>5. CASE y # n
      <4>1. y \in OnStack /\ Looked(x, y) /\ index[NodeAt(i)] <= index[x]
        BY <1>4, <2>3, <3>1, <3>3, <3>5
      <4>2. PICK j \in DOMAIN workStack : j >= i /\ lowlink[NodeAt(j)] <= index[y]
        BY <2>1, <3>1, <3>2, <4>1
      <4>3. j \in DOMAIN workStack' /\ NodeAt(j)' = NodeAt(j) /\ NodeAt(j) \in Numbered
        BY <1>4, <1>5, <1>6
      <4> QED
        BY <1>4, <1>5, <4>1, <4>2, <4>3
    <3> QED
      BY <3>4, <3>5
  <2> QED
    BY <1>4, <2>2, <2>3 DEF Lowlinks, Leads
<1> QED
  BY <1>8, <1>10, <1>11, <1>12, <1>13 DEF CycleInv

-----------------------------------------------------------------------------
(* A look at the next import. *)

LEMMA LowerLess ==
    ASSUME NEW a \in Nat, NEW b \in Nat
    PROVE  Lower(a, b) \in Nat /\ Lower(a, b) \in {a, b} /\ Lower(a, b) <= a /\ Lower(a, b) <= b
BY DEF Lower

(* The types, for the steps that follow.                                    *)
LEMMA CycleData ==
    ASSUME CycleInv
    PROVE  /\ imports \subseteq Nodes \X Nodes /\ Numbered \subseteq Nodes /\ AdjKeys \subseteq Nodes
           /\ index \in [Numbered -> Nat] /\ lowlink \in [Numbered -> Nat]
           /\ stack \in Seq(Nodes) /\ workStack \in Seq(Frame)
           /\ OnStack \subseteq Numbered /\ OnStack \subseteq Nodes
           /\ \A i \in DOMAIN workStack : NodeAt(i) \in OnStack /\ NodeAt(i) \in Numbered
                                          /\ NodeAt(i) \in Nodes
           /\ \A i, j \in DOMAIN workStack : NodeAt(i) = NodeAt(j) => i = j
           /\ DOMAIN workStack = 1..Len(workStack) /\ Len(workStack) \in Nat
<1>1. CycleTypes
  BY DEF CycleInv
<1>2. /\ imports \subseteq Nodes \X Nodes /\ AdjKeys \subseteq Nodes /\ Numbered \subseteq Nodes
      /\ index \in [Numbered -> Nat] /\ lowlink \in [Numbered -> Nat]
      /\ stack \in Seq(Nodes) /\ workStack \in Seq(Frame)
  <2>1. AdjKeys \subseteq Nodes
    BY <1>1 DEF CycleTypes, AdjKeys
  <2> QED
    BY <1>1, <2>1 DEF CycleTypes, Frame
<1>3. DOMAIN workStack = 1..Len(workStack) /\ Len(workStack) \in Nat
  BY <1>2
<1>4. /\ OnStack \subseteq Numbered
      /\ \A i \in DOMAIN workStack : NodeAt(i) \in OnStack
      /\ \A i, j \in DOMAIN workStack : i < j => index[NodeAt(i)] < index[NodeAt(j)]
  BY DEF CycleInv, Visits
<1>5. ASSUME NEW i \in DOMAIN workStack, NEW j \in DOMAIN workStack, NodeAt(i) = NodeAt(j)
      PROVE  i = j
  <2>1. index[NodeAt(i)] \in Nat
    BY <1>2, <1>4
  <2>2. ~(index[NodeAt(i)] < index[NodeAt(j)]) /\ ~(index[NodeAt(j)] < index[NodeAt(i)])
    BY <1>5, <2>1
  <2>3. ~(i < j) /\ ~(j < i)
    BY <1>4, <2>2
  <2>4. i \in Nat /\ j \in Nat
    BY <1>3
  <2> QED
    BY <2>3, <2>4
<1> QED
  BY <1>2, <1>3, <1>4, <1>5

(* The work stack with an import of its top taken.                          *)
LEMMA TakesOne ==
    ASSUME CycleInv, workStack # << >>, NEW n
    PROVE  Taken([workStack EXCEPT ![Len(workStack)].todo = @ \ {n}], n)
<1>1. workStack \in Seq(Frame) /\ DOMAIN workStack = 1..Len(workStack) /\ Len(workStack) \in Nat
  BY CycleData
<1>2. Len(workStack) \in DOMAIN workStack
  BY <1>1
<1>3. \A i \in DOMAIN workStack :
        workStack[i] \in Frame /\ NodeAt(i) \in Nodes /\ TodoAt(i) \in SUBSET Nodes
  <2>1. \A i \in DOMAIN workStack : workStack[i] \in Frame
    BY <1>1, ElementOfSeq
  <2> QED
    BY <2>1 DEF Frame, NodeAt, TodoAt
<1> DEFINE ws == [workStack EXCEPT ![Len(workStack)].todo = @ \ {n}]
<1>4. /\ DOMAIN ws = DOMAIN workStack
      /\ \A i \in DOMAIN workStack :
            ws[i] = IF i = Len(workStack) THEN [workStack[i] EXCEPT !.todo = @ \ {n}] ELSE workStack[i]
  BY <1>1
<1>5. \A i \in DOMAIN workStack :
        /\ ws[i] \in Frame
        /\ ws[i].node = NodeAt(i)
        /\ ws[i].todo = IF i = Len(workStack) THEN TodoAt(i) \ {n} ELSE TodoAt(i)
  BY <1>3, <1>4 DEF Frame, NodeAt, TodoAt
<1> HIDE DEF ws
<1>6. ws \in [1..Len(workStack) -> Frame]
  <2>1. ws = [i \in DOMAIN workStack |-> ws[i]]
    BY <1>4 DEF ws
  <2> QED
    BY <1>1, <1>4, <1>5, <2>1
<1>7. ws \in Seq(Frame) /\ Len(ws) = Len(workStack)
  BY <1>1, <1>6
<1> QED
  BY <1>5, <1>7 DEF Taken, ws

LEMMA LookKeeps ==
    ASSUME CycleInv, workStack # << >>, NEW n \in Top.todo, n \in Numbered, lowlink' = Lowered(n),
           workStack' = [workStack EXCEPT ![Len(workStack)].todo = @ \ {n}],
           UNCHANGED <<imports, index, stack, sccs>>
    PROVE  CycleInv'
<1>1. PICK top : top = Len(workStack)
  OBVIOUS
<1>2. PICK t : t = Top.node
  OBVIOUS
<1>3. /\ imports \subseteq Nodes \X Nodes /\ Numbered \subseteq Nodes /\ AdjKeys \subseteq Nodes
      /\ index \in [Numbered -> Nat] /\ lowlink \in [Numbered -> Nat]
      /\ stack \in Seq(Nodes) /\ workStack \in Seq(Frame)
      /\ OnStack \subseteq Numbered /\ OnStack \subseteq Nodes
      /\ \A i \in DOMAIN workStack : NodeAt(i) \in OnStack /\ NodeAt(i) \in Numbered
                                     /\ NodeAt(i) \in Nodes
      /\ \A i, j \in DOMAIN workStack : NodeAt(i) = NodeAt(j) => i = j
      /\ DOMAIN workStack = 1..top /\ top \in Nat
  BY <1>1, CycleData
<1>4. top \in DOMAIN workStack /\ t = NodeAt(top) /\ n \in TodoAt(top) /\ t \in Numbered
  <2>1. top # 0
    BY <1>1, <1>3
  <2>2. top \in DOMAIN workStack
    BY <1>3, <2>1
  <2> QED
    BY <1>1, <1>2, <1>3, <2>2 DEF Top, NodeAt, TodoAt
<1>5. /\ workStack' \in Seq(Frame) /\ DOMAIN workStack' = DOMAIN workStack
      /\ \A i \in DOMAIN workStack :
            /\ NodeAt(i)' = NodeAt(i)
            /\ TodoAt(i)' = IF i = top THEN TodoAt(i) \ {n} ELSE TodoAt(i)
  <2>1. PICK ws : ws = workStack'
    OBVIOUS
  <2>2. Taken(ws, n)
    BY <2>1, TakesOne
  <2>3. ws \in Seq(Frame) /\ DOMAIN ws = DOMAIN workStack
    BY <1>1, <1>3, <2>2 DEF Taken
  <2>4. \A i \in DOMAIN workStack :
            /\ ws[i].node = NodeAt(i)
            /\ ws[i].todo = IF i = top THEN TodoAt(i) \ {n} ELSE TodoAt(i)
    BY <1>1, <2>2 DEF Taken
  <2> QED
    BY <2>1, <2>3, <2>4 DEF NodeAt, TodoAt
<1>6. /\ Numbered' = Numbered /\ index' = index /\ stack' = stack /\ OnStack' = OnStack
      /\ imports' = imports /\ sccs' = sccs /\ Emitted' = Emitted /\ AdjKeys' = AdjKeys
      /\ Reaches' = Reaches /\ \A x \in Nodes : Adj(x)' = Adj(x)
  BY SameReach DEF Numbered, OnStack, Emitted, AdjKeys, Adj
<1>7. /\ lowlink' \in [Numbered -> Nat]
      /\ \A m \in Numbered : m # t => lowlink'[m] = lowlink[m]
      /\ lowlink'[t] = IF n \in OnStack THEN Lower(lowlink[t], index[n]) ELSE lowlink[t]
  <2>1. lowlink[t] \in Nat /\ index[n] \in Nat
    BY <1>3, <1>4
  <2>2. lowlink' = IF n \in OnStack THEN [lowlink EXCEPT ![t] = Lower(lowlink[t], index[n])] ELSE lowlink
    BY <1>2 DEF Lowered
  <2>3. Lower(lowlink[t], index[n]) \in Nat
    BY <2>1, LowerLess
  <2> QED
    BY <1>3, <1>4, <2>2, <2>3
<1>8. \A m \in Numbered : lowlink'[m] <= lowlink[m] /\ lowlink'[m] \in Nat /\ lowlink[m] \in Nat
  <2>1. lowlink[t] \in Nat /\ index[n] \in Nat
    BY <1>3, <1>4
  <2>2. lowlink'[t] <= lowlink[t]
    BY <1>7, <2>1, LowerLess
  <2>3. ASSUME NEW m \in Numbered
        PROVE  lowlink'[m] <= lowlink[m] /\ lowlink'[m] \in Nat /\ lowlink[m] \in Nat
    <3>1. lowlink'[m] \in Nat /\ lowlink[m] \in Nat
      BY <1>3, <1>7
    <3>2. CASE m = t
      BY <2>2, <3>1, <3>2
    <3>3. CASE m # t
      BY <1>7, <3>1, <3>3
    <3> QED
      BY <3>1, <3>2, <3>3
  <2> QED
    BY <2>3
<1>9. n \in Nodes /\ <<t, n>> \in imports
  <2>1. n \in Adj(t)
    BY <1>4 DEF CycleInv, Visits
  <2>2. PICK e \in imports : e[1] = t /\ e[2] = n
    BY <2>1 DEF Adj
  <2>3. e = <<t, n>> /\ n \in Nodes
    BY <1>3, <2>2
  <2> QED
    BY <2>2, <2>3
<1>10. \A x, y \in Nodes : Looked(x, y)' => Looked(x, y) \/ (x = t /\ y = n)
  <2> SUFFICES ASSUME NEW x \in Nodes, NEW y \in Nodes, Looked(x, y)', ~(x = t /\ y = n)
               PROVE  Looked(x, y)
    OBVIOUS
  <2>1. <<x, y>> \in imports /\ \A i \in DOMAIN workStack : NodeAt(i) = x => y \notin TodoAt(i)'
    BY <1>5, <1>6 DEF Looked
  <2>2. \A i \in DOMAIN workStack : NodeAt(i) = x => y \notin TodoAt(i)
    BY <1>4, <1>5, <2>1
  <2> QED
    BY <2>1, <2>2 DEF Looked
<1>11. CycleTypes'
  BY <1>5, <1>6, <1>7 DEF CycleInv, CycleTypes, Frame
<1>12. Visits'
  <2>1. /\ \A m \in Numbered : index[m] < Cardinality(Numbered)
        /\ \A i, j \in DOMAIN stack : i < j => index[stack[i]] < index[stack[j]]
        /\ \A i, j \in DOMAIN workStack : i < j => index[NodeAt(i)] < index[NodeAt(j)]
        /\ \A i \in DOMAIN workStack : NodeAt(i) \in OnStack /\ TodoAt(i) \subseteq Adj(NodeAt(i))
        /\ \A i \in DOMAIN workStack : i > 1 => <<NodeAt(i - 1), NodeAt(i)>> \in imports
        /\ \A x \in Numbered, y \in Nodes : Looked(x, y) => y \in Numbered
    BY DEF CycleInv, Visits
  <2>2. \A i, j \in DOMAIN workStack' : i < j => index'[NodeAt(i)'] < index'[NodeAt(j)']
    BY <1>5, <1>6, <2>1
  <2>3. \A i \in DOMAIN workStack' : NodeAt(i)' \in OnStack' /\ TodoAt(i)' \subseteq Adj(NodeAt(i)')
    BY <1>5, <1>6, <2>1
  <2>4. \A i \in DOMAIN workStack' : i > 1 => <<NodeAt(i - 1)', NodeAt(i)'>> \in imports'
    <3> SUFFICES ASSUME NEW i \in DOMAIN workStack, i > 1
                 PROVE  <<NodeAt(i - 1)', NodeAt(i)'>> \in imports
      BY <1>5, <1>6
    <3>1. i - 1 \in DOMAIN workStack
      BY <1>3
    <3> QED
      BY <1>5, <2>1, <3>1
  <2>5. \A x \in Numbered', y \in Nodes : Looked(x, y)' => y \in Numbered'
    BY <1>3, <1>6, <1>10, <2>1
  <2>6. \A i \in DOMAIN workStack' : Adj(NodeAt(i))' = Adj(NodeAt(i)')
    BY <1>6 DEF Adj
  <2> QED
    BY <1>3, <1>6, <2>1, <2>2, <2>3, <2>4, <2>5, <2>6 DEF Visits
<1>13. Emissions'
  <2>1. Emissions
    BY DEF CycleInv
  <2> QED
    BY <1>6, <2>1 DEF Emissions, GroupOf
<1>14. Branch'
  <2>1. /\ \A i \in DOMAIN workStack, y \in OnStack : index[NodeAt(i)] <= index[y] => Leads(NodeAt(i), y)
        /\ \A y \in OnStack : \E i \in DOMAIN workStack : index[NodeAt(i)] <= index[y] /\ Leads(y, NodeAt(i))
    BY DEF CycleInv, Branch
  <2> QED
    BY <1>5, <1>6, <2>1 DEF Branch, Leads
<1>15. Lowlinks'
  <2>1. /\ \A i \in DOMAIN workStack :
              /\ lowlink[NodeAt(i)] <= index[NodeAt(i)]
              /\ \E w \in OnStack : index[w] = lowlink[NodeAt(i)] /\ Leads(NodeAt(i), w)
        /\ \A i \in DOMAIN workStack : \A x, y \in OnStack :
              Looked(x, y) /\ index[NodeAt(i)] <= index[x] =>
                  \E j \in DOMAIN workStack : j >= i /\ lowlink[NodeAt(j)] <= index[y]
    BY DEF CycleInv, Lowlinks
  <2>2. ASSUME NEW i \in DOMAIN workStack
        PROVE  /\ lowlink'[NodeAt(i)] <= index[NodeAt(i)]
               /\ \E w \in OnStack : index[w] = lowlink'[NodeAt(i)] /\ Leads(NodeAt(i), w)
    <3>1. lowlink'[NodeAt(i)] <= index[NodeAt(i)]
      <4>1. index[NodeAt(i)] \in Nat /\ NodeAt(i) \in Numbered
        BY <1>3
      <4> QED
        BY <1>8, <2>1, <4>1
    <3>2. CASE lowlink'[NodeAt(i)] = lowlink[NodeAt(i)]
      BY <2>1, <3>2
    <3>3. CASE lowlink'[NodeAt(i)] # lowlink[NodeAt(i)]
      <4>1. NodeAt(i) = t /\ n \in OnStack /\ lowlink'[t] = Lower(lowlink[t], index[n])
        BY <1>3, <1>7, <3>3
      <4>2. lowlink'[t] = index[n]
        BY <1>3, <1>4, <3>3, <4>1, LowerLess
      <4>3. Leads(t, n)
        BY <1>3, <1>9, LeadsOn
      <4> QED
        BY <3>1, <4>1, <4>2, <4>3
    <3> QED
      BY <3>2, <3>3
  <2>3. ASSUME NEW i \in DOMAIN workStack, NEW x \in OnStack, NEW y \in OnStack, Looked(x, y)',
               index[NodeAt(i)] <= index[x]
        PROVE  \E j \in DOMAIN workStack : j >= i /\ lowlink'[NodeAt(j)] <= index[y]
    <3>1. index[y] \in Nat
      BY <1>3
    <3>2. CASE Looked(x, y)
      <4>1. PICK j \in DOMAIN workStack : j >= i /\ lowlink[NodeAt(j)] <= index[y]
        BY <2>1, <2>3, <3>2
      <4>2. NodeAt(j) \in Numbered
        BY <1>3
      <4>3. lowlink'[NodeAt(j)] <= index[y]
        BY <1>8, <3>1, <4>1, <4>2
      <4> QED
        BY <4>1, <4>3
    <3>3. CASE ~Looked(x, y)
      <4>1. x = t /\ y = n
        BY <1>3, <1>10, <2>3, <3>3
      <4>2. lowlink'[t] <= index[n]
        BY <1>3, <1>4, <1>7, <4>1, LowerLess
      <4>3. top >= i
        BY <1>3
      <4> QED
        BY <1>4, <4>1, <4>2, <4>3
    <3> QED
      BY <3>2, <3>3
  <2>4. \A i \in DOMAIN workStack' :
              /\ lowlink'[NodeAt(i)'] <= index'[NodeAt(i)']
              /\ \E w \in OnStack' : index'[w] = lowlink'[NodeAt(i)'] /\ Leads(NodeAt(i), w)'
    BY <1>5, <1>6, <2>2 DEF Leads
  <2>5. \A i \in DOMAIN workStack' : \A x, y \in OnStack' :
              Looked(x, y)' /\ index'[NodeAt(i)'] <= index'[x] =>
                  \E j \in DOMAIN workStack' : j >= i /\ lowlink'[NodeAt(j)'] <= index'[y]
    BY <1>5, <1>6, <2>3
  <2> QED
    BY <2>4, <2>5 DEF Lowlinks
<1> QED
  BY <1>11, <1>12, <1>13, <1>14, <1>15 DEF CycleInv

-----------------------------------------------------------------------------
(* The end of a frame. *)

\* Where t is on the stack.
Place(t) == SelectInSeq(stack, LAMBDA n : n = t)

\* The files on the stack that came no earlier than t.
Since(t) == {y \in OnStack : index[t] <= index[y]}

(* With nothing more to look at and its own number for a lowlink, the top   *)
(* frame and what is above it on the stack are a component.                 *)
LEMMA RootIsGroup ==
    ASSUME CycleInv, workStack # << >>, Top.todo = {}, NEW t, t = Top.node, lowlink[t] = index[t]
    PROVE  /\ t \in Since(t)
           /\ \A e \in imports : e[1] \in Emitted \cup Since(t) => e[2] \in Emitted \cup Since(t)
           /\ \A n \in Since(t) : Since(t) = GroupOf(n, Reaches)
<1>1. PICK top : top = Len(workStack)
  OBVIOUS
<1>2. /\ imports \subseteq Nodes \X Nodes /\ Numbered \subseteq Nodes
      /\ index \in [Numbered -> Nat] /\ lowlink \in [Numbered -> Nat]
      /\ OnStack \subseteq Numbered /\ OnStack \subseteq Nodes
      /\ \A i \in DOMAIN workStack : NodeAt(i) \in OnStack /\ NodeAt(i) \in Numbered
                                     /\ NodeAt(i) \in Nodes
      /\ DOMAIN workStack = 1..top /\ top \in Nat
  BY <1>1, CycleData
<1>3. top \in DOMAIN workStack /\ t = NodeAt(top) /\ TodoAt(top) = {} /\ t \in OnStack /\ index[t] \in Nat
  <2>1. workStack \in Seq(Frame)
    BY CycleData
  <2>2. top # 0
    BY <1>1, <1>2, <2>1
  <2>3. top \in DOMAIN workStack
    BY <1>2, <2>2
  <2> QED
    BY <1>1, <1>2, <2>3 DEF Top, NodeAt, TodoAt
<1>4. /\ Numbered = OnStack \cup Emitted
      /\ \A c \in sccs : c # {} /\ c \cap OnStack = {}
      /\ \A e \in imports : e[1] \in Emitted => e[2] \in Emitted
  BY DEF CycleInv, Emissions
<1>5. ASSUME NEW i \in DOMAIN workStack
      PROVE  index[NodeAt(i)] <= index[t] /\ (index[NodeAt(i)] = index[t] => i = top)
  <2>1. i \in Nat /\ i <= top /\ index[NodeAt(i)] \in Nat
    BY <1>2
  <2>2. CASE i = top
    BY <1>3, <2>2
  <2>3. CASE i < top
    <3>1. index[NodeAt(i)] < index[NodeAt(top)]
      BY <1>3, <2>3 DEF CycleInv, Visits
    <3> QED
      BY <1>3, <2>1, <3>1
  <2> QED
    BY <1>2, <2>1, <2>2, <2>3
<1>6. \A y \in Since(t) : y \in OnStack /\ y \in Nodes /\ y \in Numbered /\ index[y] \in Nat /\ index[t] <= index[y]
  BY <1>2 DEF Since
<1>7. ASSUME NEW y \in Since(t)
      PROVE  Leads(t, y) /\ Leads(y, t)
  <2>1. /\ \A i \in DOMAIN workStack, z \in OnStack : index[NodeAt(i)] <= index[z] => Leads(NodeAt(i), z)
        /\ \E i \in DOMAIN workStack : index[NodeAt(i)] <= index[y] /\ Leads(y, NodeAt(i))
    BY <1>6 DEF CycleInv, Branch
  <2>2. Leads(t, y)
    BY <1>3, <1>6, <2>1
  <2>3. PICK i \in DOMAIN workStack : Leads(y, NodeAt(i))
    BY <2>1
  <2>4. Leads(NodeAt(i), t)
    BY <1>3, <1>5, <2>1
  <2>5. Leads(y, t)
    BY <1>2, <1>3, <1>6, <2>3, <2>4, LeadsOn
  <2> QED
    BY <2>2, <2>5
<1>8. ASSUME NEW e \in imports, e[1] \in Emitted \cup Since(t)
      PROVE  e[2] \in Emitted \cup Since(t)
  <2>1. CASE e[1] \in Emitted
    BY <1>4, <2>1
  <2>2. CASE e[1] \in Since(t)
    <3>1. PICK x \in Nodes, y \in Nodes : e = <<x, y>>
      BY <1>2
    <3>2. x \in Since(t)
      BY <2>2, <3>1
    <3>3. Looked(x, y)
      <4>1. ASSUME NEW i \in DOMAIN workStack, NodeAt(i) = x PROVE y \notin TodoAt(i)
        <5>1. index[NodeAt(i)] = index[t]
          BY <1>2, <1>3, <1>5, <1>6, <3>2, <4>1
        <5> QED
          BY <1>3, <1>5, <5>1
      <4> QED
        BY <3>1, <4>1 DEF Looked
    <3>4. y \in Numbered
      BY <1>6, <3>2, <3>3 DEF CycleInv, Visits
    <3>5. CASE y \in OnStack
      <4>1. \E j \in DOMAIN workStack : j >= top /\ lowlink[NodeAt(j)] <= index[y]
        BY <1>3, <1>6, <3>2, <3>3, <3>5 DEF CycleInv, Lowlinks
      <4>2. lowlink[NodeAt(top)] <= index[y]
        BY <1>2, <4>1
      <4> QED
        BY <1>3, <3>1, <3>5, <4>2 DEF Since
    <3> QED
      BY <1>4, <3>1, <3>4, <3>5
  <2> QED
    BY <1>8, <2>1, <2>2
<1>9. ASSUME NEW n \in Since(t)
      PROVE  Since(t) = GroupOf(n, Reaches)
  <2>1. ASSUME NEW m \in Since(t)
        PROVE  m \in GroupOf(n, Reaches)
    <3>1. Leads(n, t) /\ Leads(t, n) /\ Leads(m, t) /\ Leads(t, m)
      BY <1>7
    <3>2. n \in Nodes /\ m \in Nodes /\ t \in Nodes
      BY <1>2, <1>3, <1>6
    <3>3. Leads(n, m) /\ Leads(m, n)
      BY <1>2, <3>1, <3>2, LeadsOn
    <3> QED
      BY <3>2, <3>3 DEF Leads, GroupOf
  <2>2. ASSUME NEW m \in GroupOf(n, Reaches)
        PROVE  m \in Since(t)
    <3>1. CASE m = n
      BY <3>1
    <3>2. CASE m # n
      <4>1. m \in Nodes /\ n \in Nodes /\ Leads(n, m) /\ Leads(m, n)
        BY <1>6, <2>2, <3>2 DEF GroupOf, Leads
      <4>2. Emitted \in SUBSET Nodes /\ Emitted \cup Since(t) \in SUBSET Nodes
        BY <1>2, <1>4, <1>6
      <4>3. Closed(Emitted) /\ Closed(Emitted \cup Since(t))
        BY <1>4, <1>8 DEF Closed
      <4>4. m \in Emitted \cup Since(t)
        BY <1>2, <4>1, <4>2, <4>3, LeadsOn
      <4>5. m \notin Emitted
        <5> SUFFICES ASSUME m \in Emitted PROVE FALSE
          OBVIOUS
        <5>1. n \in Emitted
          BY <1>2, <4>1, <4>2, <4>3, LeadsOn
        <5> QED
          BY <1>4, <1>6, <5>1 DEF Emitted
      <4> QED
        BY <4>4, <4>5
    <3> QED
      BY <3>1, <3>2
  <2> QED
    BY <2>1, <2>2
<1>10. t \in Since(t)
  BY <1>3 DEF Since
<1> QED
  BY <1>8, <1>9, <1>10

(* The stack is popped down to the file: what came later goes.              *)
LEMMA PopsAbove ==
    ASSUME CycleInv, NEW t \in OnStack, NEW at, at = Place(t)
    PROVE  /\ ToSet(SubSeq(stack, at, Len(stack))) = Since(t)
           /\ Popped(at) \in Seq(Nodes) /\ Len(Popped(at)) <= Len(stack)
           /\ \A i \in DOMAIN Popped(at) : i \in DOMAIN stack /\ Popped(at)[i] = stack[i]
           /\ ToSet(Popped(at)) = OnStack \ Since(t)
<1>1. stack \in Seq(Nodes) /\ index \in [Numbered -> Nat] /\ OnStack \subseteq Numbered
  BY CycleData
<1>2. \A i, j \in DOMAIN stack : i < j => index[stack[i]] < index[stack[j]]
  BY DEF CycleInv, Visits
<1>3. DOMAIN stack = 1..Len(stack) /\ Len(stack) \in Nat /\ \A i \in DOMAIN stack : stack[i] \in OnStack
  BY <1>1 DEF OnStack, ToSet
<1>4. \A i \in DOMAIN stack : index[stack[i]] \in Nat
  BY <1>1, <1>3
<1>14. \A i \in 1..Len(stack) : stack[i] \in Nodes
  BY <1>1
<1>5. at \in DOMAIN stack /\ stack[at] = t
  <2> DEFINE I == {i \in 1..Len(stack) : stack[i] = t}
  <2>1. I # {}
    BY <1>3 DEF OnStack, ToSet
  <2>2. at = Min(I)
    BY <2>1 DEF Place, SelectInSeq
  <2>3. \E x \in I : \A y \in I : x <= y
    <3>1. I \in SUBSET Nat
      BY <1>3
    <3> HIDE DEF I
    <3> QED
      BY <2>1, <3>1, LeastNat
  <2>4. at \in I
    BY <2>2, <2>3 DEF Min
  <2> QED
    BY <1>3, <2>4
<1>6. ASSUME NEW i \in DOMAIN stack
      PROVE  (i >= at) <=> (index[t] <= index[stack[i]])
  <2>1. i \in Nat /\ at \in Nat /\ index[t] \in Nat /\ index[stack[i]] \in Nat
    BY <1>3, <1>4, <1>5
  <2>2. CASE i = at
    BY <1>5, <2>1, <2>2
  <2>3. CASE i < at
    <3>1. index[stack[i]] < index[t]
      BY <1>2, <1>5, <2>3
    <3> QED
      BY <2>1, <2>3, <3>1
  <2>4. CASE i > at
    <3>1. index[t] < index[stack[i]]
      BY <1>2, <1>5, <2>1, <2>4
    <3> QED
      BY <2>1, <2>4, <3>1
  <2> QED
    BY <2>1, <2>2, <2>3, <2>4
<1>7. PICK top : top = SubSeq(stack, at, Len(stack))
  OBVIOUS
<1>8. /\ top \in Seq(Nodes) /\ Len(top) = Len(stack) - at + 1
      /\ \A i \in 1..(Len(stack) - at + 1) : top[i] = stack[at + i - 1]
  <2>1. PICK n : n = Len(stack)
    OBVIOUS
  <2>2. at \in Int /\ n \in Int /\ at <= n /\ n - at + 1 = Len(stack) - at + 1
    BY <1>3, <1>5, <2>1
  <2>3. \A i \in at..n : stack[i] \in Nodes
    <3>1. \A i \in at..n : i \in 1..Len(stack)
      BY <1>3, <1>5, <2>1
    <3> QED
      BY <1>14, <3>1
  <2>4. /\ top \in Seq(Nodes) /\ Len(top) = n - at + 1
        /\ \A i \in 1..(n - at + 1) : top[i] = stack[at + i - 1]
    <3>1. /\ SubSeq(stack, at, n) \in Seq(Nodes)
          /\ Len(SubSeq(stack, at, n)) = IF at <= n THEN n - at + 1 ELSE 0
          /\ \A i \in 1..(n - at + 1) : SubSeq(stack, at, n)[i] = stack[at + i - 1]
      <4>1. at \in Int /\ n \in Int
        BY <2>2
      <4> QED
        BY ONLY <2>3, <4>1, SubSeqProperties
    <3>2. top = SubSeq(stack, at, n)
      BY <1>7, <2>1
    <3> QED
      BY <2>2, <3>1, <3>2
  <2> QED
    BY <2>1, <2>4
<1>9. ToSet(top) = Since(t)
  <2>1. DOMAIN top = 1..(Len(stack) - at + 1)
    BY <1>8
  <2>2. ASSUME NEW i \in DOMAIN top PROVE top[i] \in Since(t)
    <3>1. at + i - 1 \in DOMAIN stack /\ at + i - 1 >= at
      BY <1>3, <1>5, <2>1
    <3> QED
      BY <1>3, <1>6, <1>8, <2>1, <3>1 DEF Since
  <2>3. ASSUME NEW y \in Since(t) PROVE \E i \in DOMAIN top : top[i] = y
    <3>1. PICK j \in DOMAIN stack : stack[j] = y
      BY DEF Since, OnStack, ToSet
    <3>2. j >= at
      BY <1>6, <3>1 DEF Since
    <3>3. j - at + 1 \in DOMAIN top /\ at + (j - at + 1) - 1 = j
      BY <1>3, <1>5, <2>1, <3>2
    <3> QED
      BY <1>8, <2>1, <3>1, <3>3
  <2> QED
    BY <2>2, <2>3 DEF ToSet
<1>10. PICK rest : rest = Popped(at)
  OBVIOUS
<1>11. /\ rest \in Seq(Nodes) /\ Len(rest) = at - 1
       /\ \A i \in 1..(at - 1) : rest[i] = stack[i]
  <2>1. PICK m : m = at - 1
    OBVIOUS
  <2>2. m \in Nat /\ m \in Int /\ 1 \in Int /\ m - 1 + 1 = m /\ (IF 1 <= m THEN m - 1 + 1 ELSE 0) = m
    BY <1>3, <1>5, <2>1
  <2>6. \A i \in 1..m : stack[i] \in Nodes
    <3>1. \A i \in 1..m : i \in 1..Len(stack)
      BY <1>3, <1>5, <2>1
    <3> QED
      BY <1>14, <3>1
  <2>3. rest = SubSeq(stack, 1, m)
    BY <1>10, <2>1 DEF Popped
  <2>4. /\ rest \in Seq(Nodes) /\ Len(rest) = (IF 1 <= m THEN m - 1 + 1 ELSE 0)
        /\ \A i \in 1..(m - 1 + 1) : rest[i] = stack[1 + i - 1]
    BY <2>2, <2>3, <2>6, SubSeqProperties
  <2>5. \A i \in 1..m : 1 + i - 1 = i
    BY <2>2
  <2> QED
    BY <2>1, <2>2, <2>4, <2>5
<1>12. DOMAIN rest = 1..(at - 1) /\ \A i \in 1..(at - 1) : i \in DOMAIN stack /\ i < at
  <2>1. at \in Nat /\ at <= Len(stack)
    BY <1>3, <1>5
  <2>2. DOMAIN rest = 1..Len(rest)
    BY <1>11
  <2>3. PICK m : m = Len(stack)
    OBVIOUS
  <2>4. \A i \in 1..(at - 1) : i \in 1..m /\ i < at
    BY <1>3, <2>1, <2>3
  <2> QED
    BY <1>3, <1>11, <2>2, <2>3, <2>4
<1>13. ToSet(rest) = OnStack \ Since(t)
  <2>1. ASSUME NEW i \in DOMAIN rest PROVE rest[i] \in OnStack \ Since(t)
    <3>1. i \in DOMAIN stack /\ ~(i >= at) /\ rest[i] = stack[i]
      <4>1. i \in 1..(at - 1)
        BY <1>12
      <4>2. ~(i >= at)
        BY <1>3, <1>5, <4>1
      <4> QED
        BY <1>11, <1>12, <4>1, <4>2
    <3> QED
      BY <1>3, <1>6, <3>1 DEF Since
  <2>2. ASSUME NEW y \in OnStack \ Since(t) PROVE \E i \in DOMAIN rest : rest[i] = y
    <3>1. PICK j \in DOMAIN stack : stack[j] = y
      BY DEF OnStack, ToSet
    <3>2. ~(j >= at)
      BY <1>6, <3>1 DEF Since
    <3>3. j \in DOMAIN rest
      BY <1>3, <1>5, <1>12, <3>2
    <3> QED
      BY <1>11, <1>12, <3>1, <3>3
  <2> QED
    BY <2>1, <2>2 DEF ToSet
<1>15. Len(rest) <= Len(stack)
  <2>1. PICK m : m = Len(stack)
    OBVIOUS
  <2> QED
    BY <1>3, <1>5, <1>11, <2>1
<1>16. \A i \in DOMAIN rest : i \in DOMAIN stack /\ rest[i] = stack[i]
  BY <1>11, <1>12
<1> QED
  BY <1>7, <1>9, <1>10, <1>11, <1>13, <1>15, <1>16

\* What the end of the top frame, of t, does to the work stack and the lowlinks.
Finished(t, top) ==
    /\ top \in Nat /\ DOMAIN workStack = 1..top /\ top \in DOMAIN workStack
    /\ t = NodeAt(top) /\ TodoAt(top) = {}
    /\ workStack' \in Seq(Frame) /\ DOMAIN workStack' = 1..(top - 1)
    /\ \A i \in DOMAIN workStack' :
          i \in DOMAIN workStack /\ NodeAt(i)' = NodeAt(i) /\ TodoAt(i)' = TodoAt(i)
    /\ lowlink' \in [Numbered -> Nat]
    /\ \A m \in Numbered : lowlink'[m] <= lowlink[m]
    /\ \A m \in Numbered :
          \/ lowlink'[m] = lowlink[m]
          \/ top > 1 /\ m = NodeAt(top - 1) /\ lowlink'[m] = lowlink[t]
    /\ top > 1 => lowlink'[NodeAt(top - 1)] <= lowlink[t]
    /\ imports' = imports /\ index' = index /\ Numbered' = Numbered
    /\ AdjKeys' = AdjKeys /\ Reaches' = Reaches /\ \A x \in Nodes : Adj(x)' = Adj(x)

LEMMA FinishEffect ==
    ASSUME CycleInv, Finish, NEW t, t = Top.node, NEW top, top = Len(workStack)
    PROVE  Finished(t, top)
<1>1. /\ workStack # << >> /\ Top.todo = {} /\ workStack' = Front(workStack)
      /\ lowlink' = Propagated /\ imports' = imports /\ index' = index
  BY DEF Finish
<1>2. /\ index \in [Numbered -> Nat] /\ lowlink \in [Numbered -> Nat] /\ workStack \in Seq(Frame)
      /\ \A i \in DOMAIN workStack : NodeAt(i) \in Numbered
      /\ DOMAIN workStack = 1..top /\ top \in Nat
  BY CycleData
<1>3. top \in DOMAIN workStack /\ t = NodeAt(top) /\ TodoAt(top) = {}
  <2>1. top # 0
    BY <1>1, <1>2
  <2>2. top \in DOMAIN workStack
    BY <1>2, <2>1
  <2> QED
    BY <1>1, <2>2 DEF Top, NodeAt, TodoAt
<1>4. PICK ws : ws = workStack'
  OBVIOUS
<1>5. /\ ws \in Seq(Frame) /\ DOMAIN ws = 1..(top - 1)
      /\ \A i \in 1..(top - 1) : i \in DOMAIN workStack /\ ws[i] = workStack[i]
  <2>1. ws = [i \in 1..(top - 1) |-> workStack[i]]
    BY <1>1, <1>4 DEF Front
  <2>2. \A i \in 1..(top - 1) : i \in DOMAIN workStack
    BY <1>2
  <2>3. \A i \in 1..(top - 1) : workStack[i] \in Frame
    BY <1>2, <2>2, ElementOfSeq
  <2>4. top - 1 \in Nat
    BY <1>2, <1>3
  <2> QED
    BY <2>1, <2>2, <2>3, <2>4
<1>6. \A i \in DOMAIN workStack' :
          i \in DOMAIN workStack /\ NodeAt(i)' = NodeAt(i) /\ TodoAt(i)' = TodoAt(i)
  BY <1>4, <1>5 DEF NodeAt, TodoAt
<1>7. CASE top > 1
  <2>1. PICK p : p = NodeAt(top - 1)
    OBVIOUS
  <2>2. p \in Numbered /\ t \in Numbered
    <3>1. top - 1 \in DOMAIN workStack
      BY <1>2, <1>7
    <3> QED
      BY <1>2, <1>3, <2>1, <3>1
  <2>3. lowlink' = [lowlink EXCEPT ![p] = Lower(lowlink[p], lowlink[t])]
    BY <1>1, <1>7, <2>1 DEF Propagated, Parent, NodeAt
  <2>4. lowlink[p] \in Nat /\ lowlink[t] \in Nat
    BY <1>2, <2>2
  <2>5. /\ Lower(lowlink[p], lowlink[t]) \in Nat
        /\ Lower(lowlink[p], lowlink[t]) \in {lowlink[p], lowlink[t]}
        /\ Lower(lowlink[p], lowlink[t]) <= lowlink[p]
        /\ Lower(lowlink[p], lowlink[t]) <= lowlink[t]
    BY <2>4, LowerLess
  <2>6. /\ lowlink' \in [Numbered -> Nat] /\ lowlink'[p] = Lower(lowlink[p], lowlink[t])
        /\ \A m \in Numbered : m # p => lowlink'[m] = lowlink[m]
    BY <1>2, <2>2, <2>3, <2>5
  <2>7. ASSUME NEW m \in Numbered
        PROVE  lowlink'[m] <= lowlink[m]
    <3>1. lowlink[m] \in Nat
      BY <1>2
    <3>2. CASE m = p
      BY <2>5, <2>6, <3>2
    <3>3. CASE m # p
      BY <2>6, <3>1, <3>3
    <3> QED
      BY <3>2, <3>3
  <2>8. \A m \in Numbered : lowlink'[m] = lowlink[m] \/ (m = p /\ lowlink'[m] = lowlink[t])
    BY <2>5, <2>6
  <2>9. lowlink'[p] <= lowlink[t]
    BY <2>5, <2>6
  <2> QED
    BY <1>1, <1>2, <1>3, <1>4, <1>5, <1>6, <1>7, <2>1, <2>6, <2>7, <2>8, <2>9, SameReach
    DEF Finished, Numbered, AdjKeys, Adj
<1>8. CASE ~(top > 1)
  <2>1. lowlink' = lowlink
    BY <1>1, <1>8 DEF Propagated
  <2>2. \A m \in Numbered : lowlink'[m] <= lowlink[m]
    BY <1>2, <2>1
  <2> QED
    BY <1>1, <1>2, <1>3, <1>4, <1>5, <1>6, <1>8, <2>1, <2>2, SameReach
    DEF Finished, Numbered, AdjKeys, Adj
<1> QED
  BY <1>7, <1>8

(* The frames that stay came before the one that ends, and nothing is       *)
(* looked at by ending one.                                                 *)
LEMMA FramesBefore ==
    ASSUME CycleInv, NEW t, NEW top, Finished(t, top)
    PROVE  /\ t \in OnStack /\ t \in Nodes /\ t \in Numbered
           /\ \A i \in DOMAIN workStack' : index[NodeAt(i)] < index[t]
           /\ \A i \in DOMAIN workStack : i \in DOMAIN workStack' \/ i = top
           /\ \A x, y \in Nodes : Looked(x, y)' => Looked(x, y)
           /\ top > 1 => top - 1 \in DOMAIN workStack' /\ Leads(NodeAt(top - 1), t)
<1>1. /\ top \in Nat /\ DOMAIN workStack = 1..top /\ top \in DOMAIN workStack
      /\ t = NodeAt(top) /\ TodoAt(top) = {} /\ DOMAIN workStack' = 1..(top - 1)
      /\ \A i \in DOMAIN workStack' :
            i \in DOMAIN workStack /\ NodeAt(i)' = NodeAt(i) /\ TodoAt(i)' = TodoAt(i)
      /\ imports' = imports
  BY DEF Finished
<1>2. t \in OnStack /\ t \in Nodes /\ t \in Numbered
  BY <1>1, CycleData
<1>3. ASSUME NEW i \in DOMAIN workStack' PROVE index[NodeAt(i)] < index[t]
  <2>1. i \in DOMAIN workStack /\ i < top
    BY <1>1
  <2> QED
    BY <1>1, <2>1 DEF CycleInv, Visits
<1>4. \A i \in DOMAIN workStack : i \in DOMAIN workStack' \/ i = top
  BY <1>1
<1>5. ASSUME NEW x \in Nodes, NEW y \in Nodes, Looked(x, y)'
      PROVE  Looked(x, y)
  <2>1. <<x, y>> \in imports /\ \A i \in DOMAIN workStack' : NodeAt(i)' = x => y \notin TodoAt(i)'
    BY <1>1, <1>5 DEF Looked
  <2>2. \A i \in DOMAIN workStack : NodeAt(i) = x => y \notin TodoAt(i)
    BY <1>1, <1>4, <2>1
  <2> QED
    BY <2>1, <2>2 DEF Looked
<1>6. ASSUME top > 1
      PROVE  top - 1 \in DOMAIN workStack' /\ Leads(NodeAt(top - 1), t)
  <2>1. <<NodeAt(top - 1), t>> \in imports
    BY <1>1, <1>6 DEF CycleInv, Visits
  <2>2. imports \subseteq Nodes \X Nodes
    BY CycleData
  <2>3. top - 1 \in DOMAIN workStack'
    BY <1>1, <1>6
  <2>4. PICK e : e = <<NodeAt(top - 1), t>>
    OBVIOUS
  <2>5. e \in imports /\ e[1] = NodeAt(top - 1) /\ e[2] = t
    BY <2>1, <2>4
  <2>6. Leads(e[1], e[2])
    BY <2>2, <2>5, LeadsOn
  <2> QED
    BY <2>3, <2>5, <2>6
<1> QED
  BY <1>2, <1>3, <1>4, <1>5, <1>6

(* Types and visits stay whether or not the stack is popped.                *)
LEMMA FinishVisits ==
    ASSUME CycleInv, NEW t, NEW top, Finished(t, top), sccs' \subseteq SUBSET Nodes,
           stack' \in Seq(Nodes), \A i \in DOMAIN stack' : i \in DOMAIN stack /\ stack'[i] = stack[i],
           OnStack' \subseteq OnStack, \A i \in DOMAIN workStack' : NodeAt(i) \in OnStack'
    PROVE  CycleTypes' /\ Visits'
<1>1. /\ top \in Nat /\ DOMAIN workStack = 1..top /\ DOMAIN workStack' = 1..(top - 1)
      /\ workStack' \in Seq(Frame) /\ lowlink' \in [Numbered -> Nat]
      /\ \A i \in DOMAIN workStack' :
            i \in DOMAIN workStack /\ NodeAt(i)' = NodeAt(i) /\ TodoAt(i)' = TodoAt(i)
      /\ imports' = imports /\ index' = index /\ Numbered' = Numbered /\ AdjKeys' = AdjKeys
      /\ \A x \in Nodes : Adj(x)' = Adj(x)
  BY DEF Finished
<1>2. /\ \A m \in Numbered : index[m] < Cardinality(Numbered)
      /\ \A i, j \in DOMAIN stack : i < j => index[stack[i]] < index[stack[j]]
      /\ \A i, j \in DOMAIN workStack : i < j => index[NodeAt(i)] < index[NodeAt(j)]
      /\ \A i \in DOMAIN workStack : NodeAt(i) \in OnStack /\ TodoAt(i) \subseteq Adj(NodeAt(i))
      /\ \A i \in DOMAIN workStack : i > 1 => <<NodeAt(i - 1), NodeAt(i)>> \in imports
      /\ OnStack \subseteq Numbered
      /\ \A x \in Numbered, y \in Nodes : Looked(x, y) => y \in Numbered
  BY DEF CycleInv, Visits
<1>3. /\ \A i \in DOMAIN workStack : NodeAt(i) \in Nodes
      /\ \A x, y \in Nodes : Looked(x, y)' => Looked(x, y)
      /\ Numbered \subseteq Nodes
  BY CycleData, FramesBefore
<1>4. CycleTypes'
  BY <1>1 DEF CycleInv, CycleTypes, Frame
<1>5. \A i, j \in DOMAIN stack' : i < j => index'[stack'[i]] < index'[stack'[j]]
  BY <1>1, <1>2
<1>6. \A i, j \in DOMAIN workStack' : i < j => index'[NodeAt(i)'] < index'[NodeAt(j)']
  BY <1>1, <1>2
<1>7. \A i \in DOMAIN workStack' : NodeAt(i)' \in OnStack' /\ TodoAt(i)' \subseteq Adj(NodeAt(i))'
  <2>1. ASSUME NEW i \in DOMAIN workStack'
        PROVE  NodeAt(i)' \in OnStack' /\ TodoAt(i)' \subseteq Adj(NodeAt(i))'
    <3>1. NodeAt(i)' = NodeAt(i) /\ TodoAt(i)' = TodoAt(i) /\ NodeAt(i) \in Nodes /\ i \in DOMAIN workStack
      BY <1>1, <1>3
    <3>2. Adj(NodeAt(i))' = Adj(NodeAt(i))
      BY <1>1, <3>1 DEF Adj
    <3> QED
      BY <1>2, <3>1, <3>2
  <2> QED
    BY <2>1
<1>8. \A i \in DOMAIN workStack' : i > 1 => <<NodeAt(i - 1)', NodeAt(i)'>> \in imports'
  <2> SUFFICES ASSUME NEW i \in DOMAIN workStack', i > 1
               PROVE  <<NodeAt(i - 1)', NodeAt(i)'>> \in imports
    BY <1>1
  <2>1. i - 1 \in DOMAIN workStack' /\ i \in DOMAIN workStack
    BY <1>1
  <2>2. PICK h : h = i - 1
    OBVIOUS
  <2>3. NodeAt(h)' = NodeAt(h) /\ NodeAt(i)' = NodeAt(i)
    BY <1>1, <2>1, <2>2
  <2> QED
    BY <1>2, <2>1, <2>2, <2>3
<1>9. \A x \in Numbered', y \in Nodes : Looked(x, y)' => y \in Numbered'
  BY <1>1, <1>2, <1>3
<1>10. Visits'
  BY <1>1, <1>2, <1>5, <1>6, <1>7, <1>8, <1>9 DEF Visits
<1> QED
  BY <1>4, <1>10

(* A frame that is no root leaves its files to the frames below.            *)
LEMMA FinishKeeps ==
    ASSUME CycleInv, NEW t, NEW top, Finished(t, top), lowlink[t] # index[t],
           sccs' = sccs, stack' = stack
    PROVE  CycleInv'
<1>1. /\ top \in Nat /\ DOMAIN workStack = 1..top /\ top \in DOMAIN workStack
      /\ t = NodeAt(top) /\ DOMAIN workStack' = 1..(top - 1)
      /\ \A i \in DOMAIN workStack' :
            i \in DOMAIN workStack /\ NodeAt(i)' = NodeAt(i) /\ TodoAt(i)' = TodoAt(i)
      /\ lowlink' \in [Numbered -> Nat]
      /\ \A m \in Numbered : lowlink'[m] <= lowlink[m]
      /\ \A m \in Numbered :
            \/ lowlink'[m] = lowlink[m]
            \/ top > 1 /\ m = NodeAt(top - 1) /\ lowlink'[m] = lowlink[t]
      /\ top > 1 => lowlink'[NodeAt(top - 1)] <= lowlink[t]
      /\ imports' = imports /\ index' = index /\ Numbered' = Numbered /\ Reaches' = Reaches
  BY DEF Finished
<1>2. /\ t \in OnStack /\ t \in Nodes /\ t \in Numbered
      /\ \A i \in DOMAIN workStack' : index[NodeAt(i)] < index[t]
      /\ \A i \in DOMAIN workStack : i \in DOMAIN workStack' \/ i = top
      /\ \A x, y \in Nodes : Looked(x, y)' => Looked(x, y)
      /\ top > 1 => top - 1 \in DOMAIN workStack' /\ Leads(NodeAt(top - 1), t)
  BY FramesBefore
<1>3. /\ imports \subseteq Nodes \X Nodes /\ index \in [Numbered -> Nat] /\ lowlink \in [Numbered -> Nat]
      /\ OnStack \subseteq Numbered /\ OnStack \subseteq Nodes
      /\ \A i \in DOMAIN workStack : NodeAt(i) \in OnStack /\ NodeAt(i) \in Numbered
                                     /\ NodeAt(i) \in Nodes
      /\ OnStack' = OnStack /\ Emitted' = Emitted
  BY CycleData DEF OnStack, Emitted
<1>4. CycleTypes' /\ Visits'
  <2>1. \A i \in DOMAIN workStack' : NodeAt(i) \in OnStack'
    BY <1>1, <1>3
  <2>2. stack \in Seq(Nodes) /\ sccs \subseteq SUBSET Nodes
    BY DEF CycleInv, CycleTypes
  <2> QED
    BY <1>3, <2>1, <2>2, FinishVisits
<1>5. Emissions'
  <2>1. Emissions
    BY DEF CycleInv
  <2> QED
    BY <1>1, <1>3, <2>1 DEF Emissions, GroupOf
<1>6. /\ \A i \in DOMAIN workStack, y \in OnStack : index[NodeAt(i)] <= index[y] => Leads(NodeAt(i), y)
      /\ \A y \in OnStack : \E i \in DOMAIN workStack : index[NodeAt(i)] <= index[y] /\ Leads(y, NodeAt(i))
  BY DEF CycleInv, Branch
<1>7. /\ \A i \in DOMAIN workStack :
            /\ lowlink[NodeAt(i)] <= index[NodeAt(i)]
            /\ \E w \in OnStack : index[w] = lowlink[NodeAt(i)] /\ Leads(NodeAt(i), w)
      /\ \A i \in DOMAIN workStack : \A x, y \in OnStack :
            Looked(x, y) /\ index[NodeAt(i)] <= index[x] =>
                \E j \in DOMAIN workStack : j >= i /\ lowlink[NodeAt(j)] <= index[y]
  BY DEF CycleInv, Lowlinks
<1>8. PICK w \in OnStack : index[w] = lowlink[t] /\ Leads(t, w)
  BY <1>1, <1>7
<1>9. index[t] \in Nat /\ lowlink[t] \in Nat /\ lowlink[t] < index[t]
  <2>1. index[t] \in Nat /\ lowlink[t] \in Nat
    BY <1>2, <1>3
  <2>2. lowlink[t] <= index[t]
    BY <1>1, <1>7
  <2> QED
    BY <2>1, <2>2
<1>10. ASSUME NEW y \in OnStack
       PROVE  \E i \in DOMAIN workStack' : index[NodeAt(i)] <= index[y] /\ Leads(y, NodeAt(i))
  <2>1. PICK i \in DOMAIN workStack : index[NodeAt(i)] <= index[y] /\ Leads(y, NodeAt(i))
    BY <1>6
  <2>2. CASE i \in DOMAIN workStack'
    BY <2>1, <2>2
  <2>3. CASE i = top
    <3>1. PICK g \in DOMAIN workStack : index[NodeAt(g)] <= index[w] /\ Leads(w, NodeAt(g))
      BY <1>6
    <3>2. index[NodeAt(g)] \in Nat /\ index[y] \in Nat
      BY <1>3
    <3>3. g # top
      BY <1>1, <1>8, <1>9, <3>1, <3>2
    <3>4. index[t] <= index[y]
      BY <1>1, <2>1, <2>3
    <3>5. index[NodeAt(g)] <= index[y]
      BY <1>8, <1>9, <3>1, <3>2, <3>4
    <3>6. Leads(y, t) /\ y \in Nodes /\ w \in Nodes /\ NodeAt(g) \in Nodes
      BY <1>1, <1>3, <2>1, <2>3
    <3>7. Leads(y, w)
      BY <1>2, <1>3, <1>8, <3>6, LeadsOn
    <3>8. Leads(y, NodeAt(g))
      BY <1>3, <3>1, <3>6, <3>7, LeadsOn
    <3> QED
      BY <1>2, <3>3, <3>5, <3>8
  <2> QED
    BY <1>2, <2>2, <2>3
<1>11. Branch'
  <2>1. \A i \in DOMAIN workStack', y \in OnStack' : index'[NodeAt(i)'] <= index'[y] => Leads(NodeAt(i), y)'
    BY <1>1, <1>3, <1>6 DEF Leads
  <2>2. \A y \in OnStack' : \E i \in DOMAIN workStack' :
            index'[NodeAt(i)'] <= index'[y] /\ Leads(y, NodeAt(i))'
    BY <1>1, <1>3, <1>10 DEF Leads
  <2> QED
    BY <2>1, <2>2 DEF Branch
<1>12. ASSUME NEW i \in DOMAIN workStack'
       PROVE  /\ lowlink'[NodeAt(i)] <= index[NodeAt(i)]
              /\ \E v \in OnStack : index[v] = lowlink'[NodeAt(i)] /\ Leads(NodeAt(i), v)
  <2>1. i \in DOMAIN workStack /\ NodeAt(i) \in Numbered /\ NodeAt(i) \in Nodes
    BY <1>1, <1>3
  <2>2. lowlink'[NodeAt(i)] <= index[NodeAt(i)]
    <3>1. /\ lowlink'[NodeAt(i)] \in Nat /\ lowlink[NodeAt(i)] \in Nat /\ index[NodeAt(i)] \in Nat
          /\ lowlink'[NodeAt(i)] <= lowlink[NodeAt(i)] /\ lowlink[NodeAt(i)] <= index[NodeAt(i)]
      BY <1>1, <1>3, <1>7, <2>1
    <3> QED
      BY <3>1
  <2>3. CASE lowlink'[NodeAt(i)] = lowlink[NodeAt(i)]
    BY <1>7, <2>1, <2>2, <2>3
  <2>4. CASE top > 1 /\ NodeAt(i) = NodeAt(top - 1) /\ lowlink'[NodeAt(i)] = lowlink[t]
    <3>1. Leads(NodeAt(i), t)
      BY <1>2, <2>4
    <3>2. Leads(NodeAt(i), w)
      BY <1>2, <1>3, <1>8, <2>1, <3>1, LeadsOn
    <3> QED
      BY <1>8, <2>2, <2>4, <3>2
  <2> QED
    BY <1>1, <2>1, <2>3, <2>4
<1>13. ASSUME NEW i \in DOMAIN workStack', NEW x \in OnStack, NEW y \in OnStack, Looked(x, y)',
              index[NodeAt(i)] <= index[x]
       PROVE  \E j \in DOMAIN workStack' : j >= i /\ lowlink'[NodeAt(j)] <= index[y]
  <2>1. i \in DOMAIN workStack /\ Looked(x, y) /\ index[y] \in Nat
    BY <1>1, <1>2, <1>3, <1>13
  <2>2. PICK j \in DOMAIN workStack : j >= i /\ lowlink[NodeAt(j)] <= index[y]
    BY <1>7, <1>13, <2>1
  <2>3. CASE j \in DOMAIN workStack'
    <3>1. /\ lowlink'[NodeAt(j)] \in Nat /\ lowlink[NodeAt(j)] \in Nat
          /\ lowlink'[NodeAt(j)] <= lowlink[NodeAt(j)]
      BY <1>1, <1>3
    <3>2. lowlink'[NodeAt(j)] <= index[y]
      BY <2>1, <2>2, <3>1
    <3> QED
      BY <2>2, <2>3, <3>2
  <2>4. CASE j = top
    <3>1. i \in 1..(top - 1) /\ top > 1 /\ top - 1 >= i
      BY <1>1
    <3>2. top - 1 \in DOMAIN workStack' /\ NodeAt(top - 1) \in Numbered
      BY <1>1, <1>2, <1>3, <3>1
    <3>3. lowlink'[NodeAt(top - 1)] \in Nat /\ lowlink'[NodeAt(top - 1)] <= lowlink[t]
      BY <1>1, <3>1, <3>2
    <3>4. lowlink[t] <= index[y]
      BY <1>1, <2>2, <2>4
    <3>5. lowlink'[NodeAt(top - 1)] <= index[y]
      BY <1>9, <2>1, <3>3, <3>4
    <3> QED
      BY <3>1, <3>2, <3>5
  <2> QED
    BY <1>2, <2>3, <2>4
<1>14. Lowlinks'
  <2>1. \A i \in DOMAIN workStack' :
              /\ lowlink'[NodeAt(i)'] <= index'[NodeAt(i)']
              /\ \E v \in OnStack' : index'[v] = lowlink'[NodeAt(i)'] /\ Leads(NodeAt(i), v)'
    BY <1>1, <1>3, <1>12 DEF Leads
  <2>2. \A i \in DOMAIN workStack' : \A x, y \in OnStack' :
              Looked(x, y)' /\ index'[NodeAt(i)'] <= index'[x] =>
                  \E j \in DOMAIN workStack' : j >= i /\ lowlink'[NodeAt(j)'] <= index'[y]
    <3> SUFFICES ASSUME NEW i \in DOMAIN workStack', NEW x \in OnStack, NEW y \in OnStack,
                        Looked(x, y)', index[NodeAt(i)] <= index[x]
                 PROVE  \E j \in DOMAIN workStack' : j >= i /\ lowlink'[NodeAt(j)'] <= index[y]
      BY <1>1, <1>3
    <3>1. PICK j \in DOMAIN workStack' : j >= i /\ lowlink'[NodeAt(j)] <= index[y]
      BY <1>13
    <3>2. NodeAt(j)' = NodeAt(j)
      BY <1>1
    <3> QED
      BY <3>1, <3>2
  <2> QED
    BY <2>1, <2>2 DEF Lowlinks
<1> QED
  BY <1>4, <1>5, <1>11, <1>14 DEF CycleInv

(* A frame that is a root takes its component off the stack.                *)
LEMMA RootKeeps ==
    ASSUME CycleInv, workStack # << >>, Top.todo = {}, NEW t, t = Top.node, NEW top, Finished(t, top),
           lowlink[t] = index[t], NEW at, at = Place(t),
           sccs' = sccs \cup {ToSet(SubSeq(stack, at, Len(stack)))}, stack' = Popped(at)
    PROVE  CycleInv'
<1>1. /\ top \in Nat /\ DOMAIN workStack = 1..top /\ top \in DOMAIN workStack
      /\ t = NodeAt(top) /\ DOMAIN workStack' = 1..(top - 1)
      /\ \A i \in DOMAIN workStack' :
            i \in DOMAIN workStack /\ NodeAt(i)' = NodeAt(i) /\ TodoAt(i)' = TodoAt(i)
      /\ lowlink' \in [Numbered -> Nat]
      /\ \A m \in Numbered : lowlink'[m] <= lowlink[m]
      /\ \A m \in Numbered :
            \/ lowlink'[m] = lowlink[m]
            \/ top > 1 /\ m = NodeAt(top - 1) /\ lowlink'[m] = lowlink[t]
      /\ imports' = imports /\ index' = index /\ Numbered' = Numbered /\ Reaches' = Reaches
  BY DEF Finished
<1>2. /\ t \in OnStack /\ t \in Nodes /\ t \in Numbered
      /\ \A i \in DOMAIN workStack' : index[NodeAt(i)] < index[t]
      /\ \A i \in DOMAIN workStack : i \in DOMAIN workStack' \/ i = top
      /\ \A x, y \in Nodes : Looked(x, y)' => Looked(x, y)
  BY FramesBefore
<1>3. /\ imports \subseteq Nodes \X Nodes /\ index \in [Numbered -> Nat] /\ lowlink \in [Numbered -> Nat]
      /\ OnStack \subseteq Numbered /\ OnStack \subseteq Nodes
      /\ \A i \in DOMAIN workStack : NodeAt(i) \in OnStack /\ NodeAt(i) \in Numbered
                                     /\ NodeAt(i) \in Nodes
  BY CycleData
<1>4. /\ t \in Since(t)
      /\ \A e \in imports : e[1] \in Emitted \cup Since(t) => e[2] \in Emitted \cup Since(t)
      /\ \A n \in Since(t) : Since(t) = GroupOf(n, Reaches)
  BY RootIsGroup
<1>5. /\ ToSet(SubSeq(stack, at, Len(stack))) = Since(t)
      /\ Popped(at) \in Seq(Nodes)
      /\ \A i \in DOMAIN Popped(at) : i \in DOMAIN stack /\ Popped(at)[i] = stack[i]
      /\ ToSet(Popped(at)) = OnStack \ Since(t)
  BY <1>2, PopsAbove
<1>6. /\ sccs' = sccs \cup {Since(t)} /\ OnStack' = OnStack \ Since(t)
      /\ Emitted' = Emitted \cup Since(t) /\ Since(t) \subseteq OnStack
  BY <1>5 DEF OnStack, Emitted, Since
<1>7. index[t] \in Nat /\ \A y \in OnStack : index[y] \in Nat /\ (y \in OnStack' <=> index[y] < index[t])
  <2>1. index[t] \in Nat /\ \A y \in OnStack : index[y] \in Nat
    BY <1>2, <1>3
  <2>2. ASSUME NEW y \in OnStack PROVE y \in OnStack' <=> index[y] < index[t]
    <3>1. y \in OnStack' <=> ~(index[t] <= index[y])
      BY <1>6 DEF Since
    <3> QED
      BY <2>1, <3>1
  <2> QED
    BY <2>1, <2>2
<1>8. \A i \in DOMAIN workStack' : NodeAt(i) \in OnStack'
  BY <1>1, <1>2, <1>3, <1>7
<1>9. CycleTypes' /\ Visits'
  <2>1. sccs \subseteq SUBSET Nodes
    BY DEF CycleInv, CycleTypes
  <2>2. /\ sccs' \subseteq SUBSET Nodes /\ stack' \in Seq(Nodes) /\ OnStack' \subseteq OnStack
        /\ \A i \in DOMAIN stack' : i \in DOMAIN stack /\ stack'[i] = stack[i]
    BY <1>3, <1>5, <1>6, <2>1
  <2> QED
    BY <1>8, <2>2, FinishVisits
<1>10. Emissions'
  <2>1. /\ Numbered = OnStack \cup Emitted
        /\ \A c \in sccs : c # {} /\ c \cap OnStack = {}
        /\ \A c \in sccs : \A n \in c : c = GroupOf(n, Reaches)
    BY DEF CycleInv, Emissions
  <2>2. Numbered' = OnStack' \cup Emitted'
    BY <1>1, <1>6, <2>1
  <2>3. ASSUME NEW c \in sccs'
        PROVE  c # {} /\ c \cap OnStack' = {} /\ \A n \in c : c = GroupOf(n, Reaches)
    <3>1. CASE c \in sccs
      BY <1>6, <2>1, <3>1
    <3>2. CASE c = Since(t)
      BY <1>4, <1>6, <3>2
    <3> QED
      BY <1>6, <3>1, <3>2
  <2>4. \A e \in imports' : e[1] \in Emitted' => e[2] \in Emitted'
    BY <1>1, <1>4, <1>6
  <2>5. \A c \in sccs' : \A n \in c : c = GroupOf(n, Reaches')
    BY <1>1, <2>3
  <2> QED
    BY <2>2, <2>3, <2>4, <2>5 DEF Emissions, GroupOf
<1>11. /\ \A i \in DOMAIN workStack, y \in OnStack : index[NodeAt(i)] <= index[y] => Leads(NodeAt(i), y)
       /\ \A y \in OnStack : \E i \in DOMAIN workStack : index[NodeAt(i)] <= index[y] /\ Leads(y, NodeAt(i))
  BY DEF CycleInv, Branch
<1>12. /\ \A i \in DOMAIN workStack :
             /\ lowlink[NodeAt(i)] <= index[NodeAt(i)]
             /\ \E w \in OnStack : index[w] = lowlink[NodeAt(i)] /\ Leads(NodeAt(i), w)
       /\ \A i \in DOMAIN workStack : \A x, y \in OnStack :
             Looked(x, y) /\ index[NodeAt(i)] <= index[x] =>
                 \E j \in DOMAIN workStack : j >= i /\ lowlink[NodeAt(j)] <= index[y]
  BY DEF CycleInv, Lowlinks
<1>13. Branch'
  <2>1. \A i \in DOMAIN workStack', y \in OnStack' : index'[NodeAt(i)'] <= index'[y] => Leads(NodeAt(i), y)'
    BY <1>1, <1>6, <1>11 DEF Leads
  <2>2. ASSUME NEW y \in OnStack'
        PROVE  \E i \in DOMAIN workStack' : index[NodeAt(i)] <= index[y] /\ Leads(y, NodeAt(i))
    <3>1. y \in OnStack
      BY <1>6
    <3>2. PICK i \in DOMAIN workStack : index[NodeAt(i)] <= index[y] /\ Leads(y, NodeAt(i))
      BY <1>11, <3>1
    <3>3. index[y] < index[t] /\ index[y] \in Nat
      BY <1>7, <3>1
    <3>4. i # top
      BY <1>1, <1>7, <3>2, <3>3
    <3> QED
      BY <1>2, <3>2, <3>4
  <2>3. \A y \in OnStack' : \E i \in DOMAIN workStack' :
            index'[NodeAt(i)'] <= index'[y] /\ Leads(y, NodeAt(i))'
    BY <1>1, <2>2 DEF Leads
  <2> QED
    BY <2>1, <2>3 DEF Branch
<1>14. ASSUME NEW i \in DOMAIN workStack'
       PROVE  /\ lowlink'[NodeAt(i)] = lowlink[NodeAt(i)]
              /\ lowlink[NodeAt(i)] <= index[NodeAt(i)]
              /\ \E w \in OnStack' : index[w] = lowlink[NodeAt(i)] /\ Leads(NodeAt(i), w)
  <2>1. /\ i \in DOMAIN workStack /\ NodeAt(i) \in Numbered /\ index[NodeAt(i)] \in Nat
        /\ lowlink[NodeAt(i)] \in Nat
    BY <1>1, <1>3
  <2>2. lowlink[NodeAt(i)] <= index[NodeAt(i)] /\ index[NodeAt(i)] < index[t]
    BY <1>2, <1>12, <2>1
  <2>3. lowlink[NodeAt(i)] < index[t]
    BY <1>7, <2>1, <2>2
  <2>4. lowlink'[NodeAt(i)] <= lowlink[NodeAt(i)] /\ lowlink'[NodeAt(i)] \in Nat
    BY <1>1, <2>1
  <2>5. lowlink'[NodeAt(i)] # lowlink[t]
    BY <1>7, <2>1, <2>3, <2>4
  <2>6. lowlink'[NodeAt(i)] = lowlink[NodeAt(i)]
    BY <1>1, <2>1, <2>5
  <2>7. PICK w \in OnStack : index[w] = lowlink[NodeAt(i)] /\ Leads(NodeAt(i), w)
    BY <1>12, <2>1
  <2>8. w \in OnStack'
    BY <1>7, <2>3, <2>7
  <2> QED
    BY <2>2, <2>6, <2>7, <2>8
<1>15. ASSUME NEW i \in DOMAIN workStack', NEW x \in OnStack', NEW y \in OnStack', Looked(x, y)',
              index[NodeAt(i)] <= index[x]
       PROVE  \E j \in DOMAIN workStack' :
                  j >= i /\ NodeAt(j)' = NodeAt(j) /\ lowlink'[NodeAt(j)] <= index[y]
  <2>1. i \in DOMAIN workStack /\ x \in OnStack /\ y \in OnStack /\ Looked(x, y)
    BY <1>1, <1>2, <1>3, <1>6, <1>15
  <2>2. index[y] \in Nat /\ index[y] < index[t]
    BY <1>7, <2>1
  <2>3. PICK j \in DOMAIN workStack : j >= i /\ lowlink[NodeAt(j)] <= index[y]
    BY <1>12, <1>15, <2>1
  <2>4. j # top
    BY <1>1, <1>7, <2>2, <2>3
  <2>5. j \in DOMAIN workStack'
    BY <1>2, <2>4
  <2> QED
    BY <1>1, <1>14, <2>3, <2>5
<1>16. Lowlinks'
  <2>1. ASSUME NEW i \in DOMAIN workStack'
        PROVE  /\ lowlink'[NodeAt(i)'] <= index'[NodeAt(i)']
               /\ \E v \in OnStack' : index'[v] = lowlink'[NodeAt(i)'] /\ Leads(NodeAt(i), v)'
    <3>1. NodeAt(i)' = NodeAt(i)
      BY <1>1
    <3> QED
      BY <1>1, <1>14, <3>1 DEF Leads
  <2>2. \A i \in DOMAIN workStack' : \A x, y \in OnStack' :
              Looked(x, y)' /\ index'[NodeAt(i)'] <= index'[x] =>
                  \E j \in DOMAIN workStack' : j >= i /\ lowlink'[NodeAt(j)'] <= index'[y]
    <3> SUFFICES ASSUME NEW i \in DOMAIN workStack', NEW x \in OnStack', NEW y \in OnStack',
                        Looked(x, y)', index[NodeAt(i)] <= index[x]
                 PROVE  \E j \in DOMAIN workStack' : j >= i /\ lowlink'[NodeAt(j)'] <= index[y]
      BY <1>1
    <3>1. PICK j \in DOMAIN workStack' :
              j >= i /\ NodeAt(j)' = NodeAt(j) /\ lowlink'[NodeAt(j)] <= index[y]
      BY <1>15
    <3> QED
      BY <3>1
  <2> QED
    BY <2>1, <2>2 DEF Lowlinks
<1> QED
  BY <1>9, <1>10, <1>13, <1>16 DEF CycleInv

-----------------------------------------------------------------------------
(* The walk. *)

LEMMA CycleStarts == CycleInit => CycleInv
<1> SUFFICES ASSUME CycleInit PROVE CycleInv
  OBVIOUS
<1>1. /\ index = << >> /\ lowlink = << >> /\ stack = << >> /\ workStack = << >> /\ sccs = {}
      /\ imports \subseteq Nodes \X Nodes
  BY CycleAssumption DEF CycleInit
<1>2. DOMAIN index = {} /\ DOMAIN lowlink = {} /\ DOMAIN stack = {} /\ DOMAIN workStack = {}
  BY <1>1
<1>3. Numbered = {} /\ OnStack = {} /\ Emitted = {}
  BY <1>1, <1>2 DEF Numbered, OnStack, Emitted, ToSet
<1>4. index \in [Numbered -> Nat] /\ lowlink \in [Numbered -> Nat]
  BY <1>1, <1>3
<1>5. stack \in Seq(Nodes) /\ workStack \in Seq([node : Nodes, todo : SUBSET Nodes])
  BY <1>1
<1>6. CycleTypes
  BY <1>1, <1>3, <1>4, <1>5 DEF CycleTypes
<1>7. Visits
  BY <1>2, <1>3 DEF Visits
<1>8. Emissions
  BY <1>1, <1>3 DEF Emissions
<1>9. Branch
  BY <1>2, <1>3 DEF Branch
<1>10. Lowlinks
  BY <1>2, <1>3 DEF Lowlinks
<1> QED
  BY <1>6, <1>7, <1>8, <1>9, <1>10 DEF CycleInv

LEMMA BeginKeeps == CycleInv /\ Begin => CycleInv'
<1> SUFFICES ASSUME CycleInv, Begin PROVE CycleInv'
  OBVIOUS
<1>1. workStack = << >>
  BY DEF Begin
<1>2. PICK n \in AdjKeys \ Numbered : Enter(n, workStack)
  BY DEF Begin
<1>3. workStack \in Seq(Frame) /\ AdjKeys \subseteq Nodes
  BY CycleData
<1>4. Taken(workStack, n)
  BY <1>1, <1>3 DEF Taken
<1> QED
  BY <1>1, <1>2, <1>3, <1>4, EnterKeeps

LEMMA NextLookKeeps == CycleInv /\ Look => CycleInv'
<1> SUFFICES ASSUME CycleInv, Look PROVE CycleInv'
  OBVIOUS
<1>1. workStack # << >>
  BY DEF Look
<1>2. PICK n \in Top.todo :
        LET looked == [workStack EXCEPT ![Len(workStack)].todo = @ \ {n}] IN
        \/ n \notin Numbered /\ Enter(n, looked)
        \/ /\ n \in Numbered
           /\ lowlink' = Lowered(n)
           /\ workStack' = looked
           /\ UNCHANGED <<imports, index, stack, sccs>>
  BY DEF Look
<1>3. PICK looked : looked = [workStack EXCEPT ![Len(workStack)].todo = @ \ {n}]
  OBVIOUS
<1>4. CASE n \notin Numbered /\ Enter(n, looked)
  <2>1. Taken(looked, n)
    BY <1>1, <1>3, TakesOne
  <2>2. PICK top : top = Len(workStack)
    OBVIOUS
  <2>3. /\ workStack \in Seq(Frame) /\ DOMAIN workStack = 1..top /\ top \in Nat
        /\ imports \subseteq Nodes \X Nodes
    BY <2>2, CycleData
  <2>4. top # 0
    BY <1>1, <2>2, <2>3
  <2>5. TodoAt(top) \subseteq Adj(NodeAt(top))
    BY <2>3, <2>4 DEF CycleInv, Visits
  <2>6. n \in Adj(Top.node)
    BY <2>2, <2>5 DEF Top, NodeAt, TodoAt
  <2>7. PICK e \in imports : e[1] = Top.node /\ e[2] = n
    BY <2>6 DEF Adj
  <2>8. <<Top.node, n>> \in imports
    BY <2>3, <2>7
  <2>9. n \in AdjKeys /\ n \in Nodes
    BY <2>3, <2>7 DEF AdjKeys
  <2> QED
    BY <1>4, <2>1, <2>8, <2>9, EnterKeeps
<1>5. CASE /\ n \in Numbered /\ lowlink' = Lowered(n) /\ workStack' = looked
           /\ UNCHANGED <<imports, index, stack, sccs>>
  BY <1>1, <1>3, <1>5, LookKeeps
<1> QED
  BY <1>2, <1>3, <1>4, <1>5

LEMMA NextFinishKeeps == CycleInv /\ Finish => CycleInv'
<1> SUFFICES ASSUME CycleInv, Finish PROVE CycleInv'
  OBVIOUS
<1>1. workStack # << >> /\ Top.todo = {}
  BY DEF Finish
<1>2. PICK t : t = Top.node
  OBVIOUS
<1>3. PICK top : top = Len(workStack)
  OBVIOUS
<1>4. Finished(t, top)
  BY <1>2, <1>3, FinishEffect
<1>5. CASE lowlink[t] = index[t]
  <2>1. PICK at : at = Place(t)
    OBVIOUS
  <2>2. /\ sccs' = sccs \cup {ToSet(SubSeq(stack, at, Len(stack)))}
        /\ stack' = Popped(at)
    <3>1. lowlink[Top.node] = index[Top.node]
      BY <1>2, <1>5
    <3>2. /\ sccs' = sccs \cup {ToSet(SubSeq(stack, Place(Top.node), Len(stack)))}
          /\ stack' = Popped(Place(Top.node))
      BY <3>1 DEF Finish, Place
    <3> QED
      BY <1>2, <2>1, <3>2
  <2> QED
    BY <1>1, <1>2, <1>4, <1>5, <2>1, <2>2, RootKeeps
<1>6. CASE lowlink[t] # index[t]
  <2>1. sccs' = sccs /\ stack' = stack
    BY <1>2, <1>6 DEF Finish
  <2> QED
    BY <1>4, <1>6, <2>1, FinishKeeps
<1> QED
  BY <1>5, <1>6

LEMMA CycleSteps == CycleInv /\ [CycleNext]_cycleVars => CycleInv'
<1> SUFFICES ASSUME CycleInv, [CycleNext]_cycleVars PROVE CycleInv'
  OBVIOUS
<1>1. CASE Begin
  BY <1>1, BeginKeeps
<1>2. CASE Look
  BY <1>2, NextLookKeeps
<1>3. CASE Finish
  BY <1>3, NextFinishKeeps
<1>4. CASE UNCHANGED cycleVars
  <2>1. /\ imports' = imports /\ index' = index /\ lowlink' = lowlink /\ stack' = stack
        /\ workStack' = workStack /\ sccs' = sccs
    BY <1>4 DEF cycleVars
  <2>2. Reaches' = Reaches
    BY <2>1, SameReach
  <2>3. CycleTypes'
    BY <2>1 DEF CycleInv, CycleTypes, Numbered, AdjKeys
  <2>4. Visits'
    <3>1. /\ Numbered' = Numbered /\ OnStack' = OnStack
          /\ \A i \in DOMAIN workStack : NodeAt(i)' = NodeAt(i) /\ TodoAt(i)' = TodoAt(i)
      BY <2>1 DEF Numbered, OnStack, NodeAt, TodoAt
    <3>2. Visits
      BY DEF CycleInv
    <3> QED
      BY <2>1, <3>1, <3>2 DEF Visits, NodeAt, TodoAt, Looked, Adj
  <2>5. Emissions'
    <3>1. Numbered' = Numbered /\ OnStack' = OnStack /\ Emitted' = Emitted
      BY <2>1 DEF Numbered, OnStack, Emitted
    <3>2. Emissions
      BY DEF CycleInv
    <3> QED
      BY <2>1, <2>2, <3>1, <3>2 DEF Emissions, GroupOf
  <2>6. Branch'
    BY <2>1, <2>2 DEF CycleInv, Branch, OnStack, NodeAt, Leads
  <2>7. Lowlinks'
    BY <2>1, <2>2 DEF CycleInv, Lowlinks, OnStack, NodeAt, TodoAt, Leads, Looked
  <2> QED
    BY <2>3, <2>4, <2>5, <2>6, <2>7 DEF CycleInv
<1> QED
  BY <1>1, <1>2, <1>3, <1>4 DEF CycleNext

(* What the invariant says of the components reported.                      *)
LEMMA CyclesFollow == CycleInv => CyclesAreSound
<1> SUFFICES ASSUME CycleInv PROVE CyclesAreSound
  OBVIOUS
<1>1. /\ imports \subseteq Nodes \X Nodes /\ Numbered \subseteq Nodes /\ AdjKeys \subseteq Nodes
      /\ index \in [Numbered -> Nat] /\ lowlink \in [Numbered -> Nat]
      /\ stack \in Seq(Nodes) /\ workStack \in Seq(Frame)
      /\ OnStack \subseteq Numbered
      /\ DOMAIN workStack = 1..Len(workStack)
  BY CycleData
<1>2. /\ Numbered = OnStack \cup Emitted
      /\ \A c \in sccs : c # {} /\ c \cap OnStack = {}
      /\ \A c \in sccs : \A n \in c : c = GroupOf(n, Reaches)
  BY DEF CycleInv, Emissions
<1>3. CycleTypeOK
  <2>1. IsInjective(stack)
    <3>1. \A i, j \in DOMAIN stack : i < j => index[stack[i]] < index[stack[j]]
      BY DEF CycleInv, Visits
    <3>2. ASSUME NEW i \in DOMAIN stack, NEW j \in DOMAIN stack, stack[i] = stack[j] PROVE i = j
      <4>1. index[stack[i]] \in Nat
        BY <1>1 DEF OnStack, ToSet
      <4>2. ~(i < j) /\ ~(j < i)
        BY <3>1, <3>2, <4>1
      <4>3. i \in Nat /\ j \in Nat
        BY <1>1
      <4> QED
        BY <4>2, <4>3
    <3> QED
      BY <3>2 DEF IsInjective
  <2>2. \A i \in 1..Len(workStack) :
            workStack[i].node \in OnStack /\ workStack[i].todo \subseteq Adj(workStack[i].node)
    BY <1>1 DEF CycleInv, Visits, NodeAt, TodoAt
  <2>3. Numbered \subseteq AdjKeys
    BY DEF CycleInv, CycleTypes
  <2> QED
    BY <1>1, <1>2, <2>1, <2>2, <2>3 DEF CycleTypeOK
<1>4. EmittedAreGroups
  BY <1>2 DEF EmittedAreGroups
<1>5. ASSUME AllNumbered
      PROVE  /\ DetectedCycles = {GroupOf(n, Reaches) : n \in OnCycle}
             /\ \A n \in Nodes : CyclesForFile(n) # {} <=> n \in OnCycle
  <2>1. workStack = << >> /\ AdjKeys \subseteq Numbered
    BY <1>5 DEF AllNumbered
  <2>2. OnStack = {}
    <3>1. DOMAIN workStack = {}
      BY <2>1
    <3> QED
      BY <3>1 DEF CycleInv, Branch
  <2>3. AdjKeys \subseteq Emitted /\ Emitted \subseteq Nodes
    BY <1>1, <1>2, <2>1, <2>2
  <2>4. ASSUME NEW n \in OnCycle
        PROVE  /\ n \in Nodes /\ GroupOf(n, Reaches) \in DetectedCycles
               /\ n \in GroupOf(n, Reaches)
    <3>1. n \in Nodes /\ <<n, n>> \in Reaches
      BY DEF OnCycle
    <3>2. PICK b \in Nodes : <<n, b>> \in imports /\ Leads(b, n)
      BY <1>1, <3>1, LeadsOn
    <3>3. n \in Emitted
      <4>1. n \in AdjKeys
        <5>1. PICK e : e = <<n, b>>
          OBVIOUS
        <5>2. e \in imports /\ e[1] = n
          BY <3>2, <5>1
        <5> QED
          BY <5>2 DEF AdjKeys
      <4> QED
        BY <2>3, <4>1
    <3>4. PICK c \in sccs : n \in c
      BY <3>3 DEF Emitted
    <3>5. c = GroupOf(n, Reaches)
      BY <1>2, <3>4
    <3>6. CASE b = n
      <4>1. n \in Adj(n)
        <5>1. PICK e : e = <<n, b>>
          OBVIOUS
        <5>2. e \in imports /\ e[1] = n /\ e[2] = n
          BY <3>2, <3>6, <5>1
        <5> QED
          BY <5>2 DEF Adj
      <4> QED
        BY <3>1, <3>4, <3>5, <4>1 DEF DetectedCycles
    <3>7. CASE b # n
      <4>1. PICK e : e = <<n, b>>
        OBVIOUS
      <4>2. Leads(e[1], e[2]) /\ e[1] = n /\ e[2] = b
        BY <1>1, <3>2, <4>1, LeadsOn
      <4>3. <<n, b>> \in Reaches /\ <<b, n>> \in Reaches
        BY <3>2, <3>7, <4>2 DEF Leads
      <4>4. b \in c
        BY <3>2, <3>5, <4>3 DEF GroupOf
      <4>5. c \subseteq Nodes /\ IsFiniteSet(c)
        <5>1. c \subseteq Nodes
          BY <2>3 DEF Emitted
        <5> QED
          BY <5>1, CycleAssumption, FS_Subset
      <4>6. Cardinality({n, b}) = 2
        <5>1. IsFiniteSet({n}) /\ Cardinality({n}) = 1
          BY FS_Singleton
        <5>2. Cardinality({n} \cup {b}) = 1 + 1
          BY <3>7, <5>1, FS_AddElement
        <5>3. {n} \cup {b} = {n, b}
          OBVIOUS
        <5> QED
          BY <5>2, <5>3
      <4>7. Cardinality({n, b}) <= Cardinality(c)
        BY <3>4, <4>4, <4>5, FS_Subset
      <4>8. Cardinality(c) \in Nat
        BY <4>5, FS_CardinalityType
      <4>9. Cardinality(c) > 1
        BY <4>6, <4>7, <4>8
      <4> QED
        BY <3>1, <3>4, <3>5, <4>9 DEF DetectedCycles
    <3> QED
      BY <3>6, <3>7
  <2>5. ASSUME NEW c \in DetectedCycles, NEW n \in c
        PROVE  n \in OnCycle /\ c = GroupOf(n, Reaches)
    <3>1. c \in sccs /\ (Cardinality(c) > 1 \/ \E m \in c : m \in Adj(m))
      BY DEF DetectedCycles
    <3>2. c = GroupOf(n, Reaches) /\ n \in Nodes /\ c \subseteq Nodes
      BY <1>2, <2>3, <3>1 DEF Emitted
    <3>3. CASE \E m \in c : m # n
      <4>1. PICK m \in c : m # n
        BY <3>3
      <4>2. <<n, m>> \in Reaches /\ <<m, n>> \in Reaches /\ m \in Nodes
        BY <3>2, <4>1 DEF GroupOf
      <4>3. Leads(m, n)
        BY <4>2 DEF Leads
      <4> QED
        BY <1>1, <3>2, <4>2, <4>3, LeadsOn DEF OnCycle
    <3>4. CASE \A m \in c : m = n
      <4>1. c = {n}
        BY <3>4
      <4>2. Cardinality(c) = 1
        BY <4>1, FS_Singleton
      <4>3. n \in Adj(n)
        <5>1. ~(1 > 1)
          OBVIOUS
        <5>2. \E m \in c : m \in Adj(m)
          BY <3>1, <4>2, <5>1
        <5> QED
          BY <3>4, <5>2
      <4>4. PICK e \in imports : e[1] = n /\ e[2] = n
        BY <4>3 DEF Adj
      <4>5. <<n, n>> \in imports
        <5>1. PICK x \in Nodes, y \in Nodes : e = <<x, y>>
          BY <1>1
        <5> QED
          BY <4>4, <5>1
      <4>6. <<n, n>> \in Reaches
        BY <1>1, <3>2, <4>5, ReachesIsReachability DEF Reachability
      <4> QED
        BY <3>2, <4>6 DEF OnCycle
    <3> QED
      BY <3>2, <3>3, <3>4
  <2>6. \A c \in DetectedCycles : c # {}
    BY <1>2 DEF DetectedCycles
  <2>7. DetectedCycles = {GroupOf(n, Reaches) : n \in OnCycle}
    <3>1. ASSUME NEW c \in DetectedCycles PROVE \E n \in OnCycle : c = GroupOf(n, Reaches)
      BY <2>5, <2>6
    <3>2. \A n \in OnCycle : GroupOf(n, Reaches) \in DetectedCycles
      BY <2>4
    <3> QED
      BY <3>1, <3>2
  <2>8. ASSUME NEW n \in Nodes
        PROVE  CyclesForFile(n) # {} <=> n \in OnCycle
    <3>1. ASSUME CyclesForFile(n) # {} PROVE n \in OnCycle
      BY <2>5, <3>1 DEF CyclesForFile
    <3>2. ASSUME n \in OnCycle PROVE CyclesForFile(n) # {}
      BY <2>4, <3>2 DEF CyclesForFile
    <3> QED
      BY <3>1, <3>2
  <2> QED
    BY <2>7, <2>8
<1>6. CyclesAreExact
  BY <1>5 DEF CyclesAreExact
<1> QED
  BY <1>3, <1>4, <1>6 DEF CyclesAreSound

(* The iterative walk of cycle-detection.ts is Tarjan's: whatever is        *)
(* emitted is exactly a group of files that import each other, and when all *)
(* files are numbered detect_cycles reports all the groups and              *)
(* get_cycles_for_file finds one exactly for the files on a cycle, for any  *)
(* imports among any number of files and any order of the edge rows.        *)
THEOREM CyclesStaySound == CycleSpec => []CyclesAreSound
<1>1. CycleInv => CyclesAreSound
  BY CyclesFollow
<1> QED
  BY CycleStarts, CycleSteps, <1>1, PTL DEF CycleSpec
=============================================================================
