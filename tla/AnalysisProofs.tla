--------------------------- MODULE AnalysisProofs ---------------------------
(***************************************************************************)
(* Theorems about the analyses: the search of module Search, the walk of   *)
(* Cascade and the change detection of ChangePropagation, for every set of *)
(* files, tokens, texts and edits.                                         *)
(***************************************************************************)
EXTENDS Cascade, ChangePropagation, Importance, Search, FiniteSetTheorems, SequenceTheorems,
        WellFoundedInduction, NaturalsInduction, TLAPS

(* A sequence of all elements of a finite set has each of them, once.       *)
LEMMA AllElements ==
    ASSUME NEW S, IsFiniteSet(S), NEW s \in SetToSeqs(S)
    PROVE  /\ s \in Seq(S) /\ IsInjective(s) /\ Len(s) = Cardinality(S)
           /\ DOMAIN s = 1..Cardinality(S) /\ Cardinality(S) \in Nat
           /\ \A x \in S : \E i \in DOMAIN s : s[i] = x
<1> PICK n : n = Cardinality(S)
  OBVIOUS
<1>1. n \in Nat
  BY FS_CardinalityType
<1>2. s \in [1..n -> S] /\ IsInjective(s)
  BY DEF SetToSeqs, IsInjective
<1>3. s \in Injection(1..n, S)
  BY <1>2 DEF Injection
<1>4. Cardinality(1..n) = n
  BY <1>1, FS_Interval
<1>5. s \in Surjection(1..n, S)
  BY <1>3, <1>4, FS_Injection
<1>6. \A x \in S : \E i \in 1..n : s[i] = x
  BY <1>5 DEF Surjection
<1>7. s \in Seq(S) /\ Len(s) = n
  BY <1>1, <1>2
<1> QED
  BY <1>1, <1>2, <1>6, <1>7

-----------------------------------------------------------------------------
(* Search. *)

\* A file that dominates another is found whenever that is, and ranks higher.
DominantIsAhead ==
    \A d, e \in Docs : Dominates(d, e) /\ e \in DOMAIN aggregate =>
        /\ d \in DOMAIN aggregate
        /\ aggregate[d].totalRank >= aggregate[e].totalRank
        /\ aggregate[d].hitCount >= aggregate[e].hitCount

\* The tokens counted for a file are some of those already looked up.
HitsAreCounted ==
    \A d \in DOMAIN aggregate :
        /\ aggregate[d].totalRank \in Nat /\ aggregate[d].hitCount \in Nat \ {0}
        /\ aggregate[d].hitCount + Cardinality(query) <= Cardinality(Words)

SearchInv ==
    /\ rankOf \in [Docs -> [Words -> Ranks]] /\ importance \in [Docs -> Weights]
    /\ query = NoQuery => aggregate = <<>> /\ results = <<>>
    /\ query # NoQuery => query \subseteq Words
    /\ DOMAIN aggregate \subseteq Docs
    /\ HitsAreCounted
    /\ DominantIsAhead
    /\ ToSet(results) \subseteq DOMAIN aggregate /\ IsInjective(results) /\ Len(results) <= MaxItems
    /\ BetterIsFirst

(* What the ranks and the importance are, of any file and token.            *)
LEMMA SearchData ==
    ASSUME SearchInv, NEW d \in Docs
    PROVE  importance[d] \in Nat /\ \A t \in Words : rankOf[d][t] \in Nat
<1>1. Ranks \subseteq Nat /\ Weights \subseteq Nat
  BY SearchAssumption
<1> QED
  BY <1>1 DEF SearchInv

(* The search begins with nothing found.                                    *)
LEMMA SearchBegins == SearchInit => SearchInv
<1> SUFFICES ASSUME SearchInit
             PROVE  SearchInv
  OBVIOUS
<1>1. /\ aggregate = <<>> /\ results = <<>> /\ query = NoQuery
      /\ rankOf \in [Docs -> [Words -> Ranks]] /\ importance \in [Docs -> Weights]
  BY DEF SearchInit, NoResults
<1>2. DOMAIN aggregate = {} /\ DOMAIN results = {} /\ Len(results) = 0 /\ ToSet(results) = {}
  BY <1>1 DEF ToSet
<1>3. HitsAreCounted /\ DominantIsAhead /\ BetterIsFirst /\ IsInjective(results)
  BY <1>2 DEF HitsAreCounted, DominantIsAhead, BetterIsFirst, IsInjective
<1> QED
  BY <1>1, <1>2, <1>3, SearchAssumption DEF SearchInv

(* A token's rows: whatever hits no worse and is more important is among    *)
(* them, whichever rows the limit cuts.                                     *)
LEMMA RowsHaveDominant ==
    ASSUME SearchInv, NEW t \in Words, NEW rows \in RowsFor(t), NEW d \in Docs, NEW e \in rows,
           Dominates(d, e)
    PROVE  d \in rows
<1>1. e \in Docs /\ rankOf[e][t] > 0
  BY DEF RowsFor, Hits
<1>2. rankOf[d][t] >= rankOf[e][t] /\ importance[d] > importance[e]
  BY DEF Dominates
<1>3. d \in Hits(t) /\ Above(t, d, e)
  BY <1>1, <1>2, SearchData DEF Hits, Above
<1> QED
  BY <1>3 DEF RowsFor

(* A token's turn keeps the invariant.                                      *)
LEMMA LookUpKeeps ==
    ASSUME SearchInv, NEW t \in Words, LookUp(t)
    PROVE  SearchInv'
<1> PICK rows \in RowsFor(t) :
          aggregate' = [d \in DOMAIN aggregate \cup rows |->
                          IF d \in rows THEN Counted(t, d) ELSE aggregate[d]]
  BY DEF LookUp
<1>1. /\ query # NoQuery /\ query \subseteq Words /\ t \in query /\ results = <<>>
      /\ query' = query \ {t} /\ results' = results
      /\ rankOf' = rankOf /\ importance' = importance
  BY DEF LookUp, SearchInv, data, NoResults
<1>2. rows \subseteq Docs /\ \A d \in rows : rankOf[d][t] \in Nat \ {0}
  <2>1. rows \subseteq Docs /\ \A d \in rows : rankOf[d][t] > 0
    BY DEF RowsFor, Hits
  <2> QED
    BY <2>1, SearchData
<1>3. \A d \in DOMAIN aggregate :
          /\ aggregate[d].totalRank \in Nat /\ aggregate[d].hitCount \in Nat \ {0}
          /\ aggregate[d].hitCount + Cardinality(query) <= Cardinality(Words)
  BY DEF SearchInv, HitsAreCounted
\* What the turn adds to each file.
<1>4. DOMAIN aggregate' = DOMAIN aggregate \cup rows
  OBVIOUS
<1>5. \A d \in DOMAIN aggregate \ rows : aggregate'[d] = aggregate[d]
  OBVIOUS
<1>6. \A d \in rows \ DOMAIN aggregate :
          aggregate'[d].totalRank = rankOf[d][t] /\ aggregate'[d].hitCount = 1
  BY DEF Counted
<1>7. \A d \in rows \cap DOMAIN aggregate :
          /\ aggregate'[d].totalRank = aggregate[d].totalRank + rankOf[d][t]
          /\ aggregate'[d].hitCount = aggregate[d].hitCount + 1
  BY DEF Counted
<1>8. /\ Cardinality(query) \in Nat /\ Cardinality(query') = Cardinality(query) - 1
      /\ Cardinality(query) <= Cardinality(Words) /\ Cardinality(Words) \in Nat
  <2>1. IsFiniteSet(Words) /\ IsFiniteSet(query)
    BY <1>1, SearchAssumption, FS_Subset
  <2> QED
    BY <1>1, <2>1, FS_RemoveElement, FS_Subset, FS_CardinalityType
<1>9. HitsAreCounted'
  <2> SUFFICES ASSUME NEW d \in DOMAIN aggregate'
               PROVE  /\ aggregate'[d].totalRank \in Nat /\ aggregate'[d].hitCount \in Nat \ {0}
                      /\ aggregate'[d].hitCount + Cardinality(query') <= Cardinality(Words)
    BY DEF HitsAreCounted
  <2>1. CASE d \in DOMAIN aggregate \ rows
    BY <1>3, <1>5, <1>8, <2>1
  <2>2. CASE d \in rows \ DOMAIN aggregate
    BY <1>2, <1>6, <1>8, <2>2
  <2>3. CASE d \in rows \cap DOMAIN aggregate
    BY <1>2, <1>3, <1>7, <1>8, <2>3
  <2> QED
    BY <1>4, <2>1, <2>2, <2>3
<1>10. DominantIsAhead'
  <2> SUFFICES ASSUME NEW d \in Docs, NEW e \in Docs, Dominates(d, e), e \in DOMAIN aggregate'
               PROVE  /\ d \in DOMAIN aggregate'
                      /\ aggregate'[d].totalRank >= aggregate'[e].totalRank
                      /\ aggregate'[d].hitCount >= aggregate'[e].hitCount
    BY <1>1 DEF DominantIsAhead, Dominates
  <2>1. e \in DOMAIN aggregate =>
          /\ d \in DOMAIN aggregate
          /\ aggregate[d].totalRank >= aggregate[e].totalRank
          /\ aggregate[d].hitCount >= aggregate[e].hitCount
    BY DEF SearchInv, DominantIsAhead
  <2>2. e \in rows => d \in rows /\ rankOf[d][t] >= rankOf[e][t]
    BY RowsHaveDominant DEF Dominates
  <2>3. CASE e \in DOMAIN aggregate \ rows
    <3>1. CASE d \in rows
      BY <1>2, <1>3, <1>4, <1>5, <1>7, <2>1, <2>3, <3>1
    <3>2. CASE d \notin rows
      BY <1>4, <1>5, <2>1, <2>3, <3>2
    <3> QED
      BY <3>1, <3>2
  <2>4. CASE e \in rows \ DOMAIN aggregate
    <3>1. CASE d \in DOMAIN aggregate
      BY <1>2, <1>3, <1>4, <1>6, <1>7, <2>2, <2>4, <3>1
    <3>2. CASE d \notin DOMAIN aggregate
      BY <1>4, <1>6, <2>2, <2>4, <3>2
    <3> QED
      BY <3>1, <3>2
  <2>5. CASE e \in rows \cap DOMAIN aggregate
    BY <1>2, <1>3, <1>4, <1>7, <2>1, <2>2, <2>5
  <2> QED
    BY <1>4, <2>3, <2>4, <2>5
<1>11. query' # NoQuery
  BY <1>1, SearchAssumption
<1> QED
  BY <1>1, <1>2, <1>4, <1>9, <1>10, <1>11 DEF SearchInv, BetterIsFirst, Dominates

(* The answer is the front of the ranking.                                  *)
LEMMA RespondKeeps ==
    ASSUME SearchInv, Respond
    PROVE  SearchInv'
<1> PICK s \in Sorted : results' = Cut(s)
  BY DEF Respond
<1> PICK n : n = IF Len(s) > MaxItems THEN MaxItems ELSE Len(s)
  OBVIOUS
<1>1. UNCHANGED <<rankOf, importance, query, aggregate>> /\ query # NoQuery
  BY DEF Respond, data, SearchInv
<1>2. IsFiniteSet(DOMAIN aggregate)
  BY SearchAssumption, FS_Subset DEF SearchInv
<1>3. /\ s \in Seq(DOMAIN aggregate) /\ IsInjective(s) /\ DOMAIN s = 1..Len(s) /\ Len(s) \in Nat
      /\ \A d \in DOMAIN aggregate : \E i \in 1..Len(s) : s[i] = d
      /\ \A i, j \in DOMAIN s : i < j => ~Before(s[j], s[i])
  BY <1>2, AllElements DEF Sorted
<1>4. n \in Nat /\ n <= Len(s) /\ n <= MaxItems /\ Len(s) \in Nat
  <2>1. Len(s) \in Nat /\ MaxItems \in Nat
    BY <1>3, SearchAssumption
  <2> QED
    BY <2>1
<1>e. \A i \in 1..n : i \in DOMAIN s /\ i \in Nat /\ s[i] \in DOMAIN aggregate
  <2>1. \A i \in 1..n : i \in 1..Len(s) /\ i \in Nat
    BY <1>4
  <2> QED
    BY <1>3, <2>1
<1>5. /\ results' \in Seq(DOMAIN aggregate) /\ Len(results') = n /\ DOMAIN results' = 1..n
      /\ \A i \in 1..n : results'[i] = s[i]
  <2>2. results' = SubSeq(s, 1, n)
    BY DEF Cut
  <2>3. /\ SubSeq(s, 1, n) \in Seq(DOMAIN aggregate)
        /\ Len(SubSeq(s, 1, n)) = IF 1 <= n THEN n - 1 + 1 ELSE 0
        /\ \A i \in 1..(n - 1 + 1) : SubSeq(s, 1, n)[i] = s[1 + i - 1]
    BY <1>4, <1>e, SubSeqProperties
  <2> QED
    BY <1>4, <2>2, <2>3
<1>6. ToSet(results') \subseteq DOMAIN aggregate /\ IsInjective(results')
  <2>1. \A i, j \in 1..n : s[i] = s[j] => i = j
    BY <1>3, <1>e DEF IsInjective
  <2> QED
    BY <1>5, <1>e, <2>1 DEF ToSet, IsInjective
<1>7. BetterIsFirst'
  <2> SUFFICES ASSUME NEW i \in 1..n, NEW d \in Docs, Dominates(d, s[i])
               PROVE  \E j \in 1..(i - 1) : results'[j] = d
    BY <1>1, <1>5 DEF BetterIsFirst, Dominates
  <2> PICK e : e = s[i]
    OBVIOUS
  <2>1. i \in DOMAIN s /\ i \in Nat /\ e \in DOMAIN aggregate /\ e \in Docs
    BY <1>e DEF SearchInv
  <2>2. /\ d \in DOMAIN aggregate
        /\ aggregate[d].totalRank >= aggregate[e].totalRank
        /\ aggregate[d].hitCount >= aggregate[e].hitCount
        /\ aggregate[d].totalRank \in Nat /\ aggregate[d].hitCount \in Nat
        /\ aggregate[e].totalRank \in Nat /\ aggregate[e].hitCount \in Nat
    BY <2>1 DEF SearchInv, DominantIsAhead, HitsAreCounted
  <2>3. importance[d] > importance[e] /\ importance[d] \in Nat /\ importance[e] \in Nat
    BY <2>1, SearchData DEF Dominates
  <2>4. Before(d, e)
    BY <2>2, <2>3 DEF Before
  <2>5. PICK j \in 1..Len(s) : s[j] = d
    BY <1>3, <2>2
  <2>6. j # i
    BY <2>3, <2>5
  <2>7. ~(i < j)
    BY <1>3, <2>1, <2>4, <2>5
  <2>8. j \in 1..(i - 1) /\ j \in 1..n
    BY <1>4, <2>1, <2>6, <2>7
  <2> QED
    BY <1>5, <2>5, <2>8
<1> QED
  BY <1>1, <1>4, <1>5, <1>6, <1>7 DEF SearchInv, HitsAreCounted, DominantIsAhead, Dominates

(* Every step keeps the invariant.                                          *)
LEMMA SearchKeeps == SearchInv /\ [SearchNext]_searchVars => SearchInv'
<1> SUFFICES ASSUME SearchInv, [SearchNext]_searchVars
             PROVE  SearchInv'
  OBVIOUS
<1>1. ASSUME NEW phrases \in SUBSET Words, NEW words \in SUBSET Words, Tokenize(phrases, words)
      PROVE  SearchInv'
  <2>1. /\ aggregate = <<>> /\ results = <<>> /\ UNCHANGED <<rankOf, importance, aggregate, results>>
        /\ query' \subseteq Words
    BY <1>1 DEF Tokenize, SearchInv, data, tokenizeQuery
  <2>2. query' # NoQuery
    BY <2>1, SearchAssumption
  <2> QED
    BY <2>1, <2>2 DEF SearchInv, HitsAreCounted, DominantIsAhead, Dominates, BetterIsFirst
<1>2. ASSUME NEW t \in Words, LookUp(t)
      PROVE  SearchInv'
  BY <1>2, LookUpKeeps
<1>3. CASE Respond
  BY <1>3, RespondKeeps
<1>4. CASE UNCHANGED searchVars
  BY <1>4 DEF searchVars, data, SearchInv, HitsAreCounted, DominantIsAhead, Dominates, BetterIsFirst
<1> QED
  BY <1>1, <1>2, <1>3, <1>4 DEF SearchNext

(* searchFiles(), for every set of files and words, every limit on a        *)
(* token's rows and every order of the tokens: each file found is returned  *)
(* at most once, and none before one that every token hits no worse and     *)
(* that is more important.                                                  *)
THEOREM SearchStaysRanked == SearchSpec => []SearchIsRanked
<1>1. SearchInit => SearchInv
  BY SearchBegins
<1>2. SearchInv /\ [SearchNext]_searchVars => SearchInv'
  BY SearchKeeps
<1>3. SearchInv => SearchIsRanked
  <2> SUFFICES ASSUME SearchInv, NEW d \in DOMAIN aggregate
               PROVE  aggregate[d].hitCount \in 1..Cardinality(Words)
    BY DEF SearchInv, SearchIsRanked, SearchTypeOK
  <2>1. Cardinality(Words) \in Nat
    BY SearchAssumption, FS_CardinalityType
  <2>2. query # NoQuery /\ query \subseteq Words
    BY DEF SearchInv
  <2>3. Cardinality(query) \in Nat
    BY <2>2, SearchAssumption, FS_Subset, FS_CardinalityType
  <2> QED
    BY <2>1, <2>3 DEF SearchInv, HitsAreCounted
<1> QED
  BY <1>1, <1>2, <1>3, PTL DEF SearchSpec

-----------------------------------------------------------------------------
(* Functions that are defined from the value before. *)

(* A set of naturals that is not empty has a least element.                 *)
LEMMA LeastNat ==
    ASSUME NEW T \in SUBSET Nat, T # {}
    PROVE  \E n \in T : \A m \in T : n <= m
<1> DEFINE R == OpToRel(<, Nat)
<1>1. IsWellFoundedOn(R, Nat)
  BY NatLessThanWellFounded
<1>2. \A a, b \in Nat : a < b => <<a, b>> \in R
  BY Zenon DEF OpToRel
<1> HIDE DEF R
<1>3. \E x \in T : \A y \in T : ~ (<<y, x>> \in R)
  BY <1>1, WFMin
<1>4. PICK x \in T : \A y \in T : ~ (<<y, x>> \in R)
  BY <1>3
<1>5. \A y \in T : ~(y < x)
  BY <1>2, <1>4
<1> QED
  BY <1>5

(* A set of naturals that is bounded and not empty has a greatest element.  *)
LEMMA GreatestNat ==
    ASSUME NEW n \in Nat, NEW T \in SUBSET (0..n), T # {}
    PROVE  Max(T) \in T /\ \A m \in T : m <= Max(T)
<1> DEFINE U == {n - m : m \in T}
<1>1. U \in SUBSET Nat /\ U # {}
  <2>1. \A m \in T : n - m \in Nat
    OBVIOUS
  <2> QED
    BY <2>1
<1>2. \A u \in U : \E k \in T : u = n - k
  OBVIOUS
<1>3. \A m \in T : n - m \in U
  OBVIOUS
<1> HIDE DEF U
<1>4. PICK u \in U : \A v \in U : u <= v
  BY <1>1, LeastNat
<1>5. PICK k \in T : u = n - k
  BY <1>2
<1>6. \A m \in T : n - k <= n - m
  BY <1>3, <1>4, <1>5
<1>7. \A m \in T : m \in Nat /\ k \in Nat
  OBVIOUS
<1>8. \A m \in T : m <= k
  BY <1>6, <1>7
<1> QED
  BY <1>7, <1>8 DEF Max

\* There is a function on lo..hi that begins with base and goes on with next.
HasSolution(lo, hi, V, base, next) ==
    \E f \in [lo..hi -> V] :
        f = [i \in lo..hi |-> IF i = lo THEN base ELSE next[<<i, f[i - 1]>>]]

(* A function that is defined from its value before exists.                 *)
LEMMA PrimitiveRecursion ==
    ASSUME NEW lo \in Nat, NEW hi \in Nat, NEW V, NEW base \in V, NEW next,
           \A i \in lo..hi, v \in V : next[<<i, v>>] \in V
    PROVE  HasSolution(lo, hi, V, base, next)
<1> DEFINE Bad == {n \in lo..hi : ~HasSolution(lo, n, V, base, next)}
<1>1. Bad \in SUBSET Nat
  OBVIOUS
<1>2. Bad = {}
  <2> SUFFICES ASSUME Bad # {}
               PROVE  FALSE
    OBVIOUS
  <2>1. PICK n \in Bad : \A k \in Bad : n <= k
    <3> HIDE DEF Bad
    <3> QED
      BY <1>1, LeastNat
  <2>2. n \in lo..hi /\ n \in Nat /\ ~HasSolution(lo, n, V, base, next)
    OBVIOUS
  <2>3. CASE n = lo
    <3> DEFINE f == [i \in lo..lo |-> base]
    <3>1. f \in [lo..lo -> V] /\ f = [i \in lo..lo |-> IF i = lo THEN base ELSE next[<<i, f[i - 1]>>]]
      OBVIOUS
    <3> QED
      BY <2>2, <2>3, <3>1 DEF HasSolution
  <2>4. CASE n # lo
    <3>1. n - 1 \in lo..hi /\ n - 1 \in Nat /\ n - 1 < n
      BY <2>2, <2>4
    <3>2. HasSolution(lo, n - 1, V, base, next)
      BY <2>1, <3>1
    <3>3. PICK g \in [lo..(n - 1) -> V] :
            g = [i \in lo..(n - 1) |-> IF i = lo THEN base ELSE next[<<i, g[i - 1]>>]]
      BY <3>2 DEF HasSolution
    <3> DEFINE f == [i \in lo..n |-> IF i = n THEN next[<<n, g[n - 1]>>] ELSE g[i]]
    <3>4. f \in [lo..n -> V]
      BY <2>2, <2>4, <3>1
    <3>5. \A i \in lo..(n - 1) : f[i] = g[i]
      BY <3>1
    <3>6. ASSUME NEW i \in lo..n
          PROVE  f[i] = IF i = lo THEN base ELSE next[<<i, f[i - 1]>>]
      <4>1. CASE i = n
        <5>1. f[i] = next[<<n, g[n - 1]>>]
          BY <4>1
        <5>2. n - 1 \in lo..(n - 1)
          BY <2>2, <2>4
        <5> HIDE DEF f
        <5>3. f[n - 1] = g[n - 1]
          BY <3>5, <5>2
        <5> QED
          BY <2>4, <4>1, <5>1, <5>3
      <4>2. CASE i # n
        <5>1. i \in lo..(n - 1) /\ f[i] = g[i]
          BY <3>1, <3>5, <4>2
        <5>2. i # lo => i - 1 \in lo..(n - 1)
          BY <5>1
        <5> HIDE DEF f
        <5>3. i # lo => f[i - 1] = g[i - 1]
          BY <3>5, <5>2
        <5>4. g[i] = IF i = lo THEN base ELSE next[<<i, g[i - 1]>>]
          BY <3>3, <5>1
        <5> QED
          BY <5>1, <5>3, <5>4
      <4> QED
        BY <4>1, <4>2
    <3> HIDE DEF f
    <3>7. f = [i \in lo..n |-> IF i = lo THEN base ELSE next[<<i, f[i - 1]>>]]
      BY <3>4, <3>6
    <3> QED
      BY <2>2, <3>4, <3>7 DEF HasSolution
  <2> QED
    BY <2>3, <2>4
<1>3. CASE lo <= hi
  BY <1>2, <1>3
<1>4. CASE ~(lo <= hi)
  <2> DEFINE f == [i \in lo..hi |-> base]
  <2>1. lo..hi = {}
    BY <1>4
  <2>2. f \in [lo..hi -> V] /\ f = [i \in lo..hi |-> IF i = lo THEN base ELSE next[<<i, f[i - 1]>>]]
    BY <2>1
  <2> QED
    BY <2>2 DEF HasSolution
<1> QED
  BY <1>3, <1>4

-----------------------------------------------------------------------------
(* Change detection. *)

\* What computeSemanticDiff compares is the same in two snapshots.
SameSurface(p, q) ==
    /\ DOMAIN ByName(p.exports) = DOMAIN ByName(q.exports)
    /\ \A n \in DOMAIN ByName(p.exports) :
          ByName(p.exports)[n].signature = ByName(q.exports)[n].signature
    /\ ToSet(p.imports) = ToSet(q.imports)

Snapshots == {Snapshot(t) : t \in Texts}

(* The concatenation of sequences is one.                                   *)
LEMMA FlattenSeqType ==
    ASSUME NEW E, NEW seqs \in Seq(Seq(E)), Len(seqs) > 0
    PROVE  FlattenSeq(seqs) \in Seq(E)
<1> DEFINE n == Len(seqs)
           next == [p \in (1..n) \X Seq(E) |-> p[2] \o seqs[p[1]]]
           flatten == CHOOSE f : f = [i \in 1..n |-> IF i = 1 THEN seqs[i] ELSE f[i - 1] \o seqs[i]]
<1>1. n \in Nat /\ 1 \in 1..n /\ n \in 1..n
  OBVIOUS
<1>2. \A i \in 1..n : seqs[i] \in Seq(E)
  BY ElementOfSeq
<1>3. \A i \in 1..n, v \in Seq(E) : next[<<i, v>>] \in Seq(E)
  BY <1>2, ConcatProperties
<1>4. \A i \in 1..n, v \in Seq(E) : next[<<i, v>>] = v \o seqs[i]
  OBVIOUS
<1> HIDE DEF next, n
<1>5. HasSolution(1, n, Seq(E), seqs[1], next)
  BY <1>1, <1>2, <1>3, PrimitiveRecursion
<1>6. PICK g \in [1..n -> Seq(E)] : g = [i \in 1..n |-> IF i = 1 THEN seqs[1] ELSE next[<<i, g[i - 1]>>]]
  BY <1>5 DEF HasSolution
<1>7. g = [i \in 1..n |-> IF i = 1 THEN seqs[i] ELSE g[i - 1] \o seqs[i]]
  <2>1. \A i \in 1..n : i # 1 => i - 1 \in 1..n
    BY <1>1
  <2>2. ASSUME NEW i \in 1..n
        PROVE  g[i] = IF i = 1 THEN seqs[i] ELSE g[i - 1] \o seqs[i]
    <3>1. i # 1 => g[i - 1] \in Seq(E)
      BY <2>1
    <3>2. g[i] = IF i = 1 THEN seqs[1] ELSE next[<<i, g[i - 1]>>]
      BY <1>6
    <3> QED
      BY <1>4, <3>1, <3>2
  <2> QED
    BY <2>2
<1>8. flatten = [i \in 1..n |-> IF i = 1 THEN seqs[i] ELSE flatten[i - 1] \o seqs[i]]
  BY <1>7
<1>9. ASSUME NEW i \in 1..n
      PROVE  flatten[i] \in Seq(E)
  <2> HIDE DEF flatten
  <2> DEFINE Bad == {k \in 1..n : ~(flatten[k] \in Seq(E))}
  <2>1. Bad = {}
    <3> SUFFICES ASSUME Bad # {}
                 PROVE  FALSE
      OBVIOUS
    <3>1. Bad \in SUBSET Nat
      OBVIOUS
    <3>2. PICK k \in Bad : \A m \in Bad : k <= m
      <4> HIDE DEF Bad
      <4> QED
        BY <3>1, LeastNat
    <3>3. k \in 1..n /\ k \in Nat /\ ~(flatten[k] \in Seq(E))
      OBVIOUS
    <3>4. k # 1 /\ k - 1 \in 1..n /\ ~(k <= k - 1)
      BY <1>1, <1>2, <1>8, <3>3
    <3>5. flatten[k - 1] \in Seq(E)
      BY <3>2, <3>4
    <3>6. flatten[k] = flatten[k - 1] \o seqs[k]
      BY <1>8, <3>3, <3>4
    <3> QED
      BY <1>2, <3>3, <3>5, <3>6, ConcatProperties
  <2> QED
    BY <2>1
<1>10. FlattenSeq(seqs) = flatten[n]
  BY <1>1 DEF FlattenSeq, n
<1> QED
  BY <1>1, <1>9, <1>10

(* The exports of a snapshot are a sequence.                                *)
LEMMA ExportsAreSequence ==
    ASSUME NEW t \in Texts
    PROVE  Snapshot(t).exports \in Seq(ToSet(Snapshot(t).exports))
<1> DEFINE exportsOf == [i \in DOMAIN t |-> ExportsOf(t[i])]
           E == UNION {ToSet(exportsOf[i]) : i \in DOMAIN t}
<1>1. /\ t \in Seq(ToSet(t))
      /\ \A i \in DOMAIN t : IsDecl(t[i]) => t[i].binds \in Seq(ToSet(t[i].binds))
  BY ChangeAssumption DEF IsSequence
<1>2. DOMAIN t = 1..Len(t) /\ Len(t) \in Nat
  BY <1>1
<1>3. ASSUME NEW i \in DOMAIN t
      PROVE  exportsOf[i] \in Seq(E)
  <2> DEFINE s == t[i]
  <2>1. exportsOf[i] = ExportsOf(s)
    OBVIOUS
  <2>2. \A j \in DOMAIN exportsOf[i] : exportsOf[i][j] \in E
    BY DEF ToSet
  <2>3. \E m \in Nat : ExportsOf(s) = [j \in 1..m |-> ExportsOf(s)[j]]
    <3>1. CASE IsDecl(s) /\ s.exported # "no"
      <4>1. ExportsOf(s) = [j \in DOMAIN s.binds |-> ExportsOf(s)[j]]
        BY <3>1 DEF ExportsOf
      <4>2. DOMAIN s.binds = 1..Len(s.binds) /\ Len(s.binds) \in Nat
        BY <1>1, <3>1
      <4> QED
        BY <4>1, <4>2
    <3>2. CASE ~(IsDecl(s) /\ s.exported # "no") /\ s.stmt = "value"
      <4>1. PICK x : ExportsOf(s) = <<x>>
        BY <3>2, Zenon DEF ExportsOf
      <4> QED
        BY <4>1
    <3>3. CASE ~(IsDecl(s) /\ s.exported # "no") /\ s.stmt # "value"
      <4>1. ExportsOf(s) = << >>
        BY <3>3, Zenon DEF ExportsOf
      <4>2. \A u : u = << >> => u = [j \in 1..0 |-> u[j]]
        OBVIOUS
      <4>3. ExportsOf(s) = [j \in 1..0 |-> ExportsOf(s)[j]]
        BY <4>1, <4>2
      <4> QED
        BY <4>3
    <3> QED
      BY <3>1, <3>2, <3>3
  <2>4. PICK m \in Nat : exportsOf[i] = [j \in 1..m |-> exportsOf[i][j]]
    BY <2>1, <2>3
  <2> HIDE DEF exportsOf, E
  <2>6. exportsOf[i] \in [1..m -> E]
    BY <2>2, <2>4
  <2> QED
    BY <2>6
<1>4. exportsOf \in Seq(Seq(E)) /\ Len(exportsOf) = Len(t)
  <2>1. exportsOf \in [1..Len(t) -> Seq(E)]
    BY <1>2, <1>3
  <2> HIDE DEF exportsOf, E
  <2> QED
    BY <1>2, <2>1
<1>5. Snapshot(t).exports = FlattenSeq(exportsOf)
  BY DEF Snapshot
<1> HIDE DEF exportsOf, E
<1>6. \E F : FlattenSeq(exportsOf) \in Seq(F)
  <2>1. CASE Len(t) = 0
    <3>1. FlattenSeq(exportsOf) = exportsOf
      BY <1>4, <2>1 DEF FlattenSeq
    <3> QED
      BY <1>4, <3>1
  <2>2. CASE Len(t) # 0
    <3>1. Len(exportsOf) > 0
      BY <1>2, <1>4, <2>2
    <3> QED
      BY <1>4, <3>1, FlattenSeqType
  <2> QED
    BY <2>1, <2>2
<1>7. PICK F : Snapshot(t).exports \in Seq(F)
  BY <1>5, <1>6
<1> QED
  <2> DEFINE e == Snapshot(t).exports
  <2>1. e \in [1..Len(e) -> F] /\ Len(e) \in Nat
    BY <1>7
  <2> HIDE DEF e
  <2>2. e \in [1..Len(e) -> ToSet(e)]
    BY <2>1 DEF ToSet
  <2>3. e \in Seq(ToSet(e))
    BY <2>1, <2>2
  <2> QED
    BY <2>3 DEF e

(* A name stands for the last export that has it.                           *)
LEMMA ByNameFinds ==
    ASSUME NEW e, e \in Seq(ToSet(e)), NEW n \in DOMAIN ByName(e)
    PROVE  ByName(e)[n] \in ToSet(e) /\ ByName(e)[n].name = n
<1> DEFINE I == {i \in 1..Len(e) : e[i].name = n}
<1>1. DOMAIN e = 1..Len(e) /\ Len(e) \in Nat
  OBVIOUS
<1>2. I \in SUBSET (0..Len(e)) /\ I # {}
  BY <1>1 DEF ByName, ToSet
<1>3. ByName(e)[n] = e[Max(I)]
  BY <1>2 DEF ByName, SelectLastInSeq
<1>4. \A i \in I : e[i] \in ToSet(e) /\ e[i].name = n
  BY <1>1 DEF ToSet
<1> HIDE DEF I
<1>5. Max(I) \in I
  BY <1>1, <1>2, GreatestNat
<1> QED
  BY <1>3, <1>4, <1>5

(* The diff of two snapshots affects the dependents exactly when what it    *)
(* compares differs.                                                        *)
LEMMA DiffTells ==
    ASSUME NEW p, NEW q
    PROVE  /\ computeSemanticDiff(p, q) \in Verdicts
           /\ computeSemanticDiff(p, q).affects <=> ~SameSurface(p, q)
<1> DEFINE a == ByName(p.exports)
           b == ByName(q.exports)
           differ == Differing(a, b) # {}
<1>1. differ \/ ImportsChanged(p, q) <=> ~SameSurface(p, q)
  <2> HIDE DEF a, b
  <2>1. Differing(a, b) # {} <=>
          \/ DOMAIN a # DOMAIN b
          \/ \E n \in DOMAIN a \cap DOMAIN b : a[n].signature # b[n].signature
    BY DEF Differing
  <2>2. SameSurface(p, q) <=>
          /\ DOMAIN a = DOMAIN b
          /\ \A n \in DOMAIN a : a[n].signature = b[n].signature
          /\ ToSet(p.imports) = ToSet(q.imports)
    BY DEF a, b, SameSurface
  <2> QED
    BY <2>1, <2>2 DEF ImportsChanged
<1>2. computeSemanticDiff(p, q) =
        [type |-> IF ~differ /\ ~ImportsChanged(p, q) THEN "body-only"
                  ELSE IF differ /\ OnlyTypes(a, b) THEN "types-changed" ELSE "exports-changed",
         affects |-> differ \/ ImportsChanged(p, q)]
  BY Zenon DEF computeSemanticDiff
<1>3. differ \in BOOLEAN /\ ImportsChanged(p, q) \in BOOLEAN
  BY DEF ImportsChanged
<1> HIDE DEF differ, a, b
<1> QED
  BY <1>1, <1>2, <1>3 DEF Verdicts

(* The names and signatures a snapshot exports, if each name comes once.    *)
LEMMA NamedOnce ==
    ASSUME NEW s, s.exports \in Seq(ToSet(s.exports)), Distinct(s),
           NEW e \in ToSet(s.exports), NEW f \in ToSet(s.exports), e.name = f.name
    PROVE  e = f
<1>1. PICK i \in DOMAIN s.exports : e = s.exports[i]
  BY DEF ToSet
<1>2. PICK j \in DOMAIN s.exports : f = s.exports[j]
  BY DEF ToSet
<1> DEFINE g == [k \in DOMAIN s.exports |-> s.exports[k].name]
<1>3. IsInjective(g) /\ g[i] = g[j]
  BY <1>1, <1>2 DEF Distinct
<1>4. i = j
  BY <1>3 DEF IsInjective
<1> QED
  BY <1>1, <1>2, <1>4

LEMMA SurfacesTell ==
    ASSUME NEW p, NEW q, p.exports \in Seq(ToSet(p.exports)), q.exports \in Seq(ToSet(q.exports)),
           Distinct(p)
    PROVE  /\ Surface(p) = Surface(q) => SameSurface(p, q)
           /\ Distinct(q) /\ SameSurface(p, q) => Surface(p) = Surface(q)
<1> DEFINE a == ByName(p.exports)
           b == ByName(q.exports)
           P == ToSet(p.exports)
           Q == ToSet(q.exports)
           pairs(S) == {<<e.name, e.signature>> : e \in S}
<1>1. /\ DOMAIN a = {e.name : e \in P} /\ DOMAIN b = {e.name : e \in Q}
  BY DEF ByName
<1>2. \A n \in DOMAIN a : a[n] \in P /\ a[n].name = n
  BY ByNameFinds
<1>3. \A n \in DOMAIN b : b[n] \in Q /\ b[n].name = n
  BY ByNameFinds
<1>4. \A e, f \in P : e.name = f.name => e = f
  BY NamedOnce
<1>5. Distinct(q) => \A e, f \in Q : e.name = f.name => e = f
  BY NamedOnce
<1>6. Surface(p) = <<pairs(P), ToSet(p.imports)>> /\ Surface(q) = <<pairs(Q), ToSet(q.imports)>>
  BY DEF Surface
<1>7. SameSurface(p, q) <=>
          /\ DOMAIN a = DOMAIN b
          /\ \A n \in DOMAIN a : a[n].signature = b[n].signature
          /\ ToSet(p.imports) = ToSet(q.imports)
  BY DEF SameSurface
<1> HIDE DEF a, b, P, Q
<1>8. ASSUME pairs(P) = pairs(Q)
      PROVE  /\ DOMAIN a = DOMAIN b
             /\ \A n \in DOMAIN a : a[n].signature = b[n].signature
  <2>1. \A e \in P : \E f \in Q : e.name = f.name /\ e.signature = f.signature
    <3> SUFFICES ASSUME NEW e \in P
                 PROVE  \E f \in Q : e.name = f.name /\ e.signature = f.signature
      OBVIOUS
    <3>1. <<e.name, e.signature>> \in pairs(Q)
      BY <1>8
    <3> QED
      BY <3>1
  <2>2. \A f \in Q : \E e \in P : e.name = f.name /\ e.signature = f.signature
    <3> SUFFICES ASSUME NEW f \in Q
                 PROVE  \E e \in P : e.name = f.name /\ e.signature = f.signature
      OBVIOUS
    <3>1. <<f.name, f.signature>> \in pairs(P)
      BY <1>8
    <3> QED
      BY <3>1
  <2>3. DOMAIN a = DOMAIN b
    BY <1>1, <2>1, <2>2
  <2>4. ASSUME NEW n \in DOMAIN a
        PROVE  a[n].signature = b[n].signature
    <3>1. b[n] \in Q /\ b[n].name = n /\ a[n] \in P /\ a[n].name = n
      BY <1>2, <1>3, <2>3
    <3>2. PICK e \in P : e.name = n /\ e.signature = b[n].signature
      BY <2>2, <3>1
    <3> QED
      BY <1>4, <3>1, <3>2
  <2> QED
    BY <2>3, <2>4
<1>9. ASSUME Distinct(q), DOMAIN a = DOMAIN b,
             \A n \in DOMAIN a : a[n].signature = b[n].signature
      PROVE  pairs(P) = pairs(Q)
  <2>1. \A e \in P : e.name \in DOMAIN a /\ e = a[e.name]
    BY <1>1, <1>2, <1>4
  <2>2. \A f \in Q : f.name \in DOMAIN b /\ f = b[f.name]
    BY <1>1, <1>3, <1>5, <1>9
  <2>3. \A e \in P : \E f \in Q : <<e.name, e.signature>> = <<f.name, f.signature>>
    BY <1>3, <1>9, <2>1
  <2>4. \A f \in Q : \E e \in P : <<e.name, e.signature>> = <<f.name, f.signature>>
    BY <1>2, <1>9, <2>2
  <2> QED
    BY <2>3, <2>4
<1> HIDE DEF pairs
<1>10. Surface(p) = Surface(q) <=> pairs(P) = pairs(Q) /\ ToSet(p.imports) = ToSet(q.imports)
  BY <1>6
<1>11. Surface(p) = Surface(q) => SameSurface(p, q)
  BY <1>7, <1>8, <1>10
<1>12. Distinct(q) /\ SameSurface(p, q) => Surface(p) = Surface(q)
  BY <1>7, <1>9, <1>10
<1> QED
  BY <1>11, <1>12

\* The dependents were last marked for what the index remembers, except while
\* a verdict to mark them is on its way, or after a kill or a failed update
\* took one away.
ToldInv ==
    /\ ChangeTypeOK
    /\ event => text \in Texts
    /\ snapshot # None => snapshot \in Snapshots
    /\ told # None => told \in Snapshots
    /\ snapshot # None /\ ~severed /\ ~MeansCascade(verdict) =>
          told # None /\ SameSurface(told, snapshot)

LEMMA ToldInit == ChangeInit => ToldInv
<1> SUFFICES ASSUME ChangeInit
             PROVE  ToldInv
  OBVIOUS
<1>1. MaxEdits \in Nat /\ MaxKills \in Nat
  BY ChangeAssumption
<1>2. ChangeTypeOK
  <2>1. event = FALSE /\ severed = FALSE /\ importersStale = FALSE
    BY DEF ChangeInit
  <2>2. event \in BOOLEAN /\ severed \in BOOLEAN /\ importersStale \in BOOLEAN
    BY <2>1, Zenon
  <2>3. /\ text = << >> /\ snapshot = None /\ pc = "idle" /\ verdict = None /\ selfStale = {}
        /\ edits = 0 /\ kills = 0 /\ astParsed \in BOOLEAN /\ hasRow \in BOOLEAN
    BY DEF ChangeInit
  <2> QED
    BY <1>1, <2>2, <2>3 DEF ChangeTypeOK
<1> QED
  BY <1>2 DEF ChangeInit, ToldInv

LEMMA ToldKeeps == ToldInv /\ [ChangeNext]_changeVars => ToldInv'
<1> SUFFICES ASSUME ToldInv, [ChangeNext]_changeVars
             PROVE  ToldInv'
  OBVIOUS
<1>0. MaxEdits \in Nat /\ MaxKills \in Nat
  BY ChangeAssumption
<1>1. CASE EditFile
  <2>1. /\ UNCHANGED <<astParsed, hasRow, snapshot, pc, verdict, selfStale, importersStale, told, severed, kills>>
        /\ text' \in Texts /\ event' = TRUE /\ edits' = edits + 1 /\ edits < MaxEdits
    BY <1>1 DEF EditFile
  <2> QED
    BY <1>0, <2>1 DEF ToldInv, ChangeTypeOK, Snapshots
<1>2. CASE Classify
  <2>1. /\ pc = "idle" /\ event /\ event' = FALSE /\ pc' = "update"
        /\ UNCHANGED <<astParsed, text, selfStale, importersStale, told, severed, edits, kills>>
    BY <1>2 DEF Classify
  <2>2. text \in Texts
    BY <2>1 DEF ToldInv
  <2>3. Unknown \in Verdicts /\ Unknown.affects
    BY DEF Unknown, Verdicts
  <2>. USE DEF MeansCascade
  <2>6. \A v \in Verdicts : v # None
    BY ChangeAssumption
  <2>4. CASE ClassifyUnknown
    <3>1. verdict' = Unknown /\ UNCHANGED <<hasRow, snapshot>>
      BY <2>4 DEF ClassifyUnknown
    <3> QED
      BY <1>0, <2>1, <2>2, <2>3, <2>6, <3>1 DEF ToldInv, ChangeTypeOK, Snapshots
  <2>5. CASE ClassifyWithAst
    <3>1. snapshot' = Snapshot(text) /\ hasRow' = TRUE /\ snapshot' \in Snapshots
      BY <2>2, <2>5 DEF ClassifyWithAst, setExportsSnapshot, Snapshots
    <3>2. CASE getExportsSnapshot = None
      <4>1. verdict' = Unknown
        BY <2>5, <3>2 DEF ClassifyWithAst
      <4> QED
        BY <1>0, <2>1, <2>2, <2>3, <2>6, <3>1, <4>1 DEF ToldInv, ChangeTypeOK, Snapshots
    <3>3. CASE getExportsSnapshot # None
      <4>1. getExportsSnapshot = snapshot /\ snapshot # None
        BY <3>3 DEF getExportsSnapshot
      <4>2. verdict' = computeSemanticDiff(snapshot, snapshot')
        BY <2>5, <3>1, <3>3, <4>1 DEF ClassifyWithAst
      <4>3. PICK old : old = snapshot
        OBVIOUS
      <4>4. PICK new : new = snapshot'
        OBVIOUS
      <4>5. verdict' \in Verdicts /\ (verdict'.affects <=> ~SameSurface(old, new))
        BY <4>2, <4>3, <4>4, DiffTells
      <4>9. ~MeansCascade(verdict)
        BY <2>1 DEF ToldInv, ChangeTypeOK
      <4>10. ~severed => told # None /\ SameSurface(told, old)
        BY <4>1, <4>3, <4>9 DEF ToldInv
      <4>6. ~severed /\ ~verdict'.affects => told # None /\ SameSurface(told, new)
        BY <4>5, <4>10 DEF SameSurface
      <4>7. ChangeTypeOK'
        BY <1>0, <2>1, <2>2, <3>1, <4>5 DEF ToldInv, ChangeTypeOK, Snapshots
      <4>8. ~severed' /\ ~verdict'.affects => told' # None /\ SameSurface(told, new)' 
        BY <2>1, <4>4, <4>6 DEF SameSurface
      <4> QED
        BY <2>1, <2>2, <2>6, <3>1, <4>4, <4>5, <4>7, <4>8 DEF ToldInv
    <3> QED
      BY <3>2, <3>3
  <2>7. CASE ClassifyThrows
    <3>1. verdict' = None /\ UNCHANGED <<hasRow, snapshot>> /\ verdict = None
      BY <2>1, <2>7 DEF ClassifyThrows, ToldInv, ChangeTypeOK
    <3> QED
      BY <1>0, <2>1, <2>2, <3>1 DEF ToldInv, ChangeTypeOK, Snapshots, SameSurface
  <2> QED
    BY <1>2, <2>4, <2>5, <2>7 DEF Classify
<1>3. CASE UpdateReturns
  BY <1>0, <1>3 DEF UpdateReturns, ToldInv, ChangeTypeOK, Snapshots, SameSurface, MeansCascade
<1>8. CASE UpdateThrows
  <2>1. /\ pc = "update" /\ pc' = "idle" /\ verdict' = None
        /\ severed' = (severed \/ MeansCascade(verdict))
        /\ UNCHANGED <<astParsed, text, event, hasRow, snapshot, selfStale, importersStale, told, edits, kills>>
    BY <1>8 DEF UpdateThrows
  <2>2. severed' \in BOOLEAN /\ (~severed' => ~severed /\ ~MeansCascade(verdict))
    BY <2>1, Zenon
  <2>3. ChangeTypeOK'
    BY <1>0, <2>1, <2>2 DEF ToldInv, ChangeTypeOK
  <2>4. snapshot # None /\ ~severed' => told' # None /\ SameSurface(told, snapshot)'
    BY <2>1, <2>2 DEF ToldInv, SameSurface
  <2> QED
    BY <2>1, <2>3, <2>4 DEF ToldInv, Snapshots
<1>4. CASE Dispatch
  <2>1. /\ pc = "dispatch" /\ pc' = "idle" /\ verdict' = None
        /\ severed' = (severed /\ ~MeansCascade(verdict))
        /\ UNCHANGED <<astParsed, text, event, hasRow, snapshot, edits, kills>>
    BY <1>4 DEF Dispatch
  <2>2. severed' \in BOOLEAN /\ verdict \in Verdicts \cup {None} /\ severed \in BOOLEAN
    BY <2>1 DEF ToldInv, ChangeTypeOK
  <2>3. CASE verdict = None
    <3>1. UNCHANGED <<selfStale, importersStale, told>> /\ severed' = severed
      BY <1>4, <2>1, <2>2, <2>3 DEF Dispatch, MeansCascade
    <3> QED
      BY <1>0, <2>1, <2>3, <3>1 DEF ToldInv, ChangeTypeOK, Snapshots, SameSurface, MeansCascade
  <2>4. CASE verdict # None /\ Cascade(verdict)
    <3>1. /\ selfStale' = Marked({"summary", "concepts", "change_impact"})
          /\ importersStale' = TRUE /\ told' = snapshot
      BY <2>4 DEF Cascade
    <3> QED
      BY <1>0, <2>1, <2>2, <2>4, <3>1 DEF ToldInv, ChangeTypeOK, Snapshots, SameSurface, Marked
  <2>5. CASE verdict # None /\ MarkSelf(verdict)
    <3>1. /\ selfStale' = Marked({"summary", "concepts"})
          /\ UNCHANGED <<importersStale, told>> /\ ~MeansCascade(verdict)
      BY <2>5 DEF MarkSelf, Cascades, MeansCascade
    <3>2. severed' = severed
      BY <2>1, <2>2, <3>1
    <3> QED
      BY <1>0, <2>1, <2>2, <3>1, <3>2 DEF ToldInv, ChangeTypeOK, Snapshots, SameSurface, Marked
  <2> QED
    BY <1>4, <2>3, <2>4, <2>5 DEF Dispatch
<1>5. CASE Regenerate
  BY <1>0, <1>5 DEF Regenerate, ToldInv, ChangeTypeOK, Snapshots, SameSurface
<1>6. CASE Kill
  <2>1. /\ kills < MaxKills /\ kills' = kills + 1 /\ event' = FALSE /\ pc' = "idle" /\ verdict' = None
        /\ severed' = (severed \/ MeansCascade(verdict))
        /\ UNCHANGED <<astParsed, text, hasRow, snapshot, selfStale, importersStale, told, edits>>
    BY <1>6 DEF Kill
  <2>2. ~severed' => ~severed /\ ~MeansCascade(verdict)
    BY <2>1
  <2>3. severed' \in BOOLEAN
    BY <2>1
  <2>4. ChangeTypeOK'
    <3>1. event' \in BOOLEAN
      BY <2>1, Zenon
    <3>2. /\ UNCHANGED <<astParsed, text, hasRow, snapshot, selfStale, importersStale, edits>>
          /\ kills < MaxKills /\ kills' = kills + 1 /\ pc' = "idle" /\ verdict' = None
      BY <2>1
    <3> QED
      BY <1>0, <2>3, <3>1, <3>2 DEF ToldInv, ChangeTypeOK
  <2>5. snapshot # None /\ ~severed' => told' # None /\ SameSurface(told, snapshot)'
    BY <2>1, <2>2 DEF ToldInv, SameSurface
  <2> QED
    BY <2>1, <2>4, <2>5 DEF ToldInv, Snapshots
<1>7. CASE UNCHANGED changeVars
  BY <1>7 DEF changeVars, ToldInv, ChangeTypeOK, Snapshots, SameSurface
<1> QED
  BY <1>1, <1>2, <1>3, <1>4, <1>5, <1>6, <1>7, <1>8 DEF ChangeNext

(* Whatever order edits, errors, regenerations and kills come in, the       *)
(* dependents of a file have been marked for the exports and imports that the index       *)
(* remembers, unless a kill or a failed update came between; and no step    *)
(* marks them when these have only changed their order.                     *)
THEOREM CascadesStayRight == ChangeSpec => CascadesFollowExports
<1>1. ChangeInit => ToldInv
  BY ToldInit
<1>2. ToldInv /\ [ChangeNext]_changeVars => ToldInv'
  BY ToldKeeps
<1>3. ToldInv => ChangeTypeOK /\ DependentsWereTold
  <2> SUFFICES ASSUME ToldInv, pc = "idle", snapshot # None, ~severed
               PROVE  told # None /\ (Distinct(told) /\ Distinct(snapshot) => Surface(told) = Surface(snapshot))
    BY DEF ToldInv, DependentsWereTold
  <2>3. ~MeansCascade(verdict)
    BY DEF ToldInv, ChangeTypeOK, MeansCascade
  <2>1. told # None /\ SameSurface(told, snapshot) /\ told \in Snapshots /\ snapshot \in Snapshots
    BY <2>3 DEF ToldInv
  <2>2. \A s \in Snapshots : s.exports \in Seq(ToSet(s.exports))
    BY ExportsAreSequence DEF Snapshots
  <2> QED
    BY <2>1, <2>2, SurfacesTell
<1>4. ToldInv /\ [ChangeNext]_changeVars =>
        [ Classify /\ verdict' # None /\ verdict'.type # "unknown" /\ Distinct(snapshot)
            /\ Surface(snapshot) = Surface(snapshot') => ~verdict'.affects ]_changeVars
  <2> SUFFICES ASSUME ToldInv, Classify, verdict' # None, verdict'.type # "unknown", Distinct(snapshot),
                      Surface(snapshot) = Surface(snapshot')
               PROVE  ~verdict'.affects
    OBVIOUS
  <2>1. Unknown.type = "unknown"
    BY DEF Unknown
  <2>2. ClassifyWithAst /\ getExportsSnapshot # None
    BY <2>1 DEF Classify, ClassifyWithAst, ClassifyUnknown, ClassifyThrows
  <2>3. getExportsSnapshot = snapshot /\ snapshot # None
    BY <2>2 DEF getExportsSnapshot
  <2>4. snapshot' = Snapshot(text) /\ verdict' = computeSemanticDiff(snapshot, Snapshot(text))
    BY <2>2, <2>3 DEF ClassifyWithAst, setExportsSnapshot
  <2>5. PICK new : new = Snapshot(text)
    OBVIOUS
  <2>6. text \in Texts
    BY DEF ToldInv, Classify
  <2>7. snapshot \in Snapshots /\ new \in Snapshots
    BY <2>3, <2>5, <2>6 DEF ToldInv, Snapshots
  <2>8. \A s \in Snapshots : s.exports \in Seq(ToSet(s.exports))
    BY ExportsAreSequence DEF Snapshots
  <2>9. SameSurface(snapshot, new)
    <3>1. Surface(snapshot) = Surface(new)
      BY <2>4, <2>5
    <3> QED
      BY <2>7, <2>8, <3>1, SurfacesTell
  <2> QED
    BY <2>4, <2>5, <2>9, DiffTells
<1> QED
  BY <1>1, <1>2, <1>3, <1>4, PTL DEF ChangeSpec, CascadesFollowExports, NoSpuriousCascade

-----------------------------------------------------------------------------
(* Calls. *)

(* The frames of a declaration are named after one of what it declares, and *)
(* the innermost begins where the declaration does.                         *)
LEMMA FramesAreDeclared ==
    ASSUME NEW t \in Texts, NEW i \in DOMAIN t, IsDecl(t[i]), Frames(t, i) # << >>
    PROVE  /\ \E b \in ToSet(t[i].binds) : Last(Frames(t, i)) = [name |-> b.name, line |-> DeclLine(t, i)]
           /\ t[i].decl \in {"function", "class", "const", "let"}
<1> DEFINE s == t[i]
           holds(b) == b.value \in {"arrow", "function"}
           I == {j \in 1..Len(s.binds) : holds(s.binds[j])}
           holder == IF I # {} THEN Min(I) ELSE 0
<1>1. s.binds \in Seq(ToSet(s.binds)) /\ (HasBody(s) => s.binds # << >>)
  BY ChangeAssumption DEF IsSequence
<1>2. DOMAIN s.binds = 1..Len(s.binds) /\ Len(s.binds) \in Nat
  BY <1>1
<1>3. \A x, y : Last(<<x>> \o <<y>>) = y /\ Last(<< >> \o <<y>>) = y
  BY DEF Last
<1>4. CASE HasBody(s)
  <2>1. 1 \in DOMAIN s.binds
    BY <1>1, <1>2, <1>4
  <2>2. Last(Frames(t, i)) = [name |-> s.binds[1].name, line |-> DeclLine(t, i)]
    <3>1. CASE s.exported # "no"
      <4>1. Frames(t, i) = <<[name |-> s.binds[1].name, line |-> <<i, 0>>]>>
                             \o <<[name |-> s.binds[1].name, line |-> DeclLine(t, i)]>>
        BY <1>4, <3>1, Zenon DEF Frames
      <4> QED
        BY <1>3, <4>1, Zenon
    <3>2. CASE ~(s.exported # "no")
      <4>1. Frames(t, i) = << >> \o <<[name |-> s.binds[1].name, line |-> DeclLine(t, i)]>>
        BY <1>4, <3>2, Zenon DEF Frames
      <4> QED
        BY <1>3, <4>1, Zenon
    <3> QED
      BY <3>1, <3>2
  <2> QED
    BY <1>4, <2>1, <2>2 DEF HasBody, ToSet
<1>5. CASE ~HasBody(s)
  <2>1. holder = SelectInSeq(s.binds, LAMBDA b : b.value \in {"arrow", "function"})
    BY DEF SelectInSeq
  <2>2. /\ s.decl \in {"const", "let"} /\ holder # 0
        /\ Frames(t, i) = <<[name |-> s.binds[holder].name, line |-> DeclLine(t, i)]>>
    <3> HIDE DEF holder
    <3> QED
      BY <1>5, <2>1 DEF Frames
  <2>3. holder \in DOMAIN s.binds
    <3>1. I \in SUBSET Nat /\ I # {}
      BY <2>2
    <3>2. \E n \in I : \A m \in I : n <= m
      <4> HIDE DEF I
      <4> QED
        BY <3>1, LeastNat
    <3>3. Min(I) \in I
      <4> HIDE DEF I
      <4> QED
        BY <3>2 DEF Min
    <3> QED
      BY <1>2, <3>1, <3>3
  <2> HIDE DEF holder
  <2>4. Last(Frames(t, i)) = [name |-> s.binds[holder].name, line |-> DeclLine(t, i)]
    BY <2>2 DEF Last
  <2> QED
    BY <2>2, <2>3, <2>4 DEF ToSet
<1> QED
  BY <1>4, <1>5

(* Every recorded call is made by a symbol of the index on the line that    *)
(* its row is looked up with, in a text without let and split declarations. *)
LEMMA CallersStand == text \in Texts \cup {<< >>} => CallersAreSymbols
<1> SUFFICES ASSUME text \in Texts \cup {<< >>}, NEW e \in CallEdges(text, Rows)
             PROVE  \/ \E s \in Symbols(text) : s.name = e.caller.name /\ s.line = e.caller.line
                    \/ \E s \in ToSet(text) : IsDecl(s) /\ (s.split \/ s.decl = "let")
  BY DEF CallersAreSymbols
<1>1. PICK c \in Candidates(text) : e.caller = c.caller
  BY DEF CallEdges
<1>2. PICK i \in DOMAIN text : /\ IsDecl(text[i]) /\ Frames(text, i) # << >>
                               /\ c.caller = Last(Frames(text, i))
  BY DEF Candidates
<1>3. text \in Texts
  BY <1>2
<1>4. PICK b \in ToSet(text[i].binds) :
          Last(Frames(text, i)) = [name |-> b.name, line |-> DeclLine(text, i)]
  BY <1>2, <1>3, FramesAreDeclared
<1>5. text[i].decl \in {"function", "class", "const", "let"}
  BY <1>2, <1>3, FramesAreDeclared
<1>6. text[i] \in ToSet(text)
  BY DEF ToSet
<1>7. CASE text[i].split \/ text[i].decl = "let"
  BY <1>2, <1>6, <1>7
<1>8. CASE ~(text[i].split \/ text[i].decl = "let")
  <2> DEFINE s == [name |-> b.name, kind |-> SymbolKindOf(text[i], b), line |-> SymbolLine(text, i),
                   isExport |-> text[i].exported # "no"]
  <2>1. s \in Symbols(text)
    <3>1. i \in {j \in DOMAIN text : IsDecl(text[j]) /\ text[j].decl \notin {"let", "var"}}
      BY <1>2, <1>5, <1>8
    <3> QED
      BY <3>1 DEF Symbols
  <2>2. DeclLine(text, i) = SymbolLine(text, i)
    BY <1>8 DEF DeclLine, SymbolLine
  <2>3. s.name = e.caller.name /\ s.line = e.caller.line
    BY <1>1, <1>2, <1>4, <2>2
  <2> QED
    BY <2>1, <2>3
<1> QED
  BY <1>7, <1>8

(* A call leads to the file that its name is bound to.                      *)
LEMMA CallsLead == text \in Texts \cup {<< >>} => CallsLeadToBindings
<1> SUFFICES ASSUME text \in Texts \cup {<< >>}, NEW c \in Candidates(text), PlainName(text, c.callee)
             PROVE  LET p == Resolved(text, Rows, c.callee)
                        known == {q \in BoundTo(text, c.callee) :
                                    IF q = Here THEN c.callee \in LocalNames(text)
                                    ELSE q \notin Barrels /\ <<q, c.callee>> \in Rows} IN
                    IF known = {} THEN p = Package ELSE p \in known
  BY DEF CallsLeadToBindings
<1>1. PICK t : t = text
  OBVIOUS
<1>2. PICK n : n = c.callee
  OBVIOUS
<1>3. t \in Texts /\ BindsOnce(t) /\ PlainName(t, n)
  BY <1>1, <1>2, ChangeAssumption DEF Candidates
<1>4. \A r \in Rows : r[1] \notin {Here, Package}
  BY ChangeAssumption
<1> DEFINE imports == {s \in ToSet(t) : IsImport(s)}
           named == {ResolvesTo[s.from] : s \in {u \in ToSet(t) : IsImport(u) /\ \E m \in u.names : m.name = n}}
           from == named \ (Barrels \cup {Package})
           holding == {q \in from : <<q, n>> \in Rows}
           known == {q \in BoundTo(t, n) : IF q = Here THEN n \in LocalNames(t)
                                           ELSE q \notin Barrels /\ <<q, n>> \in Rows}
<1>5. /\ n \in DOMAIN Imported(t, Rows) <=> n \in {r[2] : r \in Rows} /\ Cardinality(holding) = 1
      /\ n \in DOMAIN Imported(t, Rows) => Imported(t, Rows)[n] = CHOOSE q \in holding : TRUE
  BY DEF Imported
<1>6. BoundTo(t, n) = IF Declares(t, n) THEN {Here}
                      ELSE {ResolvesTo[s.from] : s \in {u \in ToSet(t) : IsImport(u) /\ \E m \in u.names : m.as = n}}
  BY Zenon DEF BoundTo
<1>7. n \in LocalNames(t) => Declares(t, n)
  <2> SUFFICES ASSUME n \in LocalNames(t)
               PROVE  Declares(t, n)
    OBVIOUS
  <2>1. PICK s \in Symbols(t) : s.name = n
    BY DEF LocalNames
  <2>2. PICK i \in DOMAIN t : IsDecl(t[i]) /\ \E b \in ToSet(t[i].binds) : s.name = b.name
    BY DEF Symbols
  <2> QED
    BY <2>1, <2>2 DEF Declares, ToSet
<1>8. CASE n \in LocalNames(t)
  <2>1. Resolved(t, Rows, n) = Here
    BY <1>8 DEF Resolved
  <2>2. Here \in known
    BY <1>6, <1>7, <1>8
  <2> HIDE DEF known
  <2>3. known # {} /\ Resolved(t, Rows, n) \in known
    BY <2>1, <2>2
  <2> QED
    BY <1>1, <1>2, <2>3 DEF known
<1>9. CASE n \notin LocalNames(t)
  <2>1. Resolved(t, Rows, n) = IF n \in DOMAIN Imported(t, Rows) THEN Imported(t, Rows)[n] ELSE Package
    BY <1>9, Zenon DEF Resolved
  <2>2. \A s \in imports : \A m \in s.names : m.as = n <=> m.name = n
    BY <1>3, <1>9 DEF PlainName
  <2>3. Declares(t, n) => \A s \in imports : \A m \in s.names : m.as # n
    BY <1>3 DEF BindsOnce
  <2>4. BoundTo(t, n) = IF Declares(t, n) THEN {Here} ELSE named
    BY <1>6, <2>2
  <2>5. Declares(t, n) => named = {}
    BY <2>2, <2>3
  <2>6. known = holding
    <3> HIDE DEF imports, named
    <3>1. \A q : <<q, n>> \in Rows => q \notin {Here, Package}
      BY <1>4
    <3> QED
      BY <1>9, <2>4, <2>5, <3>1
  <2>7. \A p, q \in named : p = q
    BY <1>3, <2>2 DEF BindsOnce
  <2>8. n \in DOMAIN Imported(t, Rows) <=> holding # {}
    <3>1. holding # {} => \E q : holding = {q}
      <4>1. \A p, q \in holding : p = q
        <5> HIDE DEF named
        <5> QED
          BY <2>7
      <4> HIDE DEF holding
      <4> SUFFICES ASSUME holding # {}
                   PROVE  \E q : holding = {q}
        OBVIOUS
      <4>2. PICK q : q \in holding
        OBVIOUS
      <4>3. holding = {q}
        BY <4>1, <4>2
      <4> QED
        BY <4>3
    <3>2. holding # {} => n \in {r[2] : r \in Rows}
      <4> HIDE DEF named
      <4>1. \A q \in holding : <<q, n>> \in Rows
        OBVIOUS
      <4>2. \A q : <<q, n>>[2] = n
        OBVIOUS
      <4> HIDE DEF holding
      <4>3. \A q \in holding : \E r \in Rows : n = r[2]
        BY <4>1, <4>2
      <4> QED
        BY <4>3
    <3> HIDE DEF holding
    <3> QED
      BY <1>5, <3>1, <3>2, FS_Singleton, FS_EmptySet
  <2> HIDE DEF holding, known
  <2>9. IF known = {} THEN Resolved(t, Rows, n) = Package ELSE Resolved(t, Rows, n) \in known
    BY <1>5, <2>1, <2>6, <2>8
  <2> QED
    BY <1>1, <1>2, <2>9 DEF known
<1> QED
  BY <1>8, <1>9

(* The call graph, for every text the language allows and every set of rows *)
(* of other files: each call is made by a symbol of the index and leads to  *)
(* the file that the name called is bound to.                               *)
THEOREM CallsStayResolved == ChangeSpec => []CallsAreResolved
<1>1. ChangeInit => ToldInv
  BY ToldInit
<1>2. ToldInv /\ [ChangeNext]_changeVars => ToldInv'
  BY ToldKeeps
<1>3. ToldInv => CallsAreResolved
  BY CallersStand, CallsLead DEF ToldInv, ChangeTypeOK, CallsAreResolved
<1> QED
  BY <1>1, <1>2, <1>3, PTL DEF ChangeSpec

-----------------------------------------------------------------------------
(* The walk of a cascade. *)

WorldOK == dependents \in [Files -> SUBSET Files] /\ readable \subseteq Files

\* Each level is the level before and what imports its readable files.
LevelsGrow ==
    /\ Within \in [0..MaxDepth -> SUBSET Files]
    /\ Within[0] = {Root}
    /\ \A n \in 0..MaxDepth : n # 0 =>
          Within[n] = Within[n - 1] \cup UNION {dependents[f] : f \in Within[n - 1] \cap readable}

LEMMA LevelsAreDefined == WorldOK => LevelsGrow
<1> SUFFICES ASSUME WorldOK
             PROVE  LevelsGrow
  OBVIOUS
<1> DEFINE V == SUBSET Files
           new(v) == v \cup UNION {dependents[f] : f \in v \cap readable}
           next == [p \in (0..MaxDepth) \X V |-> new(p[2])]
<1>1. MaxDepth \in Nat /\ 0 \in 0..MaxDepth /\ {Root} \in V
  BY CascadeAssumption
<1>2. \A v \in V : new(v) \in V
  BY DEF WorldOK
<1>3. \A i \in 0..MaxDepth, v \in V : next[<<i, v>>] = new(v)
  OBVIOUS
<1>4. Within = CHOOSE f : f = [n \in 0..MaxDepth |-> IF n = 0 THEN {Root} ELSE new(f[n - 1])]
  BY DEF Within
<1> HIDE DEF V, new, next
<1>5. HasSolution(0, MaxDepth, V, {Root}, next)
  BY <1>1, <1>2, <1>3, PrimitiveRecursion
<1>6. PICK g \in [0..MaxDepth -> V] :
          g = [n \in 0..MaxDepth |-> IF n = 0 THEN {Root} ELSE next[<<n, g[n - 1]>>]]
  BY <1>5 DEF HasSolution
<1>7. \A n \in 0..MaxDepth : n # 0 => n - 1 \in 0..MaxDepth
  BY <1>1
<1>8. g = [n \in 0..MaxDepth |-> IF n = 0 THEN {Root} ELSE new(g[n - 1])]
  <2>1. ASSUME NEW n \in 0..MaxDepth
        PROVE  g[n] = IF n = 0 THEN {Root} ELSE new(g[n - 1])
    <3>1. n # 0 => g[n - 1] \in V
      BY <1>7
    <3>2. g[n] = IF n = 0 THEN {Root} ELSE next[<<n, g[n - 1]>>]
      BY <1>6
    <3> QED
      BY <1>3, <3>1, <3>2
  <2> QED
    BY <2>1
<1>9. Within = [n \in 0..MaxDepth |-> IF n = 0 THEN {Root} ELSE new(Within[n - 1])]
  BY <1>4, <1>8
<1>10. Within[0] = {Root} /\ DOMAIN Within = 0..MaxDepth
  BY <1>1, <1>9
<1>11. \A n \in 0..MaxDepth : n # 0 => Within[n] = new(Within[n - 1])
  BY <1>9
<1>12. \A n \in 0..MaxDepth : Within[n] \in V
  <2> DEFINE Bad == {n \in 0..MaxDepth : Within[n] \notin V}
  <2> SUFFICES ASSUME Bad # {}
               PROVE  FALSE
    OBVIOUS
  <2>1. Bad \in SUBSET Nat
    OBVIOUS
  <2>2. PICK n \in Bad : \A m \in Bad : n <= m
    <3> HIDE DEF Bad
    <3> QED
      BY <2>1, LeastNat
  <2>3. n \in 0..MaxDepth /\ n \in Nat /\ Within[n] \notin V
    OBVIOUS
  <2>4. n # 0
    BY <1>1, <1>10, <2>3
  <2>5. n - 1 \in 0..MaxDepth /\ ~(n <= n - 1)
    BY <1>1, <2>3, <2>4
  <2>6. Within[n - 1] \in V
    BY <2>2, <2>5
  <2> QED
    BY <1>2, <1>11, <2>3, <2>4, <2>6
<1>13. Within \in [0..MaxDepth -> V]
  BY <1>9, <1>12
<1> QED
  BY <1>10, <1>11, <1>13 DEF LevelsGrow, V, new

LEMMA LevelsAreNested ==
    ASSUME LevelsGrow, NEW m \in 0..MaxDepth, NEW n \in 0..MaxDepth, m <= n
    PROVE  Within[m] \subseteq Within[n]
<1> DEFINE Bad == {k \in 0..MaxDepth : m <= k /\ ~(Within[m] \subseteq Within[k])}
<1>0. MaxDepth \in Nat
  BY CascadeAssumption
<1> SUFFICES ASSUME Bad # {}
             PROVE  FALSE
  OBVIOUS
<1>1. Bad \in SUBSET Nat
  OBVIOUS
<1>2. PICK k \in Bad : \A l \in Bad : k <= l
  <2> HIDE DEF Bad
  <2> QED
    BY <1>1, LeastNat
<1>3. k \in 0..MaxDepth /\ m <= k /\ ~(Within[m] \subseteq Within[k])
  OBVIOUS
<1>4. k # m /\ k # 0 /\ k - 1 \in 0..MaxDepth /\ m <= k - 1 /\ ~(k <= k - 1)
  BY <1>0, <1>3
<1>5. Within[m] \subseteq Within[k - 1]
  BY <1>2, <1>4
<1>6. Within[k - 1] \subseteq Within[k]
  BY <1>3, <1>4 DEF LevelsGrow
<1> QED
  BY <1>3, <1>5, <1>6

\* The files of the queue, and their depths.
file(i) == queue[i].file
depth(i) == queue[i].depth

\* Every file of the queue is as far from Root as the walk believes.
DepthsAreExact ==
    \A i \in DOMAIN queue :
        /\ file(i) \in Within[depth(i)]
        /\ \A n \in 0..MaxDepth : file(i) \in Within[n] => depth(i) <= n

\* The queue holds at most two levels, the nearer first.
QueueIsSorted ==
    \A i, j \in DOMAIN queue : i <= j => depth(i) <= depth(j) /\ depth(j) <= depth(1) + 1

\* What has been marked has been expanded, unless it was at the cap.
MarkedAreExpanded ==
    \A f \in ToSet(marked) \cap readable, n \in 0..MaxDepth :
        n < MaxDepth /\ f \in Within[n] => dependents[f] \subseteq visited

WalkInv ==
    /\ WorldOK
    /\ TypeOK
    /\ marked \in Seq(Files) /\ IsInjective(marked)
    /\ \A i, j \in DOMAIN queue : file(i) = file(j) => i = j
    /\ \A i \in DOMAIN queue : file(i) \notin ToSet(marked)
    /\ Root \in visited
    /\ ToSet(marked) \subseteq Within[MaxDepth]
    /\ DepthsAreExact
    /\ QueueIsSorted
    /\ MarkedAreExpanded

LEMMA QueueHolds ==
    ASSUME TypeOK, NEW i \in DOMAIN queue
    PROVE  file(i) \in Files /\ depth(i) \in 0..MaxDepth
<1> DEFINE Item == [file : Files, depth : 0..MaxDepth]
<1>1. queue[i] \in Item
  <2>1. queue \in Seq(Item)
    BY DEF TypeOK
  <2> HIDE DEF Item
  <2> QED
    BY <2>1
<1> QED
  BY <1>1 DEF file, depth

(* When nothing nearer than k waits, all files within k have been visited.  *)
LEMMA LevelsAreVisited ==
    ASSUME WalkInv, NEW k \in 0..MaxDepth, \A i \in DOMAIN queue : k <= depth(i)
    PROVE  Within[k] \subseteq visited
<1> DEFINE Bad == {n \in 0..MaxDepth : n <= k /\ ~(Within[n] \subseteq visited)}
<1>0. MaxDepth \in Nat
  BY CascadeAssumption
<1>1. LevelsGrow
  BY LevelsAreDefined DEF WalkInv
<1> SUFFICES ASSUME Bad # {}
             PROVE  FALSE
  BY <1>0
<1>2. Bad \in SUBSET Nat
  OBVIOUS
<1>3. PICK n \in Bad : \A l \in Bad : n <= l
  <2> HIDE DEF Bad
  <2> QED
    BY <1>2, LeastNat
<1>4. n \in 0..MaxDepth /\ n <= k /\ ~(Within[n] \subseteq visited)
  OBVIOUS
<1>5. n # 0
  BY <1>1, <1>4 DEF LevelsGrow, WalkInv
<1>6. n - 1 \in 0..MaxDepth /\ n - 1 <= k /\ n - 1 < MaxDepth /\ n - 1 < k /\ ~(n <= n - 1)
  BY <1>0, <1>4, <1>5
<1>7. Within[n - 1] \subseteq visited
  BY <1>3, <1>6
<1>8. \A f \in Within[n - 1] : \A i \in DOMAIN queue : f # file(i)
  <2> SUFFICES ASSUME NEW i \in DOMAIN queue, file(i) \in Within[n - 1]
               PROVE  FALSE
    OBVIOUS
  <2>1. depth(i) <= n - 1 /\ k <= depth(i) /\ depth(i) \in 0..MaxDepth
    <3>1. depth(i) <= n - 1
      BY <1>6 DEF WalkInv, DepthsAreExact
    <3>2. depth(i) \in 0..MaxDepth
      BY QueueHolds DEF WalkInv
    <3> QED
      BY <3>1, <3>2
  <2>2. n <= k /\ n \in Nat /\ k \in Nat
    BY <1>4
  <2> HIDE DEF Bad
  <2>3. \A d \in 0..MaxDepth : d <= n - 1 /\ k <= d => FALSE
    BY <1>0, <2>2
  <2> QED
    BY <2>1, <2>3
<1>9. Within[n - 1] \subseteq ToSet(marked)
  BY <1>7, <1>8 DEF WalkInv, TypeOK, file
<1>10. \A f \in Within[n - 1] \cap readable : dependents[f] \subseteq visited
  BY <1>6, <1>9 DEF WalkInv, MarkedAreExpanded
<1>11. Within[n] = Within[n - 1] \cup UNION {dependents[f] : f \in Within[n - 1] \cap readable}
  BY <1>1, <1>4, <1>5 DEF LevelsGrow
<1> QED
  BY <1>4, <1>7, <1>10, <1>11

\* A step of the walk: the head leaves the queue for the marked, and what it
\* finds joins the end, one level deeper.
Found == IF Expands(queue[1]) THEN NewDependents(file(1)) ELSE {}

Joins(new) ==
    /\ new \in Seq([file : Files, depth : 0..MaxDepth])
    /\ {new[j].file : j \in DOMAIN new} = Found
    /\ \A i, j \in DOMAIN new : new[i].file = new[j].file => i = j
    /\ \A j \in DOMAIN new : new[j].depth = depth(1) + 1
    /\ queue' = Tail(queue) \o new

LEMMA VisitShape ==
    ASSUME WalkInv, Visit
    PROVE  /\ 1 \in DOMAIN queue /\ file(1) \in Files /\ depth(1) \in 0..MaxDepth
           /\ Found \subseteq Files
           /\ \E new : Joins(new)
           /\ visited' = visited \cup Found /\ marked' = Append(marked, file(1))
<1> DEFINE Item == [file : Files, depth : 0..MaxDepth]
<1>0. MaxDepth \in Nat
  BY CascadeAssumption
<1>1. queue \in Seq(Item) /\ queue # << >>
  BY DEF WalkInv, TypeOK, Visit
<1>2. 1 \in DOMAIN queue
  <2> HIDE DEF Item
  <2> QED
    BY <1>1
<1>3. file(1) \in Files /\ depth(1) \in 0..MaxDepth
  BY <1>2, QueueHolds DEF WalkInv
<1>4. dependents[file(1)] \subseteq Files
  BY <1>3 DEF WalkInv, WorldOK
<1>5. Found \subseteq Files
  BY <1>4 DEF Found, NewDependents
<1>6. marked' = Append(marked, file(1))
  BY DEF Visit, file
<1>7. CASE ~Expands(queue[1])
  <2>1. queue' = Tail(queue) /\ visited' = visited /\ Found = {}
    BY <1>7 DEF Visit, Found
  <2>2. Tail(queue) \o << >> = Tail(queue)
    <3> HIDE DEF Item
    <3> QED
      BY <1>1
  <2>3. \A u : u = << >> => u \in Seq(Item) /\ DOMAIN u = {}
    <3> HIDE DEF Item
    <3> QED
      OBVIOUS
  <2>4. Joins(<< >>)
    BY <2>1, <2>2, <2>3 DEF Joins
  <2> QED
    BY <1>2, <1>3, <1>5, <1>6, <2>1, <2>4
<1>8. CASE Expands(queue[1])
  <2>1. Found = NewDependents(file(1)) /\ visited' = visited \cup Found
    BY <1>8 DEF Visit, Found, NowVisited, file
  <2>2. PICK order \in SetToSeqs(Found) :
          queue' = Tail(queue) \o [i \in DOMAIN order |-> [file |-> order[i], depth |-> depth(1) + 1]]
    BY <1>8, <2>1 DEF Visit, Appended, file, depth
  <2>3. IsFiniteSet(Found)
    BY <1>5, CascadeAssumption, FS_Subset
  <2>4. /\ order \in Seq(Found) /\ IsInjective(order)
        /\ \A x \in Found : \E i \in DOMAIN order : order[i] = x
    BY <2>2, <2>3, AllElements
  <2> DEFINE new == [i \in DOMAIN order |-> [file |-> order[i], depth |-> depth(1) + 1]]
  <2>5. depth(1) + 1 \in 0..MaxDepth
    BY <1>0, <1>3, <1>8 DEF Expands, depth
  <2>6. DOMAIN order = 1..Len(order) /\ Len(order) \in Nat /\ \A i \in DOMAIN order : order[i] \in Found
    <3> HIDE DEF Item
    <3> QED
      BY <2>4
  <2>7. new \in [1..Len(order) -> Item]
    BY <1>5, <2>5, <2>6
  <2>8. new \in Seq(Item)
    <3> HIDE DEF Item, new
    <3> QED
      BY <2>6, <2>7
  <2>9. {new[j].file : j \in DOMAIN new} = Found
    BY <2>4, <2>6
  <2>10. \A i, j \in DOMAIN new : new[i].file = new[j].file => i = j
    BY <2>4 DEF IsInjective
  <2>11. \A j \in DOMAIN new : new[j].depth = depth(1) + 1
    OBVIOUS
  <2> HIDE DEF new
  <2>12. Joins(new)
    BY <2>8, <2>9, <2>10, <2>11, <2>2 DEF new, Joins
  <2> QED
    BY <1>2, <1>3, <1>5, <1>6, <2>1, <2>12
<1> QED
  BY <1>7, <1>8

(* An item of the queue after a step was there before or has just joined.   *)
LEMMA OldOrNew ==
    ASSUME NEW S, NEW q \in Seq(S), NEW new \in Seq(S), q # << >>, NEW r, r = Tail(q) \o new
    PROVE  /\ \A i \in DOMAIN r :
                 \/ i + 1 \in DOMAIN q /\ r[i] = q[i + 1]
                 \/ \E j \in DOMAIN new : i = Len(q) - 1 + j /\ r[i] = new[j]
           /\ \A i \in DOMAIN q : i # 1 => i - 1 \in DOMAIN r /\ r[i - 1] = q[i]
           /\ \A j \in DOMAIN new : Len(q) - 1 + j \in DOMAIN r /\ r[Len(q) - 1 + j] = new[j]
           /\ r \in Seq(S) /\ Len(q) \in Nat \ {0} /\ DOMAIN q = 1..Len(q)
           /\ DOMAIN new = 1..Len(new) /\ Len(new) \in Nat
<1>1. /\ Tail(q) \in Seq(S) /\ Len(Tail(q)) = Len(q) - 1 /\ Len(q) \in Nat \ {0} /\ DOMAIN q = 1..Len(q)
      /\ \A i \in 1..(Len(q) - 1) : Tail(q)[i] = q[i + 1]
  OBVIOUS
<1>2. /\ r \in Seq(S) /\ Len(r) = Len(q) - 1 + Len(new)
      /\ \A i \in 1..(Len(q) - 1 + Len(new)) :
            r[i] = IF i <= Len(q) - 1 THEN Tail(q)[i] ELSE new[i - (Len(q) - 1)]
  BY <1>1, ConcatProperties
<1>3. DOMAIN r = 1..(Len(q) - 1 + Len(new)) /\ DOMAIN new = 1..Len(new) /\ Len(new) \in Nat
  BY <1>2
<1>4. PICK m \in Nat, k \in Nat : m = Len(q) - 1 /\ k = Len(new)
  <2>1. Len(q) \in Nat \ {0} /\ Len(new) \in Nat
    BY <1>1, <1>3
  <2>2. \A l \in Nat \ {0} : l - 1 \in Nat
    OBVIOUS
  <2> QED
    BY <2>1, <2>2, Zenon
<1>5. ASSUME NEW i \in 1..(m + k)
      PROVE  \/ i + 1 \in 1..(m + 1) /\ r[i] = q[i + 1]
             \/ \E j \in 1..k : i = m + j /\ r[i] = new[j]
  <2>1. CASE i <= m
    BY <1>1, <1>2, <1>4, <2>1
  <2>2. CASE ~(i <= m)
    <3>1. i - m \in 1..k /\ i = m + (i - m)
      BY <2>2
    <3>2. r[i] = new[i - m]
      BY <1>2, <1>4, <2>2
    <3> QED
      BY <3>1, <3>2
  <2> QED
    BY <2>1, <2>2
<1>6. ASSUME NEW i \in 1..(m + 1), i # 1
      PROVE  i - 1 \in 1..(m + k) /\ r[i - 1] = q[i]
  <2>1. i - 1 \in 1..(m + k) /\ i - 1 <= m /\ i - 1 \in 1..m /\ (i - 1) + 1 = i
    BY <1>6
  <2> QED
    BY <1>1, <1>2, <1>4, <2>1
<1>7. ASSUME NEW j \in 1..k
      PROVE  m + j \in 1..(m + k) /\ r[m + j] = new[j]
  <2>1. m + j \in 1..(m + k) /\ ~(m + j <= m) /\ (m + j) - m = j
    OBVIOUS
  <2> QED
    BY <1>2, <1>4, <2>1
<1>8. Len(q) = m + 1 /\ DOMAIN q = 1..(m + 1) /\ DOMAIN r = 1..(m + k) /\ DOMAIN new = 1..k
  <2>1. \A l \in Nat : m = l - 1 => l = m + 1
    BY <1>4
  <2>2. Len(q) = m + 1
    BY <1>1, <1>4, <2>1
  <2> QED
    BY <1>1, <1>3, <1>4, <2>2
<1>9. \A i \in DOMAIN r :
         \/ i + 1 \in DOMAIN q /\ r[i] = q[i + 1]
         \/ \E j \in DOMAIN new : i = Len(q) - 1 + j /\ r[i] = new[j]
  BY <1>4, <1>5, <1>8, Zenon
<1>10. \A i \in DOMAIN q : i # 1 => i - 1 \in DOMAIN r /\ r[i - 1] = q[i]
  BY <1>6, <1>8, Zenon
<1>11. \A j \in DOMAIN new : Len(q) - 1 + j \in DOMAIN r /\ r[Len(q) - 1 + j] = new[j]
  BY <1>4, <1>7, <1>8, Zenon
<1> QED
  BY <1>1, <1>2, <1>3, <1>9, <1>10, <1>11

LEMMA VisitKeeps == WalkInv /\ Visit => WalkInv'
<1> SUFFICES ASSUME WalkInv, Visit
             PROVE  WalkInv'
  OBVIOUS
<1> DEFINE Item == [file : Files, depth : 0..MaxDepth]
           f == file(1)
           d == depth(1)
           l == Len(queue) - 1
<1>0. MaxDepth \in Nat
  BY CascadeAssumption
<1>1. /\ 1 \in DOMAIN queue /\ f \in Files /\ d \in 0..MaxDepth /\ Found \subseteq Files
      /\ visited' = visited \cup Found /\ marked' = Append(marked, f)
  BY VisitShape
<1>2. PICK new : Joins(new)
  BY VisitShape
<1>3. dependents' = dependents /\ readable' = readable /\ Within' = Within
  BY DEF Visit, world, Within
<1>4. LevelsGrow
  BY LevelsAreDefined DEF WalkInv
<1>5. PICK r : r = queue'
  OBVIOUS
<1>6. /\ \A i \in DOMAIN r :
            \/ i + 1 \in DOMAIN queue /\ r[i] = queue[i + 1]
            \/ \E j \in DOMAIN new : i = l + j /\ r[i] = new[j]
      /\ \A i \in DOMAIN queue : i # 1 => i - 1 \in DOMAIN r /\ r[i - 1] = queue[i]
      /\ \A j \in DOMAIN new : l + j \in DOMAIN r /\ r[l + j] = new[j]
      /\ r \in Seq(Item) /\ l \in Nat /\ DOMAIN queue = 1..(l + 1)
      /\ DOMAIN new = 1..Len(new) /\ Len(new) \in Nat
  <2>1. queue \in Seq(Item) /\ new \in Seq(Item) /\ queue # << >> /\ r = Tail(queue) \o new
    BY <1>2, <1>5 DEF WalkInv, TypeOK, Visit, Joins
  <2> HIDE DEF Item, l
  <2>2. /\ \A i \in DOMAIN r :
              \/ i + 1 \in DOMAIN queue /\ r[i] = queue[i + 1]
              \/ \E j \in DOMAIN new : i = Len(queue) - 1 + j /\ r[i] = new[j]
        /\ \A i \in DOMAIN queue : i # 1 => i - 1 \in DOMAIN r /\ r[i - 1] = queue[i]
        /\ \A j \in DOMAIN new : Len(queue) - 1 + j \in DOMAIN r /\ r[Len(queue) - 1 + j] = new[j]
        /\ r \in Seq(Item) /\ Len(queue) \in Nat \ {0} /\ DOMAIN queue = 1..Len(queue)
        /\ DOMAIN new = 1..Len(new) /\ Len(new) \in Nat
    BY <2>1, OldOrNew
  <2>3. l \in Nat /\ Len(queue) = l + 1
    <3>1. \A k \in Nat \ {0} : k - 1 \in Nat /\ k = (k - 1) + 1
      OBVIOUS
    <3> QED
      BY <2>2, <3>1 DEF l
  <2> QED
    BY <2>2, <2>3 DEF l
<1> HIDE DEF l, Item
<1>7. \A i \in DOMAIN queue : file(i) \in visited
  BY DEF WalkInv, TypeOK, file
<1>8. Found \cap visited = {} /\ (Found # {} => f \in readable /\ d < MaxDepth)
  BY DEF Found, NewDependents, Expands, file, depth
<1>9. /\ \A j \in DOMAIN new : new[j].file \in Found /\ new[j].depth = d + 1
      /\ \A x \in Found : \E j \in DOMAIN new : new[j].file = x
  BY <1>2 DEF Joins
<1>10. f \in Within[d] /\ \A n \in 0..MaxDepth : f \in Within[n] => d <= n
  BY <1>1 DEF WalkInv, DepthsAreExact
<1>11. \A i \in DOMAIN r : i + 1 \in DOMAIN queue => file(i + 1) # f
  <2> SUFFICES ASSUME NEW i \in DOMAIN r, i + 1 \in DOMAIN queue
               PROVE  file(i + 1) # f
    OBVIOUS
  <2>1. i \in Nat \ {0}
    BY <1>6
  <2>2. i + 1 # 1
    BY <2>1
  <2> QED
    BY <1>1, <2>2 DEF WalkInv
<1>12. marked \in Seq(Files) /\ f \notin ToSet(marked) /\ IsInjective(marked)
  BY <1>1 DEF WalkInv
<1>13. /\ marked' \in Seq(Files) /\ IsInjective(marked') /\ ToSet(marked') = ToSet(marked) \cup {f}
  <2>1. /\ DOMAIN marked = 1..Len(marked) /\ Len(marked) \in Nat
        /\ DOMAIN Append(marked, f) = 1..(Len(marked) + 1)
        /\ \A i \in 1..(Len(marked) + 1) :
              Append(marked, f)[i] = IF i = Len(marked) + 1 THEN f ELSE marked[i]
        /\ Append(marked, f) \in Seq(Files)
    BY <1>1, <1>12
  <2>2. PICK a, b : a = marked /\ b = Append(marked, f)
    OBVIOUS
  <2>3. PICK m \in Nat : m = Len(marked)
    BY <2>1
  <2>4. /\ DOMAIN a = 1..m /\ DOMAIN b = 1..(m + 1) /\ b[m + 1] = f
        /\ \A i \in 1..m : b[i] = a[i]
    BY <2>1, <2>2, <2>3
  <2>5. ToSet(b) = ToSet(a) \cup {f}
    BY <2>4 DEF ToSet
  <2>6. \A i \in 1..(m + 1) : i = m + 1 \/ i \in 1..m
    OBVIOUS
  <2>7. \A i \in 1..m : b[i] # f /\ b[i] = a[i]
    BY <1>12, <2>2, <2>4 DEF ToSet
  <2>8. IsInjective(b)
    BY <1>12, <2>2, <2>4, <2>6, <2>7 DEF IsInjective
  <2> QED
    BY <1>1, <2>1, <2>2, <2>5, <2>8
<1>14. visited' = ToSet(marked') \cup {r[i].file : i \in DOMAIN r} /\ visited' \subseteq Files
  <2>1. visited = ToSet(marked) \cup {queue[i].file : i \in DOMAIN queue} /\ visited \subseteq Files
    BY DEF WalkInv, TypeOK
  <2>2. \A i \in DOMAIN r : r[i].file \in visited'
    BY <1>1, <1>6, <1>7, <1>9 DEF file
  <2>3. \A i \in DOMAIN queue : queue[i].file = f \/ \E k \in DOMAIN r : r[k].file = queue[i].file
    BY <1>6 DEF file
  <2>4. \A x \in Found : \E k \in DOMAIN r : r[k].file = x
    BY <1>6, <1>9
  <2>5. f \in visited
    BY <1>1, <1>7
  <2> QED
    BY <1>1, <1>13, <2>1, <2>2, <2>3, <2>4, <2>5
<1>15. TypeOK'
  BY <1>5, <1>6, <1>14 DEF TypeOK, Item
<1>16. \A i, j \in DOMAIN r : r[i].file = r[j].file => i = j
  <2> SUFFICES ASSUME NEW i \in DOMAIN r, NEW j \in DOMAIN r, r[i].file = r[j].file
               PROVE  i = j
    OBVIOUS
  <2>0. r[i].file \notin Found \/ r[i].file \notin visited
    BY <1>8
  <2>1. \/ i + 1 \in DOMAIN queue /\ r[i].file = file(i + 1) /\ r[i].file \in visited
        \/ \E k \in DOMAIN new : i = l + k /\ r[i].file = new[k].file /\ r[i].file \in Found
    BY <1>6, <1>7, <1>9 DEF file
  <2>2. \/ j + 1 \in DOMAIN queue /\ r[j].file = file(j + 1) /\ r[j].file \in visited
        \/ \E k \in DOMAIN new : j = l + k /\ r[j].file = new[k].file /\ r[j].file \in Found
    BY <1>6, <1>7, <1>9 DEF file
  <2>3. CASE i + 1 \in DOMAIN queue /\ r[i].file = file(i + 1) /\ j + 1 \in DOMAIN queue /\ r[j].file = file(j + 1)
    <3>1. i + 1 = j + 1
      BY <2>3 DEF WalkInv
    <3>2. i \in Nat /\ j \in Nat
      BY <1>6
    <3> QED
      BY <3>1, <3>2
  <2>4. CASE \E k, m \in DOMAIN new : /\ i = l + k /\ r[i].file = new[k].file
                                      /\ j = l + m /\ r[j].file = new[m].file
    BY <1>2, <2>4 DEF Joins
  <2> QED
    BY <2>0, <2>1, <2>2, <2>3, <2>4
<1>17. \A i \in DOMAIN r : r[i].file \notin ToSet(marked')
  <2>1. \A i \in DOMAIN queue : file(i) \notin ToSet(marked)
    BY DEF WalkInv
  <2>2. ToSet(marked) \subseteq visited /\ f \in visited
    BY <1>1, <1>7 DEF WalkInv, TypeOK
  <2> QED
    BY <1>6, <1>8, <1>9, <1>11, <1>13, <2>1, <2>2 DEF file
<1>18. ToSet(marked') \subseteq Within[MaxDepth]
  <2>1. Within[d] \subseteq Within[MaxDepth]
    <3>1. MaxDepth \in 0..MaxDepth /\ d <= MaxDepth
      BY <1>0, <1>1
    <3> QED
      BY <1>1, <1>4, <3>1, LevelsAreNested
  <2> QED
    BY <1>10, <1>13, <2>1 DEF WalkInv
<1>19. Within[d] \subseteq visited
  <2>1. \A i \in DOMAIN queue : d <= depth(i)
    <3>1. \A i \in DOMAIN queue : 1 <= i
      BY <1>6
    <3> QED
      BY <1>1, <3>1 DEF WalkInv, QueueIsSorted
  <2> QED
    BY <1>1, <2>1, LevelsAreVisited
<1>20. ASSUME NEW x \in Found
       PROVE  /\ d + 1 \in 0..MaxDepth /\ x \in Within[d + 1]
              /\ \A n \in 0..MaxDepth : x \in Within[n] => d + 1 <= n
  <2>1. d < MaxDepth /\ f \in readable /\ x \in dependents[f] /\ x \notin visited
    BY <1>8 DEF Found, NewDependents
  <2>2. d + 1 \in 0..MaxDepth /\ d + 1 # 0 /\ (d + 1) - 1 = d
    BY <1>0, <1>1, <2>1
  <2>3. Within[d + 1] = Within[d] \cup UNION {dependents[g] : g \in Within[d] \cap readable}
    BY <1>4, <2>2 DEF LevelsGrow
  <2>4. x \in Within[d + 1]
    BY <1>10, <2>1, <2>3
  <2>5. ASSUME NEW n \in 0..MaxDepth, x \in Within[n]
        PROVE  d + 1 <= n
    <3>1. CASE n <= d
      <4>1. Within[n] \subseteq Within[d]
        BY <1>1, <1>4, <3>1, LevelsAreNested
      <4> QED
        BY <1>19, <2>1, <2>5, <4>1
    <3>2. CASE ~(n <= d)
      BY <1>1, <3>2
    <3> QED
      BY <3>1, <3>2
  <2> QED
    BY <2>2, <2>4, <2>5
<1>21. \A i \in DOMAIN r :
          /\ r[i].file \in Within[r[i].depth]
          /\ \A n \in 0..MaxDepth : r[i].file \in Within[n] => r[i].depth <= n
  <2> SUFFICES ASSUME NEW i \in DOMAIN r
               PROVE  /\ r[i].file \in Within[r[i].depth]
                      /\ \A n \in 0..MaxDepth : r[i].file \in Within[n] => r[i].depth <= n
    OBVIOUS
  <2>1. CASE i + 1 \in DOMAIN queue /\ r[i] = queue[i + 1]
    BY <2>1 DEF WalkInv, DepthsAreExact, file, depth
  <2>2. CASE \E j \in DOMAIN new : i = l + j /\ r[i] = new[j]
    BY <1>9, <1>20, <2>2
  <2> QED
    BY <1>6, <2>1, <2>2
<1>22. ASSUME NEW i \in DOMAIN r, NEW j \in DOMAIN r, i <= j
       PROVE  r[i].depth <= r[j].depth /\ r[j].depth <= r[1].depth + 1
  <2>1. \A k \in DOMAIN queue : depth(k) \in Nat /\ d <= depth(k) /\ depth(k) <= d + 1
    <3>1. \A k \in DOMAIN queue : 1 <= k
      BY <1>6
    <3>2. \A k \in DOMAIN queue : depth(k) \in 0..MaxDepth
      BY QueueHolds DEF WalkInv
    <3> QED
      BY <1>1, <3>1, <3>2 DEF WalkInv, QueueIsSorted
  <2>2. \A k \in DOMAIN r : \/ k + 1 \in DOMAIN queue /\ r[k].depth = depth(k + 1)
                            \/ (\E m \in DOMAIN new : k = l + m) /\ r[k].depth = d + 1
    BY <1>6, <1>9 DEF depth
  <2>3. \A k \in DOMAIN r : r[k].depth \in Nat /\ d <= r[k].depth /\ r[k].depth <= d + 1
    BY <1>1, <2>1, <2>2
  <2>4. i \in Nat /\ j \in Nat /\ 1 \in DOMAIN r
    BY <1>6
  <2>5. r[i].depth <= r[j].depth
    <3>1. CASE j + 1 \in DOMAIN queue /\ r[j].depth = depth(j + 1)
      <4>1. i + 1 \in DOMAIN queue /\ i + 1 <= j + 1 /\ ~(\E m \in DOMAIN new : i = l + m)
        BY <1>6, <1>22, <2>4, <3>1
      <4>2. r[i].depth = depth(i + 1)
        BY <2>2, <4>1
      <4> QED
        BY <3>1, <4>1, <4>2 DEF WalkInv, QueueIsSorted
    <3>2. CASE r[j].depth = d + 1
      BY <2>3, <3>2
    <3> QED
      BY <2>2, <3>1, <3>2
  <2>6. r[j].depth <= r[1].depth + 1
    <3>1. \A a, b \in Nat : a <= d + 1 /\ d <= b => a <= b + 1
      BY <1>1
    <3> QED
      BY <2>3, <2>4, <3>1
  <2> QED
    BY <2>5, <2>6
<1>23. \A g \in ToSet(marked') \cap readable, n \in 0..MaxDepth :
          n < MaxDepth /\ g \in Within[n] => dependents[g] \subseteq visited'
  <2> SUFFICES ASSUME NEW g \in ToSet(marked') \cap readable, NEW n \in 0..MaxDepth,
                      n < MaxDepth, g \in Within[n]
               PROVE  dependents[g] \subseteq visited'
    OBVIOUS
  <2>1. CASE g = f
    <3>1. d <= n
      BY <1>10, <2>1
    <3>2. d < MaxDepth
      BY <1>0, <1>1, <3>1
    <3>3. Found = dependents[f] \ visited
      BY <2>1, <3>2 DEF Found, Expands, NewDependents, file, depth
    <3> QED
      BY <1>1, <2>1, <3>3
  <2>2. CASE g # f
    BY <1>1, <1>13, <2>2 DEF WalkInv, MarkedAreExpanded
  <2> QED
    BY <2>1, <2>2
<1>24. WorldOK' /\ Root \in visited'
  BY <1>1, <1>3 DEF WalkInv, WorldOK
<1>25. /\ \A i, j \in DOMAIN queue' : file(i)' = file(j)' => i = j
       /\ \A i \in DOMAIN queue' : file(i)' \notin ToSet(marked')
  BY <1>5, <1>16, <1>17 DEF file
<1>26. DepthsAreExact' /\ QueueIsSorted' /\ MarkedAreExpanded'
  BY <1>3, <1>5, <1>21, <1>22, <1>23 DEF DepthsAreExact, QueueIsSorted, MarkedAreExpanded, file, depth
<1> QED
  BY <1>3, <1>13, <1>15, <1>18, <1>24, <1>25, <1>26 DEF WalkInv

LEMMA WalkBegins == Init => WalkInv
<1> SUFFICES ASSUME Init
             PROVE  WalkInv
  OBVIOUS
<1> DEFINE Item == [file : Files, depth : 0..MaxDepth]
           head == [file |-> Root, depth |-> 0]
<1>0. Root \in Files /\ MaxDepth \in Nat /\ 0 \in 0..MaxDepth
  BY CascadeAssumption
<1>1. WorldOK
  BY CascadeAssumption DEF Init, WorldOK
<1>2. LevelsGrow
  BY <1>1, LevelsAreDefined
<1>3. visited = {Root} /\ head \in Item
  BY <1>0 DEF Init
<1>4. marked \in Seq(Files) /\ ToSet(marked) = {} /\ IsInjective(marked)
  BY DEF Init, ToSet, IsInjective
<1>5. queue = <<head>>
  BY DEF Init
<1>6. queue \in Seq(Item) /\ DOMAIN queue = {1} /\ queue[1] = head
  <2> HIDE DEF Item, head
  <2> QED
    BY <1>3, <1>5
<1>7. file(1) = Root /\ depth(1) = 0
  BY <1>6 DEF file, depth
<1>8. TypeOK
  BY <1>0, <1>3, <1>4, <1>6 DEF TypeOK
<1>9. DepthsAreExact
  BY <1>0, <1>2, <1>6, <1>7 DEF DepthsAreExact, LevelsGrow
<1>10. QueueIsSorted
  BY <1>6, <1>7 DEF QueueIsSorted
<1> QED
  BY <1>1, <1>3, <1>4, <1>6, <1>8, <1>9, <1>10 DEF WalkInv, MarkedAreExpanded

(* cascadeStale(), for every import graph, every choice of unreadable files *)
(* and every depth cap: no file is marked twice, and when the walk is over  *)
(* the files marked are those whose shortest chain of imports from the file *)
(* that changed is within the cap.                                          *)
THEOREM WalkStaysExact == Spec => []WalkIsExact
<1>1. Init => WalkInv
  BY WalkBegins
<1>2. WalkInv /\ [Next]_vars => WalkInv'
  <2> SUFFICES ASSUME WalkInv, UNCHANGED vars
               PROVE  WalkInv'
    BY VisitKeeps DEF Next
  <2>1. Within' = Within
    BY DEF vars, world, Within
  <2> QED
    BY <2>1 DEF vars, world, WalkInv, WorldOK, TypeOK, DepthsAreExact, QueueIsSorted,
                MarkedAreExpanded, file, depth
<1>3. WalkInv => WalkIsExact
  <2> SUFFICES ASSUME WalkInv, queue = << >>
               PROVE  Within[MaxDepth] \subseteq ToSet(marked)
    BY DEF WalkInv, WalkIsExact, MarksWithinCap, MarkedOnce
  <2>1. DOMAIN queue = {} /\ visited = ToSet(marked)
    BY DEF WalkInv, TypeOK
  <2>2. MaxDepth \in 0..MaxDepth
    BY CascadeAssumption
  <2> QED
    BY <2>1, <2>2, LevelsAreVisited
<1> QED
  BY <1>1, <1>2, <1>3, PTL DEF Spec

-----------------------------------------------------------------------------
(* Importance: the trees. *)

Trees == [Ranked -> Node \cup {NoRow}]

\* The score a node has.
Scored(t, f) == t[f].importance = calculateNodeImportance(f, t[f])

\* What a node's score depends on is the same in two trees.
SameLinks(t, u, f) ==
    t[f].deps = u[f].deps /\ t[f].dependents = u[f].dependents /\ t[f].pkg = u[f].pkg

LEMMA ScoresAreBounded ==
    /\ \A f \in Ranked : calculateInitialImportance(f) \in 0..10
    /\ \A f \in Ranked : \A node : node.deps \subseteq Ranked /\ node.dependents \subseteq Ranked =>
          calculateNodeImportance(f, node) \in 0..10
<1>1. \A n \in Nat, m \in Nat : AtMost(n, m) \in Nat /\ AtMost(n, m) <= m
  BY DEF AtMost
<1>2. TypeScore \in [Ranked -> Nat] /\ PlaceScore \in [Ranked -> Nat] /\ NameScore \in [Ranked -> Nat]
  BY ImportanceAssumption
<1>3. ASSUME NEW f \in Ranked
      PROVE  calculateInitialImportance(f) \in Nat /\ calculateInitialImportance(f) <= 10
  <2>1. TypeScore[f] + PlaceScore[f] + NameScore[f] \in Nat
    BY <1>2
  <2> QED
    BY <1>1, <2>1 DEF calculateInitialImportance
<1>4. ASSUME NEW f \in Ranked, NEW node, node.deps \subseteq Ranked, node.dependents \subseteq Ranked
      PROVE  calculateNodeImportance(f, node) \in 0..10
  <2>1. Cardinality(node.deps) \in Nat /\ Cardinality(node.dependents) \in Nat
    BY <1>4, ImportanceAssumption, FS_Subset, FS_CardinalityType
  <2> DEFINE a == calculateInitialImportance(f)
             b == AtMost(Cardinality(node.dependents), 3)
             c == AtMost(Cardinality(node.deps), 2)
             d == IF node.pkg THEN 1 ELSE 0
  <2>2. a \in Nat /\ b \in Nat /\ c \in Nat /\ d \in Nat
    <3>1. d \in Nat
      OBVIOUS
    <3>2. b \in Nat /\ c \in Nat
      BY <1>1, <2>1
    <3> HIDE DEF b, c, d
    <3> QED
      BY <1>3, <3>1, <3>2
  <2> HIDE DEF a, b, c, d
  <2>3. a + b + c + d \in Nat
    BY <2>2
  <2>4. AtMost(a + b + c + d, 10) \in 0..10
    <3>1. \A n \in Nat : AtMost(n, 10) \in 0..10
      BY DEF AtMost
    <3> QED
      BY <2>3, <3>1, Zenon
  <2> QED
    BY <2>4 DEF calculateNodeImportance, a, b, c, d
<1> QED
  BY <1>3, <1>4

LEMMA LinksGiveTheScore ==
    ASSUME NEW f, NEW m, NEW n, m.deps = n.deps, m.dependents = n.dependents, m.pkg <=> n.pkg
    PROVE  calculateNodeImportance(f, m) = calculateNodeImportance(f, n)
BY DEF calculateNodeImportance

(* The incremental update keeps every link and scores the affected files;   *)
(* a file it does not reach keeps its score.                                *)
LEMMA Rescored ==
    ASSUME NEW t \in Trees, NEW affected \in SUBSET Ranked
    PROVE  LET u == recalculateImportanceForAffected(t, affected) IN
           /\ u \in Trees
           /\ \A f \in Ranked : u[f] = NoRow <=> t[f] = NoRow
           /\ \A f \in Ranked : t[f] # NoRow =>
                 /\ SameLinks(u, t, f) /\ u[f].mtime = t[f].mtime
                 /\ u[f] = t[f] \/ Scored(u, f)
                 /\ f \in affected => Scored(u, f)
<1> DEFINE u == recalculateImportanceForAffected(t, affected)
           reached == Reached(t, affected)
<1>1. affected \subseteq reached
  BY DEF Reached
<1>2. u = [f \in Ranked |-> IF f \in reached /\ t[f] # NoRow
                            THEN [t[f] EXCEPT !.importance = calculateNodeImportance(f, t[f])]
                            ELSE t[f]]
  BY DEF recalculateImportanceForAffected
<1> HIDE DEF reached
<1>3. \A f \in Ranked : NoRow \notin Node /\ (t[f] # NoRow => t[f] \in Node)
  BY ImportanceAssumption DEF Trees
<1>4. ASSUME NEW f \in Ranked, t[f] # NoRow
      PROVE  /\ u[f] \in Node /\ SameLinks(u, t, f) /\ u[f].mtime = t[f].mtime
             /\ u[f] = t[f] \/ Scored(u, f)
             /\ f \in affected => Scored(u, f)
  <2>1. t[f] \in Node
    BY <1>3, <1>4
  <2>2. CASE f \in reached
    <3>1. PICK s : s = calculateNodeImportance(f, t[f])
      OBVIOUS
    <3>2. s \in 0..10
      BY <2>1, <3>1, ScoresAreBounded DEF Node
    <3>3. u[f] = [t[f] EXCEPT !.importance = s]
      BY <1>2, <1>4, <2>2, <3>1
    <3> HIDE DEF u
    <3>4. /\ u[f] \in Node /\ u[f].importance = s /\ u[f].mtime = t[f].mtime
          /\ u[f].deps = t[f].deps /\ u[f].dependents = t[f].dependents /\ u[f].pkg = t[f].pkg
      BY <2>1, <3>2, <3>3 DEF Node
    <3>5. Scored(u, f)
      BY <3>1, <3>4, LinksGiveTheScore DEF Scored
    <3> QED
      BY <3>4, <3>5 DEF SameLinks
  <2>3. CASE f \notin reached
    <3>1. u[f] = t[f] /\ f \notin affected
      BY <1>1, <1>2, <2>3
    <3> HIDE DEF u
    <3> QED
      BY <2>1, <3>1 DEF SameLinks
  <2> QED
    BY <2>2, <2>3
<1>5. \A f \in Ranked : t[f] = NoRow => u[f] = NoRow
  BY <1>2
<1>6. DOMAIN u = Ranked /\ u = [f \in Ranked |-> u[f]]
  BY <1>2
<1> HIDE DEF u
<1>7. u \in Trees
  BY <1>4, <1>5, <1>6 DEF Trees
<1> QED
  BY <1>3, <1>4, <1>5, <1>7 DEF u

\* What f now imports and did not before has it as a dependent, what it no
\* longer imports has not.
NewDependentsOf(t, f, deps, g) ==
    IF g \in deps THEN t[g].dependents \cup (IF g \in t[f].deps THEN {} ELSE {f})
    ELSE t[g].dependents \ (IF g \in t[f].deps THEN {f} ELSE {})

IsRelinked(t, r, f, deps) ==
    /\ r \in Trees /\ r[f] = t[f]
    /\ \A g \in Ranked : r[g] = NoRow <=> t[g] = NoRow
    /\ \A g \in Ranked \ {f} : t[g] # NoRow =>
          /\ r[g].deps = t[g].deps /\ r[g].pkg = t[g].pkg
          /\ r[g].dependents = NewDependentsOf(t, f, deps, g)
          /\ g \notin t[f].deps \cup deps => r[g] = t[g]

LEMMA RelinkedLinks ==
    ASSUME NEW t \in Trees, NEW f \in Ranked, t[f] # NoRow, NEW deps \in SUBSET Ranked
    PROVE  IsRelinked(t, Relinked(t, f, deps), f, deps)
<1> DEFINE r == Relinked(t, f, deps)
<1>0. t[f] \in Node /\ NoRow \notin Node
  BY ImportanceAssumption DEF Trees
<1>1. r[f] = t[f] /\ r = [g \in Ranked |-> r[g]]
  BY DEF Relinked
<1>2. ASSUME NEW g \in Ranked, t[g] = NoRow, g # f
      PROVE  r[g] = NoRow
  BY <1>2 DEF Relinked
<1>3. ASSUME NEW g \in Ranked \ {f}, t[g] # NoRow
      PROVE  /\ r[g] \in Node /\ r[g].deps = t[g].deps /\ r[g].pkg = t[g].pkg
             /\ r[g].dependents = NewDependentsOf(t, f, deps, g)
             /\ g \notin t[f].deps \cup deps => r[g] = t[g]
  <2>1. t[g] \in Node
    BY <1>3 DEF Trees
  <2>2. CASE g \in t[f].deps \ deps
    <3>1. r[g] = [t[g] EXCEPT !.dependents = t[g].dependents \ {f}]
      BY <1>3, <2>2 DEF Relinked
    <3> HIDE DEF r
    <3> QED
      BY <2>1, <2>2, <3>1 DEF Node, NewDependentsOf
  <2>3. CASE g \in deps \ t[f].deps
    <3>1. r[g] = [t[g] EXCEPT !.dependents = t[g].dependents \cup {f}]
      BY <1>3, <2>3 DEF Relinked
    <3> HIDE DEF r
    <3> QED
      BY <2>1, <2>3, <3>1 DEF Node, NewDependentsOf
  <2>4. CASE g \notin t[f].deps \ deps /\ g \notin deps \ t[f].deps
    <3>1. r[g] = t[g]
      BY <1>3, <2>4 DEF Relinked
    <3> HIDE DEF r
    <3> QED
      BY <2>1, <2>4, <3>1 DEF Node, NewDependentsOf
  <2> QED
    BY <2>2, <2>3, <2>4
<1> HIDE DEF r
<1>4. r \in Trees
  BY <1>0, <1>1, <1>2, <1>3 DEF Trees
<1>5. \A g \in Ranked : r[g] = NoRow <=> t[g] = NoRow
  BY <1>0, <1>1, <1>2, <1>3
<1> QED
  BY <1>1, <1>3, <1>4, <1>5 DEF r, IsRelinked

\* What the change of one file leaves of the others: the same nodes, and each
\* either as it was or with its score.
OthersScored(t, u, f) ==
    \A g \in Ranked \ {f} :
        /\ u[g] = NoRow <=> t[g] = NoRow
        /\ t[g] # NoRow => u[g] = t[g] \/ Scored(u, g)

LEMMA UpdatedTreeScored ==
    ASSUME NEW t \in Trees, NEW f \in Ranked, t[f] # NoRow, Analysed(f) \subseteq Ranked
    PROVE  LET u == UpdatedTree(t, f)
               deps == Analysed(f) IN
           /\ u \in Trees /\ u[f] # NoRow /\ OthersScored(t, u, f) /\ Scored(u, f)
           /\ u[f].deps = deps /\ u[f].dependents = t[f].dependents
           /\ u[f].pkg = AnalysedPackages(f) /\ u[f].mtime = t[f].mtime
           /\ \A g \in Ranked \ {f} : t[g] # NoRow =>
                 /\ u[g].deps = t[g].deps /\ u[g].pkg = t[g].pkg
                 /\ u[g].dependents = NewDependentsOf(t, f, deps, g)
<1> DEFINE deps == Analysed(f)
           pkg == AnalysedPackages(f)
           r == Relinked(t, f, deps)
           linked == [r EXCEPT ![f].deps = deps, ![f].pkg = pkg]
           affected == Affected(f, t[f].deps, deps)
           u == recalculateImportanceForAffected(linked, affected)
<1>0. t[f] \in Node /\ NoRow \notin Node /\ pkg \in BOOLEAN
  BY ImportanceAssumption DEF Trees, AnalysedPackages
<1>1. affected \in SUBSET Ranked /\ f \in affected /\ \A g \in Ranked : g \in t[f].deps \cup deps => g \in affected
  BY <1>0 DEF Affected, Node
<1>2. /\ r \in Trees /\ r[f] = t[f]
      /\ \A g \in Ranked : r[g] = NoRow <=> t[g] = NoRow
      /\ \A g \in Ranked \ {f} : t[g] # NoRow =>
            /\ r[g].deps = t[g].deps /\ r[g].pkg = t[g].pkg
            /\ r[g].dependents = NewDependentsOf(t, f, deps, g)
            /\ g \notin t[f].deps \cup deps => r[g] = t[g]
  <2>1. IsRelinked(t, r, f, deps)
    BY RelinkedLinks
  <2> HIDE DEF r, deps
  <2> QED
    BY <2>1 DEF IsRelinked
<1> HIDE DEF r, deps, pkg
<1>3. /\ linked \in [Ranked -> Node \cup {NoRow}]
      /\ \A g \in Ranked \ {f} : linked[g] = r[g]
      /\ linked[f] = [[t[f] EXCEPT !.deps = deps] EXCEPT !.pkg = pkg]
  <2>1. [[t[f] EXCEPT !.deps = deps] EXCEPT !.pkg = pkg] \in Node
    BY <1>0 DEF Node, deps
  <2> QED
    BY <1>2, <2>1 DEF Trees
<1>4. /\ linked[f] \in Node /\ linked[f].deps = deps /\ linked[f].pkg = pkg
      /\ linked[f].dependents = t[f].dependents /\ linked[f].mtime = t[f].mtime
  <2> HIDE DEF linked
  <2> QED
    BY <1>0, <1>3 DEF Node, deps
<1> HIDE DEF linked, affected
<1>5. /\ u \in Trees
      /\ \A g \in Ranked : u[g] = NoRow <=> linked[g] = NoRow
      /\ \A g \in Ranked : linked[g] # NoRow =>
            /\ SameLinks(u, linked, g) /\ u[g].mtime = linked[g].mtime
            /\ u[g] = linked[g] \/ Scored(u, g)
            /\ g \in affected => Scored(u, g)
  <2>1. linked \in Trees
    BY <1>3 DEF Trees
  <2> QED
    BY <1>1, <2>1, Rescored
<1> HIDE DEF u
<1>6. UpdatedTree(t, f) = u
  BY DEF UpdatedTree, u, linked, affected, r, deps, pkg
<1>7. OthersScored(t, u, f)
  BY <1>1, <1>2, <1>3, <1>5 DEF OthersScored
<1>8. u[f] # NoRow /\ Scored(u, f) /\ u[f].deps = deps /\ u[f].dependents = t[f].dependents
      /\ u[f].pkg = pkg /\ u[f].mtime = t[f].mtime
  BY <1>0, <1>1, <1>4, <1>5 DEF SameLinks
<1>9. ASSUME NEW g \in Ranked \ {f}, t[g] # NoRow
      PROVE  /\ u[g].deps = r[g].deps /\ u[g].pkg = r[g].pkg /\ u[g].dependents = r[g].dependents
  BY <1>2, <1>3, <1>5, <1>9 DEF SameLinks
<1> QED
  BY <1>2, <1>5, <1>6, <1>7, <1>8, <1>9 DEF deps, pkg

LEMMA AddedTreeScored ==
    ASSUME NEW t \in Trees, NEW f \in Ranked, Analysed(f) \subseteq Ranked, MtimeOf(f, Unseen) \in Mtimes
    PROVE  LET u == AddedTree(t, f) IN
           /\ u \in Trees /\ OthersScored(t, u, f) /\ Scored(u, f)
           /\ u[f] # NoRow /\ u[f].deps = Analysed(f) /\ u[f].dependents = {}
           /\ u[f].pkg = AnalysedPackages(f)
<1> DEFINE deps == Analysed(f)
           pkg == AnalysedPackages(f)
           empty == [importance |-> calculateInitialImportance(f), mtime |-> MtimeOf(f, Unseen),
                     deps |-> {}, dependents |-> {}, pkg |-> pkg]
           e == [t EXCEPT ![f] = empty]
           r == Relinked(e, f, deps)
           linked == [r EXCEPT ![f].deps = deps]
           affected == Affected(f, {}, deps)
           u == recalculateImportanceForAffected(linked, affected)
<1>0. NoRow \notin Node /\ pkg \in BOOLEAN
  BY ImportanceAssumption DEF AnalysedPackages
<1>1. empty \in Node /\ empty.deps = {} /\ empty.dependents = {} /\ empty.pkg = pkg
  BY <1>0, ScoresAreBounded DEF Node
<1>2. affected \in SUBSET Ranked /\ f \in affected /\ \A g \in Ranked : g \in deps => g \in affected
  BY DEF Affected
<1>3. AddedTree(t, f) = u
  BY DEF AddedTree
<1> HIDE DEF empty, deps, pkg
<1>4. e \in Trees /\ e[f] = empty /\ \A g \in Ranked \ {f} : e[g] = t[g]
  BY <1>1 DEF Trees
<1> HIDE DEF e
<1>5. /\ r \in Trees /\ r[f] = empty
      /\ \A g \in Ranked : r[g] = NoRow <=> e[g] = NoRow
      /\ \A g \in Ranked \ {f} : e[g] # NoRow => (g \notin e[f].deps \cup deps => r[g] = e[g])
  <2>1. deps \in SUBSET Ranked /\ e[f] # NoRow
    BY <1>0, <1>1, <1>4 DEF deps
  <2>2. e \in Trees
    BY <1>4
  <2>3. IsRelinked(e, r, f, deps)
    BY <2>1, <2>2, RelinkedLinks
  <2> HIDE DEF r
  <2> QED
    BY <1>4, <2>3 DEF IsRelinked
<1> HIDE DEF r
<1>6. /\ linked \in [Ranked -> Node \cup {NoRow}]
      /\ \A g \in Ranked \ {f} : linked[g] = r[g]
      /\ linked[f] = [empty EXCEPT !.deps = deps]
  <2>1. [empty EXCEPT !.deps = deps] \in Node
    BY <1>1 DEF Node, deps
  <2> QED
    BY <1>5, <2>1 DEF Trees
<1>7. linked[f] \in Node /\ linked[f].deps = deps /\ linked[f].pkg = pkg /\ linked[f].dependents = {}
  <2> HIDE DEF linked
  <2> QED
    BY <1>1, <1>6 DEF Node, deps
<1> HIDE DEF linked, affected
<1>8. /\ u \in Trees
      /\ \A g \in Ranked : u[g] = NoRow <=> linked[g] = NoRow
      /\ \A g \in Ranked : linked[g] # NoRow =>
            /\ SameLinks(u, linked, g)
            /\ u[g] = linked[g] \/ Scored(u, g)
            /\ g \in affected => Scored(u, g)
  <2>1. linked \in Trees
    BY <1>6 DEF Trees
  <2> QED
    BY <1>2, <2>1, Rescored
<1> HIDE DEF u
<1>9. OthersScored(t, u, f)
  BY <1>1, <1>2, <1>4, <1>5, <1>6, <1>8 DEF OthersScored
<1>10. u[f] # NoRow /\ Scored(u, f) /\ u[f].deps = deps /\ u[f].dependents = {} /\ u[f].pkg = pkg
  BY <1>0, <1>2, <1>7, <1>8 DEF SameLinks
<1> QED
  BY <1>3, <1>8, <1>9, <1>10 DEF deps, pkg

LEMMA RemovedTreeScored ==
    ASSUME NEW t \in Trees, NEW f \in Ranked, t[f] # NoRow
    PROVE  LET u == RemovedTree(t, f) IN
           u \in Trees /\ u[f] = NoRow /\ OthersScored(t, u, f)
<1> DEFINE linked == [g \in Ranked |->
                        IF g = f THEN NoRow
                        ELSE IF t[g] = NoRow THEN NoRow
                        ELSE [t[g] EXCEPT
                                !.dependents = IF g \in t[f].deps THEN @ \ {f} ELSE @,
                                !.deps = IF g \in t[f].dependents THEN @ \ {f} ELSE @]]
           affected == t[f].deps \cup t[f].dependents
           u == recalculateImportanceForAffected(linked, affected)
<1>0. t[f] \in Node /\ NoRow \notin Node
  BY ImportanceAssumption DEF Trees
<1>1. affected \in SUBSET Ranked
  BY <1>0 DEF Node
<1>2. RemovedTree(t, f) = u
  BY DEF RemovedTree
<1>3. ASSUME NEW g \in Ranked \ {f}, t[g] # NoRow
      PROVE  linked[g] \in Node /\ (g \notin affected => linked[g] = t[g])
  <2>1. t[g] \in Node
    BY <1>3 DEF Trees
  <2>2. PICK a, b : /\ a = IF g \in t[f].deps THEN t[g].dependents \ {f} ELSE t[g].dependents
                    /\ b = IF g \in t[f].dependents THEN t[g].deps \ {f} ELSE t[g].deps
    OBVIOUS
  <2>3. linked[g] = [[t[g] EXCEPT !.dependents = a] EXCEPT !.deps = b]
    BY <1>3, <2>2
  <2>4. a \in SUBSET Ranked /\ b \in SUBSET Ranked
    BY <2>1, <2>2 DEF Node
  <2>5. g \notin affected => a = t[g].dependents /\ b = t[g].deps
    BY <2>2
  <2> HIDE DEF linked, affected
  <2>6. /\ linked[g] \in Node /\ linked[g].dependents = a /\ linked[g].deps = b
        /\ linked[g].importance = t[g].importance /\ linked[g].mtime = t[g].mtime
        /\ linked[g].pkg = t[g].pkg
    BY <2>1, <2>3, <2>4 DEF Node
  <2>7. \A m, n \in Node :
          /\ m.importance = n.importance /\ m.mtime = n.mtime /\ m.deps = n.deps
          /\ m.dependents = n.dependents /\ m.pkg = n.pkg
          => m = n
    BY DEF Node
  <2> QED
    BY <2>1, <2>5, <2>6, <2>7
<1>4. /\ linked \in Trees /\ linked[f] = NoRow
      /\ \A g \in Ranked \ {f} : linked[g] = NoRow <=> t[g] = NoRow
  <2>1. linked = [g \in Ranked |-> linked[g]] /\ linked[f] = NoRow
    OBVIOUS
  <2>2. \A g \in Ranked \ {f} : t[g] = NoRow => linked[g] = NoRow
    OBVIOUS
  <2> HIDE DEF linked, affected
  <2> QED
    BY <1>0, <1>3, <2>1, <2>2 DEF Trees
<1> HIDE DEF linked, affected
<1>5. /\ u \in Trees
      /\ \A g \in Ranked : u[g] = NoRow <=> linked[g] = NoRow
      /\ \A g \in Ranked : linked[g] # NoRow =>
            /\ u[g] = linked[g] \/ Scored(u, g)
            /\ g \in affected => Scored(u, g)
  BY <1>1, <1>4, Rescored
<1> HIDE DEF u
<1>6. OthersScored(t, u, f)
  BY <1>3, <1>4, <1>5 DEF OthersScored
<1> QED
  BY <1>2, <1>4, <1>5, <1>6

(* A tree whose nodes all have their score has it again after the change,   *)
(* the addition or the removal of any file.                                 *)
LEMMA ChangesKeepScores ==
    ASSUME NEW t \in Trees, TreeIsScored(t), NEW f \in Ranked,
           Analysed(f) \subseteq Ranked, MtimeOf(f, Unseen) \in Mtimes
    PROVE  IF t[f] # NoRow
           THEN TreeIsScored(UpdatedTree(t, f)) /\ TreeIsScored(RemovedTree(t, f))
           ELSE TreeIsScored(AddedTree(t, f))
<1>1. ASSUME NEW u, OthersScored(t, u, f), u[f] = NoRow \/ Scored(u, f)
      PROVE  TreeIsScored(u)
  BY <1>1 DEF OthersScored, TreeIsScored, Scored
<1>2. CASE t[f] # NoRow
  BY <1>1, <1>2, UpdatedTreeScored, RemovedTreeScored
<1>3. CASE t[f] = NoRow
  BY <1>1, <1>3, AddedTreeScored
<1> QED
  BY <1>2, <1>3

-----------------------------------------------------------------------------
(* Importance: the rows. *)

RowScored(f) == scores[f].importance = calculateNodeImportance(f, NodeOf(f))

\* The tables, and the scores of the rows that nothing has bypassed.
TablesInv ==
    /\ content \in [Ranked -> Disk \cup {NoRow}]
    /\ \A f \in Ranked : OnDisk(f) => f \notin content[f].imports
    /\ scores \in [Ranked -> Row \cup {NoRow}]
    /\ targets \in [Ranked -> SUBSET Ranked]
    /\ \A f \in Ranked : f \notin targets[f]
    /\ packages \subseteq Ranked /\ oldScores \subseteq Ranked /\ unscored \subseteq Ranked
    /\ \A f \in Stored \ unscored : RowScored(f)

\* The tree has of a row what the tables have, and its score.
InTree(t, f) ==
    /\ f \in Stored /\ t[f] # NoRow
    /\ t[f].deps = targets[f] /\ t[f].dependents = Dependents(f) /\ (t[f].pkg <=> f \in packages)
    /\ f \notin unscored => Scored(t, f)

LEMMA AnalysedType ==
    ASSUME TablesInv, NEW f \in Ranked
    PROVE  /\ Analysed(f) \subseteq Ranked /\ f \notin Analysed(f)
           /\ MtimeOf(f, Unseen) \in Mtimes /\ \A m \in Mtimes : MtimeOf(f, m) \in Mtimes
           /\ AnalysedPackages(f) \in BOOLEAN
<1>1. CASE OnDisk(f)
  <2>1. content[f] \in Disk
    BY <1>1 DEF TablesInv, OnDisk
  <2>2. content[f].imports \subseteq Ranked /\ content[f].mtime \in Nat
    BY <2>1 DEF Disk
  <2> QED
    BY <1>1, <2>2 DEF TablesInv, Analysed, MtimeOf, Mtimes, AnalysedPackages
<1>2. CASE ~OnDisk(f)
  BY <1>2 DEF Analysed, MtimeOf, Mtimes, AnalysedPackages
<1> QED
  BY <1>1, <1>2

(* A row keeps its score when its links stay.                               *)
LEMMA RowKeepsScore ==
    ASSUME NEW g, RowScored(g), scores'[g].importance = scores[g].importance,
           targets'[g] = targets[g], Dependents(g)' = Dependents(g), (g \in packages') <=> (g \in packages)
    PROVE  RowScored(g)'
<1>1. PICK m : m = NodeOf(g)
  OBVIOUS
<1>2. PICK n : n = NodeOf(g)'
  OBVIOUS
<1>3. /\ m.deps = targets[g] /\ m.dependents = Dependents(g) /\ (m.pkg <=> g \in packages)
      /\ n.deps = targets'[g] /\ n.dependents = Dependents(g)' /\ (n.pkg <=> g \in packages')
  BY <1>1, <1>2 DEF NodeOf
<1>4. calculateNodeImportance(g, m) = calculateNodeImportance(g, n)
  BY <1>3, LinksGiveTheScore
<1>5. RowScored(g) <=> scores[g].importance = calculateNodeImportance(g, m)
  BY <1>1 DEF RowScored
<1>6. RowScored(g)' <=> scores'[g].importance = calculateNodeImportance(g, n)
  BY <1>2 DEF RowScored, calculateNodeImportance, calculateInitialImportance
<1> QED
  BY <1>4, <1>5, <1>6

(* A row that is written has its score, unless it is new and imported.      *)
LEMMA PersistKeeps ==
    ASSUME TablesInv, NEW f \in Ranked, NEW u \in Trees, u[f] # NoRow, Scored(u, f),
           NEW deps \in SUBSET Ranked, f \notin deps, u[f].deps = deps,
           u[f].pkg = AnalysedPackages(f),
           u[f].dependents = Dependents(f) \/ (f \notin Stored /\ Dependents(f) # {}),
           Persist(u, f, deps), UNCHANGED content
    PROVE  /\ TablesInv' /\ Stored' = Stored \cup {f} /\ oldScores' \cap Stored' \subseteq oldScores \cap Stored
           /\ targets' = [targets EXCEPT ![f] = deps]
           /\ \A g \in Ranked \ {f} : g \in packages' <=> g \in packages
           /\ f \in packages' <=> u[f].pkg
           /\ unscored \ {f} \subseteq unscored'
<1> DEFINE row == [importance |-> u[f].importance, mtime |-> u[f].mtime]
<1>1. /\ scores' = [scores EXCEPT ![f] = row] /\ targets' = [targets EXCEPT ![f] = deps]
      /\ packages' = IF AnalysedPackages(f) THEN packages \cup {f} ELSE packages \ {f}
      /\ oldScores' = oldScores \ {f}
      /\ unscored' = (unscored \ {f}) \cup Bypassed(f, deps)
                        \cup (IF f \notin Stored /\ Dependents(f) # {} THEN {f} ELSE {})
  BY DEF Persist
<1>2. u[f] \in Node /\ NoRow \notin Row
  BY ImportanceAssumption DEF Trees
<1>3. row \in Row /\ row.importance = u[f].importance
  BY <1>2 DEF Node, Row
<1>4. row # NoRow
  BY <1>2, <1>3
<1> HIDE DEF row
<1>5. /\ scores' \in [Ranked -> Row \cup {NoRow}] /\ scores'[f] = row
      /\ \A g \in Ranked \ {f} : scores'[g] = scores[g]
  BY <1>1, <1>3 DEF TablesInv
<1>6. Stored' = Stored \cup {f}
  BY <1>4, <1>5 DEF Stored
<1>7. /\ targets' \in [Ranked -> SUBSET Ranked] /\ targets'[f] = deps
      /\ \A g \in Ranked \ {f} : targets'[g] = targets[g]
      /\ \A g \in Ranked : g \notin targets[g] /\ g \notin targets'[g]
  BY <1>1 DEF TablesInv
<1>8. Bypassed(f, deps) \subseteq Ranked
  BY DEF Bypassed, TablesInv
<1>9. packages' \subseteq Ranked /\ oldScores' \subseteq Ranked /\ unscored' \subseteq Ranked
  BY <1>1, <1>8 DEF TablesInv
<1>10. ASSUME NEW g \in Stored' \ unscored'
       PROVE  RowScored(g)'
  <2>1. CASE g = f
    <3>1. u[f].dependents = Dependents(f)
      BY <1>1, <1>10, <2>1
    <3>2. Dependents(f)' = Dependents(f)
      BY <1>7 DEF Dependents
    <3>3. PICK n : n = NodeOf(f)'
      OBVIOUS
    <3>4. n.deps = targets'[f] /\ n.dependents = Dependents(f)' /\ (n.pkg <=> f \in packages')
      BY <3>3 DEF NodeOf
    <3>5. f \in packages' <=> u[f].pkg
      BY <1>1
    <3>6. calculateNodeImportance(f, u[f]) = calculateNodeImportance(f, n)
      BY <1>7, <3>1, <3>2, <3>4, <3>5, LinksGiveTheScore
    <3>7. RowScored(f)' <=> scores'[f].importance = calculateNodeImportance(f, n)
      BY <3>3 DEF RowScored, calculateNodeImportance, calculateInitialImportance
    <3> QED
      BY <1>3, <1>5, <2>1, <3>6, <3>7 DEF Scored
  <2>2. CASE g # f
    <3>1. g \in Stored \ unscored /\ g \in Ranked /\ g \notin Bypassed(f, deps)
      BY <1>1, <1>6, <1>10, <2>2 DEF Stored
    <3>2. RowScored(g)
      BY <3>1 DEF TablesInv
    <3>3. g \in targets[f] <=> g \in deps
      BY <2>2, <3>1 DEF Bypassed
    <3>4. Dependents(g)' = Dependents(g)
      BY <1>7, <3>3 DEF Dependents
    <3>5. (g \in packages') <=> (g \in packages)
      BY <1>1, <2>2
    <3> QED
      BY <1>5, <1>7, <2>2, <3>1, <3>2, <3>4, <3>5, RowKeepsScore
  <2> QED
    BY <2>1, <2>2
<1>11. content' \in [Ranked -> Disk \cup {NoRow}] /\ \A g \in Ranked : OnDisk(g)' => g \notin content'[g].imports
  BY DEF TablesInv, OnDisk
<1>12. TablesInv'
  BY <1>5, <1>7, <1>9, <1>10, <1>11 DEF TablesInv
<1> QED
  BY <1>1, <1>6, <1>12

(* The tree that the rows make has every row, with what the tables have.    *)
LEMMA RowsMakeATree ==
    ASSUME TablesInv
    PROVE  /\ TreeOfRows \in Trees
           /\ \A f \in Ranked : TreeOfRows[f] # NoRow <=> f \in Stored
           /\ \A f \in Stored : InTree(TreeOfRows, f)
<1>1. ASSUME NEW f \in Stored
      PROVE  NodeOf(f) \in Node /\ InTree(TreeOfRows, f) /\ TreeOfRows[f] # NoRow
  <2>1. f \in Ranked /\ scores[f] \in Row
    BY DEF Stored, TablesInv
  <2>2. PICK n : n = NodeOf(f)
    OBVIOUS
  <2>3. PICK b \in BOOLEAN : b <=> f \in packages
    BY Zenon
  <2>4. n = [importance |-> scores[f].importance, mtime |-> scores[f].mtime,
             deps |-> targets[f], dependents |-> Dependents(f), pkg |-> f \in packages]
    BY <2>2 DEF NodeOf
  <2>5. /\ n.importance = scores[f].importance /\ n.deps = targets[f]
        /\ n.dependents = Dependents(f) /\ (n.pkg <=> f \in packages)
    BY <2>4
  <2>6. n \in Node
    <3>1. scores[f].importance \in 0..10 /\ scores[f].mtime \in Mtimes
      BY <2>1 DEF Row
    <3>2. targets[f] \subseteq Ranked /\ Dependents(f) \subseteq Ranked
      BY <2>1 DEF TablesInv, Dependents
    <3> QED
      BY <2>4, <3>1, <3>2 DEF Node
  <2>7. TreeOfRows[f] = n
    BY <2>1, <2>2 DEF TreeOfRows
  <2>8. n # NoRow
    BY <2>6, ImportanceAssumption
  <2>9. f \notin unscored => Scored(TreeOfRows, f)
    BY <2>2, <2>5, <2>7 DEF TablesInv, RowScored, Scored
  <2> QED
    BY <2>2, <2>5, <2>6, <2>7, <2>8, <2>9 DEF InTree
<1>2. \A f \in Ranked : f \notin Stored => TreeOfRows[f] = NoRow
  BY DEF TreeOfRows
<1>3. TreeOfRows \in Trees
  BY <1>1 DEF TreeOfRows, Trees
<1> QED
  BY <1>1, <1>2, <1>3 DEF Stored

(* The tree of a change knows the links that the tables get.                *)
LEMMA UpdateFollowsTables ==
    ASSUME NEW t \in Trees, NEW u, NEW f \in Ranked, NEW g \in Ranked \ {f}, NEW deps,
           InTree(t, f), InTree(t, g), OthersScored(t, u, f),
           u[g].deps = t[g].deps, u[g].pkg = t[g].pkg,
           u[g].dependents = NewDependentsOf(t, f, deps, g),
           targets \in [Ranked -> SUBSET Ranked],
           targets' = [targets EXCEPT ![f] = deps], g \in packages' <=> g \in packages,
           Stored' = Stored, unscored \ {f} \subseteq unscored'
    PROVE  InTree(u, g)'
<1>1. u[g] # NoRow /\ g \in Stored' /\ u[g].deps = targets'[g] /\ (u[g].pkg <=> g \in packages')
  BY DEF InTree, OthersScored
<1>2. u[g].dependents = Dependents(g)'
  <2>1. t[f].deps = targets[f] /\ t[g].dependents = Dependents(g)
    BY DEF InTree
  <2>2. \A x \in Ranked : targets'[x] = IF x = f THEN deps ELSE targets[x]
    OBVIOUS
  <2>3. g \in targets[f] <=> f \in Dependents(g)
    BY DEF Dependents
  <2>4. Dependents(g)' = {x \in Ranked : IF x = f THEN g \in deps ELSE x \in Dependents(g)}
    BY <2>2 DEF Dependents
  <2>5. Dependents(g) \subseteq Ranked
    BY DEF Dependents
  <2>6. u[g].dependents = {x \in Ranked : IF x = f THEN g \in deps ELSE x \in Dependents(g)}
    BY <2>1, <2>3, <2>5 DEF NewDependentsOf
  <2> QED
    BY <2>4, <2>6
<1>3. g \notin unscored' => Scored(u, g)
  <2>1. CASE g \notin unscored
    <3>1. Scored(t, g) /\ (u[g] = t[g] \/ Scored(u, g))
      BY <2>1 DEF InTree, OthersScored
    <3> QED
      BY <3>1 DEF Scored
  <2>2. CASE g \in unscored
    BY <2>2
  <2> QED
    BY <2>1, <2>2
<1>4. Scored(u, g)' <=> Scored(u, g)
  BY DEF Scored, calculateNodeImportance, calculateInitialImportance
<1> QED
  BY <1>1, <1>2, <1>3, <1>4 DEF InTree

(* The update of a row, by its event or by the sweep.                       *)
LEMMA UpdateRowKeeps ==
    ASSUME TablesInv, healTree \in Trees, NEW f \in Ranked, NEW t \in Trees, InTree(t, f),
           UpdateRow(t, f), UNCHANGED content
    PROVE  /\ TablesInv' /\ Stored' = Stored /\ oldScores' \cap Stored' \subseteq oldScores \cap Stored
           /\ healTree' \in Trees
           /\ stage = "sweeping" =>
                 /\ healTree'[f] # NoRow
                 /\ \A g \in Ranked \ {f} :
                       /\ healTree'[g] # NoRow <=> t[g] # NoRow
                       /\ InTree(t, g) => InTree(healTree, g)'
<1>1. PICK m : m = MtimeOf(f, t[f].mtime)
  OBVIOUS
<1>2. PICK now : now = [t EXCEPT ![f].mtime = m]
  OBVIOUS
<1>3. [t EXCEPT ![f].mtime = MtimeOf(f, @)] = now
  BY <1>1, <1>2
<1>4. t[f] \in Node /\ f \in Stored /\ NoRow \notin Node
  BY ImportanceAssumption DEF InTree, Trees
<1>5. m \in Mtimes
  BY <1>1, <1>4, AnalysedType DEF Node
<1>6. /\ now \in Trees /\ now[f] # NoRow /\ SameLinks(now, t, f) /\ now[f].importance = t[f].importance
      /\ now[f].mtime = m
      /\ \A g \in Ranked \ {f} : now[g] = t[g]
  <2>1. [t[f] EXCEPT !.mtime = m] \in Node
    BY <1>4, <1>5 DEF Node
  <2>2. now[f] = [t[f] EXCEPT !.mtime = m] /\ \A g \in Ranked \ {f} : now[g] = t[g]
    BY <1>2 DEF Trees
  <2>3. now \in Trees
    BY <1>2, <2>1 DEF Trees
  <2>4. SameLinks(now, t, f) /\ now[f].importance = t[f].importance /\ now[f].mtime = m
    BY <1>4, <2>2 DEF SameLinks, Node
  <2> QED
    BY <1>4, <2>1, <2>2, <2>3, <2>4
<1>7. InTree(now, f) /\ \A g \in Ranked \ {f} : InTree(t, g) => InTree(now, g)
  <2>1. Scored(t, f) => Scored(now, f)
    BY <1>6, LinksGiveTheScore DEF Scored, SameLinks
  <2>2. InTree(now, f)
    BY <1>6, <2>1 DEF InTree, SameLinks
  <2> QED
    BY <1>6, <2>2 DEF InTree, Scored
<1>8. \/ Persist(UpdatedTree(now, f), f, Analysed(f))
      \/ /\ now[f].deps = Analysed(f)
         /\ scores' = [scores EXCEPT ![f] = [importance |-> now[f].importance,
                                             mtime |-> now[f].mtime]]
         /\ KeepTree(now)
         /\ UNCHANGED <<targets, packages, oldScores, unscored>>
  <2>1. PICK differ \in ImportsDiffer(t, f) :
          IF differ THEN Persist(UpdatedTree(now, f), f, Analysed(f))
          ELSE /\ scores' = [scores EXCEPT ![f] = [importance |-> now[f].importance,
                                                   mtime |-> now[f].mtime]]
               /\ KeepTree(now)
               /\ UNCHANGED <<targets, packages, oldScores, unscored>>
    BY <1>3 DEF UpdateRow
  <2>2. differ \/ now[f].deps = Analysed(f)
    BY <1>6 DEF ImportsDiffer, SameLinks
  <2> QED
    BY <2>1, <2>2
<1>9. CASE Persist(UpdatedTree(now, f), f, Analysed(f))
  <2>1. PICK u : u = UpdatedTree(now, f)
    OBVIOUS
  <2>2. PICK deps : deps = Analysed(f)
    OBVIOUS
  <2>3. deps \in SUBSET Ranked /\ f \notin deps
    BY <2>2, AnalysedType
  <2>4. /\ u \in Trees /\ u[f] # NoRow /\ OthersScored(now, u, f) /\ Scored(u, f)
        /\ u[f].deps = deps /\ u[f].dependents = now[f].dependents
        /\ u[f].pkg = AnalysedPackages(f)
        /\ \A g \in Ranked \ {f} : now[g] # NoRow =>
              /\ u[g].deps = now[g].deps /\ u[g].pkg = now[g].pkg
              /\ u[g].dependents = NewDependentsOf(now, f, deps, g)
    <3>1. now \in Trees /\ now[f] # NoRow /\ Analysed(f) \subseteq Ranked
      BY <1>6, AnalysedType
    <3> QED
      BY <2>1, <2>2, <3>1, UpdatedTreeScored
  <2>5. Persist(u, f, deps)
    BY <1>9, <2>1, <2>2 DEF Persist, KeepTree
  <2>6. u[f].dependents = Dependents(f)
    BY <1>7, <2>4 DEF InTree
  <2>7. /\ TablesInv' /\ Stored' = Stored \cup {f}
        /\ oldScores' \cap Stored' \subseteq oldScores \cap Stored
        /\ targets' = [targets EXCEPT ![f] = deps]
        /\ \A g \in Ranked \ {f} : g \in packages' <=> g \in packages
        /\ unscored \ {f} \subseteq unscored'
    BY <2>3, <2>4, <2>5, <2>6, PersistKeeps
  <2>8. Stored' = Stored
    BY <1>4, <2>7
  <2>9. healTree' = IF stage = "sweeping" THEN u ELSE healTree
    BY <2>5 DEF Persist, KeepTree
  <2>10. healTree' \in Trees
    BY <2>4, <2>9
  <2>11. ASSUME stage = "sweeping", NEW g \in Ranked \ {f}
         PROVE  /\ healTree'[g] # NoRow <=> t[g] # NoRow
                /\ InTree(t, g) => InTree(healTree, g)'
    <3>1. healTree' = u /\ now[g] = t[g]
      BY <1>6, <2>9, <2>11
    <3>2. ASSUME InTree(t, g)
          PROVE  InTree(u, g)'
      <4>1. InTree(now, g) /\ now[g] # NoRow
        BY <1>7, <3>2 DEF InTree
      <4>2. targets \in [Ranked -> SUBSET Ranked]
        BY DEF TablesInv
      <4> QED
        BY <1>6, <1>7, <2>4, <2>7, <2>8, <4>1, <4>2, UpdateFollowsTables
    <3>3. InTree(u, g)' => InTree(healTree, g)'
      BY <3>1 DEF InTree, Scored
    <3> QED
      BY <2>4, <3>1, <3>2, <3>3 DEF OthersScored
  <2> QED
    BY <2>4, <2>7, <2>8, <2>9, <2>10, <2>11
<1>10. CASE /\ now[f].deps = Analysed(f)
            /\ scores' = [scores EXCEPT ![f] = [importance |-> now[f].importance,
                                                mtime |-> now[f].mtime]]
            /\ KeepTree(now)
            /\ UNCHANGED <<targets, packages, oldScores, unscored>>
  <2>1. PICK row : row = [importance |-> now[f].importance, mtime |-> now[f].mtime]
    OBVIOUS
  <2>2. row \in Row /\ row # NoRow /\ row.importance = now[f].importance
    <3>1. now[f].importance \in 0..10 /\ now[f].mtime \in Mtimes
      BY <1>4, <1>5, <1>6 DEF Node
    <3> QED
      BY <2>1, <3>1, ImportanceAssumption DEF Row
  <2>3. /\ scores' \in [Ranked -> Row \cup {NoRow}] /\ scores'[f] = row
        /\ \A g \in Ranked \ {f} : scores'[g] = scores[g]
    <3>1. scores' = [scores EXCEPT ![f] = row]
      BY <1>10, <2>1
    <3> QED
      BY <2>2, <3>1 DEF TablesInv
  <2>4. Stored' = Stored
    BY <1>4, <2>2, <2>3 DEF Stored
  <2>5. /\ targets' = targets /\ packages' = packages /\ oldScores' = oldScores /\ unscored' = unscored
        /\ \A g : Dependents(g)' = Dependents(g)
    BY <1>10 DEF Dependents
  <2>6. ASSUME NEW g \in Stored' \ unscored'
        PROVE  RowScored(g)'
    <3>1. g \in Ranked /\ RowScored(g)
      BY <2>4, <2>5, <2>6 DEF TablesInv, Stored
    <3>2. scores'[g].importance = scores[g].importance
      <4>1. CASE g = f
        <5>1. Scored(now, f)
          BY <1>7, <2>5, <2>6, <4>1 DEF InTree
        <5>2. PICK n : n = NodeOf(f)
          OBVIOUS
        <5>3. n.deps = targets[f] /\ n.dependents = Dependents(f) /\ (n.pkg <=> f \in packages)
          BY <5>2 DEF NodeOf
        <5>4. calculateNodeImportance(f, now[f]) = calculateNodeImportance(f, n)
          BY <1>7, <5>3, LinksGiveTheScore DEF InTree
        <5> QED
          BY <2>2, <2>3, <3>1, <4>1, <5>1, <5>2, <5>4 DEF Scored, RowScored
      <4>2. CASE g # f
        BY <2>3, <3>1, <4>2
      <4> QED
        BY <4>1, <4>2
    <3> QED
      BY <2>5, <3>1, <3>2, RowKeepsScore
  <2>7. TablesInv'
    BY <2>3, <2>4, <2>5, <2>6 DEF TablesInv, OnDisk
  <2>8. healTree' = IF stage = "sweeping" THEN now ELSE healTree
    BY <1>10 DEF KeepTree
  <2>9. ASSUME stage = "sweeping", NEW g \in Ranked \ {f}
        PROVE  /\ healTree'[g] # NoRow <=> t[g] # NoRow
               /\ InTree(t, g) => InTree(healTree, g)'
    <3>1. healTree' = now /\ now[g] = t[g]
      BY <1>6, <2>8, <2>9
    <3>2. InTree(now, g) => InTree(now, g)'
      BY <2>4, <2>5 DEF InTree, Scored, calculateNodeImportance, calculateInitialImportance
    <3>3. InTree(now, g)' => InTree(healTree, g)'
      BY <3>1 DEF InTree, Scored
    <3> QED
      BY <1>7, <3>1, <3>2, <3>3
  <2> QED
    BY <1>6, <2>4, <2>5, <2>7, <2>8, <2>9
<1> QED
  BY <1>8, <1>9, <1>10

(* The addition of a row: it is bypassed if someone imports it already.     *)
LEMMA AddRowKeeps ==
    ASSUME TablesInv, healTree \in Trees, NEW f \in Ranked, f \notin Stored, NEW t \in Trees,
           AddRow(t, f), UNCHANGED content
    PROVE  /\ TablesInv' /\ Stored' = Stored \cup {f}
           /\ oldScores' \cap Stored' \subseteq oldScores \cap Stored
           /\ healTree' \in Trees
<1>1. PICK u : u = AddedTree(t, f)
  OBVIOUS
<1>2. PICK deps : deps = Analysed(f)
  OBVIOUS
<1>3. deps \in SUBSET Ranked /\ f \notin deps
  BY <1>2, AnalysedType
<1>4. /\ u \in Trees /\ Scored(u, f)
      /\ u[f] # NoRow /\ u[f].deps = deps /\ u[f].dependents = {} /\ u[f].pkg = AnalysedPackages(f)
  <2>1. Analysed(f) \subseteq Ranked /\ MtimeOf(f, Unseen) \in Mtimes
    BY AnalysedType
  <2> QED
    BY <1>1, <1>2, <2>1, AddedTreeScored
<1>5. Persist(u, f, deps)
  BY <1>1, <1>2 DEF AddRow, Persist, KeepTree
<1>6. u[f].dependents = Dependents(f) \/ (f \notin Stored /\ Dependents(f) # {})
  BY <1>4
<1>7. healTree' \in Trees
  BY <1>4, <1>5 DEF Persist, KeepTree
<1> QED
  BY <1>3, <1>4, <1>5, <1>6, <1>7, PersistKeeps

(* The removal of a row: its neighbours are bypassed.                       *)
LEMMA RemoveRowKeeps ==
    ASSUME TablesInv, healTree \in Trees, NEW f \in Ranked, NEW t \in Trees, t[f] # NoRow,
           RemoveRow(t, f), UNCHANGED content
    PROVE  /\ TablesInv' /\ Stored' = Stored \ {f}
           /\ oldScores' \cap Stored' \subseteq oldScores \cap Stored
           /\ healTree' \in Trees
           /\ stage = "sweeping" => \A g \in Ranked \ {f} : healTree'[g] # NoRow <=> t[g] # NoRow
<1>1. /\ scores' = [scores EXCEPT ![f] = NoRow]
      /\ targets' = [g \in Ranked |-> IF g = f THEN {} ELSE targets[g] \ {f}]
      /\ packages' = packages \ {f} /\ oldScores' = oldScores \ {f}
      /\ unscored' = (unscored \cup targets[f] \cup Dependents(f)) \ {f}
  BY DEF RemoveRow
<1>2. /\ scores' \in [Ranked -> Row \cup {NoRow}] /\ scores'[f] = NoRow
      /\ \A g \in Ranked \ {f} : scores'[g] = scores[g]
  BY <1>1 DEF TablesInv
<1>3. Stored' = Stored \ {f}
  BY <1>2 DEF Stored
<1>4. targets' \in [Ranked -> SUBSET Ranked] /\ \A g \in Ranked : g \notin targets'[g]
  BY <1>1 DEF TablesInv
<1>5. packages' \subseteq Ranked /\ oldScores' \subseteq Ranked /\ unscored' \subseteq Ranked
  BY <1>1 DEF TablesInv, Dependents
<1>6. ASSUME NEW g \in Stored' \ unscored'
      PROVE  RowScored(g)'
  <2>1. /\ g \in Ranked \ {f} /\ g \in Stored \ unscored
        /\ g \notin targets[f] /\ g \notin Dependents(f)
    BY <1>1, <1>3, <1>6 DEF Stored
  <2>2. RowScored(g)
    BY <2>1 DEF TablesInv
  <2>3. targets'[g] = targets[g]
    BY <1>1, <2>1 DEF Dependents, TablesInv
  <2>4. Dependents(g)' = Dependents(g)
    <3>1. \A x \in Ranked : g \in targets'[x] <=> g \in targets[x]
      BY <1>1, <2>1
    <3> QED
      BY <3>1 DEF Dependents
  <2>5. (g \in packages') <=> (g \in packages)
    BY <1>1, <2>1
  <2>6. scores'[g].importance = scores[g].importance
    BY <1>2, <2>1
  <2> QED
    BY <2>2, <2>3, <2>4, <2>5, <2>6, RowKeepsScore
<1>7. TablesInv'
  BY <1>2, <1>4, <1>5, <1>6 DEF TablesInv, OnDisk
<1>8. PICK u : u = RemovedTree(t, f)
  OBVIOUS
<1>9. u \in Trees /\ OthersScored(t, u, f)
  BY <1>8, RemovedTreeScored
<1>10. healTree' = IF stage = "sweeping" THEN u ELSE healTree
  BY <1>8 DEF RemoveRow, KeepTree
<1> QED
  BY <1>1, <1>3, <1>7, <1>9, <1>10 DEF OthersScored

-----------------------------------------------------------------------------
(* Importance: the sound tables, the sweep and the release.                 *)

\* What the sweep has still to visit is as it was found.
SweepInv ==
    stage = "sweeping" => \A f \in Ranked :
        /\ <<"stale", f>> \in healing => InTree(healTree, f)
        /\ <<"missing", f>> \in healing => healTree[f] # NoRow
        /\ <<"new", f>> \in healing => f \notin Stored

\* Scores of an older algorithm wait for a start that scores everything: the
\* version stored is not the present one until it has.
ReleaseInv ==
    /\ algorithm \in 1..MaxVersion /\ stored \in 0..algorithm
    /\ oldScores \cap Stored # {} =>
          stored # algorithm /\ stage \in {"down", "listed", "extracted"}

ImportanceInv ==
    /\ TablesInv /\ SweepInv /\ ReleaseInv
    /\ healTree \in Trees /\ healing \subseteq {"stale", "missing", "new"} \X Ranked
    /\ edited \in Nat
    /\ stage = "listed" => Stored \subseteq unscored

LEMMA ImportanceBegins == ImportanceInit => ImportanceInv
<1> SUFFICES ASSUME ImportanceInit
             PROVE  ImportanceInv
  OBVIOUS
<1>1. Stored = {}
  BY DEF ImportanceInit, Stored
<1>2. TablesInv
  <2>1. content \in [Ranked -> Disk \cup {NoRow}]
    BY DEF ImportanceInit, Disk
  <2>2. \A f \in Ranked : OnDisk(f) => f \notin content[f].imports
    BY DEF ImportanceInit
  <2> QED
    BY <1>1, <2>1, <2>2 DEF ImportanceInit, TablesInv
<1>3. ReleaseInv
  BY ImportanceAssumption DEF ImportanceInit, ReleaseInv
<1> QED
  BY <1>1, <1>2, <1>3 DEF ImportanceInit, ImportanceInv, SweepInv, Trees

(* What no row, edge or version is touched by keeps the tables.             *)
LEMMA TablesStay ==
    ASSUME TablesInv, UNCHANGED tables
    PROVE  /\ Stored' = Stored /\ oldScores' = oldScores /\ unscored' = unscored
           /\ /\ content' \in [Ranked -> Disk \cup {NoRow}]
              /\ \A f \in Ranked : content'[f] # NoRow => f \notin content'[f].imports
              => TablesInv'
<1>1. /\ scores' = scores /\ targets' = targets /\ packages' = packages
      /\ oldScores' = oldScores /\ unscored' = unscored
  BY DEF tables
<1>2. Stored' = Stored /\ \A g : Dependents(g)' = Dependents(g)
  BY <1>1 DEF Stored, Dependents
<1>3. ASSUME NEW g \in Stored' \ unscored'
      PROVE  RowScored(g)'
  <2>1. RowScored(g)
    BY <1>1, <1>2, <1>3 DEF TablesInv
  <2> QED
    BY <1>1, <1>2, <2>1, RowKeepsScore
<1> QED
  BY <1>1, <1>2, <1>3 DEF TablesInv, OnDisk

LEMMA DiskTouched ==
    ASSUME ImportanceInv, NEW f \in Ranked,
           Unlink(f) \/ \E wanted \in SUBSET Ranked : f \notin wanted /\ Save(f, wanted)
    PROVE  ImportanceInv'
<1>1. /\ UNCHANGED <<tables, stored, algorithm, stage, healing, healTree>>
      /\ stage \in {"up", "down"} /\ edited' = edited + 1
  BY DEF Unlink, Save
<1>2. edited' \in Nat
  BY <1>1 DEF ImportanceInv
<1>3. /\ content' \in [Ranked -> Disk \cup {NoRow}]
      /\ \A g \in Ranked : content'[g] # NoRow => g \notin content'[g].imports
  <2>1. CASE Unlink(f)
    BY <2>1 DEF Unlink, ImportanceInv, TablesInv, OnDisk
  <2>2. ASSUME NEW wanted \in SUBSET Ranked, f \notin wanted, Save(f, wanted)
        PROVE  <1>3!1 /\ <1>3!2
    <3>1. PICK saved : saved = [imports |-> wanted, mtime |-> edited']
      OBVIOUS
    <3>2. saved \in Disk /\ saved.imports = wanted
      BY <1>2, <3>1 DEF Disk
    <3>3. content' = [content EXCEPT ![f] = saved]
      BY <2>2, <3>1 DEF Save
    <3> QED
      BY <2>2, <3>2, <3>3 DEF ImportanceInv, TablesInv, OnDisk
  <2> QED
    BY <2>1, <2>2
<1>4. TablesInv' /\ Stored' = Stored /\ oldScores' = oldScores /\ unscored' = unscored
  BY <1>1, <1>3, TablesStay DEF ImportanceInv
<1> QED
  BY <1>1, <1>2, <1>4 DEF ImportanceInv, SweepInv, ReleaseInv

LEMMA RowHealed ==
    ASSUME ImportanceInv, NEW f \in Ranked, HealRow(f)
    PROVE  ImportanceInv'
<1>1. stage = "sweeping" /\ UNCHANGED <<content, stored, algorithm, stage, reports, bounds>>
  BY DEF HealRow
<1>2. edited' = edited
  BY <1>1 DEF bounds
<1>3. CASE <<"stale", f>> \in healing /\ UpdateRow(healTree, f) /\ healing' = healing \ {<<"stale", f>>}
  <2>1. PICK t \in Trees : t = healTree
    BY DEF ImportanceInv
  <2>2. InTree(t, f)
    BY <1>1, <1>3, <2>1 DEF ImportanceInv, SweepInv
  <2>3. UpdateRow(t, f)
    BY <1>3, <2>1
  <2>4. /\ TablesInv' /\ Stored' = Stored /\ oldScores' \cap Stored' \subseteq oldScores \cap Stored
        /\ healTree' \in Trees /\ healTree'[f] # NoRow
        /\ \A g \in Ranked \ {f} :
              /\ healTree'[g] # NoRow <=> t[g] # NoRow
              /\ InTree(t, g) => InTree(healTree, g)'
    BY <1>1, <2>2, <2>3, UpdateRowKeeps DEF ImportanceInv
  <2>5. SweepInv'
    <3> SUFFICES ASSUME NEW g \in Ranked
                 PROVE  /\ <<"stale", g>> \in healing' => InTree(healTree, g)'
                        /\ <<"missing", g>> \in healing' => healTree'[g] # NoRow
                        /\ <<"new", g>> \in healing' => g \notin Stored'
      BY DEF SweepInv
    <3>1. /\ <<"stale", g>> \in healing => InTree(t, g)
          /\ <<"missing", g>> \in healing => t[g] # NoRow
          /\ <<"new", g>> \in healing => g \notin Stored
      BY <1>1, <2>1 DEF ImportanceInv, SweepInv
    <3>2. CASE g # f
      BY <1>3, <2>4, <3>1, <3>2
    <3>3. CASE g = f
      <4>1. <<"stale", g>> \notin healing'
        BY <1>3, <3>3
      <4>2. <<"new", g>> \in healing' => g \notin Stored'
        BY <1>3, <2>4, <3>1
      <4> QED
        BY <2>4, <3>3, <4>1, <4>2
    <3> QED
      BY <3>2, <3>3
  <2> QED
    BY <1>1, <1>2, <1>3, <2>4, <2>5 DEF ImportanceInv, ReleaseInv
<1>4. CASE /\ <<"missing", f>> \in healing /\ \A g \in Ranked : <<"stale", g>> \notin healing
           /\ RemoveRow(healTree, f) /\ healing' = healing \ {<<"missing", f>>}
  <2>1. PICK t \in Trees : t = healTree
    BY DEF ImportanceInv
  <2>2. t[f] # NoRow /\ RemoveRow(t, f)
    BY <1>1, <1>4, <2>1 DEF ImportanceInv, SweepInv
  <2>3. /\ TablesInv' /\ Stored' = Stored \ {f}
        /\ oldScores' \cap Stored' \subseteq oldScores \cap Stored
        /\ healTree' \in Trees /\ \A g \in Ranked \ {f} : healTree'[g] # NoRow <=> t[g] # NoRow
    BY <1>1, <2>2, RemoveRowKeeps DEF ImportanceInv
  <2>4. SweepInv'
    <3> SUFFICES ASSUME NEW g \in Ranked
                 PROVE  /\ <<"stale", g>> \notin healing'
                        /\ <<"missing", g>> \in healing' => healTree'[g] # NoRow
                        /\ <<"new", g>> \in healing' => g \notin Stored'
      BY DEF SweepInv
    <3>1. /\ <<"missing", g>> \in healing => t[g] # NoRow
          /\ <<"new", g>> \in healing => g \notin Stored
      BY <1>1, <2>1 DEF ImportanceInv, SweepInv
    <3> QED
      BY <1>4, <2>3, <3>1
  <2> QED
    BY <1>1, <1>2, <1>4, <2>3, <2>4 DEF ImportanceInv, ReleaseInv
<1>5. CASE /\ <<"new", f>> \in healing
           /\ \A g \in Ranked : <<"stale", g>> \notin healing /\ <<"missing", g>> \notin healing
           /\ AddRow(healTree, f) /\ healing' = healing \ {<<"new", f>>}
  <2>1. PICK t \in Trees : t = healTree
    BY DEF ImportanceInv
  <2>2. f \notin Stored /\ AddRow(t, f)
    BY <1>1, <1>5, <2>1 DEF ImportanceInv, SweepInv
  <2>3. /\ TablesInv' /\ Stored' = Stored \cup {f}
        /\ oldScores' \cap Stored' \subseteq oldScores \cap Stored
        /\ healTree' \in Trees
    BY <1>1, <2>2, AddRowKeeps DEF ImportanceInv
  <2>4. SweepInv'
    <3> SUFFICES ASSUME NEW g \in Ranked
                 PROVE  /\ <<"stale", g>> \notin healing' /\ <<"missing", g>> \notin healing'
                        /\ <<"new", g>> \in healing' => g \notin Stored'
      BY DEF SweepInv
    <3>1. <<"new", g>> \in healing => g \notin Stored
      BY <1>1 DEF ImportanceInv, SweepInv
    <3> QED
      BY <1>5, <2>3, <3>1
  <2> QED
    BY <1>1, <1>2, <1>5, <2>3, <2>4 DEF ImportanceInv, ReleaseInv
<1> QED
  BY <1>3, <1>4, <1>5 DEF HealRow

LEMMA ReportHandled ==
    ASSUME ImportanceInv, NEW f \in Ranked, NEW type, HandleReport(f, type)
    PROVE  ImportanceInv'
<1>1. /\ stage = "up" /\ UNCHANGED <<content, stored, algorithm, stage, healing, bounds>>
      /\ \/ f \in Stored /\ RemoveRow(TreeOfRows, f)
         \/ f \notin Stored /\ AddRow(TreeOfRows, f)
         \/ f \in Stored /\ UpdateRow(TreeOfRows, f)
         \/ UNCHANGED <<tables, healTree>>
  BY DEF HandleReport
<1>2. edited' = edited
  BY <1>1 DEF bounds
<1>3. PICK t : t = TreeOfRows
  OBVIOUS
<1>4. t \in Trees /\ (f \in Stored => t[f] # NoRow /\ InTree(TreeOfRows, f))
  BY <1>3, RowsMakeATree DEF ImportanceInv
<1>5. f \in Stored => InTree(t, f)
  BY <1>3, <1>4 DEF InTree, Scored
<1>6. TablesInv' /\ oldScores' \cap Stored' \subseteq oldScores \cap Stored /\ healTree' \in Trees
  <2>1. CASE f \in Stored /\ RemoveRow(TreeOfRows, f)
    <3>1. RemoveRow(t, f)
      BY <1>3, <2>1 DEF RemoveRow, KeepTree
    <3> QED
      BY <1>1, <1>4, <2>1, <3>1, RemoveRowKeeps DEF ImportanceInv
  <2>2. CASE f \notin Stored /\ AddRow(TreeOfRows, f)
    <3>1. AddRow(t, f)
      BY <1>3, <2>2 DEF AddRow, Persist, KeepTree
    <3> QED
      BY <1>1, <1>4, <2>2, <3>1, AddRowKeeps DEF ImportanceInv
  <2>3. CASE f \in Stored /\ UpdateRow(TreeOfRows, f)
    <3>1. UpdateRow(t, f)
      BY <1>3, <2>3
    <3> QED
      BY <1>1, <1>4, <1>5, <2>3, <3>1, UpdateRowKeeps DEF ImportanceInv
  <2>4. CASE UNCHANGED <<tables, healTree>>
    <3>1. TablesInv' /\ Stored' = Stored /\ oldScores' = oldScores
      BY <1>1, <2>4, TablesStay DEF ImportanceInv, TablesInv, OnDisk
    <3> QED
      BY <2>4, <3>1 DEF ImportanceInv
  <2> QED
    BY <1>1, <2>1, <2>2, <2>3, <2>4
<1> QED
  BY <1>1, <1>2, <1>6 DEF ImportanceInv, SweepInv, ReleaseInv

LEMMA ScoreIsSet ==
    ASSUME ImportanceInv, NEW f \in Ranked, SetImportance(f, 10)
    PROVE  ImportanceInv'
<1>1. /\ stage = "up" /\ f \in Stored /\ scores' = [scores EXCEPT ![f].importance = 10]
      /\ oldScores' = oldScores \ {f} /\ unscored' = unscored \cup {f}
      /\ UNCHANGED <<content, targets, packages, stored, algorithm, stage, healing, healTree, edited>>
  BY DEF SetImportance
<1>2. PICK row : row = [scores[f] EXCEPT !.importance = 10]
  OBVIOUS
<1>3. row \in Row /\ row # NoRow
  <2>1. scores[f] \in Row
    BY <1>1 DEF Stored, ImportanceInv, TablesInv
  <2>2. row \in Row
    BY <1>2, <2>1 DEF Row
  <2> QED
    BY <2>2, ImportanceAssumption
<1>4. /\ scores' \in [Ranked -> Row \cup {NoRow}] /\ scores'[f] = row
      /\ \A g \in Ranked \ {f} : scores'[g] = scores[g]
  <2>1. scores' = [scores EXCEPT ![f] = row]
    BY <1>1, <1>2
  <2> QED
    BY <1>3, <2>1 DEF ImportanceInv, TablesInv
<1>5. Stored' = Stored /\ \A g : Dependents(g)' = Dependents(g)
  BY <1>1, <1>3, <1>4 DEF Stored, Dependents
<1>6. ASSUME NEW g \in Stored' \ unscored'
      PROVE  RowScored(g)'
  <2>1. g \in Ranked \ {f} /\ RowScored(g)
    BY <1>1, <1>5, <1>6 DEF ImportanceInv, TablesInv, Stored
  <2> QED
    BY <1>1, <1>4, <1>5, <2>1, RowKeepsScore
<1>7. TablesInv'
  BY <1>1, <1>4, <1>5, <1>6 DEF ImportanceInv, TablesInv, OnDisk
<1> QED
  BY <1>1, <1>5, <1>7 DEF ImportanceInv, SweepInv, ReleaseInv

(* The passes of a start.                                                   *)
LEMMA FilesListed ==
    ASSUME ImportanceInv, ListFiles
    PROVE  ImportanceInv'
<1>1. /\ scores' = [f \in Ranked |->
                      IF OnDisk(f) THEN [importance |-> calculateInitialImportance(f),
                                         mtime |-> content[f].mtime]
                      ELSE scores[f]]
      /\ oldScores' = {f \in oldScores : ~OnDisk(f)} /\ unscored' = Ranked /\ stage' = "listed"
      /\ stage = "down"
      /\ UNCHANGED <<content, targets, packages, stored, algorithm, healing, healTree>>
      /\ edited' = edited
  BY DEF ListFiles, bounds
<1>2. ASSUME NEW f \in Ranked
      PROVE  scores'[f] \in Row \cup {NoRow} /\ (~OnDisk(f) => scores'[f] = scores[f])
  <2>1. CASE OnDisk(f)
    <3>1. content[f] \in Disk
      BY <2>1 DEF OnDisk, ImportanceInv, TablesInv
    <3>2. content[f].mtime \in Mtimes /\ calculateInitialImportance(f) \in 0..10
      BY <3>1, ScoresAreBounded DEF Disk, Mtimes
    <3>3. scores'[f] = [importance |-> calculateInitialImportance(f), mtime |-> content[f].mtime]
      BY <1>1, <2>1
    <3> QED
      BY <2>1, <3>2, <3>3 DEF Row
  <2>2. CASE ~OnDisk(f)
    BY <1>1, <2>2 DEF ImportanceInv, TablesInv
  <2> QED
    BY <2>1, <2>2
<1>3. scores' \in [Ranked -> Row \cup {NoRow}]
  <2>1. scores' = [f \in Ranked |-> scores'[f]]
    BY <1>1
  <2> QED
    BY <1>2, <2>1
<1>4. oldScores' \cap Stored' \subseteq oldScores \cap Stored
  BY <1>1, <1>2 DEF Stored
<1>5. TablesInv'
  BY <1>1, <1>3 DEF ImportanceInv, TablesInv, OnDisk, Stored
<1> QED
  BY <1>1, <1>4, <1>5 DEF ImportanceInv, SweepInv, ReleaseInv, Stored

LEMMA EdgesExtracted ==
    ASSUME ImportanceInv, ExtractEdges
    PROVE  ImportanceInv'
<1> DEFINE read == {f \in Stored : OnDisk(f) /\ targets[f] = {}}
<1>1. /\ stage = "listed" /\ stage' = "extracted"
      /\ targets' = [f \in Ranked |-> IF f \in read THEN Analysed(f) ELSE targets[f]]
      /\ packages' = (packages \ read) \cup {f \in read : AnalysedPackages(f)}
      /\ UNCHANGED <<content, scores, oldScores, unscored, stored, algorithm, healing, healTree>>
      /\ edited' = edited
  BY DEF ExtractEdges, bounds
<1>2. read \subseteq Ranked
  BY DEF Stored
<1> HIDE DEF read
<1>3. Stored' = Stored /\ Stored \subseteq unscored
  BY <1>1 DEF Stored, ImportanceInv
<1>4. \A f \in Ranked : targets'[f] \subseteq Ranked /\ f \notin targets'[f]
  BY <1>1, AnalysedType DEF ImportanceInv, TablesInv
<1>5. targets' \in [Ranked -> SUBSET Ranked]
  <2>1. targets' = [f \in Ranked |-> targets'[f]]
    BY <1>1
  <2> QED
    BY <1>4, <2>1
<1>6. packages' \subseteq Ranked
  BY <1>1, <1>2 DEF ImportanceInv, TablesInv
<1>7. TablesInv'
  BY <1>1, <1>3, <1>4, <1>5, <1>6 DEF ImportanceInv, TablesInv, OnDisk
<1> QED
  BY <1>1, <1>3, <1>7 DEF ImportanceInv, SweepInv, ReleaseInv

LEMMA AllScored ==
    ASSUME ImportanceInv, ScoreAll
    PROVE  ImportanceInv'
<1>1. /\ scores' = [f \in Ranked |->
                      IF f \in Stored
                      THEN [scores[f] EXCEPT !.importance = calculateNodeImportance(f, NodeOf(f))]
                      ELSE NoRow]
      /\ oldScores' = {} /\ unscored' = {} /\ stage = "extracted" /\ stage' = "scored"
      /\ UNCHANGED <<content, targets, packages, stored, algorithm, healing, healTree>>
      /\ edited' = edited
  BY DEF ScoreAll, recalculateImportanceFromDb, bounds
<1>2. ASSUME NEW f \in Ranked
      PROVE  /\ scores'[f] \in Row \cup {NoRow} /\ (f \in Stored <=> f \in Stored')
             /\ f \in Stored => RowScored(f)'
  <2>1. CASE f \in Stored
    <3>1. PICK n : n = NodeOf(f)
      OBVIOUS
    <3>2. PICK k : k = calculateNodeImportance(f, n)
      OBVIOUS
    <3>3. n.deps = targets[f] /\ n.dependents = Dependents(f) /\ (n.pkg <=> f \in packages)
      BY <3>1 DEF NodeOf
    <3>4. k \in 0..10
      BY <3>2, <3>3, ScoresAreBounded DEF ImportanceInv, TablesInv, Dependents
    <3>5. scores'[f] = [scores[f] EXCEPT !.importance = k]
      BY <1>1, <2>1, <3>1, <3>2
    <3>6. scores[f] \in Row
      BY <2>1 DEF ImportanceInv, TablesInv, Stored
    <3>7. scores'[f] \in Row /\ scores'[f].importance = k
      BY <3>4, <3>5, <3>6 DEF Row
    <3>8. f \in Stored'
      BY <3>7, ImportanceAssumption DEF Stored
    <3>9. PICK m : m = NodeOf(f)'
      OBVIOUS
    <3>10. m.deps = targets[f] /\ m.dependents = Dependents(f) /\ (m.pkg <=> f \in packages)
      BY <1>1, <3>9 DEF NodeOf, Dependents
    <3>11. calculateNodeImportance(f, m) = k
      BY <3>2, <3>3, <3>10, LinksGiveTheScore
    <3>12. RowScored(f)' <=> scores'[f].importance = calculateNodeImportance(f, m)
      BY <3>9 DEF RowScored, calculateNodeImportance, calculateInitialImportance
    <3> QED
      BY <2>1, <3>7, <3>8, <3>11, <3>12
  <2>2. CASE f \notin Stored
    BY <1>1, <2>2 DEF Stored
  <2> QED
    BY <2>1, <2>2
<1>3. scores' \in [Ranked -> Row \cup {NoRow}]
  <2>1. scores' = [f \in Ranked |-> scores'[f]]
    BY <1>1
  <2> QED
    BY <1>2, <2>1
<1>4. \A f \in Stored' : RowScored(f)'
  BY <1>2 DEF Stored
<1>5. TablesInv'
  BY <1>1, <1>3, <1>4 DEF ImportanceInv, TablesInv, OnDisk
<1> QED
  BY <1>1, <1>5 DEF ImportanceInv, SweepInv, ReleaseInv

LEMMA SweepBegun ==
    ASSUME ImportanceInv, BeginSweep
    PROVE  ImportanceInv'
<1>1. /\ stage = "built" /\ stage' = "sweeping" /\ healTree' = TreeOfRows
      /\ healing' = {<<"stale", f>> : f \in {f \in Stored : /\ OnDisk(f) /\ scores[f].mtime # Unseen
                                                            /\ scores[f].mtime # content[f].mtime}}
               \cup {<<"missing", f>> : f \in {f \in Stored : ~OnDisk(f)}}
               \cup {<<"new", f>> : f \in {f \in Ranked : OnDisk(f) /\ f \notin Stored}}
      /\ UNCHANGED <<content, tables, stored, algorithm>> /\ edited' = edited
  BY DEF BeginSweep, bounds
<1>2. TablesInv' /\ Stored' = Stored /\ oldScores' = oldScores /\ unscored' = unscored
  BY <1>1, TablesStay DEF ImportanceInv, TablesInv, OnDisk
<1>3. healing' \subseteq {"stale", "missing", "new"} \X Ranked
  BY <1>1 DEF Stored
<1>4. ASSUME NEW f \in Ranked
      PROVE  /\ <<"stale", f>> \in healing' => f \in Stored
             /\ <<"missing", f>> \in healing' => f \in Stored
             /\ <<"new", f>> \in healing' => f \notin Stored
  BY <1>1
<1>5. PICK t : t = TreeOfRows
  OBVIOUS
<1>6. t \in Trees /\ \A f \in Stored : InTree(t, f) /\ t[f] # NoRow
  BY <1>5, RowsMakeATree DEF ImportanceInv, InTree, Scored
<1>7. \A f \in Stored : InTree(healTree, f)'
  <2>1. \A g : Dependents(g)' = Dependents(g)
    BY <1>1 DEF tables, Dependents
  <2>2. healTree' = t
    BY <1>1, <1>5
  <2> QED
    BY <1>1, <1>2, <1>6, <2>1, <2>2
    DEF InTree, Scored, tables, calculateNodeImportance, calculateInitialImportance
<1>8. SweepInv'
  BY <1>1, <1>2, <1>4, <1>5, <1>6, <1>7 DEF SweepInv
<1> QED
  BY <1>1, <1>2, <1>3, <1>5, <1>6, <1>8 DEF ImportanceInv, ReleaseInv

(* The version goes forward, and a stop may bring another release.          *)
LEMMA ServerMoved ==
    ASSUME ImportanceInv, UseCachedRows \/ RecordVersion \/ EndSweep
    PROVE  ImportanceInv'
<1>1. UNCHANGED <<content, tables, algorithm, healing>> /\ edited' = edited
  BY DEF UseCachedRows, RecordVersion, EndSweep, bounds
<1>2. TablesInv' /\ Stored' = Stored /\ oldScores' = oldScores /\ unscored' = unscored
  BY <1>1, TablesStay DEF ImportanceInv, TablesInv, OnDisk
<1>3. healTree' \in Trees
  BY DEF ImportanceInv, UseCachedRows, RecordVersion, EndSweep, Trees
<1>4. stage' \in {"extracted", "built", "up"}
  BY DEF UseCachedRows, RecordVersion, EndSweep
<1>5. ReleaseInv'
  <2>1. CASE UseCachedRows
    BY <1>1, <1>2, <2>1 DEF UseCachedRows, ImportanceInv, ReleaseInv
  <2>2. CASE RecordVersion
    BY <1>1, <1>2, <2>2 DEF RecordVersion, ImportanceInv, ReleaseInv
  <2>3. CASE EndSweep
    BY <1>1, <1>2, <2>3 DEF EndSweep, ImportanceInv, ReleaseInv
  <2> QED
    BY <2>1, <2>2, <2>3
<1> QED
  BY <1>1, <1>2, <1>3, <1>4, <1>5 DEF ImportanceInv, SweepInv

LEMMA ServerStopped ==
    ASSUME ImportanceInv, StopServer
    PROVE  ImportanceInv'
<1>1. /\ stage' = "down" /\ healing' = {} /\ healTree' = [f \in Ranked |-> NoRow]
      /\ algorithm' \in {algorithm, AtMost(algorithm + 1, MaxVersion)}
      /\ oldScores' = IF algorithm' = algorithm THEN oldScores ELSE Stored
      /\ UNCHANGED <<content, scores, targets, packages, unscored, stored, edited>>
  BY DEF StopServer
<1>2. Stored' = Stored /\ \A g : Dependents(g)' = Dependents(g)
  BY <1>1 DEF Stored, Dependents
<1>3. ASSUME NEW g \in Stored' \ unscored'
      PROVE  RowScored(g)'
  <2>1. RowScored(g)
    BY <1>1, <1>2, <1>3 DEF ImportanceInv, TablesInv
  <2> QED
    BY <1>1, <1>2, <2>1, RowKeepsScore
<1>4. TablesInv'
  <2>1. oldScores' \subseteq Ranked
    BY <1>1 DEF ImportanceInv, TablesInv, Stored
  <2> QED
    BY <1>1, <1>3, <2>1 DEF ImportanceInv, TablesInv, OnDisk
<1>5. algorithm' \in 1..MaxVersion /\ algorithm <= algorithm'
  BY <1>1, ImportanceAssumption DEF ImportanceInv, ReleaseInv, AtMost
<1>6. ReleaseInv'
  BY <1>1, <1>2, <1>5 DEF ImportanceInv, ReleaseInv
<1> QED
  BY <1>1, <1>4, <1>6 DEF ImportanceInv, SweepInv, Trees

LEMMA ImportanceKeeps == ImportanceInv /\ [ImportanceNext]_importanceVars => ImportanceInv'
<1> SUFFICES ASSUME ImportanceInv, [ImportanceNext]_importanceVars
             PROVE  ImportanceInv'
  OBVIOUS
<1>1. CASE UNCHANGED importanceVars
  <2>1. UNCHANGED <<content, tables, stored, algorithm, stage, healing, healTree, edited>>
    BY <1>1 DEF importanceVars, bounds
  <2>2. TablesInv' /\ Stored' = Stored /\ oldScores' = oldScores /\ unscored' = unscored
    BY <2>1, TablesStay DEF ImportanceInv, TablesInv, OnDisk
  <2>3. SweepInv'
    BY <2>1, <2>2 DEF ImportanceInv, SweepInv, InTree, Scored, tables, Dependents,
         calculateNodeImportance, calculateInitialImportance
  <2> QED
    BY <2>1, <2>2, <2>3 DEF ImportanceInv, ReleaseInv
<1>2. CASE ImportanceNext
  <2>1. ASSUME NEW f \in Ranked,
               Unlink(f) \/ \E wanted \in SUBSET Ranked : f \notin wanted /\ Save(f, wanted)
        PROVE  ImportanceInv'
    BY <2>1, DiskTouched
  <2>2. ASSUME NEW f \in Ranked, HealRow(f) \/ SetImportance(f, 10)
        PROVE  ImportanceInv'
    BY <2>2, RowHealed, ScoreIsSet
  <2>3. ASSUME NEW f \in Ranked, NEW type \in {"add", "change", "unlink"}, HandleReport(f, type)
        PROVE  ImportanceInv'
    BY <2>3, ReportHandled
  <2>4. CASE ListFiles \/ ExtractEdges \/ ScoreAll \/ BeginSweep
    BY <2>4, FilesListed, EdgesExtracted, AllScored, SweepBegun
  <2>5. CASE UseCachedRows \/ RecordVersion \/ EndSweep \/ StopServer
    BY <2>5, ServerMoved, ServerStopped
  <2> QED
    BY <1>2, <2>1, <2>2, <2>3, <2>4, <2>5 DEF ImportanceNext
<1> QED
  BY <1>1, <1>2

(* For every project, formula and release history: rows, edges and the      *)
(* sweep's tree hold what they declare, a server that is up reads no score  *)
(* of an older algorithm, whenever the starts before it were killed, and    *)
(* every row that no event, person or kill has bypassed has the score that  *)
(* the stored edges give it (file-utils.ts, coordinator.ts).                *)
THEOREM ScoresStaySound == ImportanceSpec => []ScoresAreSound
<1>1. ImportanceInit => ImportanceInv
  BY ImportanceBegins
<1>2. ImportanceInv /\ [ImportanceNext]_importanceVars => ImportanceInv'
  BY ImportanceKeeps
<1>3. ImportanceInv => ScoresAreSound
  <2> SUFFICES ASSUME ImportanceInv
               PROVE  ScoresAreSound
    OBVIOUS
  <2>1. ImportanceTypeOK
    <3>1. \A f \in Stored : IsScore(scores[f].importance)
      BY DEF ImportanceInv, TablesInv, Stored, Row, IsScore
    <3>2. \A f \in Ranked : healTree[f] # NoRow =>
            /\ IsScore(healTree[f].importance)
            /\ healTree[f].deps \cup healTree[f].dependents \subseteq Ranked
      BY DEF ImportanceInv, Trees, Node, IsScore
    <3> QED
      BY <3>1, <3>2 DEF ImportanceInv, TablesInv, ReleaseInv, ImportanceTypeOK
  <2>2. NoOldScores
    BY DEF ImportanceInv, ReleaseInv, NoOldScores
  <2>3. ScoredUnlessBypassed
    BY DEF ImportanceInv, TablesInv, RowScored, ScoredUnlessBypassed
  <2> QED
    BY <2>1, <2>2, <2>3 DEF ScoresAreSound
<1> QED
  BY <1>1, <1>2, <1>3, PTL DEF ImportanceSpec

(* The incremental update of a tree is as good as a full one: in every      *)
(* state an event or a healing can find, a tree whose nodes all have their  *)
(* score has it again after any file's change, addition or removal.         *)
THEOREM IncrementalStaysFull == ImportanceSpec => []IncrementalIsFull
<1>1. ImportanceInit => ImportanceInv
  BY ImportanceBegins
<1>2. ImportanceInv /\ [ImportanceNext]_importanceVars => ImportanceInv'
  BY ImportanceKeeps
<1>3. ImportanceInv => IncrementalIsFull
  <2> SUFFICES ASSUME ImportanceInv
               PROVE  IncrementalIsFull
    OBVIOUS
  <2>1. PICK t : t = IF stage = "sweeping" THEN healTree ELSE TreeOfRows
    OBVIOUS
  <2>2. t \in Trees
    BY <2>1, RowsMakeATree DEF ImportanceInv
  <2>3. ASSUME TreeIsScored(t), NEW f \in Ranked
        PROVE  IF t[f] # NoRow
               THEN TreeIsScored(UpdatedTree(t, f)) /\ TreeIsScored(RemovedTree(t, f))
               ELSE TreeIsScored(AddedTree(t, f))
    <3>1. Analysed(f) \subseteq Ranked /\ MtimeOf(f, Unseen) \in Mtimes
      BY AnalysedType DEF ImportanceInv
    <3> QED
      BY <2>2, <2>3, <3>1, ChangesKeepScores
  <2> QED
    BY <2>1, <2>3 DEF IncrementalIsFull
<1> QED
  BY <1>1, <1>2, <1>3, PTL DEF ImportanceSpec
=============================================================================
