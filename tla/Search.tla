------------------------------- MODULE Search -------------------------------
(***************************************************************************)
(* The search tool: searchFiles() of src/db/repository.ts.  The query is   *)
(* cut into tokens, SQLite answers each of them with at most a limit of    *)
(* rows, and the rows' ranks are added up.  A step is one token's turn.    *)
(*                                                                         *)
(* A token is a value and a file's columns are known by the best one that  *)
(* a token hits, as the rank SEARCH_SQL gives it.                          *)
(***************************************************************************)
EXTENDS Naturals, Sequences, FiniteSets, SequencesExt

CONSTANTS
    Docs,           \* files with metadata
    Words,          \* words and quoted phrases
    Short,          \* those of one character
    NoQuery,        \* nothing asked yet
    Ranks,          \* the ranks of this instance, of 0, 10, 20, 50 and 100
    Weights,        \* files.importance
    PerTokenLimit,  \* PER_TOKEN_LIMIT
    MaxItems        \* maxItems

ASSUME SearchAssumption ==
    /\ IsFiniteSet(Docs) /\ IsFiniteSet(Words) /\ Short \subseteq Words
    /\ Ranks \subseteq {0, 10, 20, 50, 100} /\ Weights \subseteq Nat
    /\ PerTokenLimit \in Nat \ {0} /\ MaxItems \in Nat
    /\ \A q \in SUBSET Words : q # NoQuery

VARIABLES
    rankOf,      \* match_rank of each file for each token, 0 if it does not match
    importance,  \* of each file
    query,       \* the tokens of the query that are left to look up
    aggregate,   \* the files found: [totalRank, hitCount]
    results      \* the answer

searchVars == <<rankOf, importance, query, aggregate, results>>
data == <<rankOf, importance>>

NoResults == <<>>
Hits(t) == {d \in Docs : rankOf[d][t] > 0}

SearchInit ==
    /\ rankOf \in [Docs -> [Words -> Ranks]]
    /\ importance \in [Docs -> Weights]
    /\ query = NoQuery /\ aggregate = <<>> /\ results = NoResults

\* Each phrase, and each word that is long enough, once.
tokenizeQuery(phrases, words) == phrases \cup (words \ Short)

Tokenize(phrases, words) ==
    /\ query = NoQuery
    /\ query' = tokenizeQuery(phrases, words)
    /\ UNCHANGED <<data, aggregate, results>>

-----------------------------------------------------------------------------
\* Mutant: a token's rows come in the order of their ranks alone.
AboveByRank(t, d, e) == rankOf[d][t] > rankOf[e][t]

\* ORDER BY match_rank DESC, importance DESC
Above(t, d, e) ==
    \/ rankOf[d][t] > rankOf[e][t]
    \/ rankOf[d][t] = rankOf[e][t] /\ importance[d] > importance[e]

\* LIMIT: which of equal rows are cut is SQLite's choice.
RowsFor(t) ==
    {rows \in SUBSET Hits(t) :
        /\ Cardinality(rows) = IF Cardinality(Hits(t)) > PerTokenLimit
                               THEN PerTokenLimit ELSE Cardinality(Hits(t))
        /\ \A d \in Hits(t) \ rows : \A e \in rows : ~Above(t, d, e)}

Counted(t, d) ==
    IF d \in DOMAIN aggregate
    THEN [totalRank |-> aggregate[d].totalRank + rankOf[d][t],
          hitCount |-> aggregate[d].hitCount + 1]
    ELSE [totalRank |-> rankOf[d][t], hitCount |-> 1]

LookUp(t) ==
    /\ query # NoQuery /\ t \in query /\ results = NoResults
    /\ query' = query \ {t}
    /\ \E rows \in RowsFor(t) :
         aggregate' = [d \in DOMAIN aggregate \cup rows |->
                         IF d \in rows THEN Counted(t, d) ELSE aggregate[d]]
    /\ UNCHANGED <<data, results>>

-----------------------------------------------------------------------------
\* The comparison of the final sort.
Before(d, e) ==
    \/ aggregate[d].totalRank > aggregate[e].totalRank
    \/ /\ aggregate[d].totalRank = aggregate[e].totalRank
       /\ \/ aggregate[d].hitCount > aggregate[e].hitCount
          \/ /\ aggregate[d].hitCount = aggregate[e].hitCount
             /\ importance[d] > importance[e]

\* Equal files stay in the order they were found in, which is any.
Sorted ==
    {s \in SetToSeqs(DOMAIN aggregate) :
        \A i, j \in DOMAIN s : i < j => ~Before(s[j], s[i])}

Cut(s) == SubSeq(s, 1, IF Len(s) > MaxItems THEN MaxItems ELSE Len(s))

Respond ==
    /\ aggregate # <<>> /\ query = {} /\ results = NoResults
    /\ \E s \in Sorted :
         results' = Cut(s)
    /\ UNCHANGED <<data, query, aggregate>>

SearchNext ==
    \/ \E phrases, words \in SUBSET Words : Tokenize(phrases, words)
    \/ \E t \in Words : LookUp(t)
    \/ Respond

SearchSpec == SearchInit /\ [][SearchNext]_searchVars

-----------------------------------------------------------------------------
\* The answer has the files found, each once, and no more than asked for.
SearchTypeOK ==
    /\ query = NoQuery \/ query \subseteq Words
    /\ DOMAIN aggregate \subseteq Docs
    /\ \A d \in DOMAIN aggregate : aggregate[d].hitCount \in 1..Cardinality(Words)
    /\ ToSet(results) \subseteq DOMAIN aggregate /\ IsInjective(results)
    /\ Len(results) <= MaxItems

\* A file that no token hits worse than another, and that is more important, is
\* never behind it: neither the limit on each token's rows nor the order of the
\* tokens may turn the two around.
Dominates(d, e) ==
    importance[d] > importance[e] /\ \A t \in Words : rankOf[d][t] >= rankOf[e][t]

BetterIsFirst ==
    \A i \in DOMAIN results : \A d \in Docs :
        Dominates(d, results[i]) => \E j \in 1..(i - 1) : results[j] = d

\* What a search returns is ranked, and cut behind the ranks only.
SearchIsRanked == SearchTypeOK /\ BetterIsFirst
=============================================================================
