----------------------------- MODULE QueueProofs -----------------------------
(***************************************************************************)
(* Theorems about the priority queue of module PriorityQueue: its heap,    *)
(* for every number of jobs, and that it implements JobQueue.              *)
(*                                                                         *)
(* siftUp, siftDown and popLive are functions that call themselves last.   *)
(* Such a function exists when every call makes a measure smaller, which   *)
(* least counterexamples prove; they also prove what it returns.           *)
(***************************************************************************)
EXTENDS PriorityQueue, SequenceTheorems, WellFoundedInduction, NaturalsInduction, TLAPS

-----------------------------------------------------------------------------
(* Induction by least counterexamples. *)

(* A set of naturals that is not empty has a least element.                 *)
LEMMA LeastNat ==
    ASSUME NEW T \in SUBSET Nat, T # {}
    PROVE  \E n \in T : \A m \in T : n <= m
<1> DEFINE R == OpToRel(<, Nat)
<1>1. IsWellFoundedOn(R, Nat)
  BY NatLessThanWellFounded
<1>2. \A a, b \in Nat : a < b => <<a, b>> \in R
  BY Zenon DEF OpToRel
<1> HIDE DEF R
<1>3. \E x \in T : \A y \in T : ~ (<<y, x>> \in R)
  BY <1>1, WFMin
<1>4. PICK x \in T : \A y \in T : ~ (<<y, x>> \in R)
  BY <1>3
<1>5. \A y \in T : ~(y < x)
  BY <1>2, <1>4
<1> QED
  BY <1>5

(* A set with a measure that is not empty has an element of least measure.  *)
LEMMA LeastMeasure ==
    ASSUME NEW D, NEW m \in [D -> Nat], NEW A \in SUBSET D, A # {}
    PROVE  \E a \in A : \A b \in A : m[a] <= m[b]
<1> DEFINE T == {m[a] : a \in A}
<1>1. T \in SUBSET Nat /\ T # {}
  OBVIOUS
<1>2. PICK n \in T : \A k \in T : n <= k
  BY <1>1, LeastNat
<1> QED
  BY <1>2

\* There is a function that stops with val or calls itself with next.
HasSolution(D, stop, val, next) ==
    \E f : f = [a \in D |-> IF a \in stop THEN val[a] ELSE f[next[a]]]

(* A function that stops or calls itself with a smaller argument exists.    *)
LEMMA TailRecursion ==
    ASSUME NEW D, NEW m \in [D -> Nat], NEW stop \in SUBSET D, NEW val, NEW next,
           \A a \in D \ stop : next[a] \in D /\ m[next[a]] < m[a]
    PROVE  HasSolution(D, stop, val, next)
<1> DEFINE V == {val[a] : a \in D}
           Closed(S) == /\ \A a \in stop : <<a, val[a]>> \in S
                        /\ \A a \in D \ stop, v \in V : <<next[a], v>> \in S => <<a, v>> \in S
           R == {p \in D \X V : \A S \in SUBSET (D \X V) : Closed(S) => p \in S}
<1>1. R \in SUBSET (D \X V)
  OBVIOUS
<1>2. \A S \in SUBSET (D \X V) : Closed(S) => R \subseteq S
  OBVIOUS
<1>3. Closed(R)
  <2>1. \A a \in stop : <<a, val[a]>> \in R
    OBVIOUS
  <2>2. ASSUME NEW a \in D \ stop, NEW v \in V, <<next[a], v>> \in R
        PROVE  <<a, v>> \in R
    BY <2>2
  <2> QED
    BY <2>1, <2>2
<1> HIDE DEF R
\* What a stopping argument and a calling one are related to.
<1>4. ASSUME NEW a \in stop, NEW v \in V, <<a, v>> \in R
      PROVE  v = val[a]
  <2> DEFINE S == R \ {<<a, v>>}
  <2>1. CASE v # val[a]
    <3>1. \A b \in stop : <<b, val[b]>> \in S
      BY <1>3, <2>1
    <3>2. \A b \in D \ stop, w \in V : <<next[b], w>> \in S => <<b, w>> \in S
      BY <1>3
    <3>3. Closed(S) /\ S \in SUBSET (D \X V)
      BY <1>1, <3>1, <3>2
    <3> QED
      BY <1>2, <1>4, <3>3
  <2> QED
    BY <2>1
<1>5. ASSUME NEW a \in D \ stop, NEW v \in V, <<a, v>> \in R
      PROVE  <<next[a], v>> \in R
  <2> DEFINE S == R \ {<<a, v>>}
  <2>1. CASE <<next[a], v>> \notin R
    <3>1. \A b \in stop : <<b, val[b]>> \in S
      BY <1>3
    <3>2. \A b \in D \ stop, w \in V : <<next[b], w>> \in S => <<b, w>> \in S
      BY <1>3, <2>1
    <3>3. Closed(S) /\ S \in SUBSET (D \X V)
      BY <1>1, <3>1, <3>2
    <3> QED
      BY <1>2, <1>5, <3>3
  <2> QED
    BY <2>1
\* Every argument is related to one value.
<1> DEFINE Bad == {a \in D : ~ \E v \in V : \A w \in V : <<a, w>> \in R <=> w = v}
<1>6. Bad = {}
  <2> SUFFICES ASSUME Bad # {}
               PROVE  FALSE
    OBVIOUS
  <2>1. PICK a \in Bad : \A b \in Bad : m[a] <= m[b]
    <3> HIDE DEF Bad
    <3>1. Bad \in SUBSET D
      BY DEF Bad
    <3> QED
      BY <3>1, LeastMeasure
  <2> HIDE DEF V
  <2>2. CASE a \in stop
    <3>1. val[a] \in V
      BY DEF V
    <3>2. <<a, val[a]>> \in R
      BY <1>3, <2>2
    <3>3. \A w \in V : <<a, w>> \in R <=> w = val[a]
      BY <1>4, <2>2, <3>2
    <3> QED
      BY <3>1, <3>3
  <2>3. CASE a \notin stop
    <3>1. next[a] \in D /\ m[next[a]] < m[a] /\ m[a] \in Nat /\ m[next[a]] \in Nat
      BY <2>3
    <3>2. next[a] \notin Bad
      BY <2>1, <3>1
    <3>3. PICK v \in V : \A w \in V : <<next[a], w>> \in R <=> w = v
      BY <3>1, <3>2
    <3>4. a \in D \ stop
      BY <2>3
    <3>5. \A w \in V : <<a, w>> \in R => <<next[a], w>> \in R
      BY <1>5, <3>4
    <3>6. \A w \in V : <<next[a], w>> \in R => <<a, w>> \in R
      BY <1>3, <3>4
    <3>7. \A w \in V : <<a, w>> \in R <=> w = v
      BY <3>3, <3>5, <3>6
    <3> QED
      BY <3>7
  <2> QED
    BY <2>2, <2>3
<1> DEFINE f == [a \in D |-> CHOOSE v \in V : <<a, v>> \in R]
<1>7. \A a \in stop : a \in D /\ val[a] \in V /\ <<a, val[a]>> \in R
  BY <1>3
<1>8. /\ f \in [D -> V]
      /\ \A a \in D : <<a, f[a]>> \in R /\ \A w \in V : <<a, w>> \in R => w = f[a]
  BY <1>6
<1> HIDE DEF f, V
<1>9. \A a \in stop : f[a] = val[a]
  BY <1>7, <1>8
<1>10. \A a \in D \ stop : f[a] = f[next[a]]
  BY <1>5, <1>8
<1>12. f = [a \in D |-> IF a \in stop THEN val[a] ELSE f[next[a]]]
  BY <1>8, <1>9, <1>10
<1> QED
  BY <1>12 DEF HasSolution

-----------------------------------------------------------------------------
(* Heaps and the order of their jobs. *)

Items(h) == {h[i] : i \in DOMAIN h}
Distinct(h) == \A i, n \in DOMAIN h : h[i].id = h[n].id => i = n
Ordered(h) == \A i \in DOMAIN h : i > 1 => ~Precedes(h[i], h[i \div 2])

\* r has the jobs of h, each as often as h if h has none twice.
SameItems(h, r) ==
    r \in Seq(Job) /\ Len(r) = Len(h) /\ Items(r) = Items(h) /\ (Distinct(h) => Distinct(r))

\* h is ordered but for the entry at i, which may come before its parent.
OrderedButUp(h, i) ==
    \A j \in DOMAIN h : j > 1 =>
        /\ j # i => ~Precedes(h[j], h[j \div 2])
        /\ j \div 2 = i /\ i > 1 => ~Precedes(h[j], h[i \div 2])

\* h is ordered but for the entry at i, which its children may come before.
OrderedButDown(h, i) ==
    \A j \in DOMAIN h : j > 1 =>
        /\ j \div 2 # i => ~Precedes(h[j], h[j \div 2])
        /\ j \div 2 = i /\ i > 1 => ~Precedes(h[j], h[i \div 2])

(* A position's parent, and the two positions whose parent it is.           *)
LEMMA Halves ==
    /\ \A i \in Nat : i > 1 => i \div 2 \in Nat /\ 1 <= i \div 2 /\ i \div 2 < i
    /\ \A i \in Nat, j \in Nat : j \div 2 = i <=> j = 2 * i \/ j = 2 * i + 1
OBVIOUS

(* Not coming before is a total preorder.                                   *)
LEMMA PrecedesOrder ==
    \A a, b, c \in Job :
        /\ Precedes(a, b) => ~Precedes(b, a)
        /\ ~Precedes(a, b) /\ ~Precedes(b, c) => ~Precedes(a, c)
<1> SUFFICES ASSUME NEW a \in Job, NEW b \in Job, NEW c \in Job
             PROVE  /\ Precedes(a, b) => ~Precedes(b, a)
                    /\ ~Precedes(a, b) /\ ~Precedes(b, c) => ~Precedes(a, c)
  OBVIOUS
<1>1. \A d \in {a, b, c} : d.importance \in Int /\ d.createdAt \in Int
  BY JobsAssumption DEF Job
<1> QED
  BY <1>1 DEF Precedes

(* Two entries that are exchanged.                                          *)
LEMMA SwapEffect ==
    ASSUME NEW h \in Seq(Job), NEW i \in DOMAIN h, NEW k \in DOMAIN h
    PROVE  /\ SameItems(h, Swap(h, i, k))
           /\ DOMAIN Swap(h, i, k) = DOMAIN h
           /\ \A j \in DOMAIN h :
                Swap(h, i, k)[j] = IF j = i THEN h[k] ELSE IF j = k THEN h[i] ELSE h[j]
<1> DEFINE r == Swap(h, i, k)
<1>1. /\ r \in Seq(Job) /\ Len(r) = Len(h) /\ DOMAIN r = DOMAIN h
      /\ \A j \in DOMAIN h : r[j] = IF j = i THEN h[k] ELSE IF j = k THEN h[i] ELSE h[j]
  BY DEF Swap
<1> HIDE DEF r
<1>2. Items(r) = Items(h)
  <2>1. \A j \in DOMAIN r : r[j] \in Items(h)
    BY <1>1 DEF Items
  <2>2. r[i] = h[k] /\ r[k] = h[i]
    BY <1>1
  <2>3. \A j \in DOMAIN h : h[j] \in Items(r)
    <3> TAKE j \in DOMAIN h
    <3>1. j \notin {i, k} => r[j] = h[j]
      BY <1>1
    <3> QED
      BY <1>1, <2>2, <3>1 DEF Items
  <2> QED
    BY <2>1, <2>3 DEF Items
<1>3. Distinct(h) => Distinct(r)
  BY <1>1 DEF Distinct
<1> QED
  BY <1>1, <1>2, <1>3 DEF SameItems, r

(* What exchanging keeps, two exchanges keep.                               *)
LEMMA SameTwice ==
    ASSUME NEW h, NEW q, NEW r, SameItems(h, q), SameItems(q, r)
    PROVE  SameItems(h, r)
BY DEF SameItems

-----------------------------------------------------------------------------
(* siftUp(). *)

RisesAt(h, i) == i > 1 /\ Precedes(h[i], h[i \div 2])

(* siftUp() ends: each call is nearer to the root.                          *)
LEMMA SiftUpCalls ==
    \A h, i : <<h, i>> \in Place =>
        siftUp[<<h, i>>] = IF RisesAt(h, i) THEN siftUp[<<Swap(h, i, i \div 2), i \div 2>>] ELSE h
<1> DEFINE m == [a \in Place |-> a[2]]
           stop == {a \in Place : ~RisesAt(a[1], a[2])}
           val == [a \in Place |-> a[1]]
           next == [a \in Place |-> <<Swap(a[1], a[2], a[2] \div 2), a[2] \div 2>>]
           body(f) == [a \in Place |-> LET h == a[1]
                                           i == a[2]
                                           parent == i \div 2
                                       IN IF i > 1 /\ Precedes(h[i], h[parent])
                                          THEN f[<<Swap(h, i, parent), parent>>] ELSE h]
<1>1. m \in [Place -> Nat] /\ stop \in SUBSET Place
  BY DEF Place
<1>2. ASSUME NEW a \in Place \ stop
      PROVE  next[a] \in Place /\ m[next[a]] < m[a]
  <2>1. PICK h, i, p : h = a[1] /\ i = a[2] /\ p = i \div 2
    OBVIOUS
  <2>2. h \in Seq(Job) /\ i \in DOMAIN h /\ i \in Nat /\ i > 1
    BY <2>1 DEF Place, RisesAt
  <2>3. p \in DOMAIN h /\ p \in Nat /\ p < i
    BY <2>1, <2>2, Halves
  <2>4. Swap(h, i, p) \in Seq(Job) /\ DOMAIN Swap(h, i, p) = DOMAIN h
    BY <2>2, <2>3, SwapEffect DEF SameItems
  <2>5. next[a] = <<Swap(h, i, p), p>>
    BY <2>1
  <2>6. next[a] \in Place
    BY <2>3, <2>4, <2>5 DEF Place
  <2> QED
    BY <2>1, <2>3, <2>5, <2>6
<1>3. HasSolution(Place, stop, val, next)
  <2> HIDE DEF m, stop, val, next
  <2>1. \A a \in Place \ stop : next[a] \in Place /\ m[next[a]] < m[a]
    BY <1>2
  <2> QED
    BY <1>1, <2>1, TailRecursion
<1>4. \E f : f = body(f)
  BY <1>3 DEF HasSolution, RisesAt
<1>5. siftUp = body(siftUp)
  <2> HIDE DEF body
  <2>1. siftUp = CHOOSE g : g = body(g)
    BY DEF siftUp, body
  <2> QED
    BY <1>4, <2>1
<1> QED
  BY <1>5 DEF RisesAt

(* A step of siftUp() leaves the fault, if there is one, at the parent.     *)
LEMMA RiseKeepsOrder ==
    ASSUME NEW h \in Seq(Job), NEW i \in DOMAIN h, RisesAt(h, i), OrderedButUp(h, i)
    PROVE  OrderedButUp(Swap(h, i, i \div 2), i \div 2)
<1> PICK p : p = i \div 2
  OBVIOUS
<1>1. i \in Nat /\ i > 1 /\ p \in Nat /\ p < i /\ 1 <= p /\ p \in DOMAIN h
  BY Halves DEF RisesAt
<1> PICK r : r = Swap(h, i, p)
  OBVIOUS
<1>2. /\ DOMAIN r = DOMAIN h /\ r[i] = h[p] /\ r[p] = h[i]
      /\ \A j \in DOMAIN h : j # i /\ j # p => r[j] = h[j]
  BY <1>1, SwapEffect
<1>3. \A j \in DOMAIN h : h[j] \in Job
  OBVIOUS
<1>4. Precedes(h[i], h[p])
  BY DEF RisesAt
<1>5. ASSUME NEW j \in DOMAIN r, j > 1
      PROVE  /\ j # p => ~Precedes(r[j], r[j \div 2])
             /\ j \div 2 = p /\ p > 1 => ~Precedes(r[j], r[p \div 2])
  <2> PICK q, o : q = j \div 2 /\ o = p \div 2
    OBVIOUS
  <2>1. j \in DOMAIN h /\ j \in Nat /\ q \in Nat /\ q < j /\ 1 <= q /\ q \in DOMAIN h
    BY <1>2, <1>5, Halves
  <2>2. p > 1 => o \in DOMAIN h /\ o < p /\ o \in Nat
    BY <1>1, Halves
  <2>3. /\ j # i => ~Precedes(h[j], h[q])
        /\ q = i => ~Precedes(h[j], h[p])
        /\ p > 1 => ~Precedes(h[p], h[o])
    BY <1>1, <1>5, <2>1 DEF OrderedButUp
  <2>4. j # p => ~Precedes(r[j], r[q])
    <3>1. CASE j = i
      BY <1>1, <1>2, <1>3, <1>4, <3>1, PrecedesOrder
    <3>2. CASE j # i /\ j # p /\ q = i
      BY <1>2, <2>1, <2>3, <3>2
    <3>3. CASE j # i /\ j # p /\ q = p
      BY <1>1, <1>2, <1>3, <1>4, <2>1, <2>3, <3>3, PrecedesOrder
    <3>4. CASE j # i /\ j # p /\ q # i /\ q # p
      BY <1>2, <2>1, <2>3, <3>4
    <3> QED
      BY <3>1, <3>2, <3>3, <3>4
  <2>5. q = p /\ p > 1 => ~Precedes(r[j], r[o])
    <3> SUFFICES ASSUME q = p, p > 1
                 PROVE  ~Precedes(r[j], r[o])
      OBVIOUS
    <3>1. r[o] = h[o]
      BY <1>1, <1>2, <2>2
    <3>2. CASE j = i
      BY <1>2, <2>3, <3>1, <3>2
    <3>3. CASE j # i
      <4>1. r[j] = h[j]
        BY <1>2, <2>1, <3>3
      <4> QED
        BY <1>1, <1>3, <2>1, <2>2, <2>3, <3>1, <3>3, <4>1, PrecedesOrder
    <3> QED
      BY <3>2, <3>3
  <2> QED
    BY <2>4, <2>5
<1> QED
  BY <1>5 DEF OrderedButUp

(* What siftUp() returns has the jobs it was given, in the order of a heap. *)
LEMMA SiftUpSorts ==
    \A h, i : <<h, i>> \in Place =>
        /\ SameItems(h, siftUp[<<h, i>>])
        /\ OrderedButUp(h, i) => Ordered(siftUp[<<h, i>>])
<1> DEFINE Right(a) == /\ SameItems(a[1], siftUp[a])
                       /\ OrderedButUp(a[1], a[2]) => Ordered(siftUp[a])
           Bad == {a \in Place : ~Right(a)}
           m == [a \in Place |-> a[2]]
<1> SUFFICES ASSUME Bad # {}
             PROVE  FALSE
  BY DEF Place
<1>1. m \in [Place -> Nat] /\ Bad \in SUBSET Place
  BY DEF Place
<1>2. PICK a \in Bad : \A b \in Bad : m[a] <= m[b]
  <2> HIDE DEF Bad, m
  <2> QED
    BY <1>1, LeastMeasure
<1> PICK h, i, p : h = a[1] /\ i = a[2] /\ p = i \div 2
  OBVIOUS
<1>3. h \in Seq(Job) /\ i \in DOMAIN h /\ i \in Nat /\ i >= 1 /\ a = <<h, i>>
  BY DEF Place
<1>4. CASE ~RisesAt(h, i)
  <2>1. siftUp[a] = h
    <3>1. <<h, i>> \in Place
      BY <1>3
    <3>2. siftUp[<<h, i>>] = h
      BY <1>4, <3>1, SiftUpCalls, Zenon
    <3> QED
      BY <1>3, <3>2
  <2>2. SameItems(h, h)
    BY <1>3 DEF SameItems
  <2>3. OrderedButUp(h, i) => Ordered(h)
    BY <1>3, <1>4 DEF OrderedButUp, Ordered, RisesAt
  <2> QED
    BY <2>1, <2>2, <2>3
<1>5. CASE RisesAt(h, i)
  <2> PICK b : b = <<Swap(h, i, p), p>>
    OBVIOUS
  <2>1. p \in Nat /\ 1 <= p /\ p < i /\ p \in DOMAIN h
    BY <1>3, <1>5, Halves DEF RisesAt
  <2>2. SameItems(h, b[1]) /\ DOMAIN b[1] = DOMAIN h
    BY <1>3, <2>1, SwapEffect
  <2>3. b \in Place
    BY <2>1, <2>2 DEF Place, SameItems
  <2>4. siftUp[a] = siftUp[b]
    BY <1>3, <1>5, SiftUpCalls
  <2>5. b \notin Bad
    BY <1>2, <1>3, <2>1, <2>3
  <2>6. SameItems(b[1], siftUp[b]) /\ (OrderedButUp(b[1], b[2]) => Ordered(siftUp[b]))
    BY <2>3, <2>5
  <2>7. OrderedButUp(h, i) => OrderedButUp(b[1], b[2])
    BY <1>3, <1>5, RiseKeepsOrder
  <2>8. SameItems(h, siftUp[a])
    BY <2>2, <2>4, <2>6, SameTwice
  <2> QED
    BY <2>4, <2>6, <2>7, <2>8
<1> QED
  BY <1>4, <1>5

-----------------------------------------------------------------------------
(* siftDown(). *)

(* The entry to put at i comes before i and its children, or ties.          *)
LEMMA SmallestOfThree ==
    ASSUME NEW h \in Seq(Job), NEW i \in DOMAIN h
    PROVE  LET s == SmallestOf(h, i) IN
           /\ s \in DOMAIN h
           /\ s = i \/ (s \div 2 = i /\ i < s /\ Precedes(h[s], h[i]))
           /\ \A j \in DOMAIN h : j > 1 /\ j \div 2 = i => ~Precedes(h[j], h[s])
<1> DEFINE left == 2 * i
           right == 2 * i + 1
           t == IF left <= Len(h) /\ Precedes(h[left], h[i]) THEN left ELSE i
           s == IF right <= Len(h) /\ Precedes(h[right], h[t]) THEN right ELSE t
<1>1. i \in Nat /\ i >= 1 /\ Len(h) \in Nat /\ DOMAIN h = 1..Len(h)
  OBVIOUS
<1>2. \A j \in DOMAIN h : h[j] \in Job
  OBVIOUS
<1>3. t \in DOMAIN h /\ (t = i \/ (t = left /\ Precedes(h[t], h[i])))
  BY <1>1
<1>4. left \in DOMAIN h => ~Precedes(h[left], h[t])
  BY <1>1, <1>2, PrecedesOrder
<1> HIDE DEF t
<1>5. s \in DOMAIN h /\ (s = t \/ (s = right /\ Precedes(h[s], h[t])))
  BY <1>1, <1>3
<1>6. right \in DOMAIN h => ~Precedes(h[right], h[s])
  BY <1>1, <1>2, PrecedesOrder
<1>7. s = right => Precedes(h[s], h[i])
  <2> SUFFICES ASSUME s = right
               PROVE  Precedes(h[s], h[i])
    OBVIOUS
  <2>1. s # t
    BY <1>1, <1>3
  <2>2. Precedes(h[s], h[t]) /\ ~Precedes(h[t], h[s])
    BY <1>2, <1>3, <1>5, <2>1, PrecedesOrder
  <2>3. ~Precedes(h[i], h[t])
    BY <1>2, <1>3, PrecedesOrder
  <2> QED
    BY <1>2, <1>3, <1>5, <2>2, <2>3, PrecedesOrder
<1>8. left \in DOMAIN h => ~Precedes(h[left], h[s])
  <2> SUFFICES ASSUME left \in DOMAIN h, s # t
               PROVE  ~Precedes(h[left], h[s])
    BY <1>4
  <2>1. ~Precedes(h[t], h[s])
    BY <1>2, <1>3, <1>5, PrecedesOrder
  <2> QED
    BY <1>2, <1>3, <1>4, <1>5, <2>1, PrecedesOrder
<1>9. s = SmallestOf(h, i)
  BY DEF SmallestOf, t
<1> HIDE DEF s
<1>10. \A j \in DOMAIN h : j > 1 /\ j \div 2 = i => ~Precedes(h[j], h[s])
  BY <1>1, <1>6, <1>8, Halves
<1>11. s = i \/ (s \div 2 = i /\ i < s /\ Precedes(h[s], h[i]))
  BY <1>1, <1>3, <1>5, <1>7, Halves
<1> QED
  BY <1>5, <1>9, <1>10, <1>11

(* siftDown() ends: each call is further from the root.                     *)
LEMMA SiftDownCalls ==
    \A h, i : <<h, i>> \in Place =>
        siftDown[<<h, i>>] = IF SmallestOf(h, i) = i THEN h
                             ELSE siftDown[<<Swap(h, i, SmallestOf(h, i)), SmallestOf(h, i)>>]
<1> DEFINE m == [a \in Place |-> Len(a[1]) - a[2]]
           stop == {a \in Place : SmallestOf(a[1], a[2]) = a[2]}
           val == [a \in Place |-> a[1]]
           next == [a \in Place |-> <<Swap(a[1], a[2], SmallestOf(a[1], a[2])), SmallestOf(a[1], a[2])>>]
           body(f) == [a \in Place |-> LET h == a[1]
                                           i == a[2]
                                           smallest == SmallestOf(h, i)
                                       IN IF smallest = i THEN h
                                          ELSE f[<<Swap(h, i, smallest), smallest>>]]
<1>1. m \in [Place -> Nat] /\ stop \in SUBSET Place
  BY DEF Place
<1>2. ASSUME NEW a \in Place \ stop
      PROVE  next[a] \in Place /\ m[next[a]] < m[a]
  <2>1. PICK h, i, s : h = a[1] /\ i = a[2] /\ s = SmallestOf(h, i)
    OBVIOUS
  <2>2. h \in Seq(Job) /\ i \in DOMAIN h /\ i \in Nat /\ s # i /\ Len(h) \in Nat
    BY <2>1 DEF Place
  <2>3. s \in DOMAIN h /\ s \in Nat /\ i < s /\ s <= Len(h)
    BY <2>1, <2>2, SmallestOfThree
  <2>4. Swap(h, i, s) \in Seq(Job) /\ DOMAIN Swap(h, i, s) = DOMAIN h /\ Len(Swap(h, i, s)) = Len(h)
    BY <2>2, <2>3, SwapEffect DEF SameItems
  <2>5. next[a] = <<Swap(h, i, s), s>>
    BY <2>1
  <2>6. next[a] \in Place
    BY <2>3, <2>4, <2>5 DEF Place
  <2>7. m[next[a]] = Len(h) - s /\ m[a] = Len(h) - i
    BY <2>1, <2>4, <2>5, <2>6
  <2> QED
    BY <2>2, <2>3, <2>6, <2>7
<1>3. HasSolution(Place, stop, val, next)
  <2> HIDE DEF m, stop, val, next
  <2>1. \A a \in Place \ stop : next[a] \in Place /\ m[next[a]] < m[a]
    BY <1>2
  <2> QED
    BY <1>1, <2>1, TailRecursion
<1>4. \E f : f = body(f)
  BY <1>3 DEF HasSolution
<1>5. siftDown = body(siftDown)
  <2> HIDE DEF body
  <2>1. siftDown = CHOOSE g : g = body(g)
    BY DEF siftDown, body
  <2> QED
    BY <1>4, <2>1
<1> QED
  BY <1>5

(* A step of siftDown() leaves the fault, if there is one, at the child.    *)
LEMMA SinkKeepsOrder ==
    ASSUME NEW h \in Seq(Job), NEW i \in DOMAIN h, NEW s, s = SmallestOf(h, i), s # i,
           OrderedButDown(h, i)
    PROVE  OrderedButDown(Swap(h, i, s), s)
<1>1. /\ i \in Nat /\ 1 <= i /\ s \in Nat /\ i < s /\ s \in DOMAIN h /\ s \div 2 = i
      /\ Precedes(h[s], h[i])
      /\ \A j \in DOMAIN h : j > 1 /\ j \div 2 = i => ~Precedes(h[j], h[s])
  BY SmallestOfThree
<1> PICK r : r = Swap(h, i, s)
  OBVIOUS
<1>2. /\ DOMAIN r = DOMAIN h /\ r[i] = h[s] /\ r[s] = h[i]
      /\ \A j \in DOMAIN h : j # i /\ j # s => r[j] = h[j]
  BY <1>1, SwapEffect
<1>3. \A j \in DOMAIN h : h[j] \in Job
  OBVIOUS
<1>4. ASSUME NEW j \in DOMAIN r, j > 1
      PROVE  /\ j \div 2 # s => ~Precedes(r[j], r[j \div 2])
             /\ j \div 2 = s /\ s > 1 => ~Precedes(r[j], r[s \div 2])
  <2> PICK q : q = j \div 2
    OBVIOUS
  <2>1. j \in DOMAIN h /\ j \in Nat /\ q \in Nat /\ q < j /\ 1 <= q /\ q \in DOMAIN h
    BY <1>2, <1>4, Halves
  <2>2. /\ q # i => ~Precedes(h[j], h[q])
        /\ q = i => ~Precedes(h[j], h[s])
    BY <1>1, <1>4, <2>1 DEF OrderedButDown
  <2>3. q # s => ~Precedes(r[j], r[q])
    <3>1. CASE q = i /\ j = s
      BY <1>1, <1>2, <1>3, <3>1, PrecedesOrder
    <3>2. CASE q = i /\ j # s
      <4>1. j # i /\ r[j] = h[j] /\ r[q] = h[s]
        BY <1>2, <2>1, <3>2
      <4> QED
        BY <2>2, <3>2, <4>1
    <3>3. CASE q # i /\ q # s /\ j = i
      <4>1. i > 1 /\ s > 1
        BY <1>1, <1>4, <3>3
      <4>2. ~Precedes(h[s], h[i \div 2])
        BY <1>1, <4>1 DEF OrderedButDown
      <4> QED
        BY <1>2, <2>1, <3>3, <4>2
    <3>4. CASE q # i /\ q # s /\ j # i
      <4>1. j # s
        BY <1>1, <3>4
      <4> QED
        BY <1>2, <2>1, <2>2, <3>4, <4>1
    <3> QED
      BY <3>1, <3>2, <3>3, <3>4
  <2>4. q = s => ~Precedes(r[j], r[i])
    <3> SUFFICES ASSUME q = s
                 PROVE  ~Precedes(r[j], r[i])
      OBVIOUS
    <3>1. j # i /\ j # s /\ r[j] = h[j]
      BY <1>1, <1>2, <2>1
    <3> QED
      BY <1>1, <1>2, <2>2, <3>1
  <2> QED
    BY <1>1, <2>3, <2>4
<1> QED
  BY <1>4 DEF OrderedButDown

(* What siftDown() returns has the jobs it was given, in heap order.        *)
LEMMA SiftDownSorts ==
    \A h, i : <<h, i>> \in Place =>
        /\ SameItems(h, siftDown[<<h, i>>])
        /\ OrderedButDown(h, i) => Ordered(siftDown[<<h, i>>])
<1> DEFINE Right(a) == /\ SameItems(a[1], siftDown[a])
                       /\ OrderedButDown(a[1], a[2]) => Ordered(siftDown[a])
           Bad == {a \in Place : ~Right(a)}
           m == [a \in Place |-> Len(a[1]) - a[2]]
<1> SUFFICES ASSUME Bad # {}
             PROVE  FALSE
  BY DEF Place
<1>1. m \in [Place -> Nat] /\ Bad \in SUBSET Place
  BY DEF Place
<1>2. PICK a \in Bad : \A b \in Bad : m[a] <= m[b]
  <2> HIDE DEF Bad, m
  <2> QED
    BY <1>1, LeastMeasure
<1> PICK h, i, s : h = a[1] /\ i = a[2] /\ s = SmallestOf(h, i)
  OBVIOUS
<1>3. /\ h \in Seq(Job) /\ i \in DOMAIN h /\ i \in Nat /\ i >= 1
      /\ Len(h) \in Nat /\ DOMAIN h = 1..Len(h) /\ a = <<h, i>> /\ <<h, i>> \in Place
  BY DEF Place
<1>4. CASE s = i
  <2>1. siftDown[<<h, i>>] = h
    <3>1. SmallestOf(h, i) = i
      BY <1>4
    <3>2. siftDown[<<h, i>>] = IF SmallestOf(h, i) = i THEN h
                               ELSE siftDown[<<Swap(h, i, SmallestOf(h, i)), SmallestOf(h, i)>>]
      <4>1. <<h, i>> \in Place
        BY <1>3
      <4> HIDE DEF Bad, m
      <4> QED
        BY <4>1, SiftDownCalls
    <3> HIDE DEF Bad
    <3> QED
      BY <3>1, <3>2
  <2>2. SameItems(h, h)
    BY <1>3 DEF SameItems
  <2>3. OrderedButDown(h, i) => Ordered(h)
    <3>1. \A j \in DOMAIN h : j > 1 /\ j \div 2 = i => ~Precedes(h[j], h[i])
      BY <1>3, <1>4, SmallestOfThree
    <3> QED
      BY <3>1 DEF OrderedButDown, Ordered
  <2> QED
    BY <1>3, <2>1, <2>2, <2>3
<1>5. CASE s # i
  <2> PICK b : b = <<Swap(h, i, s), s>>
    OBVIOUS
  <2>1. s \in Nat /\ i < s /\ s \in DOMAIN h /\ s <= Len(h)
    BY <1>3, <1>5, SmallestOfThree
  <2>2. SameItems(h, b[1]) /\ DOMAIN b[1] = DOMAIN h /\ Len(b[1]) = Len(h)
    BY <1>3, <2>1, SwapEffect DEF SameItems
  <2>3. b \in Place
    BY <2>1, <2>2 DEF Place, SameItems
  <2>4. siftDown[<<h, i>>] = siftDown[b]
    BY <1>3, <1>5, SiftDownCalls, Zenon
  <2>5. b \notin Bad
    <3>1. m[b] = Len(h) - s /\ m[a] = Len(h) - i
      BY <1>3, <2>2, <2>3
    <3>2. m[b] < m[a]
      BY <1>3, <2>1, <3>1
    <3> QED
      BY <1>2, <1>3, <2>1, <3>1, <3>2
  <2>6. SameItems(b[1], siftDown[b]) /\ (OrderedButDown(b[1], b[2]) => Ordered(siftDown[b]))
    BY <2>3, <2>5
  <2>7. OrderedButDown(h, i) => OrderedButDown(b[1], b[2])
    BY <1>3, <1>5, SinkKeepsOrder
  <2>8. SameItems(h, siftDown[<<h, i>>])
    BY <2>2, <2>4, <2>6, SameTwice
  <2> QED
    BY <1>3, <2>4, <2>6, <2>7, <2>8
<1> QED
  BY <1>4, <1>5

-----------------------------------------------------------------------------
(* heapPush() and heapPop(). *)

(* A job that is pushed is in the heap, with the others, in heap order.     *)
LEMMA PushSorts ==
    ASSUME NEW h \in Seq(Job), NEW job \in Job, Ordered(h), Distinct(h), job.id \notin Ids(h)
    PROVE  LET r == HeapPush(h, job) IN
           /\ r \in Seq(Job) /\ Len(r) = Len(h) + 1
           /\ Ordered(r) /\ Distinct(r) /\ Items(r) = Items(h) \cup {job}
<1> PICK q, n : q = Append(h, job) /\ n = Len(h) + 1
  OBVIOUS
<1>1. /\ q \in Seq(Job) /\ Len(q) = n /\ n \in Nat /\ n >= 1 /\ DOMAIN q = 1..n
      /\ q[n] = job /\ DOMAIN h = 1..(n - 1) /\ \A i \in DOMAIN h : q[i] = h[i]
  OBVIOUS
<1>2. Items(q) = Items(h) \cup {job}
  BY <1>1 DEF Items
<1>3. Distinct(q)
  <2>1. \A i \in DOMAIN h : h[i].id # job.id
    BY DEF Ids
  <2> QED
    BY <1>1, <2>1 DEF Distinct
<1>4. OrderedButUp(q, n)
  <2> SUFFICES ASSUME NEW j \in DOMAIN q, j > 1
               PROVE  /\ j # n => ~Precedes(q[j], q[j \div 2])
                      /\ j \div 2 # n
    BY DEF OrderedButUp
  <2> PICK p : p = j \div 2
    OBVIOUS
  <2>1. j \in Nat /\ p \in Nat /\ 1 <= p /\ p < j /\ j <= n
    BY <1>1, Halves
  <2>2. j # n => ~Precedes(h[j], h[p])
    BY <1>1, <2>1 DEF Ordered
  <2>3. j # n => q[j] = h[j] /\ q[p] = h[p]
    BY <1>1, <2>1
  <2> QED
    BY <2>1, <2>2, <2>3
<1>5. <<q, n>> \in Place
  BY <1>1 DEF Place
<1>6. HeapPush(h, job) = siftUp[<<q, n>>]
  BY DEF HeapPush
<1>7. SameItems(q, siftUp[<<q, n>>]) /\ Ordered(siftUp[<<q, n>>])
  BY <1>4, <1>5, SiftUpSorts
<1> QED
  BY <1>1, <1>2, <1>3, <1>6, <1>7 DEF SameItems

(* What is left of a heap is shorter, with the other jobs, in heap order.   *)
LEMMA PopSorts ==
    ASSUME NEW h \in Seq(Job), h # <<>>
    PROVE  LET r == HeapPop(h) IN
           /\ r \in Seq(Job) /\ Len(r) = Len(h) - 1
           /\ Distinct(h) => Distinct(r) /\ Items(r) = Items(h) \ {h[1]}
           /\ Ordered(h) => Ordered(r)
<1> PICK n : n = Len(h)
  OBVIOUS
<1>1. n \in Nat /\ n >= 1 /\ DOMAIN h = 1..n
  BY EmptySeq
<1>2. CASE n = 1
  <2>1. HeapPop(h) = <<>>
    BY <1>2 DEF HeapPop
  <2>2. Items(h) = {h[1]} /\ Items(<<>>) = {}
    BY <1>1, <1>2 DEF Items
  <2>3. Distinct(<<>>) /\ Ordered(<<>>) /\ <<>> \in Seq(Job) /\ Len(<<>>) = 0
    BY DEF Distinct, Ordered
  <2> QED
    BY <1>2, <2>1, <2>2, <2>3
<1>3. CASE n # 1
  <2> PICK q : q = [Front(h) EXCEPT ![1] = Last(h)]
    OBVIOUS
  <2>1. n - 1 \in Nat /\ n - 1 >= 1 /\ \A i \in 1..n : h[i] \in Job
    BY <1>1, <1>3
  <2>2. /\ Front(h) \in Seq(Job) /\ Len(Front(h)) = n - 1
        /\ \A i \in 1..(n - 1) : Front(h)[i] = h[i]
    <3>1. /\ SubSeq(h, 1, n - 1) \in Seq(Job)
          /\ Len(SubSeq(h, 1, n - 1)) = IF 1 <= n - 1 THEN (n - 1) - 1 + 1 ELSE 0
          /\ \A i \in 1..((n - 1) - 1 + 1) : SubSeq(h, 1, n - 1)[i] = h[1 + i - 1]
      BY <2>1, SubSeqProperties
    <3> QED
      BY <2>1, <3>1 DEF Front
  <2>3. /\ q \in Seq(Job) /\ Len(q) = n - 1 /\ DOMAIN q = 1..(n - 1)
        /\ q[1] = h[n] /\ \A i \in 2..(n - 1) : q[i] = h[i]
    BY <2>1, <2>2 DEF Last
  <2>4. Distinct(h) => Distinct(q) /\ Items(q) = Items(h) \ {h[1]}
    <3> SUFFICES ASSUME Distinct(h)
                 PROVE  Distinct(q) /\ Items(q) = Items(h) \ {h[1]}
      OBVIOUS
    <3>1. \A i, j \in 1..n : h[i] = h[j] => i = j
      BY <1>1 DEF Distinct
    <3>2. \A i \in 1..(n - 1) : q[i] = h[IF i = 1 THEN n ELSE i]
      BY <2>1, <2>3
    <3>3. Distinct(q)
      BY <1>1, <2>1, <2>3, <3>2 DEF Distinct
    <3>4. ASSUME NEW i \in 1..(n - 1)
          PROVE  q[i] \in Items(h) \ {h[1]}
      BY <1>1, <2>1, <3>1, <3>2, <3>4 DEF Items
    <3>5. ASSUME NEW i \in 1..n, i # 1
          PROVE  h[i] \in Items(q)
      <4>1. CASE i = n
        BY <2>1, <2>3, <4>1 DEF Items
      <4>2. CASE i # n
        BY <2>3, <3>5, <4>2 DEF Items
      <4> QED
        BY <4>1, <4>2
    <3>6. Items(q) \subseteq Items(h) \ {h[1]}
      BY <2>3, <3>4 DEF Items
    <3>7. Items(h) \ {h[1]} \subseteq Items(q)
      BY <1>1, <3>5 DEF Items
    <3> QED
      BY <3>3, <3>6, <3>7
  <2>5. Ordered(h) => OrderedButDown(q, 1)
    <3> SUFFICES ASSUME Ordered(h), NEW j \in DOMAIN q, j > 1, j \div 2 # 1
                 PROVE  ~Precedes(q[j], q[j \div 2])
      BY DEF OrderedButDown
    <3> PICK p : p = j \div 2
      OBVIOUS
    <3>1. j \in Nat /\ p \in Nat /\ 1 < p /\ p < j /\ j <= n - 1
      BY <2>1, <2>3, Halves
    <3>2. ~Precedes(h[j], h[p])
      BY <1>1, <3>1 DEF Ordered
    <3>3. q[j] = h[j] /\ q[p] = h[p]
      BY <2>1, <2>3, <3>1
    <3> QED
      BY <3>2, <3>3
  <2>6. <<q, 1>> \in Place
    BY <2>1, <2>3 DEF Place
  <2>7. HeapPop(h) = siftDown[<<q, 1>>]
    BY <1>3 DEF HeapPop
  <2>8. /\ SameItems(q, siftDown[<<q, 1>>])
        /\ OrderedButDown(q, 1) => Ordered(siftDown[<<q, 1>>])
    BY <2>6, SiftDownSorts
  <2> QED
    BY <2>3, <2>4, <2>5, <2>7, <2>8 DEF SameItems
<1> QED
  BY <1>2, <1>3

(* No job of a heap comes before the one at its root.                       *)
LEMMA RootIsForemost ==
    ASSUME NEW h \in Seq(Job), Ordered(h)
    PROVE  \A i \in DOMAIN h : ~Precedes(h[i], h[1])
<1> DEFINE T == {i \in DOMAIN h : Precedes(h[i], h[1])}
<1>1. T \in SUBSET Nat
  OBVIOUS
<1> SUFFICES ASSUME T # {}
             PROVE  FALSE
  OBVIOUS
<1>2. PICK i \in T : \A j \in T : i <= j
  <2> HIDE DEF T
  <2> QED
    BY <1>1, LeastNat
<1> PICK p : p = i \div 2
  OBVIOUS
<1>3. i \in DOMAIN h /\ i \in Nat /\ i >= 1 /\ Precedes(h[i], h[1]) /\ h[i] \in Job /\ h[1] \in Job
  OBVIOUS
<1>4. i # 1
  BY <1>3, PrecedesOrder
<1>5. p \in Nat /\ 1 <= p /\ p < i
  BY <1>3, <1>4, Halves
<1>6. p \in DOMAIN h /\ h[p] \in Job
  BY <1>3, <1>5
<1>7. ~Precedes(h[p], h[1])
  BY <1>2, <1>3, <1>5, <1>6
<1>8. ~Precedes(h[i], h[p])
  BY <1>3, <1>4 DEF Ordered
<1> QED
  BY <1>3, <1>6, <1>7, <1>8, PrecedesOrder

-----------------------------------------------------------------------------
(* dequeue()'s loop. *)

(* The loop ends: each turn shortens the heap.                              *)
LEMMA PopLiveCalls ==
    \A h \in Seq(Job) :
        popLive[h] = IF h = <<>> THEN [job |-> NoJob, rest |-> <<>>]
                     ELSE IF Live(h[1]) THEN [job |-> h[1], rest |-> HeapPop(h)]
                     ELSE popLive[HeapPop(h)]
<1> DEFINE m == [h \in Seq(Job) |-> Len(h)]
           stop == {h \in Seq(Job) : h = <<>> \/ Live(h[1])}
           val == [h \in Seq(Job) |-> IF h = <<>> THEN [job |-> NoJob, rest |-> <<>>]
                                      ELSE [job |-> h[1], rest |-> HeapPop(h)]]
           next == [h \in Seq(Job) |-> HeapPop(h)]
           body(f) == [h \in Seq(Job) |->
                          IF h = <<>> THEN [job |-> NoJob, rest |-> <<>>]
                          ELSE IF Live(h[1]) THEN [job |-> h[1], rest |-> HeapPop(h)]
                          ELSE f[HeapPop(h)]]
<1>1. m \in [Seq(Job) -> Nat] /\ stop \in SUBSET Seq(Job)
  OBVIOUS
<1>2. ASSUME NEW h \in Seq(Job) \ stop
      PROVE  next[h] \in Seq(Job) /\ m[next[h]] < m[h]
  <2>1. h \in Seq(Job) /\ h # <<>> /\ Len(h) \in Nat /\ next[h] = HeapPop(h)
    OBVIOUS
  <2>2. HeapPop(h) \in Seq(Job) /\ Len(HeapPop(h)) = Len(h) - 1
    BY <2>1, PopSorts
  <2>3. m[next[h]] = Len(h) - 1 /\ m[h] = Len(h)
    BY <2>1, <2>2
  <2> QED
    BY <2>1, <2>2, <2>3
<1>3. HasSolution(Seq(Job), stop, val, next)
  <2> HIDE DEF m, stop, val, next
  <2>1. \A h \in Seq(Job) \ stop : next[h] \in Seq(Job) /\ m[next[h]] < m[h]
    BY <1>2
  <2> QED
    BY <1>1, <2>1, TailRecursion
<1>4. \E f : f = body(f)
  BY <1>3 DEF HasSolution
<1>5. popLive = body(popLive)
  <2> HIDE DEF body
  <2>1. popLive = CHOOSE g : g = body(g)
    BY DEF popLive, body
  <2> QED
    BY <1>4, <2>1
<1> QED
  BY <1>5

\* What a turn of dequeue() found in h, and what it left.
PoppedRight(h, popped) ==
    /\ popped.rest \in Seq(Job) /\ Len(popped.rest) <= Len(h)
    /\ Ordered(popped.rest) /\ Distinct(popped.rest) /\ Items(popped.rest) \subseteq Items(h)
    /\ \/ /\ popped.job = NoJob /\ popped.rest = <<>>
          /\ \A j \in Items(h) : ~Live(j)
       \/ /\ popped.job \in Items(h) /\ Live(popped.job) /\ popped.job \notin Items(popped.rest)
          /\ \A j \in Items(h) : Live(j) =>
                /\ j = popped.job \/ j \in Items(popped.rest)
                /\ ~Precedes(j, popped.job)

(* dequeue() finds a foremost live job, or there is none, and leaves all    *)
(* the other live jobs, whatever ghosts it drops on its way.                *)
LEMMA PopLiveFinds ==
    \A h \in Seq(Job) : Ordered(h) /\ Distinct(h) => PoppedRight(h, popLive[h])
<1> DEFINE Bad == {h \in Seq(Job) : Ordered(h) /\ Distinct(h) /\ ~PoppedRight(h, popLive[h])}
           m == [h \in Seq(Job) |-> Len(h)]
<1> SUFFICES ASSUME Bad # {}
             PROVE  FALSE
  OBVIOUS
<1>1. m \in [Seq(Job) -> Nat] /\ Bad \in SUBSET Seq(Job)
  OBVIOUS
<1>2. PICK h \in Bad : \A b \in Bad : m[h] <= m[b]
  <2> HIDE DEF Bad, m
  <2> QED
    BY <1>1, LeastMeasure
<1>3. /\ h \in Seq(Job) /\ Ordered(h) /\ Distinct(h) /\ ~PoppedRight(h, popLive[h])
      /\ Len(h) \in Nat /\ DOMAIN h = 1..Len(h)
      /\ \A b \in Seq(Job) : Ordered(b) /\ Distinct(b) /\ Len(b) < Len(h) => PoppedRight(b, popLive[b])
  <2>1. h \in Seq(Job) /\ Ordered(h) /\ Distinct(h) /\ ~PoppedRight(h, popLive[h])
    OBVIOUS
  <2>2. ASSUME NEW b \in Seq(Job), Ordered(b), Distinct(b), Len(b) < Len(h)
        PROVE  PoppedRight(b, popLive[b])
    <3>1. m[b] = Len(b) /\ m[h] = Len(h) /\ Len(b) \in Nat /\ Len(h) \in Nat
      OBVIOUS
    <3>2. b \notin Bad
      BY <1>2, <2>2, <3>1
    <3> QED
      BY <2>2, <3>2
  <2> QED
    BY <2>1, <2>2
<1> HIDE DEF Bad, m
<1>4. CASE h = <<>>
  <2>1. popLive[h] = [job |-> NoJob, rest |-> <<>>]
    BY <1>3, <1>4, PopLiveCalls
  <2>2. Items(h) = {}
    BY <1>4 DEF Items
  <2> QED
    BY <1>3, <1>4, <2>1, <2>2 DEF PoppedRight
<1>5. CASE h # <<>>
  <2> PICK r : r = HeapPop(h)
    OBVIOUS
  <2>1. /\ r \in Seq(Job) /\ Len(r) = Len(h) - 1 /\ Len(r) \in Nat
        /\ Ordered(r) /\ Distinct(r) /\ Items(r) = Items(h) \ {h[1]}
    <3>1. h \in Seq(Job) /\ Ordered(h) /\ Distinct(h)
      BY <1>3
    <3>2. /\ r \in Seq(Job) /\ Len(r) = Len(h) - 1
          /\ Distinct(h) => Distinct(r) /\ Items(r) = Items(h) \ {h[1]}
          /\ Ordered(h) => Ordered(r)
      BY <1>5, <3>1, PopSorts
    <3>3. Len(r) \in Nat
      BY <3>2
    <3> QED
      BY <3>1, <3>2, <3>3
  <2>2. h[1] \in Items(h)
    BY <1>3, <1>5, EmptySeq DEF Items
  <2>3. CASE Live(h[1])
    <3>1. popLive[h] = [job |-> h[1], rest |-> r]
      BY <1>3, <1>5, <2>3, PopLiveCalls
    <3>2. \A j \in Items(h) : ~Precedes(j, h[1])
      BY <1>3, RootIsForemost DEF Items
    <3> QED
      BY <1>3, <2>1, <2>2, <2>3, <3>1, <3>2 DEF PoppedRight
  <2>4. CASE ~Live(h[1])
    <3>1. popLive[h] = popLive[r]
      BY <1>3, <1>5, <2>4, PopLiveCalls
    <3>2. PoppedRight(r, popLive[r])
      BY <1>3, <2>1
    <3> PICK popped : popped = popLive[r]
      OBVIOUS
    <3>3. /\ popped.rest \in Seq(Job) /\ Len(popped.rest) <= Len(r) /\ Len(popped.rest) \in Nat
          /\ Ordered(popped.rest) /\ Distinct(popped.rest) /\ Items(popped.rest) \subseteq Items(r)
      BY <3>2 DEF PoppedRight
    <3>4. Len(popped.rest) <= Len(h) /\ Items(popped.rest) \subseteq Items(h)
      BY <1>3, <2>1, <3>3
    <3>5. PoppedRight(h, popped)
      BY <2>1, <2>4, <3>2, <3>3, <3>4 DEF PoppedRight
    <3> QED
      BY <1>3, <3>1, <3>5
  <2> QED
    BY <2>3, <2>4
<1> QED
  BY <1>4, <1>5

-----------------------------------------------------------------------------
(* The invariant of the queue: what it holds, as sets of jobs. *)

Pending == {dedupMap[k] : k \in Keys} \ {NoJob}

QueueInv ==
    /\ heap \in Seq(Job) /\ Len(heap) <= MaxHeap
    /\ Ordered(heap) /\ Distinct(heap)
    /\ dedupMap \in [Keys -> Job \cup {NoJob}] /\ out \in Job \cup {NoJob}
    /\ \A k \in Keys : dedupMap[k] # NoJob => dedupMap[k].key = k
    /\ cancelled \subseteq {j.id : j \in Items(heap)}
    /\ {j \in Items(heap) : j.id \notin cancelled} = Pending

(* The invariant says what QueueIsSound says.                               *)
LEMMA InvIsSound == QueueInv <=> QueueIsSound
<1>1. Ids(heap) = {j.id : j \in Items(heap)}
  BY DEF Ids, Items
<1>2. {heap[i] : i \in {n \in DOMAIN heap : heap[n].id \notin cancelled}}
        = {j \in Items(heap) : j.id \notin cancelled}
  BY DEF Items
<1> QED
  BY <1>1, <1>2 DEF QueueInv, QueueIsSound, TypeOK, HeapOrdered, MapMatchesHeap, Ordered, Distinct, Pending

(* A job has one entry, so its id tells it.                                 *)
LEMMA IdsTell ==
    ASSUME QueueInv, NEW i \in Items(heap), NEW j \in Items(heap), i.id = j.id
    PROVE  i = j
BY DEF QueueInv, Items, Distinct

(* The pending jobs are the live ones of the heap.                          *)
LEMMA PendingIsLive ==
    ASSUME QueueInv
    PROVE  /\ Pending \subseteq Items(heap) /\ Pending \subseteq Job
           /\ \A j \in Items(heap) : Live(j) <=> j \in Pending
           /\ \A k \in Keys : dedupMap[k] # NoJob => dedupMap[k] \in Pending
           /\ \A j \in Pending : j.key \in Keys /\ dedupMap[j.key] = j
<1>1. /\ Pending \subseteq Items(heap) /\ Pending \subseteq Job
      /\ \A k \in Keys : dedupMap[k] # NoJob => dedupMap[k] \in Pending
  BY DEF QueueInv, Pending
<1>2. \A j \in Pending : j.key \in Keys /\ dedupMap[j.key] = j
  BY DEF QueueInv, Pending
<1>3. ASSUME NEW j \in Items(heap)
      PROVE  Live(j) <=> j \in Pending
  <2>1. j.id \notin cancelled <=> j \in Pending
    BY <1>1, <1>3 DEF QueueInv
  <2> QED
    BY <1>2, <2>1 DEF Live
<1> QED
  BY <1>1, <1>2, <1>3

(* The queue begins empty.                                                  *)
LEMMA QueueInit == Init => QueueInv
<1> SUFFICES ASSUME Init
             PROVE  QueueInv
  OBVIOUS
<1>1. Items(heap) = {} /\ Ordered(heap) /\ Distinct(heap) /\ heap \in Seq(Job) /\ Len(heap) = 0
  BY DEF Init, Items, Ordered, Distinct
<1>2. Pending = {}
  BY DEF Init, Pending
<1> QED
  BY <1>1, <1>2, QueueAssumption DEF Init, QueueInv

(* What enqueue() leaves pending: the new job, and those of other keys.     *)
LEMMA EnqueueKeeps ==
    ASSUME QueueInv, NEW job \in Job, Enqueue(job)
    PROVE  QueueInv' /\ Pending' = {j \in Pending : j.key # job.key} \cup {job}
<1> PICK old, key : key = job.key /\ old = dedupMap[key]
  OBVIOUS
<1>1. /\ key \in Keys /\ job.id \in JobIds /\ job # NoJob
  BY JobsAssumption DEF Job
<1>2. /\ heap' \in Seq(Job) /\ Len(heap') = Len(heap) + 1 /\ Ordered(heap') /\ Distinct(heap')
      /\ Items(heap') = Items(heap) \cup {job}
  BY PushSorts DEF Enqueue, QueueInv
<1>3. dedupMap' = [dedupMap EXCEPT ![key] = job] /\ out' = out
  BY DEF Enqueue
<1>4. Len(heap') <= MaxHeap
  <2>1. Len(heap) \in Nat /\ Len(heap) < MaxHeap
    BY DEF QueueInv, Enqueue
  <2> QED
    BY <1>2, <2>1, QueueAssumption
<1>5. \A j \in Items(heap) : j.id # job.id
  BY DEF Enqueue, Ids, Items
<1>6. /\ \A k \in Keys : dedupMap'[k] = IF k = key THEN job ELSE dedupMap[k]
      /\ dedupMap' \in [Keys -> Job \cup {NoJob}]
  BY <1>1, <1>3 DEF QueueInv
<1>7. Pending' = {j \in Pending : j.key # key} \cup {job}
  <2>1. \A k \in Keys : k # key /\ dedupMap[k] # NoJob => dedupMap[k] \in Pending /\ dedupMap[k].key # key
    BY DEF QueueInv, Pending
  <2>2. \A j \in Pending : j.key # key => j.key \in Keys /\ dedupMap'[j.key] = j /\ j # NoJob
    BY <1>6, PendingIsLive DEF Pending
  <2>3. Pending' \subseteq {j \in Pending : j.key # key} \cup {job}
    BY <1>6, <2>1 DEF Pending
  <2>4. {j \in Pending : j.key # key} \cup {job} \subseteq Pending'
    BY <1>1, <1>6, <2>2 DEF Pending
  <2> QED
    BY <2>3, <2>4
<1>8. \A j \in Items(heap) : j.id \notin cancelled' <=> j \in Pending /\ j.key # key
  <2> TAKE j \in Items(heap)
  <2>1. j.id \notin cancelled <=> j \in Pending
    BY PendingIsLive DEF QueueInv
  <2>2. CASE old = NoJob
    <3>1. cancelled' = cancelled
      BY <2>2 DEF Enqueue
    <3>2. j \in Pending => j.key # key
      BY <2>2, PendingIsLive DEF Pending
    <3> QED
      BY <2>1, <3>1, <3>2
  <2>3. CASE old # NoJob
    <3>1. cancelled' = cancelled \cup {old.id} /\ old \in Pending /\ old.key = key
      BY <1>1, <2>3, PendingIsLive DEF Enqueue, QueueInv
    <3>2. j.id = old.id => j = old
      BY <3>1, IdsTell, PendingIsLive
    <3>3. j \in Pending /\ j.key = key => j = old
      BY PendingIsLive
    <3> QED
      BY <2>1, <3>1, <3>2, <3>3
  <2> QED
    BY <2>2, <2>3
<1>9. cancelled' \subseteq {j.id : j \in Items(heap)}
  <2>1. CASE old = NoJob
    BY <2>1 DEF Enqueue, QueueInv
  <2>2. CASE old # NoJob
    BY <1>1, <2>2, PendingIsLive DEF Enqueue, QueueInv
  <2> QED
    BY <2>1, <2>2
<1>10. {j \in Items(heap') : j.id \notin cancelled'} = Pending'
  <2>1. job.id \notin cancelled'
    BY <1>5, <1>9
  <2> QED
    BY <1>2, <1>7, <1>8, <2>1, PendingIsLive
<1>11. \A k \in Keys : dedupMap'[k] # NoJob => dedupMap'[k].key = k
  BY <1>6 DEF QueueInv
<1>12. cancelled' \subseteq {j.id : j \in Items(heap')}
  BY <1>2, <1>9
<1>13. out' \in Job \cup {NoJob}
  BY <1>3 DEF QueueInv
<1> QED
  BY <1>2, <1>4, <1>6, <1>7, <1>10, <1>11, <1>12, <1>13 DEF QueueInv

(* What dequeue() returns: a foremost pending job, or null if there is none.*)
LEMMA DequeueKeeps ==
    ASSUME QueueInv, Dequeue
    PROVE  /\ QueueInv'
           /\ \/ out' = NoJob /\ Pending = {} /\ Pending' = Pending
              \/ out' \in Foremost(Pending) /\ Pending' = Pending \ {out'}
<1> PICK rest : rest = popLive[heap].rest
  OBVIOUS
<1>1. heap' = rest /\ out' = popLive[heap].job /\ cancelled' = cancelled \cap Ids(rest)
  BY DEF Dequeue
<1>2. \A k \in Keys : dedupMap'[k] = IF dedupMap[k] = out' THEN NoJob ELSE dedupMap[k]
  BY <1>1 DEF Dequeue, WithoutEntry
<1>3. PoppedRight(heap, popLive[heap])
  BY PopLiveFinds DEF QueueInv
<1>4. /\ rest \in Seq(Job) /\ Len(rest) <= Len(heap) /\ Len(rest) \in Nat /\ Len(heap) \in Nat
      /\ Ordered(rest) /\ Distinct(rest) /\ Items(rest) \subseteq Items(heap)
  BY <1>3 DEF PoppedRight, QueueInv
<1>5. \/ /\ out' = NoJob /\ rest = <<>>
         /\ \A j \in Items(heap) : ~Live(j)
      \/ /\ out' \in Items(heap) /\ Live(out') /\ out' \notin Items(rest)
         /\ \A j \in Items(heap) : Live(j) =>
               /\ j = out' \/ j \in Items(rest)
               /\ ~Precedes(j, out')
  BY <1>1, <1>3 DEF PoppedRight
<1>6. \A j \in Items(rest) : j.id \in Ids(rest)
  BY DEF Ids, Items
<1>7. dedupMap' \in [Keys -> Job \cup {NoJob}]
  BY <1>1, <1>2 DEF Dequeue, WithoutEntry, QueueInv
<1>8. Pending' = Pending \ {out'}
  <2>1. Pending' \subseteq Pending \ {out'}
    BY <1>2 DEF Pending
  <2>2. \A j \in Pending \ {out'} : j.key \in Keys /\ dedupMap'[j.key] = j /\ j # NoJob
    BY <1>2, PendingIsLive DEF Pending
  <2>3. Pending \ {out'} \subseteq Pending'
    BY <2>2 DEF Pending
  <2> QED
    BY <2>1, <2>3
<1>9. {j \in Items(rest) : j.id \notin cancelled} = Pending'
  <2>1. \A j \in Items(rest) : j.id \notin cancelled <=> j \in Pending
    BY <1>4, PendingIsLive DEF QueueInv
  <2>2. \A j \in Pending : j # out' => j \in Items(rest)
    BY <1>5, PendingIsLive
  <2>3. out' \notin Items(rest)
    <3>1. CASE out' = NoJob /\ rest = <<>>
      BY <3>1 DEF Items
    <3> QED
      BY <1>5, <3>1
  <2> QED
    BY <1>8, <2>1, <2>2, <2>3
<1>10. QueueInv'
  <2>1. Len(heap') <= MaxHeap
    BY <1>1, <1>4, QueueAssumption DEF QueueInv
  <2>2. out' \in Job \cup {NoJob}
    BY <1>5, PendingIsLive
  <2>3. \A k \in Keys : dedupMap'[k] # NoJob => dedupMap'[k].key = k
    BY <1>2 DEF QueueInv
  <2>4. cancelled' \subseteq {j.id : j \in Items(heap')}
    BY <1>1 DEF Ids, Items
  <2>5. {j \in Items(heap') : j.id \notin cancelled'} = Pending'
    BY <1>1, <1>6, <1>9
  <2> QED
    BY <1>1, <1>4, <1>7, <2>1, <2>2, <2>3, <2>4, <2>5 DEF QueueInv
<1>11. CASE out' = NoJob /\ rest = <<>>
  <2>1. Pending = {}
    BY <1>5, <1>11, PendingIsLive, JobsAssumption DEF Items
  <2> QED
    BY <1>8, <1>10, <1>11, <2>1
<1>12. CASE /\ out' \in Items(heap) /\ Live(out')
            /\ \A j \in Items(heap) : Live(j) => ~Precedes(j, out')
  <2>1. out' \in Foremost(Pending)
    BY <1>12, PendingIsLive DEF Foremost
  <2> QED
    BY <1>8, <1>10, <2>1
<1> QED
  BY <1>5, <1>11, <1>12

(* What dropByConnection() leaves pending.                                  *)
LEMMA DropKeeps ==
    ASSUME QueueInv, NEW c \in Conns, DropByConnection(c)
    PROVE  QueueInv' /\ Pending' = {j \in Pending : j.connection # c}
<1> DEFINE dropped == {k \in Keys : dedupMap[k] # NoJob /\ dedupMap[k].connection = c}
<1>1. /\ heap' = heap /\ out' = out
      /\ cancelled' = cancelled \cup {dedupMap[k].id : k \in dropped}
      /\ dedupMap' = [k \in Keys |-> IF k \in dropped THEN NoJob ELSE dedupMap[k]]
  BY DEF DropByConnection
<1>2. \A k \in Keys : dedupMap'[k] = IF k \in dropped THEN NoJob ELSE dedupMap[k]
  BY <1>1
<1>3. Pending' = {j \in Pending : j.connection # c}
  <2>1. Pending' \subseteq {j \in Pending : j.connection # c}
    BY <1>2 DEF Pending
  <2>2. \A j \in Pending : j.connection # c => j.key \in Keys /\ dedupMap'[j.key] = j /\ j # NoJob
    BY <1>2, PendingIsLive DEF Pending
  <2>3. {j \in Pending : j.connection # c} \subseteq Pending'
    BY <2>2 DEF Pending
  <2> QED
    BY <2>1, <2>3
<1>4. \A j \in Items(heap) : j.id \notin cancelled' <=> j \in Pending /\ j.connection # c
  <2> TAKE j \in Items(heap)
  <2>1. j.id \notin cancelled <=> j \in Pending
    BY PendingIsLive DEF QueueInv
  <2>2. \A k \in dropped : dedupMap[k] \in Pending /\ (dedupMap[k].id = j.id => dedupMap[k] = j)
    BY PendingIsLive, IdsTell
  <2>3. j \in Pending /\ j.connection = c => j.key \in dropped /\ dedupMap[j.key] = j
    BY PendingIsLive DEF Pending
  <2> QED
    BY <1>1, <2>1, <2>2, <2>3
<1>5. QueueInv'
  <2>1. \A k \in dropped : dedupMap[k].id \in {j.id : j \in Items(heap)}
    BY PendingIsLive
  <2>2. cancelled' \subseteq {j.id : j \in Items(heap')}
    BY <1>1, <2>1 DEF QueueInv
  <2>3. {j \in Items(heap') : j.id \notin cancelled'} = Pending'
    BY <1>1, <1>3, <1>4, PendingIsLive
  <2>4. dedupMap' \in [Keys -> Job \cup {NoJob}] /\ \A k \in Keys : dedupMap'[k] # NoJob => dedupMap'[k].key = k
    BY <1>1, <1>2 DEF QueueInv
  <2> QED
    BY <1>1, <2>2, <2>3, <2>4 DEF QueueInv
<1> QED
  BY <1>3, <1>5

(* Every step keeps the invariant.                                          *)
LEMMA QueueKeeps == QueueInv /\ [Next]_vars => QueueInv'
<1> SUFFICES ASSUME QueueInv, [Next]_vars
             PROVE  QueueInv'
  OBVIOUS
<1>1. ASSUME NEW job \in Job, Enqueue(job)
      PROVE  QueueInv'
  BY <1>1, EnqueueKeeps
<1>2. CASE Dequeue
  BY <1>2, DequeueKeeps
<1>3. ASSUME NEW c \in Conns, DropByConnection(c)
      PROVE  QueueInv'
  BY <1>3, DropKeeps
<1>4. CASE UNCHANGED vars
  BY <1>4 DEF vars, QueueInv, Pending
<1> QED
  BY <1>1, <1>2, <1>3, <1>4 DEF Next

(* queue.ts, for every number of jobs, keys and connections and every       *)
(* length of the heap: the heap stays in order through siftUp, siftDown and *)
(* the ghosts in it, and the jobs that are not cancelled are exactly those  *)
(* of the dedup map, so that size is what dequeue can still return.         *)
THEOREM QueueStaysSound == Spec => []QueueIsSound
<1>1. Init => QueueInv
  BY QueueInit
<1>2. QueueInv /\ [Next]_vars => QueueInv'
  BY QueueKeeps
<1>3. QueueInv => QueueIsSound
  BY InvIsSound
<1> QED
  BY <1>1, <1>2, <1>3, PTL DEF Spec

(* Each step of the heap with ghosts is a step of the queue without them.   *)
LEMMA StepRefines == QueueInv /\ [Next]_vars => [Abstract!Next]_(Abstract!vars)
<1> SUFFICES ASSUME QueueInv, [Next]_vars
             PROVE  [Abstract!Next]_(Abstract!vars)
  OBVIOUS
<1> USE DEF Abstract!Next, Abstract!vars
<1>1. ASSUME NEW job \in Job, Enqueue(job)
      PROVE  Abstract!Enqueue(job)
  <2>1. \A j \in Pending : j.id # job.id
    BY <1>1, PendingIsLive DEF Enqueue, Ids, Items
  <2>2. Pending' = WithJob(Pending, job)
    BY <1>1, EnqueueKeeps DEF WithJob
  <2>3. out' = out
    BY <1>1 DEF Enqueue
  <2> QED
    BY <2>1, <2>2, <2>3 DEF Abstract!Enqueue, Abstract!WithJob, WithJob, Pending
<1>2. CASE Dequeue
  <2>1. \/ out' = NoJob /\ Pending = {} /\ Pending' = Pending
        \/ out' \in Foremost(Pending) /\ Pending' = Pending \ {out'}
    BY <1>2, DequeueKeeps
  <2>2. Abstract!Dequeue
    BY <2>1 DEF Abstract!Dequeue, Abstract!WithoutJob, Abstract!Foremost, Foremost,
                Abstract!Precedes, Precedes, Pending
  <2> QED
    BY <2>2
<1>3. ASSUME NEW c \in Conns, DropByConnection(c)
      PROVE  Abstract!DropByConnection(c)
  <2>1. Pending' = WithoutConnection(Pending, c) /\ out' = out
    BY <1>3, DropKeeps DEF WithoutConnection, DropByConnection
  <2> QED
    BY <2>1 DEF Abstract!DropByConnection, Abstract!WithoutConnection, WithoutConnection, Pending
<1>4. CASE UNCHANGED vars
  BY <1>4 DEF vars
<1> QED
  BY <1>1, <1>2, <1>3, <1>4 DEF Next, Job, Abstract!Job

(* The heap with lazy deletion implements the queue the broker is promised: *)
(* one pending job for each key, the newest, and dequeue returns a foremost *)
(* one of them, or null when there is none, and never a ghost.              *)
THEOREM QueueImplementsJobQueue == Spec => ImplementsJobQueue
<1>1. Init => Abstract!Init
  BY DEF Init, Abstract!Init
<1>2. Init => QueueInv
  BY QueueInit
<1>3. QueueInv /\ [Next]_vars => QueueInv'
  BY QueueKeeps
<1>4. QueueInv /\ [Next]_vars => [Abstract!Next]_(Abstract!vars)
  BY StepRefines
<1> QED
  BY <1>1, <1>2, <1>3, <1>4, PTL DEF Spec, ImplementsJobQueue, Abstract!Spec
=============================================================================
