---------------------------- MODULE PriorityQueue ----------------------------
(***************************************************************************)
(* src/broker/queue.ts: a binary heap with lazy deletion beside a map from *)
(* dedup key to the one live job of that key.  A job that is replaced or   *)
(* whose connection closes stays in the heap as a ghost until it is popped.*)
(* Positions are 1-based here and 0-based in the code.                     *)
(***************************************************************************)
EXTENDS Jobs, SequencesExt

CONSTANT MaxHeap   \* bound: enqueue only while the heap is shorter than this

ASSUME QueueAssumption == MaxHeap \in Nat

VARIABLES
    heap,        \* this.heap: sequence of jobs, ghosts included
    dedupMap,    \* this.dedupMap: key -> its live job, or NoJob
    cancelled,   \* ids of the jobs in heap whose cancelled flag is set
    out          \* what the last dequeue() returned

vars == <<heap, dedupMap, cancelled, out>>

-----------------------------------------------------------------------------
(* The heap. *)

\* A heap and a position in it.
Place == {a \in Seq(Job) \X Nat : a[2] \in DOMAIN a[1]}

Swap(h, i, k) == [h EXCEPT ![i] = h[k], ![k] = h[i]]

\* Moves the entry at a[2] of heap a[1] towards the root while it comes
\* before its parent.
siftUp[a \in Place] ==
    LET h == a[1]
        i == a[2]
        parent == i \div 2
    IN IF i > 1 /\ Precedes(h[i], h[parent])
       THEN siftUp[<<Swap(h, i, parent), parent>>]
       ELSE h

\* Mutant: the right child is never looked at.
SmallestOfLeftOnly(h, i) ==
    IF 2 * i <= Len(h) /\ Precedes(h[2 * i], h[i]) THEN 2 * i ELSE i

\* The position, among i and its children in h, of the entry to put at i;
\* the left child is looked at first and ties stay where they are.
SmallestOf(h, i) ==
    LET left == 2 * i
        right == 2 * i + 1
        s == IF left <= Len(h) /\ Precedes(h[left], h[i]) THEN left ELSE i
    IN IF right <= Len(h) /\ Precedes(h[right], h[s]) THEN right ELSE s

siftDown[a \in Place] ==
    LET h == a[1]
        i == a[2]
        smallest == SmallestOf(h, i)
    IN IF smallest = i THEN h
       ELSE siftDown[<<Swap(h, i, smallest), smallest>>]

HeapPush(h, job) == siftUp[<<Append(h, job), Len(h) + 1>>]

\* The heap that heapPop leaves; the entry it returns is h[1].
HeapPop(h) ==
    IF Len(h) = 1 THEN <<>>
    ELSE siftDown[<<[Front(h) EXCEPT ![1] = Last(h)], 1>>]

-----------------------------------------------------------------------------
(* The queue. *)

Ids(h) == {h[i].id : i \in DOMAIN h}

\* get size(): the live jobs, not the heap's length.
Size == Cardinality({k \in Keys : dedupMap[k] # NoJob})

\* Mutant: ghosts are not skipped.
LiveAlways(job) == TRUE

\* dequeue()'s test of a popped entry.
Live(job) == job.id \notin cancelled /\ dedupMap[job.key] = job

\* dequeue()'s loop: pops until it finds a live entry or the heap is empty.
\* Record: the job found (or NoJob) and the heap left.
popLive[h \in Seq(Job)] ==
    IF h = <<>> THEN [job |-> NoJob, rest |-> <<>>]
    ELSE IF Live(h[1]) THEN [job |-> h[1], rest |-> HeapPop(h)]
    ELSE popLive[HeapPop(h)]

-----------------------------------------------------------------------------
Init ==
    /\ heap = <<>>
    /\ dedupMap = [k \in Keys |-> NoJob]
    /\ cancelled = {}
    /\ out = NoJob

Enqueue(job) ==
    /\ Len(heap) < MaxHeap
    /\ job.id \notin Ids(heap)              \* a new object
    /\ cancelled' = IF dedupMap[job.key] = NoJob THEN cancelled
                    ELSE cancelled \cup {dedupMap[job.key].id}
    /\ dedupMap' = [dedupMap EXCEPT ![job.key] = job]
    /\ heap' = HeapPush(heap, job)
    /\ UNCHANGED out

\* dedupMap.delete(key), where dedupMap.get(key) === job.
WithoutEntry(job) == [k \in Keys |-> IF dedupMap[k] = job THEN NoJob ELSE dedupMap[k]]

Dequeue ==
    LET popped == popLive[heap]
    IN /\ heap' = popped.rest
       /\ out' = popped.job
       /\ cancelled' = cancelled \cap Ids(popped.rest)
       /\ dedupMap' = WithoutEntry(popped.job)

DropByConnection(c) ==
    LET dropped == {k \in Keys : dedupMap[k] # NoJob
                                 /\ dedupMap[k].connection = c}
    IN /\ cancelled' = cancelled \cup {dedupMap[k].id : k \in dropped}
       /\ dedupMap' = [k \in Keys |-> IF k \in dropped THEN NoJob
                                      ELSE dedupMap[k]]
       /\ UNCHANGED <<heap, out>>

Next ==
    \/ \E job \in Job : Enqueue(job)
    \/ Dequeue
    \/ \E c \in Conns : DropByConnection(c)

Spec == Init /\ [][Next]_vars

-----------------------------------------------------------------------------
(* Type correctness of the queue's fields. *)
TypeOK ==
    /\ heap \in Seq(Job)
    /\ Len(heap) <= MaxHeap
    /\ dedupMap \in [Keys -> Job \cup {NoJob}]
    /\ cancelled \subseteq Ids(heap)
    /\ out \in Job \cup {NoJob}

(* After any mix of enqueues, supersessions and drops, no heap entry comes *)
(* before its parent (queue.ts siftUp, siftDown): without this dequeue     *)
(* returns the wrong job.                                                  *)
HeapOrdered ==
    \A i \in DOMAIN heap : i > 1 => ~Precedes(heap[i], heap[i \div 2])

(* The dedup map and the heap agree: the entries that are not cancelled    *)
(* are exactly the jobs of the map, each in the heap once, so size counts  *)
(* what dequeue can still return (queue.ts:25 "not heap.length, which may  *)
(* contain cancelled ghost entries").                                      *)
MapMatchesHeap ==
    /\ {heap[i] : i \in {n \in DOMAIN heap : heap[n].id \notin cancelled}}
         = {dedupMap[k] : k \in Keys} \ {NoJob}
    /\ \A i, n \in DOMAIN heap : heap[i].id = heap[n].id => i = n
    /\ \A k \in Keys : dedupMap[k] # NoJob => dedupMap[k].key = k

(* The queue of queue.ts is sound after any mix of enqueues, supersessions *)
(* and drops: order, map and ghosts together.                              *)
QueueIsSound == TypeOK /\ HeapOrdered /\ MapMatchesHeap

(* The heap with ghosts implements the queue without: ghosts are never     *)
(* returned, and what dequeue returns is a foremost pending job.           *)
Abstract == INSTANCE JobQueue
              WITH pending <- {dedupMap[k] : k \in Keys} \ {NoJob}
ImplementsJobQueue == Abstract!Spec
=============================================================================
