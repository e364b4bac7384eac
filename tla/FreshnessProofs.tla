-------------------------- MODULE FreshnessProofs --------------------------
(***************************************************************************)
(* Theorems about module SummaryFreshness for every bound on edits, scans, *)
(* errors, lost connections and restarts.                                  *)
(***************************************************************************)
EXTENDS SummaryFreshness, FiniteSetTheorems, SequenceTheorems, TLAPS

-----------------------------------------------------------------------------
(* The inductive invariants. *)

Kinds == {"scans", "errors", "drops", "restarts"}

\* Types, and what is true of the pipeline whatever happens: one pending job
\* per key, nothing in it without a connection, no error uncounted.
RowInv ==
    /\ disk \in Versions /\ mtime \in Versions /\ written \in Versions
    /\ phase \in {"down", "built", "swept", "up"} /\ event \in BOOLEAN
    /\ snapshot \in Versions \cup {Manual, NoSummary, NoUpdate}
    /\ summary \in Versions \cup {Manual, NoSummary}
    /\ stale \in BOOLEAN /\ importance \in Importances
    /\ late \in BOOLEAN /\ crossed \in BOOLEAN

UsedInv == used \in [Kinds -> Nat] /\ \A what \in Kinds : used[what] \in 0..Bound[what]

OnePerPath(q) == \A i, k \in DOMAIN q : q[i].path = q[k].path => i = k

ChannelInv ==
    /\ link \in BOOLEAN
    /\ pending \in Seq(Job) /\ running \in Seq(Job) /\ inbox \in Seq(Answer)
    /\ Len(running) <= 1
    /\ OnePerPath(pending)
    /\ used["errors"] = 0 => \A i \in DOMAIN inbox : inbox[i].type = "result"
    /\ ~link => ~InPipeline

PipeInv == RowInv /\ UsedInv /\ ChannelInv

ServedInv == PipeInv /\ StaleIsServed

\* The answers that will be written.
Results == {i \in DOMAIN inbox : inbox[i].type = "result"}

\* Nothing is of content that was never on disk.
DiskInv ==
    /\ \A i \in DOMAIN pending : pending[i].version <= disk
    /\ \A i \in DOMAIN running : running[i].version <= disk
    /\ \A i \in DOMAIN inbox : inbox[i].version <= disk
    /\ written <= disk /\ mtime <= disk
    /\ summary \in Versions => summary <= disk
    /\ snapshot \in Versions => snapshot <= disk

\* Of a server that is not restarted: an unflagged summary is of the recorded
\* content or newer, unless the last result was for older content.
RecordedInv ==
    used["restarts"] = 0 =>
        /\ phase = "up" /\ summary # NoSummary /\ snapshot # NoSummary
        /\ ~stale /\ ~late => summary = Manual \/ (summary \in Versions /\ summary >= mtime)

\* While nothing has crossed the pipeline is first in, first out by content:
\* nothing older than an answer, or than what was written, is behind it.
OrderInv ==
    /\ \A i, k \in Results : i < k => inbox[i].version <= inbox[k].version
    /\ \A i, k \in DOMAIN pending : i < k => pending[i].version <= pending[k].version
    /\ \A i \in Results :
          /\ written <= inbox[i].version
          /\ \A k \in DOMAIN running : inbox[i].version <= running[k].version
          /\ \A k \in DOMAIN pending : inbox[i].version <= pending[k].version
    /\ \A i \in DOMAIN running :
          /\ written <= running[i].version
          /\ \A k \in DOMAIN pending : running[i].version <= pending[k].version
    /\ \A i \in DOMAIN pending : written <= pending[i].version

\* The content of the last submission that is not written yet.
LastVersion ==
    IF pending # <<>> THEN pending[Len(pending)].version
    ELSE IF running # <<>> THEN running[Len(running)].version
    ELSE inbox[Len(inbox)].version

\* No update of the file is due or under way.
Quiet == ~event /\ snapshot = NoUpdate

\* Nothing refused, lost, restarted or put out of order.
NoFault == used["restarts"] = 0 /\ InOrder

\* Without faults a quiet server has sent the present content, or has the
\* summary for it, or has flagged the file until there is a connection.
CurrentInv ==
    NoFault =>
        /\ phase = "up"
        /\ Quiet /\ InPipeline => LastVersion = disk
        /\ Quiet /\ ~InPipeline /\ summary \notin {disk, Manual} => stale /\ ~link

FreshInv ==
    PipeInv /\ DiskInv /\ RecordedInv /\ (~crossed => OrderInv) /\ CurrentInv

-----------------------------------------------------------------------------
(* Sequences. *)

(* Places of a sequence: the last one, and the one or two of a short one.  *)
LEMMA Places ==
    /\ \A n \in Nat : \A i \in 1..n : i \in 1..n - 1 \/ i = n
    /\ \A n \in Nat : n <= 2 /\ n # 0 => n = 1 \/ n = 2
OBVIOUS

(* What RemoveAt leaves.                                                   *)
LEMMA RemoveAtFacts ==
    ASSUME NEW S, NEW s \in Seq(S), NEW i \in 1..Len(s)
    PROVE  /\ RemoveAt(s, i) \in Seq(S) /\ Len(RemoveAt(s, i)) = Len(s) - 1
           /\ \A j \in 1..Len(s) - 1 :
                 RemoveAt(s, i)[j] = IF j < i THEN s[j] ELSE s[j + 1]
<1> DEFINE before == SubSeq(s, 1, i - 1)
           after == SubSeq(s, i + 1, Len(s))
<1>1. Len(s) \in Nat /\ i \in Nat /\ i >= 1 /\ i <= Len(s) /\ \A j \in 1..Len(s) : s[j] \in S
  OBVIOUS
<1>2. /\ before \in Seq(S) /\ Len(before) = i - 1
      /\ \A j \in 1..i - 1 : before[j] = s[j]
  <2>1. \A j \in 1..i - 1 : s[j] \in S
    BY <1>1
  <2>2. i - 1 \in Int /\ 1 \in Int
    BY <1>1
  <2> QED
    BY <1>1, <2>1, <2>2, SubSeqProperties
<1>3. /\ after \in Seq(S) /\ Len(after) = Len(s) - i
      /\ \A j \in 1..Len(s) - i : after[j] = s[i + j]
  <2>1. \A j \in i + 1..Len(s) : s[j] \in S
    BY <1>1
  <2>2. i + 1 \in Int /\ Len(s) \in Int
    BY <1>1
  <2> HIDE DEF before, after
  <2>3. /\ SubSeq(s, i + 1, Len(s)) \in Seq(S)
        /\ Len(SubSeq(s, i + 1, Len(s))) = IF i + 1 <= Len(s) THEN Len(s) - (i + 1) + 1 ELSE 0
        /\ \A j \in 1..Len(s) - (i + 1) + 1 :
              SubSeq(s, i + 1, Len(s))[j] = s[(i + 1) + j - 1]
    BY <2>1, <2>2, SubSeqProperties
  <2> QED
    BY <1>1, <2>3 DEF after
<1>4. RemoveAt(s, i) = before \o after
  BY DEF RemoveAt
<1> HIDE DEF before, after
<1>5. /\ before \o after \in Seq(S) /\ Len(before \o after) = Len(before) + Len(after)
      /\ \A j \in 1..Len(before) + Len(after) :
            (before \o after)[j] = IF j <= Len(before) THEN before[j] ELSE after[j - Len(before)]
  BY <1>2, <1>3, ConcatProperties
<1>6. ASSUME NEW j \in 1..Len(s) - 1
      PROVE  (before \o after)[j] = IF j < i THEN s[j] ELSE s[j + 1]
  <2>1. j \in 1..Len(before) + Len(after)
    BY <1>1, <1>2, <1>3
  <2>2. CASE j < i
    BY <1>1, <1>2, <1>5, <2>1, <2>2
  <2>3. CASE ~(j < i)
    <3>1. (before \o after)[j] = after[j - (i - 1)]
      BY <1>1, <1>2, <1>5, <2>1, <2>3
    <3>2. j - (i - 1) \in 1..Len(s) - i /\ i + (j - (i - 1)) = j + 1
      BY <1>1, <2>3
    <3> QED
      BY <1>3, <2>3, <3>1, <3>2
  <2> QED
    BY <2>2, <2>3
<1> QED
  BY <1>1, <1>2, <1>3, <1>4, <1>5, <1>6

\* The queue r is q without the jobs of one path, in its order, and job at its
\* end: element i of r is element i of q, or the next one.
GapAt(q, r, job, gap) ==
    \A i \in 1..Len(r) - 1 :
        LET k == IF i < gap THEN i ELSE i + 1 IN
        k \in DOMAIN q /\ r[i] = q[k] /\ q[k].path # job.path

EnqueuedAs(q, r, job) ==
    /\ r \in Seq(Job) /\ Len(r) >= 1 /\ r[Len(r)] = job
    /\ \E gap \in Nat : GapAt(q, r, job, gap)

(* What Enqueued makes of a queue with one job per path.                   *)
LEMMA EnqueuedFacts ==
    ASSUME NEW q \in Seq(Job), OnePerPath(q), NEW job \in Job
    PROVE  EnqueuedAs(q, Enqueued(q, job), job)
<1> DEFINE existing == {i \in DOMAIN q : q[i].path = job.path}
           r == Enqueued(q, job)
<1>0. DOMAIN q = 1..Len(q) /\ Len(q) \in Nat
  OBVIOUS
<1>1. CASE existing = {}
  <2>1. r = Append(q, job)
    BY <1>1 DEF Enqueued
  <2>2. /\ r \in Seq(Job) /\ Len(r) = Len(q) + 1 /\ r[Len(q) + 1] = job
        /\ \A i \in 1..Len(q) : r[i] = q[i]
    BY <2>1, AppendProperties
  <2> HIDE DEF r
  <2>3. \A i \in 1..Len(r) - 1 :
           /\ i < Len(q) + 1 /\ i \in DOMAIN q /\ r[i] = q[i] /\ q[i].path # job.path
    BY <1>0, <1>1, <2>2
  <2>4. GapAt(q, r, job, Len(q) + 1) /\ Len(q) + 1 \in Nat
    BY <1>0, <2>3 DEF GapAt
  <2> QED
    BY <1>0, <2>2, <2>4 DEF r, EnqueuedAs
<1>2. CASE existing # {}
  <2> DEFINE gap == CHOOSE i \in existing : TRUE
             kept == RemoveAt(q, gap)
  <2>1. gap \in 1..Len(q) /\ q[gap].path = job.path
    BY <1>0, <1>2
  <2>2. r = Append(kept, job)
    BY <1>2 DEF Enqueued
  <2> HIDE DEF gap
  <2>3. /\ kept \in Seq(Job) /\ Len(kept) = Len(q) - 1
        /\ \A i \in 1..Len(q) - 1 : kept[i] = IF i < gap THEN q[i] ELSE q[i + 1]
    BY <2>1, RemoveAtFacts
  <2> HIDE DEF kept, r
  <2>4. /\ r \in Seq(Job) /\ Len(r) = Len(q) /\ r[Len(q)] = job
        /\ \A i \in 1..Len(q) - 1 : r[i] = IF i < gap THEN q[i] ELSE q[i + 1]
    <3>1. /\ r \in Seq(Job) /\ Len(r) = Len(kept) + 1 /\ r[Len(kept) + 1] = job
          /\ \A i \in 1..Len(kept) : r[i] = kept[i]
      BY <2>2, <2>3, AppendProperties
    <3> QED
      BY <1>0, <2>3, <3>1
  <2>5. ASSUME NEW i \in 1..Len(r) - 1, NEW k, k = IF i < gap THEN i ELSE i + 1
        PROVE  k \in DOMAIN q /\ r[i] = q[k] /\ q[k].path # job.path
    <3>1. k \in 1..Len(q) /\ r[i] = q[k] /\ k # gap
      BY <1>0, <2>1, <2>4, <2>5
    <3> QED
      BY <1>0, <2>1, <3>1 DEF OnePerPath
  <2>6. GapAt(q, r, job, gap) /\ gap \in Nat
    BY <1>0, <2>1, <2>5 DEF GapAt
  <2> QED
    BY <1>0, <2>1, <2>4, <2>6 DEF r, EnqueuedAs
<1> QED
  BY <1>1, <1>2

(* So there is one job per path again.                                     *)
LEMMA EnqueuedOnePerPath ==
    ASSUME NEW q \in Seq(Job), OnePerPath(q), NEW job \in Job, NEW r, EnqueuedAs(q, r, job)
    PROVE  OnePerPath(r)
<1>1. PICK gap \in Nat : GapAt(q, r, job, gap)
  BY DEF EnqueuedAs
<1>2. r \in Seq(Job) /\ Len(r) \in Nat /\ DOMAIN r = 1..Len(r) /\ r[Len(r)] = job
  BY DEF EnqueuedAs
<1>3. \A i, k \in 1..Len(r) - 1 : r[i].path = r[k].path => i = k
  <2> SUFFICES ASSUME NEW i \in 1..Len(r) - 1, NEW k \in 1..Len(r) - 1, r[i].path = r[k].path
               PROVE  i = k
    OBVIOUS
  <2> DEFINE at(n) == IF n < gap THEN n ELSE n + 1
  <2>1. /\ at(i) \in DOMAIN q /\ r[i] = q[at(i)]
        /\ at(k) \in DOMAIN q /\ r[k] = q[at(k)]
    BY <1>1 DEF GapAt
  <2>2. at(i) = at(k)
    BY <2>1 DEF OnePerPath
  <2> QED
    BY <1>2, <2>2
<1>4. \A i \in 1..Len(r) - 1 : r[i].path # r[Len(r)].path
  BY <1>1, <1>2 DEF GapAt
<1>5. \A i \in 1..Len(r) : i \in 1..Len(r) - 1 \/ i = Len(r)
  BY <1>2, Places
<1> QED
  BY <1>2, <1>3, <1>4, <1>5 DEF OnePerPath

(* A queue with one job per path has at most two.                          *)
LEMMA AtMostTwo ==
    ASSUME NEW q \in Seq(Job), OnePerPath(q)
    PROVE  Len(q) <= 2
<1> SUFFICES ASSUME Len(q) > 2 PROVE FALSE
  OBVIOUS
<1>1. 1 \in DOMAIN q /\ 2 \in DOMAIN q /\ 3 \in DOMAIN q
  OBVIOUS
<1>2. \A i \in DOMAIN q : q[i] \in Job
  OBVIOUS
<1>3. \A i \in DOMAIN q : q[i].path \in {"abs", "rel"}
  BY <1>2 DEF Job, Paths
<1> QED
  BY <1>1, <1>3 DEF OnePerPath

(* The job taken next is one of the queue, and more important than those   *)
(* that were there before it.                                              *)
LEMMA NextJobFacts ==
    ASSUME NEW q \in Seq(Job), OnePerPath(q), q # <<>>
    PROVE  /\ NextJob(q) \in DOMAIN q
           /\ \A k \in DOMAIN q : \/ NextJob(q) <= k
                                  \/ q[k].importance < q[NextJob(q)].importance
<1> DEFINE P(i) == \A k \in DOMAIN q : \/ q[i].importance > q[k].importance
                                       \/ q[i].importance = q[k].importance /\ i <= k
<1>1. Len(q) = 1 \/ Len(q) = 2
  <2>1. Len(q) <= 2 /\ Len(q) \in Nat /\ Len(q) # 0
    BY AtMostTwo, EmptySeq
  <2> QED
    BY <2>1, Places
<1>2. \A i \in DOMAIN q : q[i].importance \in Int
  <2>1. \A i \in DOMAIN q : q[i] \in Job
    OBVIOUS
  <2> QED
    BY <2>1, FreshnessAssumption DEF Job
<1>3. \E i \in DOMAIN q : P(i)
  <2>1. CASE Len(q) = 1
    BY <2>1
  <2>2. CASE Len(q) = 2
    <3>1. DOMAIN q = {1, 2}
      BY <2>2
    <3>2. P(1) \/ P(2)
      BY <1>2, <3>1
    <3> QED
      BY <3>1, <3>2
  <2> QED
    BY <1>1, <2>1, <2>2
<1>4. NextJob(q) = CHOOSE i \in DOMAIN q : P(i)
  BY DEF NextJob
<1>5. NextJob(q) \in DOMAIN q /\ P(NextJob(q))
  BY <1>3, <1>4
<1> QED
  BY <1>2, <1>5

-----------------------------------------------------------------------------
(* What steps do to the counters and to the pipeline. *)

LEMMA BoundFacts == \A what \in Kinds : Bound[what] \in Nat
BY FreshnessAssumption DEF Kinds, Bound

LEMMA UseFacts ==
    ASSUME UsedInv, NEW what \in Kinds, Use(what)
    PROVE  /\ UsedInv'
           /\ used'[what] > 0 /\ \A k \in Kinds \ {what} : used'[k] = used[k]
<1>1. used[what] \in 0..Bound[what] /\ used[what] \in Nat /\ Bound[what] \in Nat
  BY BoundFacts DEF UsedInv
<1>2. used' = [used EXCEPT ![what] = @ + 1] /\ used[what] < Bound[what]
  BY DEF Use
<1>3. used'[what] = used[what] + 1 /\ \A k \in Kinds \ {what} : used'[k] = used[k]
  BY <1>2 DEF UsedInv
<1>4. used' \in [Kinds -> Nat]
  BY <1>1, <1>2 DEF UsedInv
<1>5. used[what] + 1 \in 0..Bound[what] /\ used[what] + 1 > 0
  BY <1>1, <1>2
<1> QED
  BY <1>3, <1>4, <1>5 DEF UsedInv

\* The content now on disk is sent: queued, or refused with an error.
Sends(job) ==
    \/ /\ EnqueuedAs(pending, pending', job)
       /\ UNCHANGED inbox /\ used'["errors"] = used["errors"]
    \/ /\ UNCHANGED pending
       /\ inbox' = Append(inbox, [type |-> "error", version |-> disk])
       /\ used'["errors"] > 0

OnDisk(path, imp) == [path |-> path, version |-> disk, importance |-> imp]

LEMMA SubmitSends ==
    ASSUME PipeInv, NEW path \in Paths, NEW imp \in Importances, Submit(path, imp)
    PROVE  Sends(OnDisk(path, imp)) /\ UsedInv' /\ (used'["errors"] = 0 => used["errors"] = 0)
<1>1. "errors" \in Kinds /\ UsedInv /\ pending \in Seq(Job) /\ OnePerPath(pending)
  BY DEF Kinds, PipeInv, ChannelInv
<1>2. OnDisk(path, imp) \in Job
  BY DEF OnDisk, Job, PipeInv, RowInv
<1>3. CASE /\ pending' = Enqueued(pending, OnDisk(path, imp))
           /\ UNCHANGED <<inbox, used>>
  BY <1>1, <1>2, <1>3, EnqueuedFacts DEF Sends, UsedInv
<1>4. CASE /\ Use("errors") /\ UNCHANGED pending
           /\ inbox' = Append(inbox, [type |-> "error", version |-> disk])
  BY <1>1, <1>4, UseFacts DEF Sends, UsedInv
<1> QED
  BY <1>3, <1>4 DEF Submit, OnDisk

(* Types of the row and of the counters, action by action.                 *)
LEMMA RowStep == PipeInv /\ [Next]_vars => (RowInv /\ UsedInv)'
<1> SUFFICES ASSUME PipeInv, [Next]_vars PROVE RowInv' /\ UsedInv'
  OBVIOUS
<1>k. Kinds = {"scans", "errors", "drops", "restarts"}
  BY DEF Kinds
<1>t. RowInv /\ UsedInv /\ inbox \in Seq(Answer) /\ 0..MaxVersion = Versions /\ MaxVersion \in Nat
  BY FreshnessAssumption DEF PipeInv, ChannelInv, Versions
<1>1. CASE StartJob
  <2>1. crossed' \in BOOLEAN
    BY <1>1 DEF StartJob, Crossing
  <2> QED
    BY <1>1, <1>t, <2>1 DEF StartJob, row, server, RowInv, UsedInv
<1>2. CASE FinishJob
  <2>1. UsedInv'
    BY <1>2, <1>k, <1>t, UseFacts DEF FinishJob, UsedInv
  <2> QED
    BY <1>2, <1>t, <2>1 DEF FinishJob, row, server, history, RowInv
<1>3. ASSUME NEW path \in Paths, NEW imp \in Importances,
             Submit(path, imp) \/ UNCHANGED <<pending, inbox, used>>
      PROVE  UsedInv'
  BY <1>3, <1>t, SubmitSends DEF UsedInv
<1>4. CASE Connect
  <2>1. UsedInv'
    BY <1>3, <1>4, <1>t DEF Connect, Resubmit, Paths, RowInv
  <2> QED
    BY <1>4, <1>t, <2>1 DEF Connect, row, server, history, RowInv
<1>5. CASE Disconnect
  <2>1. UsedInv'
    BY <1>5, <1>k, <1>t, UseFacts DEF Disconnect
  <2> QED
    BY <1>5, <1>t, <2>1 DEF Disconnect, row, server, history, RowInv
<1>6. CASE Deliver
  <2>1. inbox[1] \in Answer
    BY <1>6, <1>t DEF Deliver
  <2>2. inbox[1].version \in Versions
    BY <2>1 DEF Answer
  <2>3. late' \in BOOLEAN
    <3>1. CASE inbox[1].type = "result"
      <4>1. late' = (inbox[1].version < mtime)
        BY <1>6, <3>1 DEF Deliver
      <4> QED
        BY <4>1
    <3>2. CASE inbox[1].type # "result"
      BY <1>6, <1>t, <3>2 DEF Deliver, RowInv
    <3> QED
      BY <3>1, <3>2
  <2> QED
    BY <1>6, <1>t, <2>2, <2>3 DEF Deliver, server, RowInv, UsedInv
<1>7. CASE Edit
  <2>1. disk + 1 \in Versions
    BY <1>7, <1>t DEF Edit, RowInv, Versions
  <2> QED
    BY <1>7, <1>t, <2>1 DEF Edit, row, history, RowInv, UsedInv
<1>8. CASE BeginUpdate \/ SetSummary \/ UseCache \/ Rescan \/ Ready
  BY <1>8, <1>t DEF BeginUpdate, SetSummary, UseCache, Rescan, Ready, row, broker, server,
                    history, RowInv, UsedInv
<1>9. CASE EndUpdate
  <2>1. UsedInv'
    BY <1>3, <1>9 DEF EndUpdate, SubmitIfLinked, Paths
  <2> QED
    BY <1>9, <1>t, <2>1 DEF EndUpdate, UpsertedSummary, MarkedStale, row, server, history, RowInv
<1>10. CASE CheckFreshness
  <2>1. UsedInv'
    BY <1>3, <1>10, <1>t DEF CheckFreshness, SubmitIfLinked, Paths, RowInv
  <2> QED
    BY <1>10, <1>t, <2>1 DEF CheckFreshness, MarkedStale, server, history, RowInv
<1>11. CASE ScanAll
  <2>1. "scans" \in Kinds /\ "errors" \in Kinds /\ Bound["scans"] = MaxScans
    BY <1>k DEF Bound
  <2>2. Use("scans") \/ Use("errors")
    BY <1>11, <2>1 DEF ScanAll, Use
  <2>3. UsedInv'
    BY <1>t, <2>1, <2>2, UseFacts
  <2> QED
    BY <1>11, <1>t, <2>3 DEF ScanAll, server, history, RowInv
<1>12. CASE Stop
  <2>1. UsedInv'
    BY <1>12, <1>k, <1>t, UseFacts DEF Stop
  <2> QED
    BY <1>12, <1>t, <2>1 DEF Stop, row, history, RowInv
<1>13. CASE Sweep
  BY <1>13, <1>t DEF Sweep, broker, history, RowInv, UsedInv
<1>14. CASE UNCHANGED vars
  BY <1>14, <1>t DEF vars, row, server, history, RowInv, UsedInv
<1> QED
  BY <1>1, <1>2, <1>4, <1>5, <1>6, <1>7, <1>8, <1>9, <1>10, <1>11, <1>12, <1>13, <1>14 DEF Next

\* What a step can do to the connection and its jobs.
Untouched == /\ UNCHANGED broker /\ used'["errors"] = used["errors"]
             /\ stale' = stale \/ link = FALSE
             /\ disk' >= disk /\ UNCHANGED written
Linked == /\ ~stale /\ link' /\ ~link
          /\ UNCHANGED <<disk, written, stale, pending, running, inbox, used>>
Sent(path, imp) == /\ link' /\ imp = importance' /\ Sends(OnDisk(path, imp))
                   /\ UNCHANGED <<disk, written, running>>
Lost == LoseConnection /\ used'["errors"] = used["errors"] /\ UNCHANGED <<disk, written>>
Moves ==
    \/ StartJob \/ FinishJob \/ Deliver \/ Untouched \/ Linked \/ Lost
    \/ \E path \in Paths, imp \in Importances : Sent(path, imp)

(* Every step does one of these; a submission's content is what is on disk. *)
LEMMA StepMoves ==
    ASSUME PipeInv, [Next]_vars
    PROVE  Moves
<1>k. Kinds = {"scans", "errors", "drops", "restarts"} /\ UsedInv /\ "abs" \in Paths /\ "rel" \in Paths
  BY DEF Kinds, PipeInv, Paths
<1>r. importance \in Importances /\ link \in BOOLEAN /\ disk \in Int
  BY FreshnessAssumption DEF PipeInv, RowInv, ChannelInv, Versions
<1>1. CASE StartJob \/ FinishJob \/ Deliver
  BY <1>1 DEF Moves
<1>2. CASE Connect
  <2>1. CASE stale
    BY <1>2, <1>k, <1>r, <2>1, SubmitSends DEF Connect, Resubmit, row, history, Sent, Moves
  <2>2. CASE ~stale
    BY <1>2, <2>2 DEF Connect, Resubmit, row, history, Linked, Moves
  <2> QED
    BY <2>1, <2>2
<1>3. CASE Disconnect \/ Stop
  <2>1. Use("drops") \/ Use("restarts")
    BY <1>3 DEF Disconnect, Stop
  <2>2. used'["errors"] = used["errors"]
    BY <1>k, <2>1, UseFacts
  <2> QED
    BY <1>3, <2>2 DEF Disconnect, Stop, history, Lost, Moves
<1>4. CASE Edit \/ BeginUpdate \/ SetSummary \/ UseCache \/ Rescan \/ Ready \/ Sweep
  BY <1>4, <1>r DEF Edit, BeginUpdate, SetSummary, UseCache, Rescan, Ready, Sweep, row, broker, history,
                    Untouched, Moves
<1>5. ASSUME NEW imp \in Importances, imp = importance', SubmitIfLinked("abs", imp),
             UNCHANGED <<disk, written, link, running>>
      PROVE  Moves
  <2>1. CASE link
    BY <1>5, <1>k, <2>1, SubmitSends DEF SubmitIfLinked, Sent, Moves
  <2>2. CASE ~link
    BY <1>5, <1>r, <2>2 DEF SubmitIfLinked, Untouched, broker, Moves
  <2> QED
    BY <2>1, <2>2
<1>6. CASE EndUpdate \/ CheckFreshness
  BY <1>5, <1>6, <1>r DEF EndUpdate, CheckFreshness, history
<1>7. CASE ScanAll
  <2> DEFINE job == OnDisk("rel", importance)
  <2>1. CASE pending' = Enqueued(pending, job) /\ used' = [used EXCEPT !["scans"] = @ + 1]
             /\ UNCHANGED inbox
    <3>1. job \in Job /\ pending \in Seq(Job) /\ OnePerPath(pending)
      BY <1>k, <1>r DEF OnDisk, Job, PipeInv, RowInv, ChannelInv
    <3>2. EnqueuedAs(pending, pending', job)
      BY <2>1, <3>1, EnqueuedFacts
    <3>3. used'["errors"] = used["errors"]
      BY <1>k, <2>1 DEF UsedInv
    <3> QED
      BY <1>7, <1>k, <1>r, <2>1, <3>2, <3>3 DEF ScanAll, history, Sends, Sent, Moves
  <2>2. CASE Use("errors") /\ inbox' = Append(inbox, [type |-> "error", version |-> disk])
             /\ UNCHANGED pending
    <3>1. used'["errors"] > 0
      BY <1>k, <2>2, UseFacts
    <3> QED
      BY <1>7, <1>k, <1>r, <2>2, <3>1 DEF ScanAll, history, Sends, Sent, Moves
  <2> QED
    BY <1>7, <2>1, <2>2 DEF ScanAll, OnDisk
<1>8. CASE UNCHANGED vars
  BY <1>8, <1>r DEF vars, row, history, Untouched, Moves
<1> QED
  BY <1>1, <1>2, <1>3, <1>4, <1>6, <1>7, <1>8 DEF Next

(* An answer's and a job's type.                                           *)
LEMMA ChannelTypes ==
    ASSUME PipeInv
    PROVE  /\ \A i \in DOMAIN pending : pending[i] \in Job
           /\ \A i \in DOMAIN running : running[i] \in Job
           /\ \A i \in DOMAIN inbox : inbox[i] \in Answer
           /\ [type |-> "error", version |-> disk] \in Answer
           /\ used["errors"] \in Nat
<1>1. "errors" \in Kinds
  BY DEF Kinds
<1>2. /\ pending \in Seq(Job) /\ running \in Seq(Job) /\ inbox \in Seq(Answer)
      /\ used["errors"] \in Nat /\ disk \in Versions
  BY <1>1 DEF PipeInv, RowInv, UsedInv, ChannelInv
<1>3. [type |-> "error", version |-> disk] \in Answer
  BY <1>2 DEF Answer
<1> QED
  BY <1>2, <1>3

(* The channel keeps its shape.                                            *)
LEMMA ChannelStep == PipeInv /\ [Next]_vars => ChannelInv'
<1> SUFFICES ASSUME PipeInv, [Next]_vars PROVE ChannelInv'
  OBVIOUS
<1>c. ChannelInv /\ InPipeline = (pending # <<>> \/ running # <<>> \/ inbox # <<>>)
  BY DEF PipeInv, InPipeline
<1>e. used["errors"] \in Nat /\ used'["errors"] \in Nat
  <2>1. "errors" \in Kinds /\ UsedInv'
    BY RowStep DEF Kinds
  <2> QED
    BY <2>1, ChannelTypes DEF UsedInv
<1>1. CASE StartJob
  <2>1. NextJob(pending) \in DOMAIN pending
    BY <1>1, <1>c, NextJobFacts DEF StartJob, ChannelInv
  <2> DEFINE n == NextJob(pending)
  <2> HIDE DEF n
  <2>2. pending[n] \in Job /\ running' = <<pending[n]>> /\ pending' = RemoveAt(pending, n)
        /\ n \in 1..Len(pending)
    BY <1>1, <1>c, <2>1, ChannelTypes DEF StartJob, ChannelInv, n
  <2>3. /\ pending' \in Seq(Job) /\ Len(pending') = Len(pending) - 1
        /\ \A j \in 1..Len(pending) - 1 :
              pending'[j] = IF j < n THEN pending[j] ELSE pending[j + 1]
    BY <1>c, <2>2, RemoveAtFacts DEF ChannelInv
  <2>4. OnePerPath(pending')
    <3> SUFFICES ASSUME NEW i \in DOMAIN pending', NEW k \in DOMAIN pending',
                        pending'[i].path = pending'[k].path
                 PROVE  i = k
      BY DEF OnePerPath
    <3> DEFINE at(j) == IF j < n THEN j ELSE j + 1
    <3>1. i \in Int /\ k \in Int
      BY <2>3
    <3>2. ASSUME NEW j \in DOMAIN pending'
          PROVE  at(j) \in DOMAIN pending /\ pending'[j] = pending[at(j)]
      <4>1. Len(pending) \in Nat /\ DOMAIN pending = 1..Len(pending) /\ j \in 1..Len(pending) - 1
        BY <1>c, <2>3 DEF ChannelInv
      <4>2. at(j) \in 1..Len(pending)
        BY <2>2, <4>1
      <4> QED
        BY <2>3, <4>1, <4>2
    <3>3. at(i) = at(k)
      BY <1>c, <3>2 DEF ChannelInv, OnePerPath
    <3> QED
      BY <2>2, <3>1, <3>3
  <2>5. running' \in Seq(Job) /\ Len(running') = 1
    BY <2>2
  <2> QED
    BY <1>1, <1>c, <2>3, <2>4, <2>5 DEF StartJob, ChannelInv, InPipeline
<1>2. CASE FinishJob
  <2>1. running[1] \in Job /\ link
    <3>1. running \in Seq(Job) /\ running # <<>> /\ link
      BY <1>2, <1>c DEF FinishJob, ChannelInv
    <3> QED
      BY <3>1, EmptySeq
  <2>2. PICK type \in {"result", "error"} :
           /\ inbox' = Append(inbox, [type |-> type, version |-> running[1].version])
           /\ type = "error" => Use("errors")
           /\ type # "error" => UNCHANGED used
    BY <1>2 DEF FinishJob
  <2>3. [type |-> type, version |-> running[1].version] \in Answer
    BY <2>1 DEF Job, Answer
  <2>4. used'["errors"] = 0 => type = "result" /\ used["errors"] = 0
    <3>1. CASE type = "error"
      BY <2>2, <3>1, UseFacts DEF Kinds, PipeInv
    <3> QED
      BY <2>2, <3>1
  <2> DEFINE answer == [type |-> type, version |-> running[1].version]
  <2>5. answer.type = type
    OBVIOUS
  <2> HIDE DEF answer
  <2>6. /\ inbox' \in Seq(Answer) /\ Len(inbox') = Len(inbox) + 1
        /\ inbox'[Len(inbox) + 1] = answer /\ \A i \in 1..Len(inbox) : inbox'[i] = inbox[i]
    BY <1>c, <2>2, <2>3, AppendProperties DEF ChannelInv, answer
  <2>7. used'["errors"] = 0 => \A i \in DOMAIN inbox' : inbox'[i].type = "result"
    BY <1>c, <2>4, <2>5, <2>6 DEF ChannelInv
  <2> QED
    BY <1>2, <1>c, <2>1, <2>6, <2>7 DEF FinishJob, ChannelInv
<1>3. CASE Deliver
  <2>1. /\ inbox' \in Seq(Answer) /\ Len(inbox') = Len(inbox) - 1 /\ Len(inbox) # 0
        /\ \A i \in 1..Len(inbox) - 1 : inbox'[i] = inbox[i + 1]
    BY <1>3, <1>c DEF Deliver, ChannelInv
  <2> QED
    BY <1>3, <1>c, <2>1 DEF Deliver, ChannelInv, InPipeline
<1>4. CASE Untouched
  BY <1>4, <1>c DEF Untouched, broker, ChannelInv, InPipeline
<1>5. CASE Linked
  BY <1>5, <1>c DEF Linked, ChannelInv, InPipeline
<1>6. CASE Lost
  <2>1. link' = FALSE /\ pending' = <<>> /\ running' = <<>> /\ inbox' = <<>>
    BY <1>6 DEF Lost, LoseConnection
  <2>2. DOMAIN inbox' = {} /\ OnePerPath(pending')
    BY <2>1 DEF OnePerPath
  <2>3. ~InPipeline'
    BY <2>1 DEF InPipeline
  <2>4. /\ link' \in BOOLEAN /\ pending' \in Seq(Job) /\ running' \in Seq(Job)
        /\ inbox' \in Seq(Answer) /\ Len(running') <= 1
    <3>1. <<>> \in Seq(Job) /\ <<>> \in Seq(Answer) /\ Len(<<>>) <= 1
      OBVIOUS
    <3> QED
      BY <2>1, <3>1
  <2> QED
    BY <2>1, <2>2, <2>3, <2>4 DEF ChannelInv
<1>7. ASSUME NEW path \in Paths, NEW imp \in Importances, Sent(path, imp)
      PROVE  ChannelInv'
  <2>1. OnDisk(path, imp) \in Job
    BY DEF OnDisk, Job, PipeInv, RowInv
  <2>2. CASE EnqueuedAs(pending, pending', OnDisk(path, imp)) /\ UNCHANGED inbox
             /\ used'["errors"] = used["errors"]
    <3>1. pending' \in Seq(Job) /\ OnePerPath(pending')
      BY <1>c, <2>1, <2>2, EnqueuedOnePerPath DEF ChannelInv, EnqueuedAs
    <3> QED
      BY <1>7, <1>c, <2>2, <3>1 DEF Sent, ChannelInv
  <2>3. CASE UNCHANGED pending /\ used'["errors"] > 0
             /\ inbox' = Append(inbox, [type |-> "error", version |-> disk])
    <3>1. inbox' \in Seq(Answer)
      BY <1>c, <2>3, ChannelTypes, AppendProperties DEF ChannelInv
    <3> QED
      BY <1>7, <1>c, <1>e, <2>3, <3>1 DEF Sent, ChannelInv
  <2> QED
    BY <1>7, <2>2, <2>3 DEF Sent, Sends
<1> QED
  BY <1>1, <1>2, <1>3, <1>4, <1>5, <1>6, <1>7, StepMoves DEF Moves

(* No stale file of a connected client is left without a job.              *)
LEMMA ServedStep == ServedInv /\ [Next]_vars => StaleIsServed'
<1> SUFFICES ASSUME ServedInv, [Next]_vars PROVE StaleIsServed'
  OBVIOUS
<1>c. PipeInv /\ ChannelInv /\ StaleIsServed
  BY DEF ServedInv, PipeInv
<1>1. CASE StartJob
  BY <1>1 DEF StartJob, StaleIsServed, InPipeline
<1>2. CASE FinishJob
  <2>1. inbox' # <<>>
    BY <1>2, <1>c DEF FinishJob, ChannelInv
  <2> QED
    BY <2>1 DEF StaleIsServed, InPipeline
<1>3. CASE Deliver
  <2>1. 1 \in DOMAIN inbox
    BY <1>3, <1>c DEF Deliver, ChannelInv
  <2>2. used["errors"] = 0 => inbox[1].type = "result"
    BY <1>c, <2>1 DEF ChannelInv
  <2> QED
    BY <1>3, <2>2 DEF Deliver, StaleIsServed
<1>4. CASE Untouched
  BY <1>4, <1>c DEF Untouched, broker, StaleIsServed, InPipeline
<1>5. CASE Linked \/ Lost
  BY <1>5 DEF Linked, Lost, LoseConnection, StaleIsServed
<1>6. ASSUME NEW path \in Paths, NEW imp \in Importances, Sent(path, imp)
      PROVE  StaleIsServed'
  <2>1. used'["errors"] = 0 => pending' \in Seq(Job) /\ Len(pending') >= 1
    BY <1>6 DEF Sent, Sends, EnqueuedAs
  <2>2. used'["errors"] = 0 => pending' # <<>>
    BY <2>1
  <2> QED
    BY <2>2 DEF StaleIsServed, InPipeline
<1> QED
  BY <1>1, <1>2, <1>3, <1>4, <1>5, <1>6, <1>c, StepMoves DEF Moves

LEMMA FreshnessInit == Init => PipeInv /\ StaleIsServed
<1> SUFFICES ASSUME Init PROVE PipeInv /\ StaleIsServed
  OBVIOUS
<1>1. 0 \in Versions /\ DOMAIN Bound = Kinds /\ \A what \in Kinds : Bound[what] \in Nat
  BY FreshnessAssumption, BoundFacts DEF Versions, Bound, Kinds
<1>2. RowInv
  BY <1>1 DEF Init, RowInv
<1>3. used = [what \in Kinds |-> 0]
  BY <1>1 DEF Init
<1>4. UsedInv
  BY <1>1, <1>3 DEF UsedInv
<1>5. <<>> \in Seq(Job) /\ <<>> \in Seq(Answer) /\ Len(<<>>) <= 1 /\ DOMAIN <<>> = {}
  OBVIOUS
<1>6. /\ link = FALSE /\ pending = <<>> /\ running = <<>> /\ inbox = <<>>
  BY DEF Init
<1>7. ChannelInv
  BY <1>5, <1>6 DEF ChannelInv, OnePerPath, InPipeline
<1> QED
  BY <1>2, <1>4, <1>6, <1>7 DEF PipeInv, StaleIsServed

LEMMA PipeImpliesTypes == PipeInv => TypeOK
<1> SUFFICES ASSUME PipeInv PROVE TypeOK
  OBVIOUS
<1>1. Cardinality(Paths) = 2
  <2>1. /\ IsFiniteSet({"abs"}) /\ Cardinality({"abs"}) = 1 /\ "rel" \notin {"abs"}
        /\ Paths = {"abs"} \cup {"rel"}
    BY FS_Singleton DEF Paths
  <2> QED
    BY <2>1, FS_AddElement
<1>2. Len(pending) <= 2
  BY AtMostTwo DEF PipeInv, ChannelInv
<1>3. DOMAIN Bound = Kinds
  BY DEF Bound, Kinds
<1> QED
  BY <1>1, <1>2, <1>3 DEF PipeInv, RowInv, UsedInv, ChannelInv, TypeOK

(* Whatever connections, restarts and submissions are lost: a stale file   *)
(* of a connected client is being regenerated unless the broker answered   *)
(* with an error, for every number of edits, scans, drops and restarts.    *)
THEOREM NothingStaysForgotten == Spec => []NothingForgotten
<1>1. Init => ServedInv
  BY FreshnessInit DEF ServedInv
<1>2. ServedInv /\ [Next]_vars => ServedInv'
  BY RowStep, ChannelStep, ServedStep DEF ServedInv, PipeInv
<1>3. ServedInv => NothingForgotten
  BY PipeImpliesTypes DEF ServedInv, NothingForgotten
<1> QED
  BY <1>1, <1>2, <1>3, PTL DEF Spec

-----------------------------------------------------------------------------
(* The order of the pipeline until newer content crosses older. *)

LEMMA VersionsAreNumbers ==
    ASSUME PipeInv
    PROVE  /\ \A i \in DOMAIN pending : pending[i].version \in Int
           /\ \A i \in DOMAIN running : running[i].version \in Int
           /\ \A i \in DOMAIN inbox : inbox[i].version \in Int
           /\ written \in Int /\ disk \in Int /\ mtime \in Int
           /\ \A v \in Versions : v \in Int
<1>1. Versions \subseteq Int
  BY FreshnessAssumption DEF Versions
<1>2. \A job \in Job : job.version \in Versions
  BY DEF Job
<1>3. \A answer \in Answer : answer.version \in Versions
  BY DEF Answer
<1> QED
  BY <1>1, <1>2, <1>3, ChannelTypes DEF PipeInv, RowInv

(* History: what has crossed stays crossed.                                *)
LEMMA CrossedStays == [Next]_vars /\ ~crossed' => ~crossed
<1> SUFFICES ASSUME [Next]_vars PROVE crossed => crossed'
  OBVIOUS
<1>1. StartJob => (crossed => crossed')
  BY DEF StartJob
<1>2. Next => StartJob \/ UNCHANGED crossed
  BY DEF Next, FinishJob, Connect, Disconnect, Deliver, Edit, BeginUpdate, EndUpdate, CheckFreshness,
         SetSummary, ScanAll, Stop, UseCache, Rescan, Sweep, Ready, history
<1>3. UNCHANGED vars => UNCHANGED crossed
  BY DEF vars, history
<1> QED
  BY <1>1, <1>2, <1>3

(* The job started is of no newer content than those left behind.          *)
LEMMA StartedIsOldest ==
    ASSUME PipeInv, OrderInv, StartJob, ~crossed'
    PROVE  LET n == NextJob(pending) IN
           /\ n \in DOMAIN pending
           /\ \A k \in DOMAIN pending : pending[n].version <= pending[k].version
<1>1. pending \in Seq(Job) /\ OnePerPath(pending) /\ pending # <<>>
  BY DEF PipeInv, ChannelInv, StartJob
<1> DEFINE n == NextJob(pending)
<1>2. /\ n \in DOMAIN pending
      /\ \A k \in DOMAIN pending : n <= k \/ pending[k].importance < pending[n].importance
  BY <1>1, NextJobFacts
<1>3. ~Crossing
  BY DEF StartJob
<1> HIDE DEF n
<1>4. ASSUME NEW k \in DOMAIN pending
      PROVE  pending[n].version <= pending[k].version
  <2>0. n \in Int /\ k \in Int /\ pending[n].version \in Int /\ pending[k].version \in Int
    BY <1>1, <1>2, VersionsAreNumbers
  <2>1. CASE n < k
    BY <1>2, <2>1 DEF OrderInv
  <2>2. CASE n = k
    BY <2>0, <2>2
  <2>3. CASE k < n
    <3>1. pending[k].importance < pending[n].importance
      BY <1>2, <2>0, <2>3
    <3>2. ~(pending[k].version < pending[n].version)
      BY <1>2, <1>3, <3>1 DEF Crossing
    <3> QED
      BY <2>0, <3>2
  <2> QED
    BY <2>0, <2>1, <2>2, <2>3
<1> QED
  BY <1>2, <1>4 DEF n

\* The queue without its job n, in its order.
Without(n) ==
    /\ DOMAIN pending = 1..Len(pending) /\ Len(pending) \in Nat /\ n \in DOMAIN pending
    /\ DOMAIN pending' = 1..Len(pending) - 1 /\ Len(pending') = Len(pending) - 1
    /\ DOMAIN running' = {1} /\ Len(running') = 1 /\ running'[1] = pending[n]
    /\ \A j \in DOMAIN pending' :
          LET k == IF j < n THEN j ELSE j + 1 IN
          k \in DOMAIN pending /\ pending'[j] = pending[k]

LEMMA StartedFacts == PipeInv /\ StartJob => Without(NextJob(pending))
<1> SUFFICES ASSUME PipeInv, StartJob PROVE Without(NextJob(pending))
  OBVIOUS
<1> DEFINE n == NextJob(pending)
<1>1. pending \in Seq(Job) /\ OnePerPath(pending) /\ pending # <<>>
  BY DEF PipeInv, ChannelInv, StartJob
<1>2. n \in DOMAIN pending /\ DOMAIN pending = 1..Len(pending) /\ Len(pending) \in Nat
  BY <1>1, NextJobFacts
<1>3. running' = <<pending[n]>> /\ pending' = RemoveAt(pending, n)
  BY DEF StartJob
<1> HIDE DEF n
<1>4. /\ pending' \in Seq(Job) /\ Len(pending') = Len(pending) - 1
      /\ \A j \in 1..Len(pending) - 1 :
            pending'[j] = IF j < n THEN pending[j] ELSE pending[j + 1]
  BY <1>1, <1>2, <1>3, RemoveAtFacts
<1>5. DOMAIN pending' = 1..Len(pending) - 1
  BY <1>4
<1>6. \A j \in 1..Len(pending) - 1 : (IF j < n THEN j ELSE j + 1) \in 1..Len(pending)
  BY <1>2
<1>7. DOMAIN running' = {1} /\ Len(running') = 1 /\ running'[1] = pending[n]
  BY <1>3
<1> QED
  BY <1>2, <1>4, <1>5, <1>6, <1>7 DEF Without, n

(* Starting a job.                                                         *)
LEMMA OrderStart == PipeInv /\ OrderInv /\ StartJob /\ ~crossed' => OrderInv'
<1> SUFFICES ASSUME PipeInv, OrderInv, StartJob, ~crossed' PROVE OrderInv'
  OBVIOUS
<1> DEFINE n == NextJob(pending)
<1>1. n \in DOMAIN pending /\ \A k \in DOMAIN pending : pending[n].version <= pending[k].version
  BY StartedIsOldest
<1>2. Without(n)
  BY StartedFacts
<1> HIDE DEF n
<1> DEFINE at(j) == IF j < n THEN j ELSE j + 1
<1>3. DOMAIN running' = {1} /\ running'[1] = pending[n]
  BY <1>2 DEF Without
<1>4. \A j \in DOMAIN pending' : at(j) \in DOMAIN pending /\ pending'[j] = pending[at(j)]
  BY <1>2 DEF Without
<1>5. UNCHANGED <<inbox, disk, written>> /\ Results' = Results
  BY DEF StartJob, Results
<1>6. \A i, k \in DOMAIN pending' : i < k => at(i) < at(k)
  BY <1>2 DEF Without
<1> HIDE DEF at
<1>7. /\ \A i, k \in DOMAIN pending' : i < k => pending'[i].version <= pending'[k].version
      /\ \A i \in DOMAIN pending' : written <= pending'[i].version
      /\ \A i \in DOMAIN pending' : pending[n].version <= pending'[i].version
  BY <1>1, <1>4, <1>6 DEF OrderInv
<1>8. \A i \in Results : \A k \in DOMAIN pending' : inbox[i].version <= pending'[k].version
  BY <1>4 DEF OrderInv
<1>9. /\ \A i \in Results : inbox[i].version <= pending[n].version
      /\ written <= pending[n].version
  BY <1>1 DEF OrderInv
<1>10. /\ \A i, k \in Results : i < k => inbox[i].version <= inbox[k].version
       /\ \A i \in Results : written <= inbox[i].version
  BY DEF OrderInv
<1> QED
  BY <1>3, <1>5, <1>7, <1>8, <1>9, <1>10 DEF OrderInv

\* One more answer at the end of the inbox.
OneMore(answer) ==
    /\ DOMAIN inbox' = 1..Len(inbox) + 1 /\ DOMAIN inbox = 1..Len(inbox) /\ Len(inbox) \in Nat
    /\ inbox'[Len(inbox) + 1] = answer
    /\ \A i \in 1..Len(inbox) : inbox'[i] = inbox[i]

LEMMA AnswerAppended ==
    ASSUME PipeInv, NEW answer \in Answer, inbox' = Append(inbox, answer)
    PROVE  OneMore(answer)
<1>1. inbox \in Seq(Answer)
  BY DEF PipeInv, ChannelInv
<1>2. /\ inbox' \in Seq(Answer) /\ Len(inbox') = Len(inbox) + 1
      /\ inbox'[Len(inbox) + 1] = answer /\ \A i \in 1..Len(inbox) : inbox'[i] = inbox[i]
  BY <1>1, AppendProperties
<1> QED
  BY <1>1, <1>2 DEF OneMore

(* Finishing it puts its answer at the end.                                *)
LEMMA OrderFinish == PipeInv /\ OrderInv /\ FinishJob => OrderInv'
<1> SUFFICES ASSUME PipeInv, OrderInv, FinishJob PROVE OrderInv'
  OBVIOUS
<1>1. 1 \in DOMAIN running /\ running[1] \in Job
  <2>1. running \in Seq(Job) /\ running # <<>>
    BY DEF PipeInv, ChannelInv, FinishJob
  <2> QED
    BY <2>1, EmptySeq
<1>2. PICK type \in {"result", "error"} :
         inbox' = Append(inbox, [type |-> type, version |-> running[1].version])
  BY DEF FinishJob
<1> DEFINE answer == [type |-> type, version |-> running[1].version]
<1>3. answer \in Answer /\ answer.version = running[1].version
  BY <1>1 DEF Job, Answer
<1> HIDE DEF answer
<1>4. OneMore(answer)
  BY <1>2, <1>3, AnswerAppended DEF answer
<1>5. \A i \in Results' :
         \/ i \in Results /\ inbox'[i] = inbox[i]
         \/ i = Len(inbox) + 1 /\ inbox'[i].version = running[1].version
  BY <1>3, <1>4 DEF OneMore, Results
<1>6. \A i \in Results' : i \in Int
  BY <1>4 DEF OneMore, Results
<1>7. DOMAIN running' = {} /\ UNCHANGED <<pending, disk, written>>
  BY DEF FinishJob, history
<1>8. \A i, k \in Results' : i < k => inbox'[i].version <= inbox'[k].version
  <2>1. \A i \in Results : inbox[i].version <= running[1].version
    BY <1>1 DEF OrderInv
  <2>2. \A i, k \in Results : i < k => inbox[i].version <= inbox[k].version
    BY DEF OrderInv
  <2>3. \A i \in Results : i <= Len(inbox)
    BY <1>4 DEF OneMore, Results
  <2>4. Len(inbox) \in Nat
    BY <1>4 DEF OneMore
  <2> QED
    BY <1>5, <1>6, <2>1, <2>2, <2>3, <2>4
<1>9. \A i \in Results' :
         /\ written <= inbox'[i].version
         /\ \A k \in DOMAIN pending : inbox'[i].version <= pending[k].version
  BY <1>1, <1>5 DEF OrderInv
<1>10. /\ \A i, k \in DOMAIN pending : i < k => pending[i].version <= pending[k].version
       /\ \A i \in DOMAIN pending : written <= pending[i].version
  BY DEF OrderInv
<1> QED
  BY <1>7, <1>8, <1>9, <1>10 DEF OrderInv

\* The first answer leaves the inbox.
FirstGone ==
    /\ DOMAIN inbox = 1..Len(inbox) /\ Len(inbox) \in Nat \ {0}
    /\ DOMAIN inbox' = 1..Len(inbox) - 1
    /\ \A i \in 1..Len(inbox) - 1 : inbox'[i] = inbox[i + 1]

LEMMA AnswerTaken == PipeInv /\ Deliver => FirstGone
<1> SUFFICES ASSUME PipeInv, Deliver PROVE FirstGone
  OBVIOUS
<1>1. inbox \in Seq(Answer) /\ inbox # <<>> /\ inbox' = Tail(inbox)
  BY DEF PipeInv, ChannelInv, Deliver
<1> QED
  BY <1>1 DEF FirstGone

(* Writing the first answer: nothing older is left behind it.              *)
LEMMA OrderDeliver == PipeInv /\ OrderInv /\ Deliver => OrderInv'
<1> SUFFICES ASSUME PipeInv, OrderInv, Deliver PROVE OrderInv'
  OBVIOUS
<1>1. FirstGone
  BY AnswerTaken
<1>2. UNCHANGED <<disk, running, pending>>
  BY DEF Deliver
<1>3. \A i \in Results' : i \in Int /\ 1 < i + 1 /\ i + 1 \in Results /\ inbox'[i] = inbox[i + 1]
  BY <1>1 DEF FirstGone, Results
<1>4. /\ \A i \in Results' : written' <= inbox'[i].version
      /\ \A i \in DOMAIN running : written' <= running[i].version
      /\ \A i \in DOMAIN pending : written' <= pending[i].version
  <2>1. CASE inbox[1].type = "result"
    <3>1. 1 \in Results /\ written' = inbox[1].version
      BY <1>1, <2>1 DEF FirstGone, Results, Deliver
    <3> QED
      BY <1>3, <3>1 DEF OrderInv
  <2>2. CASE inbox[1].type # "result"
    <3>1. written' = written
      BY <2>2 DEF Deliver
    <3> QED
      BY <1>3, <3>1 DEF OrderInv
  <2> QED
    BY <2>1, <2>2
<1>5. \A i, k \in Results' : i < k => inbox'[i].version <= inbox'[k].version
  BY <1>3 DEF OrderInv
<1>6. \A i \in Results' :
         /\ \A k \in DOMAIN running : inbox'[i].version <= running[k].version
         /\ \A k \in DOMAIN pending : inbox'[i].version <= pending[k].version
  BY <1>3 DEF OrderInv
<1>7. /\ \A i, k \in DOMAIN pending : i < k => pending[i].version <= pending[k].version
      /\ \A i \in DOMAIN running : \A k \in DOMAIN pending : running[i].version <= pending[k].version
  BY DEF OrderInv
<1> QED
  BY <1>2, <1>4, <1>5, <1>6, <1>7 DEF OrderInv

(* Sending what is on disk puts the newest content at the end.             *)
LEMMA OrderSent ==
    ASSUME PipeInv, DiskInv, OrderInv, NEW path \in Paths, NEW imp \in Importances,
           Sent(path, imp)
    PROVE  OrderInv'
<1> DEFINE job == OnDisk(path, imp)
<1>j. job \in Job /\ job.version = disk
  BY DEF OnDisk, Job, PipeInv, RowInv
<1> HIDE DEF job
<1>u. UNCHANGED <<disk, written, running>>
  BY DEF Sent
<1>o. /\ \A i, k \in DOMAIN pending : i < k => pending[i].version <= pending[k].version
      /\ \A i \in DOMAIN pending : written <= pending[i].version /\ pending[i].version <= disk
      /\ written <= disk /\ disk \in Int
  BY VersionsAreNumbers DEF OrderInv, DiskInv
<1>1. CASE EnqueuedAs(pending, pending', job) /\ UNCHANGED inbox
  <2>1. PICK gap \in Nat : GapAt(pending, pending', job, gap)
    BY <1>1 DEF EnqueuedAs
  <2>2. /\ Len(pending') \in Nat /\ DOMAIN pending' = 1..Len(pending')
        /\ pending'[Len(pending')] = job
    BY <1>1 DEF EnqueuedAs
  <2> DEFINE at(i) == IF i < gap THEN i ELSE i + 1
  <2>3. \A i \in DOMAIN pending' :
           \/ at(i) \in DOMAIN pending /\ pending'[i] = pending[at(i)] /\ i < Len(pending')
           \/ i = Len(pending') /\ pending'[i] = job
    <3>1. \A i \in 1..Len(pending') - 1 : at(i) \in DOMAIN pending /\ pending'[i] = pending[at(i)]
      BY <2>1 DEF GapAt
    <3>2. \A i \in DOMAIN pending' :
             (i < Len(pending') /\ i \in 1..Len(pending') - 1) \/ i = Len(pending')
      BY <2>2
    <3> QED
      BY <2>2, <3>1, <3>2
  <2>4. \A i, k \in DOMAIN pending' : i < k => at(i) < at(k) /\ i < Len(pending')
    BY <2>2
  <2> HIDE DEF at
  <2>5. \A i \in DOMAIN pending' : written <= pending'[i].version
    BY <1>j, <1>o, <2>3
  <2>6. \A i, k \in DOMAIN pending' : i < k => pending'[i].version <= pending'[k].version
    BY <1>j, <1>o, <2>2, <2>3, <2>4
  <2>7. \A i \in DOMAIN running : \A k \in DOMAIN pending' : running[i].version <= pending'[k].version
    BY <1>j, <2>3 DEF OrderInv, DiskInv
  <2>8. \A i \in Results : \A k \in DOMAIN pending' : inbox[i].version <= pending'[k].version
    BY <1>j, <2>3 DEF OrderInv, DiskInv, Results
  <2>9. Results' = Results
    BY <1>1 DEF Results
  <2>10. /\ \A i, k \in Results : i < k => inbox[i].version <= inbox[k].version
         /\ \A i \in Results : /\ written <= inbox[i].version
                               /\ \A k \in DOMAIN running : inbox[i].version <= running[k].version
         /\ \A i \in DOMAIN running : written <= running[i].version
    BY DEF OrderInv
  <2> QED
    BY <1>1, <1>u, <1>o, <2>5, <2>6, <2>7, <2>8, <2>9, <2>10 DEF OrderInv
<1>2. CASE UNCHANGED pending /\ inbox' = Append(inbox, [type |-> "error", version |-> disk])
  <2> DEFINE answer == [type |-> "error", version |-> disk]
  <2>0. answer \in Answer /\ answer.type = "error"
    BY ChannelTypes
  <2> HIDE DEF answer
  <2>1. OneMore(answer)
    BY <1>2, <2>0, AnswerAppended DEF answer
  <2>2. Results' = Results /\ \A i \in Results : inbox'[i] = inbox[i]
    BY <2>0, <2>1 DEF OneMore, Results
  <2> QED
    BY <1>2, <1>u, <2>2 DEF OrderInv
<1> QED
  BY <1>1, <1>2 DEF Sent, Sends, job

(* The other steps leave the pipeline alone or empty it.                   *)
LEMMA OrderRest == OrderInv /\ (Untouched \/ Linked \/ Lost) => OrderInv'
<1> SUFFICES ASSUME OrderInv, Untouched \/ Linked \/ Lost PROVE OrderInv'
  OBVIOUS
<1>1. CASE Lost
  <2>1. DOMAIN pending' = {} /\ DOMAIN running' = {} /\ DOMAIN inbox' = {}
    BY <1>1 DEF Lost, LoseConnection
  <2> QED
    BY <2>1 DEF OrderInv, Results
<1>2. CASE Untouched \/ Linked
  <2>1. UNCHANGED <<pending, running, inbox, written>> /\ Results' = Results
    BY <1>2 DEF Untouched, Linked, broker, Results
  <2> QED
    BY <2>1 DEF OrderInv
<1> QED
  BY <1>1, <1>2

LEMMA OrderStep == PipeInv /\ DiskInv /\ OrderInv /\ [Next]_vars /\ ~crossed' => OrderInv'
BY StepMoves, OrderStart, OrderFinish, OrderDeliver, OrderSent, OrderRest DEF Moves

-----------------------------------------------------------------------------
(* Without faults the present content is always on its way. *)

(* A step counts at most one thing, and a fault is counted.                *)
LEMMA StepUses ==
    ASSUME PipeInv, [Next]_vars
    PROVE  /\ used' = used \/ \E what \in Kinds : Use(what)
           /\ Disconnect => Use("drops")
           /\ Stop => Use("restarts")
<1>k. Kinds = {"scans", "errors", "drops", "restarts"}
  BY DEF Kinds
<1>1. \A path, imp : Submit(path, imp) => used' = used \/ Use("errors")
  BY DEF Submit
<1>2. (Connect \/ EndUpdate \/ CheckFreshness) => used' = used \/ Use("errors")
  BY <1>1 DEF Connect, Resubmit, EndUpdate, CheckFreshness, SubmitIfLinked
<1>3. ScanAll => Use("scans") \/ Use("errors")
  BY DEF ScanAll, Use, Bound
<1>4. (FinishJob => used' = used \/ Use("errors")) /\ (Disconnect => Use("drops"))
      /\ (Stop => Use("restarts"))
  BY DEF FinishJob, Disconnect, Stop
<1>5. (\/ StartJob \/ Deliver \/ Edit \/ BeginUpdate \/ SetSummary \/ UseCache \/ Rescan \/ Sweep
       \/ Ready \/ UNCHANGED vars)
      => used' = used
  BY DEF StartJob, Deliver, Edit, BeginUpdate, SetSummary, UseCache, Rescan, Sweep, Ready, vars
<1> QED
  BY <1>k, <1>2, <1>3, <1>4, <1>5 DEF Next

(* So after a step that leaves nothing failed nothing had failed before.   *)
LEMMA NoFaultStep ==
    ASSUME PipeInv, [Next]_vars, NoFault'
    PROVE  /\ NoFault /\ ~crossed' /\ used["errors"] = 0 /\ used'["errors"] = 0
           /\ ~Disconnect /\ ~Stop
<1>1. "errors" \in Kinds /\ "drops" \in Kinds /\ "restarts" \in Kinds /\ UsedInv
  BY DEF Kinds, PipeInv
<1>2. used'["errors"] = 0 /\ used'["drops"] = 0 /\ used'["restarts"] = 0 /\ ~crossed'
  BY DEF NoFault, InOrder
<1>3. ~Use("errors") /\ ~Use("drops") /\ ~Use("restarts")
  BY <1>1, <1>2, UseFacts
<1>4. \A what \in Kinds : Use(what) =>
         \A k \in {"errors", "drops", "restarts"} : used'[k] = used[k]
  <2> SUFFICES ASSUME NEW what \in Kinds, Use(what), NEW k \in {"errors", "drops", "restarts"}
               PROVE  used'[k] = used[k]
    OBVIOUS
  <2>1. k # what /\ k \in Kinds
    BY <1>1, <1>3
  <2> QED
    BY <1>1, <2>1, UseFacts
<1>5. \A k \in {"errors", "drops", "restarts"} : used'[k] = used[k]
  BY <1>4, StepUses
<1> QED
  BY <1>2, <1>3, <1>5, StepUses, CrossedStays DEF NoFault, InOrder

(* The newest content stays in the pipeline when a job starts or ends.     *)
LEMMA LastStart ==
    PipeInv /\ OrderInv /\ StartJob /\ ~crossed' => InPipeline /\ LastVersion' = LastVersion
<1> SUFFICES ASSUME PipeInv, OrderInv, StartJob, ~crossed'
             PROVE  InPipeline /\ LastVersion' = LastVersion
  OBVIOUS
<1> DEFINE n == NextJob(pending)
           last == Len(pending)
<1>1. pending \in Seq(Job) /\ pending # <<>>
  BY DEF PipeInv, ChannelInv, StartJob
<1>2. n \in DOMAIN pending /\ \A k \in DOMAIN pending : pending[n].version <= pending[k].version
  BY StartedIsOldest
<1>3. Without(n)
  BY StartedFacts
<1> HIDE DEF n
<1>4. last \in DOMAIN pending /\ LastVersion = pending[last].version /\ InPipeline
  BY <1>1 DEF LastVersion, InPipeline
<1>5. n \in Int /\ last \in Int /\ n <= last /\ n >= 1
  BY <1>3 DEF Without
<1>6. pending' \in Seq(Job)
  BY <1>2, <1>1, RemoveAtFacts DEF StartJob, n
<1>7. CASE last = 1
  <2>1. pending' = <<>> /\ n = last
    BY <1>3, <1>5, <1>6, <1>7, EmptySeq DEF Without
  <2>2. running' # <<>> /\ Len(running') = 1 /\ running'[1] = pending[last]
    BY <1>3, <2>1 DEF Without, StartJob
  <2> QED
    BY <1>4, <2>1, <2>2 DEF LastVersion
<1>8. CASE last # 1
  <2>1. Len(pending') = last - 1 /\ last - 1 \in DOMAIN pending' /\ pending' # <<>>
    BY <1>3, <1>5, <1>6, <1>8, EmptySeq DEF Without
  <2>2. LastVersion' = pending'[last - 1].version
    BY <2>1 DEF LastVersion
  <2>3. CASE n # last
    <3>1. pending'[last - 1] = pending[last]
      BY <1>3, <1>5, <2>1, <2>3 DEF Without
    <3> QED
      BY <1>4, <2>2, <3>1
  <2>4. CASE n = last
    <3>1. pending'[last - 1] = pending[last - 1] /\ last - 1 \in DOMAIN pending
      BY <1>3, <1>5, <2>1, <2>4 DEF Without
    <3>2. pending[last - 1].version <= pending[last].version
      BY <1>4, <1>5, <3>1 DEF OrderInv
    <3>3. pending[last].version <= pending[last - 1].version
      BY <1>2, <2>4, <3>1
    <3> QED
      BY <1>4, <2>2, <3>1, <3>2, <3>3, VersionsAreNumbers
  <2> QED
    BY <2>3, <2>4
<1> QED
  BY <1>4, <1>7, <1>8

LEMMA LastFinish == PipeInv /\ FinishJob => InPipeline /\ LastVersion' = LastVersion
<1> SUFFICES ASSUME PipeInv, FinishJob PROVE InPipeline /\ LastVersion' = LastVersion
  OBVIOUS
<1>1. /\ running \in Seq(Job) /\ running # <<>> /\ Len(running) <= 1 /\ running' = <<>>
      /\ pending' = pending
  BY DEF PipeInv, ChannelInv, FinishJob
<1>2. Len(running) = 1 /\ running[1] \in Job
  <2>1. Len(running) # 0 /\ Len(running) \in Nat
    BY <1>1, EmptySeq
  <2> QED
    BY <1>1, <2>1
<1>3. PICK type \in {"result", "error"} :
         inbox' = Append(inbox, [type |-> type, version |-> running[1].version])
  BY DEF FinishJob
<1> DEFINE answer == [type |-> type, version |-> running[1].version]
<1>4. answer \in Answer /\ answer.version = running[1].version
  BY <1>2 DEF Job, Answer
<1> HIDE DEF answer
<1>5. inbox \in Seq(Answer) /\ inbox' = Append(inbox, answer)
  BY <1>3 DEF PipeInv, ChannelInv, answer
<1>6. Len(inbox') = Len(inbox) + 1 /\ inbox'[Len(inbox) + 1] = answer
  BY <1>4, <1>5, AppendProperties
<1> QED
  BY <1>1, <1>2, <1>4, <1>6 DEF LastVersion, InPipeline

(* Delivering takes it out only as the last thing in the pipeline.         *)
LEMMA LastDeliver ==
    ASSUME PipeInv, Deliver
    PROVE  /\ InPipeline /\ (InPipeline' => LastVersion' = LastVersion)
           /\ (~InPipeline' => LastVersion = inbox[1].version)
<1>1. inbox \in Seq(Answer) /\ inbox # <<>> /\ UNCHANGED <<pending, running>>
  BY DEF PipeInv, ChannelInv, Deliver
<1>2. /\ inbox' \in Seq(Answer) /\ Len(inbox') = Len(inbox) - 1 /\ Len(inbox) \in Nat \ {0}
      /\ \A i \in 1..Len(inbox) - 1 : inbox'[i] = inbox[i + 1]
  BY <1>1 DEF Deliver
<1>3. inbox' # <<>> => inbox'[Len(inbox')] = inbox[Len(inbox)]
  <2>1. ASSUME inbox' # <<>> PROVE Len(inbox') \in 1..Len(inbox) - 1 /\ Len(inbox') + 1 = Len(inbox)
    BY <1>2, <2>1
  <2> QED
    BY <1>2, <2>1
<1>4. inbox' = <<>> => Len(inbox) = 1
  BY <1>2
<1> QED
  BY <1>1, <1>3, <1>4 DEF InPipeline, LastVersion

LEMMA LastSent ==
    ASSUME NEW path, NEW imp, Sends(OnDisk(path, imp)), disk' = disk, used'["errors"] = 0
    PROVE  InPipeline' /\ LastVersion' = disk'
<1>1. EnqueuedAs(pending, pending', OnDisk(path, imp))
  BY DEF Sends
<1>2. pending' # <<>> /\ pending'[Len(pending')].version = disk
  BY <1>1 DEF EnqueuedAs, OnDisk
<1> QED
  BY <1>1, <1>2 DEF InPipeline, LastVersion

(* A faultless server is up; when it is quiet, the newest content is in    *)
(* the pipeline, or written, or flagged until there is a connection.       *)
LEMMA CurrentStep ==
    PipeInv /\ (~crossed => OrderInv) /\ CurrentInv /\ [Next]_vars => CurrentInv'
<1> SUFFICES ASSUME PipeInv, ~crossed => OrderInv, CurrentInv, [Next]_vars, NoFault'
             PROVE  /\ phase' = "up"
                    /\ Quiet' /\ InPipeline' => LastVersion' = disk'
                    /\ Quiet' /\ ~InPipeline' /\ summary' \notin {disk', Manual} => stale' /\ ~link'
  BY DEF CurrentInv
<1>f. /\ NoFault /\ used["errors"] = 0 /\ used'["errors"] = 0 /\ ~Disconnect /\ ~Stop
      /\ ~crossed' /\ OrderInv
  BY NoFaultStep DEF NoFault, InOrder
<1>c. /\ phase = "up"
      /\ Quiet /\ InPipeline => LastVersion = disk
      /\ Quiet /\ ~InPipeline /\ summary \notin {disk, Manual} => stale /\ ~link
  BY <1>f DEF CurrentInv
<1>t. importance \in Importances /\ link \in BOOLEAN /\ (~link => ~InPipeline)
  BY DEF PipeInv, RowInv, ChannelInv
<1>1. CASE StartJob
  <2>1. UNCHANGED <<disk, phase, event, snapshot>>
    BY <1>1 DEF StartJob, server
  <2>2. running' # <<>>
    BY <1>1 DEF StartJob
  <2> QED
    BY <1>1, <1>c, <1>f, <2>1, <2>2, LastStart DEF Quiet, InPipeline
<1>2. CASE FinishJob
  <2>1. UNCHANGED <<disk, phase, event, snapshot>>
    BY <1>2 DEF FinishJob, server
  <2>2. inbox' # <<>>
    BY <1>2 DEF FinishJob, PipeInv, ChannelInv
  <2> QED
    BY <1>2, <1>c, <2>1, <2>2, LastFinish DEF Quiet, InPipeline
<1>3. CASE Deliver
  <2>1. UNCHANGED <<disk, phase, event, snapshot>>
    BY <1>3 DEF Deliver, server
  <2>2. summary' = inbox[1].version
    <3>1. inbox[1].type = "result"
      BY <1>3, <1>f, AnswerTaken DEF FirstGone, PipeInv, ChannelInv
    <3> QED
      BY <1>3, <3>1 DEF Deliver
  <2> QED
    BY <1>3, <1>c, <2>1, <2>2, LastDeliver DEF Quiet
<1>4. ASSUME UNCHANGED <<disk, pending, running, inbox>>
      PROVE  InPipeline' = InPipeline /\ LastVersion' = LastVersion /\ disk' = disk
  BY <1>4 DEF InPipeline, LastVersion
<1>5. CASE Connect
  <2>1. UNCHANGED <<disk, phase, event, snapshot, summary>>
    BY <1>5 DEF Connect, row, server
  <2>2. CASE stale
    BY <1>5, <1>c, <1>f, <1>t, <2>1, <2>2, SubmitSends, LastSent DEF Connect, Resubmit, Paths
  <2>3. CASE ~stale
    BY <1>4, <1>5, <1>c, <2>1, <2>3 DEF Connect, Resubmit, Quiet
  <2> QED
    BY <2>2, <2>3
<1>6. CASE Edit
  BY <1>6, <1>c DEF Edit, Quiet
<1>7. CASE BeginUpdate
  <2>1. snapshot' # NoUpdate
    BY <1>7, FreshnessAssumption DEF BeginUpdate, PipeInv, RowInv, Versions
  <2> QED
    BY <1>7, <1>c, <2>1 DEF BeginUpdate, Quiet
<1>8. ASSUME NEW imp \in Importances, SubmitIfLinked("abs", imp), MarkedStale, phase' = phase,
             UNCHANGED <<disk, link, running>>
      PROVE  /\ phase' = "up"
             /\ Quiet' /\ InPipeline' => LastVersion' = disk'
             /\ Quiet' /\ ~InPipeline' /\ summary' \notin {disk', Manual} => stale' /\ ~link'
  <2>1. CASE link
    BY <1>8, <1>c, <1>f, <2>1, SubmitSends, LastSent DEF SubmitIfLinked, Paths
  <2>2. CASE ~link
    BY <1>4, <1>8, <1>c, <1>t, <2>2 DEF SubmitIfLinked, MarkedStale
  <2> QED
    BY <2>1, <2>2
<1>9. CASE EndUpdate
  BY <1>8, <1>9 DEF EndUpdate
<1>10. CASE CheckFreshness
  BY <1>8, <1>10, <1>t DEF CheckFreshness, server
<1>11. CASE SetSummary
  BY <1>4, <1>11, <1>c DEF SetSummary, server, broker, Quiet
<1>12. CASE ScanAll
  <2>1. ~Use("errors")
    BY <1>f, UseFacts DEF Kinds, PipeInv
  <2>2. pending' = Enqueued(pending, OnDisk("rel", importance)) /\ UNCHANGED inbox
    BY <1>12, <2>1 DEF ScanAll, OnDisk
  <2>3. OnDisk("rel", importance) \in Job /\ pending \in Seq(Job) /\ OnePerPath(pending)
    BY <1>t DEF OnDisk, Job, Paths, PipeInv, RowInv, ChannelInv
  <2>4. Sends(OnDisk("rel", importance)) /\ disk' = disk /\ phase' = phase
    BY <1>12, <1>f, <2>2, <2>3, EnqueuedFacts DEF ScanAll, Sends, server
  <2> QED
    BY <1>c, <1>f, <2>4, LastSent
<1>13. CASE UseCache \/ Rescan \/ Sweep \/ Ready
  BY <1>13, <1>c DEF UseCache, Rescan, Sweep, Ready
<1>14. CASE UNCHANGED vars
  BY <1>4, <1>14, <1>c DEF vars, row, server, broker, Quiet
<1> QED
  BY <1>1, <1>2, <1>3, <1>5, <1>6, <1>7, <1>9, <1>10, <1>11, <1>12, <1>13, <1>14, <1>f DEF Next

-----------------------------------------------------------------------------
(* Without a restart an unflagged summary is of the recorded content, or   *)
(* the last result was late.                                               *)

(* A restart is counted for ever.                                          *)
LEMMA RestartsStay ==
    ASSUME PipeInv, [Next]_vars, used'["restarts"] = 0
    PROVE  used["restarts"] = 0 /\ ~Stop
<1>1. "restarts" \in Kinds
  BY DEF Kinds
<1>2. ~Use("restarts")
  BY <1>1, UseFacts DEF PipeInv
<1>3. \A what \in Kinds : Use(what) => used'["restarts"] = used["restarts"]
  <2> SUFFICES ASSUME NEW what \in Kinds, Use(what)
               PROVE  used'["restarts"] = used["restarts"]
    OBVIOUS
  <2> QED
    BY <1>1, <1>2, UseFacts DEF PipeInv
<1> QED
  BY <1>2, <1>3, StepUses

(* What is sent, answered and written was on disk.                         *)
LEMMA DiskPipe ==
    ASSUME PipeInv, DiskInv, [Next]_vars
    PROVE  /\ \A i \in DOMAIN pending' : pending'[i].version <= disk'
           /\ \A i \in DOMAIN running' : running'[i].version <= disk'
           /\ \A i \in DOMAIN inbox' : inbox'[i].version <= disk'
           /\ written' <= disk' /\ disk \in Int /\ disk' \in Int /\ disk' >= disk
<1> DEFINE Goal == /\ \A i \in DOMAIN pending' : pending'[i].version <= disk'
                   /\ \A i \in DOMAIN running' : running'[i].version <= disk'
                   /\ \A i \in DOMAIN inbox' : inbox'[i].version <= disk'
                   /\ written' <= disk' /\ disk' >= disk
<1>d. disk \in Int /\ disk' \in Int
  BY RowStep, VersionsAreNumbers DEF RowInv
<1>p. /\ \A i \in DOMAIN pending : pending[i].version <= disk
      /\ \A i \in DOMAIN running : running[i].version <= disk
      /\ \A i \in DOMAIN inbox : inbox[i].version <= disk
      /\ written <= disk
  BY DEF DiskInv
<1>1. CASE StartJob
  <2> DEFINE n == NextJob(pending)
  <2>1. Without(n) /\ UNCHANGED <<disk, inbox, written>>
    BY <1>1, StartedFacts DEF StartJob
  <2> HIDE DEF n
  <2> QED
    BY <1>d, <1>p, <2>1 DEF Without
<1>2. CASE FinishJob
  <2>1. 1 \in DOMAIN running /\ running[1] \in Job
    <3>1. running \in Seq(Job) /\ running # <<>>
      BY <1>2 DEF PipeInv, ChannelInv, FinishJob
    <3> QED
      BY <3>1, EmptySeq
  <2>2. PICK type \in {"result", "error"} :
           inbox' = Append(inbox, [type |-> type, version |-> running[1].version])
    BY <1>2 DEF FinishJob
  <2> DEFINE answer == [type |-> type, version |-> running[1].version]
  <2>3. answer \in Answer /\ answer.version = running[1].version
    BY <2>1 DEF Job, Answer
  <2> HIDE DEF answer
  <2>4. OneMore(answer)
    BY <2>2, <2>3, AnswerAppended DEF answer
  <2>5. \A i \in DOMAIN inbox' :
           (i \in DOMAIN inbox /\ inbox'[i] = inbox[i]) \/ inbox'[i] = answer
    BY <2>4 DEF OneMore
  <2>6. DOMAIN running' = {} /\ UNCHANGED <<disk, pending, written>>
    BY <1>2 DEF FinishJob, history
  <2> QED
    BY <1>d, <1>p, <2>1, <2>3, <2>5, <2>6
<1>3. CASE Deliver
  <2>1. /\ \A i \in DOMAIN inbox' : i + 1 \in DOMAIN inbox /\ inbox'[i] = inbox[i + 1]
        /\ 1 \in DOMAIN inbox
    BY <1>3, AnswerTaken DEF FirstGone
  <2>2. written' = written \/ written' = inbox[1].version
    BY <1>3 DEF Deliver
  <2> QED
    BY <1>3, <1>d, <1>p, <2>1, <2>2 DEF Deliver
<1>4. CASE Untouched \/ Linked
  <2>1. UNCHANGED <<pending, running, inbox, written>> /\ disk' >= disk
    BY <1>4, <1>d DEF Untouched, Linked, broker
  <2> QED
    BY <1>d, <1>p, <2>1, VersionsAreNumbers
<1>5. CASE Lost
  <2>1. DOMAIN pending' = {} /\ DOMAIN running' = {} /\ DOMAIN inbox' = {}
        /\ UNCHANGED <<disk, written>>
    BY <1>5 DEF Lost, LoseConnection
  <2> QED
    BY <1>d, <1>p, <2>1
<1>6. ASSUME NEW path \in Paths, NEW imp \in Importances, Sent(path, imp)
      PROVE  Goal
  <2> DEFINE job == OnDisk(path, imp)
  <2>1. job.version = disk
    BY DEF OnDisk
  <2> HIDE DEF job
  <2>2. CASE EnqueuedAs(pending, pending', job) /\ UNCHANGED inbox
    <3>1. /\ DOMAIN pending' = 1..Len(pending') /\ Len(pending') \in Nat
          /\ pending'[Len(pending')] = job
          /\ \A i \in 1..Len(pending') - 1 : \E k \in DOMAIN pending : pending'[i] = pending[k]
      BY <2>2 DEF EnqueuedAs, GapAt
    <3>2. \A i \in 1..Len(pending') : i \in 1..Len(pending') - 1 \/ i = Len(pending')
      BY <3>1, Places
    <3>3. \A i \in DOMAIN pending' : pending'[i].version <= disk
      <4> SUFFICES ASSUME NEW i \in DOMAIN pending' PROVE pending'[i].version <= disk
        OBVIOUS
      <4>1. CASE i = Len(pending')
        BY <1>d, <2>1, <3>1, <4>1
      <4>2. CASE i \in 1..Len(pending') - 1
        BY <1>p, <3>1, <4>2
      <4> QED
        BY <3>1, <3>2, <4>1, <4>2
    <3>4. UNCHANGED <<disk, written, running, inbox>>
      BY <1>6, <2>2 DEF Sent
    <3> QED
      BY <1>d, <1>p, <3>3, <3>4
  <2>3. CASE UNCHANGED pending /\ inbox' = Append(inbox, [type |-> "error", version |-> disk])
    <3> DEFINE answer == [type |-> "error", version |-> disk]
    <3>1. answer \in Answer /\ answer.version = disk
      BY ChannelTypes
    <3> HIDE DEF answer
    <3>2. OneMore(answer)
      BY <2>3, <3>1, AnswerAppended DEF answer
    <3>3. \A i \in DOMAIN inbox' : inbox'[i].version <= disk
      BY <1>d, <1>p, <3>1, <3>2 DEF OneMore
    <3> QED
      BY <1>6, <1>d, <1>p, <2>3, <3>3 DEF Sent
  <2> QED
    BY <1>6, <2>2, <2>3 DEF Sent, Sends, job
<1> QED
  BY <1>1, <1>2, <1>3, <1>4, <1>5, <1>6, <1>d, StepMoves DEF Moves

LEMMA DiskStep == PipeInv /\ DiskInv /\ [Next]_vars => DiskInv'
<1> SUFFICES ASSUME PipeInv, DiskInv, [Next]_vars
             PROVE  /\ mtime' <= disk'
                    /\ summary' \in Versions => summary' <= disk'
                    /\ snapshot' \in Versions => snapshot' <= disk'
  BY DiskPipe DEF DiskInv
<1>p. /\ disk \in Int /\ disk' \in Int /\ disk' >= disk
      /\ \A v \in Versions : v \in Int
      /\ mtime \in Int /\ mtime <= disk
      /\ summary \in Versions => summary <= disk
      /\ snapshot \in Versions => snapshot <= disk
  BY DiskPipe, VersionsAreNumbers DEF DiskInv
<1>a. Manual \notin Versions /\ NoSummary \notin Versions /\ NoUpdate \notin Versions
  BY FreshnessAssumption DEF Versions
<1>1. CASE Deliver
  <2>1. /\ 1 \in DOMAIN inbox /\ inbox[1].version <= disk
        /\ summary' = summary \/ summary' = inbox[1].version
    BY <1>1, AnswerTaken DEF FirstGone, DiskInv, Deliver
  <2> QED
    BY <1>1, <1>p, <2>1 DEF Deliver, server
<1>2. CASE BeginUpdate \/ EndUpdate \/ SetSummary
  BY <1>2, <1>a, <1>p DEF BeginUpdate, EndUpdate, UpsertedSummary, SetSummary, row, server
<1>3. CASE CheckFreshness \/ Rescan \/ Sweep \/ Stop
  BY <1>3, <1>a, <1>p DEF CheckFreshness, Rescan, Sweep, Stop, row, server
<1>4. CASE Edit
  BY <1>4, <1>p DEF Edit, row
<1>5. CASE StartJob \/ FinishJob \/ Connect \/ Disconnect \/ ScanAll \/ UseCache \/ Ready
           \/ UNCHANGED vars
  <2>1. UNCHANGED <<disk, mtime, summary, snapshot>>
    BY <1>5 DEF StartJob, FinishJob, Connect, Disconnect, ScanAll, UseCache, Ready, vars, row, server
  <2> QED
    BY <1>p, <2>1
<1> QED
  BY <1>1, <1>2, <1>3, <1>4, <1>5 DEF Next

LEMMA RecordedStep == PipeInv /\ RecordedInv /\ [Next]_vars => RecordedInv'
<1> SUFFICES ASSUME PipeInv, RecordedInv, [Next]_vars, used'["restarts"] = 0
             PROVE  /\ phase' = "up" /\ summary' # NoSummary /\ snapshot' # NoSummary
                    /\ ~stale' /\ ~late' =>
                          summary' = Manual \/ (summary' \in Versions /\ summary' >= mtime')
  BY DEF RecordedInv
<1>r. /\ phase = "up" /\ summary # NoSummary /\ snapshot # NoSummary /\ ~Stop
      /\ ~stale /\ ~late => summary = Manual \/ (summary \in Versions /\ summary >= mtime)
  BY RestartsStay DEF RecordedInv
<1>a. /\ Manual # NoSummary /\ NoSummary \notin Versions
      /\ NoUpdate # NoSummary
  BY FreshnessAssumption DEF Versions
<1>1. CASE Deliver
  <2>1. UNCHANGED <<phase, snapshot, mtime>>
    BY <1>1 DEF Deliver, server
  <2>2. inbox[1].version \in Versions /\ inbox[1].version \in Int /\ mtime \in Int
    <3>1. 1 \in DOMAIN inbox
      BY <1>1, AnswerTaken DEF FirstGone
    <3>2. inbox[1] \in Answer /\ \A answer \in Answer : answer.version \in Versions
      BY <3>1, ChannelTypes DEF Answer
    <3> QED
      BY <3>2, VersionsAreNumbers
  <2>3. CASE inbox[1].type = "result"
    <3>1. summary' = inbox[1].version /\ late' = (inbox[1].version < mtime)
      BY <1>1, <2>3 DEF Deliver
    <3>2. ~late' => inbox[1].version >= mtime
      <4>1. ~late' => ~(inbox[1].version < mtime)
        BY <3>1, Zenon
      <4> QED
        BY <2>2, <4>1, SMT
    <3> QED
      BY <1>a, <1>r, <2>1, <2>2, <3>1, <3>2
  <2>4. CASE inbox[1].type # "result"
    BY <1>1, <1>r, <2>1, <2>4 DEF Deliver
  <2> QED
    BY <2>3, <2>4
<1>2. CASE EndUpdate \/ SetSummary \/ CheckFreshness
  BY <1>2, <1>a, <1>r DEF EndUpdate, UpsertedSummary, MarkedStale, SetSummary, CheckFreshness,
                          server, history
<1>3. CASE BeginUpdate \/ Edit
  BY <1>3, <1>r DEF BeginUpdate, Edit, row, history
<1>4. CASE StartJob \/ FinishJob \/ Connect \/ Disconnect \/ UNCHANGED vars
  <2>1. UNCHANGED <<phase, snapshot, mtime, summary, stale, late>>
    BY <1>4 DEF StartJob, FinishJob, Connect, Disconnect, vars, row, server, history
  <2> QED
    BY <1>r, <2>1
<1>5. CASE ScanAll
  BY <1>5, <1>r DEF ScanAll, server
<1>6. CASE UseCache \/ Rescan \/ Sweep \/ Ready
  BY <1>6, <1>r DEF UseCache, Rescan, Sweep, Ready
<1> QED
  BY <1>1, <1>2, <1>3, <1>4, <1>5, <1>6, <1>r DEF Next

-----------------------------------------------------------------------------
(* The results. *)

LEMMA FreshInit == Init => FreshInv
<1> SUFFICES ASSUME Init PROVE FreshInv
  OBVIOUS
<1>1. /\ DOMAIN pending = {} /\ DOMAIN running = {} /\ DOMAIN inbox = {} /\ Results = {}
      /\ written = 0 /\ disk = 0 /\ mtime = 0 /\ summary = 0 /\ 0 \in Versions
  BY FreshnessAssumption DEF Init, Results, Versions
<1>2. OrderInv
  BY <1>1 DEF OrderInv
<1>3. CurrentInv
  BY DEF Init, CurrentInv, InPipeline
<1>4. NoUpdate \notin Versions /\ NoSummary \notin Versions /\ NoUpdate # NoSummary
  BY FreshnessAssumption DEF Versions
<1>5. snapshot = NoUpdate /\ phase = "up"
  BY DEF Init
<1>6. DiskInv
  BY <1>1, <1>4, <1>5 DEF DiskInv
<1>7. RecordedInv
  BY <1>1, <1>4, <1>5 DEF RecordedInv
<1> QED
  BY <1>2, <1>3, <1>6, <1>7, FreshnessInit DEF FreshInv

LEMMA FreshStep == FreshInv /\ [Next]_vars => FreshInv'
<1> SUFFICES ASSUME FreshInv, [Next]_vars PROVE FreshInv'
  OBVIOUS
<1>1. PipeInv /\ DiskInv /\ RecordedInv /\ (~crossed => OrderInv) /\ CurrentInv
  BY DEF FreshInv
<1>2. PipeInv'
  BY <1>1, RowStep, ChannelStep DEF PipeInv
<1>3. ~crossed' => OrderInv'
  BY <1>1, CrossedStays, OrderStep
<1> QED
  BY <1>1, <1>2, <1>3, DiskStep, RecordedStep, CurrentStep DEF FreshInv

LEMMA FreshImpliesCurrent == FreshInv => FreshMeansCurrent
<1> SUFFICES ASSUME FreshInv, used["restarts"] = 0, ~NeverSilentlyOld
             PROVE  late /\ ~InOrder
  BY DEF FreshMeansCurrent
<1>1. /\ Quiet /\ mtime = disk /\ summary \notin {disk, Manual} /\ ~stale
      /\ ~(\/ \E i \in DOMAIN pending : pending[i].version = disk
           \/ \E i \in DOMAIN running : running[i].version = disk
           \/ \E i \in DOMAIN inbox : inbox[i].version = disk)
  BY DEF NeverSilentlyOld, Quiet
<1>2. ASSUME InOrder PROVE FALSE
  <2>1. InPipeline /\ LastVersion = disk
    BY <1>1, <1>2 DEF FreshInv, CurrentInv, NoFault
  <2>2. pending \in Seq(Job) /\ running \in Seq(Job) /\ inbox \in Seq(Answer)
    BY DEF FreshInv, PipeInv, ChannelInv
  <2>3. /\ pending # <<>> => Len(pending) \in DOMAIN pending
        /\ running # <<>> => Len(running) \in DOMAIN running
        /\ inbox # <<>> => Len(inbox) \in DOMAIN inbox
    BY <2>2
  <2> QED
    BY <1>1, <2>1, <2>3 DEF InPipeline, LastVersion
<1>3. ASSUME ~late PROVE FALSE
  <2>1. summary \in Versions /\ summary >= mtime /\ summary <= disk
    BY <1>1, <1>3 DEF FreshInv, RecordedInv, DiskInv
  <2>2. summary \in Int /\ disk \in Int
    BY <2>1, VersionsAreNumbers DEF FreshInv
  <2> QED
    BY <1>1, <2>1, <2>2
<1> QED
  BY <1>2, <1>3

LEMMA WrittenGrows == FreshInv /\ [Next]_vars /\ ~crossed' => written' >= written
<1> SUFFICES ASSUME FreshInv, [Next]_vars, ~crossed' PROVE written' >= written
  OBVIOUS
<1>1. PipeInv /\ OrderInv /\ written \in Int
  BY VersionsAreNumbers, CrossedStays DEF FreshInv
<1>2. CASE Deliver
  <2>1. inbox[1].type = "result" => 1 \in Results
    BY <1>1, <1>2, AnswerTaken DEF FirstGone, Results
  <2>2. inbox[1].version \in Int
    BY <1>1, <1>2, AnswerTaken, VersionsAreNumbers DEF FirstGone
  <2> QED
    BY <1>1, <1>2, <2>1, <2>2 DEF Deliver, OrderInv
<1>3. CASE StartJob \/ FinishJob
  BY <1>1, <1>3 DEF StartJob, FinishJob, history
<1>4. CASE Untouched \/ Linked \/ Lost \/ \E path \in Paths, imp \in Importances : Sent(path, imp)
  BY <1>1, <1>4 DEF Untouched, Linked, Lost, Sent
<1> QED
  BY <1>1, <1>2, <1>3, <1>4, StepMoves DEF Moves

(* Whatever importances the edits lead to, and whatever is refused or lost: *)
(* a summary of a server that is not restarted is of the present content,   *)
(* or flagged, or its replacement is under way, unless the last answer was  *)
(* for older content, and then a submission was refused or lost, or newer   *)
(* content crossed older.                                                   *)
THEOREM FreshStaysCurrent == Spec => []FreshMeansCurrent
<1>1. Init => FreshInv
  BY FreshInit
<1>2. FreshInv /\ [Next]_vars => FreshInv'
  BY FreshStep
<1>3. FreshInv => FreshMeansCurrent
  BY FreshImpliesCurrent
<1> QED
  BY <1>1, <1>2, <1>3, PTL DEF Spec

(* And, whatever fails or is restarted, an answer for older content never  *)
(* replaces one for newer content until the two have crossed: until newer  *)
(* content was pending with a greater importance than older content under  *)
(* the file's other path.                                                  *)
THEOREM LatestContentStays == Spec => LatestContentWins
<1>1. Init => FreshInv
  BY FreshInit
<1>2. FreshInv /\ [Next]_vars => FreshInv'
  BY FreshStep
<1>3. FreshInv /\ [Next]_vars => [~crossed' => written' >= written]_vars
  BY WrittenGrows
<1> QED
  BY <1>1, <1>2, <1>3, PTL DEF Spec, LatestContentWins
=============================================================================
