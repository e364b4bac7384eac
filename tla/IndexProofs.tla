---------------------------- MODULE IndexProofs ----------------------------
(***************************************************************************)
(* Theorems about the structural index of module ProjectIndex, for every   *)
(* set of files and every number of changes, restarts and exclusions:      *)
(* first what holds of the rows at every step, then the index against the  *)
(* disk, then what the tools and the dashboard answer from it.             *)
(***************************************************************************)
EXTENDS ProjectIndex, IndexQueries, SequenceTheorems, FiniteSetTheorems, TLAPS

\* What served communities rely on while nothing is said of the phase.
EveryEdgeSeen == ~dirty => edges \subseteq communities

\* The rows keep their types, have callers only that exist, and are marked.
StoreInv ==
    /\ rows \in [Files -> Versions \cup {Missing, NoMtime}]
    /\ symbols \in [Files -> Versions \cup {Missing}]
    /\ edges \subseteq Files \X Files
    /\ calls \subseteq Call
    /\ dirty \in BOOLEAN
    /\ NoGhostCallers
    /\ EveryEdgeSeen

\* The queues, the handler, the start-up pass and the bounded counters.
ServerInv ==
    /\ disk \in [Files -> Content \cup {Missing}]
    /\ communities \subseteq Files \X Files
    /\ excluded \subseteq Files
    /\ phase \in {"down", "purged", "scanning", "built", "sweeping", "up"}
    /\ todo \subseteq {"scan", "stale", "missing", "new"} \X Files
    /\ timers \in Seq(Event) /\ mutex \in Seq(Event) /\ IsInjective(timers)
    /\ work \in Work \cup {Idle}
    /\ work # Idle /\ work.parsed.ok => work.parsed.version \in Versions
    /\ writes \in 0..MaxWrites /\ stops \in 0..MaxStops /\ missed \in BOOLEAN

IndexInv == StoreInv /\ ServerInv

-----------------------------------------------------------------------------
(* The operators of the repository and the parser. *)

(* An extraction targets files, and has a version when it succeeded.        *)
LEMMA ParseType ==
    ASSUME disk \in [Files -> Content \cup {Missing}], NEW f \in Files
    PROVE  /\ Parse(f) \in Parsed
           /\ Parse(f).ok => Parse(f).version \in Versions
<1>1. CASE Present(f)
  <2>1. disk[f] \in Content
    BY <1>1 DEF Present
  <2>2. disk[f].version \in Versions /\ disk[f].imports \subseteq Files
    BY <2>1 DEF Content
  <2> QED
    BY <1>1, <2>2 DEF Parse, Parsed
<1>2. CASE ~Present(f)
  BY <1>2 DEF Parse, Parsed
<1> QED
  BY <1>1, <1>2

(* The mtime recorded for a file is a version on disk, or the fallback.     *)
LEMMA MtimeType ==
    ASSUME disk \in [Files -> Content \cup {Missing}], NEW f \in Files, NEW other
    PROVE  Mtime(f, other) \in Versions \cup {other}
BY DEF Mtime, Present, Content

(* A new extraction leaves no row whose caller is gone: the rows of the     *)
(* file's old symbols are deleted while the symbols still name them.        *)
LEMMA RescannedLive ==
    ASSUME StoreInv, NEW f \in Files
    PROVE  /\ Rescanned(f) \subseteq Call
           /\ \A c \in Rescanned(f) : c.callerLive
<1> SUFFICES ASSUME NEW c \in Rescanned(f)
             PROVE  c \in Call /\ c.callerLive
  OBVIOUS
<1>1. PICK d \in calls \ CalledFrom(f) :
        c = [d EXCEPT !.callerLive = @ /\ d.caller # f,
                      !.calleeLive = @ /\ d.callee # f]
  BY DEF Rescanned, Orphaned
<1>2. d \in Call /\ d.callerLive
  BY <1>1 DEF StoreInv, NoGhostCallers
<1>3. d.caller # f
  BY <1>1, <1>2 DEF CalledFrom
<1>4. DOMAIN d = {"caller", "callee", "callerLive", "calleeLive"}
  BY <1>2 DEF Call
<1>5. /\ c.caller = d.caller /\ c.callee = d.callee
      /\ c.callerLive = (d.callerLive /\ d.caller # f)
      /\ c.calleeLive = (d.calleeLive /\ d.callee # f)
  BY <1>1, <1>4
<1>6. c \in Call
  <2>1. d.caller \in Files /\ d.callee \in Files
    BY <1>2 DEF Call
  <2>2. c = [caller |-> c.caller, callee |-> c.callee,
             callerLive |-> c.callerLive, calleeLive |-> c.calleeLive]
    BY <1>1, <1>2 DEF Call
  <2>3. c.callerLive \in BOOLEAN /\ c.calleeLive \in BOOLEAN
    BY <1>5
  <2> QED
    BY <1>5, <2>1, <2>2, <2>3 DEF Call
<1> QED
  BY <1>2, <1>3, <1>5, <1>6

(* The calls an extraction stores are calls of the symbols it stores.       *)
LEMMA ResolvedLive ==
    ASSUME NEW f \in Files, NEW targets \in SUBSET Files
    PROVE  /\ Resolved(f, targets) \subseteq Call
           /\ \A c \in Resolved(f, targets) : c.callerLive
<1> SUFFICES ASSUME NEW c \in Resolved(f, targets)
             PROVE  c \in Call /\ c.callerLive
  OBVIOUS
<1>1. PICK d \in targets : c = [caller |-> f, callee |-> d,
                                callerLive |-> TRUE, calleeLive |-> TRUE]
  BY DEF Resolved
<1>2. d \in Files
  BY <1>1
<1>3. c \in Call
  BY <1>1, <1>2 DEF Call
<1> QED
  BY <1>1, <1>3

(* The edges an extraction stores join files.                               *)
LEMMA EdgesFromType ==
    ASSUME StoreInv, NEW f \in Files, NEW targets \in SUBSET Files
    PROVE  EdgesFrom(f, targets) \subseteq Files \X Files
BY DEF StoreInv, EdgesFrom
-----------------------------------------------------------------------------
(* Each write of the store keeps StoreInv.                                  *)

RowType == [Files -> Versions \cup {Missing, NoMtime}]

(* upsertFile keeps the types of the files rows.                            *)
LEMMA UpsertType ==
    ASSUME StoreInv, NEW f \in Files,
           NEW mtime \in Versions \cup {Missing, NoMtime}, upsertFile(f, mtime)
    PROVE  rows' \in RowType
BY DEF StoreInv, upsertFile, RowType

(* An extraction written in one transaction.                                *)
LEMMA ExtractionKeeps ==
    ASSUME StoreInv, NEW f \in Files, NEW parsed \in Parsed,
           parsed.version \in Versions, rows' \in RowType,
           UNCHANGED communities, setEdgesAndSymbols(f, parsed)
    PROVE  StoreInv'
<1>1. parsed.targets \in SUBSET Files
  BY DEF Parsed
<1>2. edges' \subseteq Files \X Files
  BY <1>1, EdgesFromType DEF setEdgesAndSymbols
<1>3. symbols' \in [Files -> Versions \cup {Missing}]
  BY DEF setEdgesAndSymbols, StoreInv
<1>4. calls' = Rescanned(f) \cup Resolved(f, parsed.targets)
  BY DEF setEdgesAndSymbols
<1>5. calls' \subseteq Call /\ \A c \in calls' : c.callerLive
  BY <1>1, <1>4, RescannedLive, ResolvedLive
<1>6. dirty' = TRUE
  BY DEF setEdgesAndSymbols
<1> QED
  BY <1>2, <1>3, <1>5, <1>6 DEF StoreInv, NoGhostCallers, EveryEdgeSeen, RowType

(* setEdges changes edges only, and marks communities dirty.                *)
LEMMA EdgesKeep ==
    ASSUME StoreInv, NEW f \in Files, NEW targets \in SUBSET Files,
           rows' \in RowType, UNCHANGED communities, setEdges(f, targets)
    PROVE  StoreInv'
<1>1. edges' \subseteq Files \X Files
  BY EdgesFromType DEF setEdges
<1>2. dirty' = TRUE /\ symbols' = symbols /\ calls' = calls
  BY DEF setEdges
<1> QED
  BY <1>1, <1>2 DEF StoreInv, NoGhostCallers, EveryEdgeSeen, RowType

(* A removal only takes rows away: it need not mark the communities.        *)
LEMMA DeletionKeeps ==
    ASSUME StoreInv, NEW f \in Files, UNCHANGED communities, deleteFile(f)
    PROVE  StoreInv'
<1>1. calls' \subseteq calls /\ edges' \subseteq edges /\ dirty' = dirty
  BY DEF deleteFile
<1>2. rows' \in RowType /\ symbols' \in [Files -> Versions \cup {Missing}]
  BY DEF deleteFile, StoreInv, RowType
<1> QED
  BY <1>1, <1>2 DEF StoreInv, NoGhostCallers, EveryEdgeSeen, RowType

(* The purge takes the calls of each excluded file with its symbols.         *)
LEMMA PurgeKeeps ==
    ASSUME StoreInv, dirty' = TRUE, Purge
    PROVE  StoreInv'
<1>1. calls' \subseteq calls /\ edges' \subseteq edges
  BY DEF Purge
<1>2. rows' \in RowType /\ symbols' \in [Files -> Versions \cup {Missing}]
  BY DEF Purge, StoreInv, RowType
<1> QED
  BY <1>1, <1>2 DEF StoreInv, NoGhostCallers, EveryEdgeSeen, RowType

(* A step that writes no table keeps what the tables promise.               *)
LEMMA UnchangedStoreKeeps ==
    ASSUME StoreInv, UNCHANGED <<store, communities>>
    PROVE  StoreInv'
BY DEF StoreInv, store, extraction, NoGhostCallers, EveryEdgeSeen

(* Neither does a step that only writes files rows break it.                *)
LEMMA RowWriteKeeps ==
    ASSUME StoreInv, rows' \in RowType,
           UNCHANGED <<extraction, communities>>
    PROVE  StoreInv'
BY DEF StoreInv, extraction, NoGhostCallers, EveryEdgeSeen, RowType

(* Whichever row the removal finds, of the file or of a namesake.           *)
LEMMA RemovalKeeps ==
    ASSUME StoreInv, NEW f \in Files, UNCHANGED communities, removeFileNode(f)
    PROVE  StoreInv'
<1>1. CASE UNCHANGED store
  BY <1>1, UnchangedStoreKeeps
<1>2. CASE \E g \in Files : deleteFile(g)
  BY <1>2, DeletionKeeps
<1> QED
  BY <1>1, <1>2, ConstantsAssumption DEF removeFileNode

LEMMA AdditionKeeps ==
    ASSUME StoreInv, NEW f \in Files, NEW parsed \in Parsed,
           parsed.ok => parsed.version \in Versions,
           NEW mtime \in Versions \cup {Missing, NoMtime},
           UNCHANGED communities, Added(f, parsed, mtime)
    PROVE  StoreInv'
<1>1. rows' \in RowType
  BY UpsertType DEF Added
<1>2. CASE parsed.ok
  BY <1>1, <1>2, ExtractionKeeps DEF Added
<1>3. CASE ~parsed.ok
  BY <1>1, <1>3, EdgesKeep DEF Added
<1> QED
  BY <1>2, <1>3

LEMMA UpdateKeeps ==
    ASSUME StoreInv, NEW f \in Files, NEW parsed \in Parsed,
           parsed.ok => parsed.version \in Versions, NEW deps,
           NEW mtime \in Versions \cup {Missing, NoMtime},
           UNCHANGED communities, Updated(f, parsed, deps, mtime)
    PROVE  StoreInv'
<1>1. rows' \in RowType
  BY UpsertType DEF Updated
<1>2. CASE parsed.ok
  BY <1>1, <1>2, ExtractionKeeps DEF Updated
<1>3. CASE ~parsed.ok /\ deps # {}
  BY <1>1, <1>3, EdgesKeep DEF Updated
<1>4. CASE ~parsed.ok /\ deps = {}
  BY <1>1, <1>4, RowWriteKeeps DEF Updated
<1> QED
  BY <1>2, <1>3, <1>4
-----------------------------------------------------------------------------
(* Debounce timers and the queue of the mutex.                              *)

(* Clearing the timer of an event leaves the others, in their order.        *)
LEMMA ClearedType ==
    ASSUME timers \in Seq(Event), IsInjective(timers), NEW event \in Event
    PROVE  /\ ClearedOf(event) \in Seq(Event)
           /\ IsInjective(ClearedOf(event))
           /\ \A i \in DOMAIN ClearedOf(event) : ClearedOf(event)[i] # event
<1>1. CASE \A i \in DOMAIN timers : timers[i] # event
  BY <1>1 DEF ClearedOf
<1>2. CASE \E i \in DOMAIN timers : timers[i] = event
  <2> DEFINE k == CHOOSE i \in DOMAIN timers : timers[i] = event
             before == SubSeq(timers, 1, k - 1)
             after == SubSeq(timers, k + 1, Len(timers))
             rest == before \o after
  <2>1. k \in 1..Len(timers) /\ timers[k] = event
    BY <1>2
  <2>2. ClearedOf(event) = rest
    BY <1>2 DEF ClearedOf, RemoveAt
  <2> HIDE DEF k
  <2>3. before \in Seq(Event) /\ after \in Seq(Event)
    BY <2>1
  <2>4. Len(before) = k - 1 /\ Len(after) = Len(timers) - k
    BY <2>1
  <2>5. \A i \in 1..k - 1 : before[i] = timers[i]
    BY <2>1
  <2>6. \A i \in 1..Len(timers) - k : after[i] = timers[k + i]
    BY <2>1
  <2> HIDE DEF before, after
  <2>7. rest \in Seq(Event) /\ Len(rest) = Len(timers) - 1
    BY <2>1, <2>3, <2>4
  <2>8. \A i \in 1..Len(timers) - 1 :
          rest[i] = IF i < k THEN timers[i] ELSE timers[i + 1]
    <3> SUFFICES ASSUME NEW i \in 1..Len(timers) - 1
                 PROVE  rest[i] = IF i < k THEN timers[i] ELSE timers[i + 1]
      OBVIOUS
    <3>1. rest[i] = IF i <= k - 1 THEN before[i] ELSE after[i - (k - 1)]
      BY <2>1, <2>3, <2>4
    <3>2. CASE i < k
      BY <2>1, <2>5, <3>1, <3>2
    <3>3. CASE ~(i < k)
      <4>1. i - (k - 1) \in 1..Len(timers) - k /\ k + (i - (k - 1)) = i + 1
        BY <2>1, <3>3
      <4> QED
        BY <2>1, <2>6, <3>1, <3>3, <4>1
    <3> QED
      BY <3>2, <3>3
  <2> HIDE DEF rest
  <2>9. \A i, j \in 1..Len(timers) : timers[i] = timers[j] => i = j
    BY DEF IsInjective
  <2>10. \A i, j \in 1..Len(timers) - 1 : rest[i] = rest[j] => i = j
    BY <2>1, <2>8, <2>9
  <2>11. \A i \in 1..Len(timers) - 1 : rest[i] # event
    BY <2>1, <2>8, <2>9
  <2> QED
    BY <2>2, <2>7, <2>10, <2>11 DEF IsInjective
<1> QED
  BY <1>1, <1>2

(* Arming a debounce timer replaces the one of the same event.              *)
LEMMA ArmedType ==
    ASSUME timers \in Seq(Event), IsInjective(timers), NEW event \in Event
    PROVE  Armed(event) \in Seq(Event) /\ IsInjective(Armed(event))
<1> DEFINE c == ClearedOf(event)
<1>1. /\ c \in Seq(Event) /\ IsInjective(c)
      /\ \A i \in DOMAIN c : c[i] # event
  BY ClearedType
<1> HIDE DEF c
<1>2. Append(c, event) \in Seq(Event) /\ Len(Append(c, event)) = Len(c) + 1
  BY <1>1
<1>3. \A i \in 1..Len(c) + 1 :
        Append(c, event)[i] = IF i <= Len(c) THEN c[i] ELSE event
  BY <1>1
<1>4. \A i, j \in 1..Len(c) : c[i] = c[j] => i = j
  BY <1>1 DEF IsInjective
<1>5. \A i, j \in 1..Len(c) + 1 :
        Append(c, event)[i] = Append(c, event)[j] => i = j
  BY <1>1, <1>3, <1>4
<1> QED
  BY <1>2, <1>5 DEF Armed, IsInjective, c

(* An event of the watcher leaves one timer per file and type.              *)
LEMMA ReportKeeps ==
    ASSUME ServerInv, NEW f \in Files, NEW type \in {"add", "change", "unlink"},
           Report(f, type)
    PROVE  /\ timers' \in Seq(Event) /\ IsInjective(timers')
           /\ missed' \in BOOLEAN
<1>1. <<f, type>> \in Event
  BY DEF Event
<1>2. Armed(<<f, type>>) \in Seq(Event) /\ IsInjective(Armed(<<f, type>>))
  BY <1>1, ArmedType DEF ServerInv
<1>3. timers' = timers \/ timers' = Armed(<<f, type>>)
  BY DEF Report
<1>4. missed' \in BOOLEAN
  BY DEF Report, ServerInv
<1> QED
  BY <1>2, <1>3, <1>4 DEF ServerInv

(* A timer that fires hands its event over to the mutex.                    *)
LEMMA TimerFiresKeeps ==
    ASSUME ServerInv, TimerFires
    PROVE  /\ timers' \in Seq(Event) /\ IsInjective(timers')
           /\ mutex' \in Seq(Event)
<1>1. timers # <<>> /\ timers \in Seq(Event) /\ IsInjective(timers)
  BY DEF TimerFires, ServerInv
<1>2. /\ Tail(timers) \in Seq(Event) /\ Len(Tail(timers)) = Len(timers) - 1
      /\ \A i \in 1..Len(timers) - 1 : Tail(timers)[i] = timers[i + 1]
      /\ Head(timers) \in Event
  BY <1>1
<1>3. \A i, j \in 1..Len(timers) : timers[i] = timers[j] => i = j
  BY <1>1 DEF IsInjective
<1>4. \A i, j \in 1..Len(timers) - 1 : Tail(timers)[i] = Tail(timers)[j] => i = j
  BY <1>1, <1>2, <1>3
<1>5. IsInjective(Tail(timers))
  BY <1>1, <1>2, <1>4 DEF IsInjective
<1>6. Append(mutex, Head(timers)) \in Seq(Event)
  BY <1>2 DEF ServerInv
<1> QED
  BY <1>2, <1>5, <1>6 DEF TimerFires
-----------------------------------------------------------------------------
(* One lemma per action.                                                    *)

(* A change on disk has a version within the bound.                         *)
LEMMA WriteKeeps ==
    ASSUME IndexInv, NEW f \in Files, NEW imports \in SUBSET Files,
           Write(f, imports)
    PROVE  IndexInv'
<1>1. StoreInv'
  BY UnchangedStoreKeeps DEF IndexInv, Write, store, extraction
<1>2. writes + 1 \in Versions /\ writes + 1 \in 0..MaxWrites
  BY ConstantsAssumption DEF IndexInv, ServerInv, Write, Versions
<1>3. disk' \in [Files -> Content \cup {Missing}]
  BY <1>2 DEF IndexInv, ServerInv, Write, Content
<1>4. \E type \in {"add", "change", "unlink"} : Report(f, type)
  BY DEF Write
<1>5. timers' \in Seq(Event) /\ IsInjective(timers') /\ missed' \in BOOLEAN
  BY <1>4, ReportKeeps DEF IndexInv
<1> QED
  BY <1>1, <1>2, <1>3, <1>5 DEF IndexInv, ServerInv, Write

(* A deletion on disk keeps the invariant.                                  *)
LEMMA DeleteKeeps ==
    ASSUME IndexInv, NEW f \in Files, Delete(f)
    PROVE  IndexInv'
<1>1. StoreInv'
  BY UnchangedStoreKeeps DEF IndexInv, Delete, store, extraction
<1>2. writes + 1 \in 0..MaxWrites
  BY ConstantsAssumption DEF IndexInv, ServerInv, Delete
<1>3. disk' \in [Files -> Content \cup {Missing}]
  BY DEF IndexInv, ServerInv, Delete
<1>4. timers' \in Seq(Event) /\ IsInjective(timers') /\ missed' \in BOOLEAN
  BY ReportKeeps DEF IndexInv, Delete
<1> QED
  BY <1>1, <1>2, <1>3, <1>4 DEF IndexInv, ServerInv, Delete

(* A debounce timer that fires keeps the invariant.                         *)
LEMMA TimerKeeps ==
    ASSUME IndexInv, TimerFires
    PROVE  IndexInv'
<1>1. StoreInv'
  BY UnchangedStoreKeeps DEF IndexInv, TimerFires, store, extraction
<1>2. timers' \in Seq(Event) /\ IsInjective(timers') /\ mutex' \in Seq(Event)
  BY TimerFiresKeeps DEF IndexInv
<1> QED
  BY <1>1, <1>2 DEF IndexInv, ServerInv, TimerFires, history

(* What a handler holds after its read.                                     *)
LEMMA ReadType ==
    ASSUME IndexInv, NEW f \in Files, NEW w \in {Adding(f), Updating(f)}
    PROVE  w \in Work /\ (w.parsed.ok => w.parsed.version \in Versions)
<1>1. /\ Parse(f) \in Parsed
      /\ Parse(f).ok => Parse(f).version \in Versions
  BY ParseType DEF IndexInv, ServerInv
<1>2. Mtime(f, NoMtime) \in Versions \cup {Missing, NoMtime}
  BY MtimeType DEF IndexInv, ServerInv
<1>3. rows[f] \in Versions \cup {Missing, NoMtime}
  BY DEF IndexInv, StoreInv
<1>4. Targets(f) \subseteq Files
  BY DEF Targets
<1>5. CASE w = Adding(f)
  BY <1>1, <1>2, <1>5 DEF Adding, Work
<1>6. CASE w = Updating(f)
  BY <1>1, <1>3, <1>4, <1>6 DEF Updating, Work
<1> QED
  BY <1>5, <1>6

(* A handler's reads keep the invariant.                                    *)
LEMMA BeginHandlerKeeps ==
    ASSUME IndexInv, BeginHandler
    PROVE  IndexInv'
<1> DEFINE f == Head(mutex)[1]
           type == Head(mutex)[2]
<1>1. /\ mutex \in Seq(Event) /\ mutex # <<>>
      /\ Head(mutex) \in Event /\ Tail(mutex) \in Seq(Event)
  BY DEF IndexInv, ServerInv, BeginHandler
<1>2. f \in Files
  BY <1>1 DEF Event
<1>3. Handle(f, type) /\ mutex' = Tail(mutex) /\ communities' = communities
  BY DEF BeginHandler
<1> HIDE DEF f, type
<1>4. StoreInv'
  <2>1. CASE removeFileNode(f)
    BY <1>2, <1>3, <2>1, RemovalKeeps DEF IndexInv
  <2>2. CASE UNCHANGED store
    BY <1>3, <2>2, UnchangedStoreKeeps DEF IndexInv
  <2>3. CASE upsertFile(f, NoMtime) /\ UNCHANGED extraction
    <3>1. rows' \in RowType
      BY <1>2, <2>3, UpsertType DEF IndexInv
    <3> QED
      BY <1>3, <2>3, <3>1, RowWriteKeeps DEF IndexInv
  <2>4. CASE UNCHANGED <<rows, robbed, extraction>>
    BY <1>3, <2>4, UnchangedStoreKeeps DEF IndexInv, store, extraction
  <2> QED
    BY <1>3, <2>1, <2>2, <2>3, <2>4 DEF Handle
<1>5. work' = work \/ work' = Adding(f) \/ work' = Updating(f)
  BY <1>3 DEF Handle
<1>6. /\ work' \in Work \cup {Idle}
      /\ work' # Idle /\ work'.parsed.ok => work'.parsed.version \in Versions
  BY <1>2, <1>5, ReadType DEF IndexInv, ServerInv
<1> QED
  BY <1>1, <1>3, <1>4, <1>6 DEF IndexInv, ServerInv, BeginHandler, history

(* A handler's writes keep the invariant, stale reads included.             *)
LEMMA EndHandlerKeeps ==
    ASSUME IndexInv, EndHandler
    PROVE  IndexInv'
<1>1. /\ work \in Work
      /\ work.parsed.ok => work.parsed.version \in Versions
  BY DEF IndexInv, ServerInv, EndHandler
<1>2. /\ work.file \in Files /\ work.parsed \in Parsed
      /\ work.mtime \in Versions \cup {Missing, NoMtime}
  BY <1>1 DEF Work
<1>3. Mtime(work.file, work.mtime) \in Versions \cup {Missing, NoMtime}
  BY <1>2, MtimeType DEF IndexInv, ServerInv
<1>4. StoreInv'
  <2>1. CASE Added(work.file, work.parsed, work.mtime)
    BY <1>1, <1>2, <2>1, AdditionKeeps DEF IndexInv, EndHandler
  <2>2. CASE Updated(work.file, work.parsed, work.deps, Mtime(work.file, work.mtime))
    BY <1>1, <1>2, <1>3, <2>2, UpdateKeeps DEF IndexInv, EndHandler
  <2> QED
    BY <2>1, <2>2 DEF EndHandler
<1> QED
  BY <1>4 DEF IndexInv, ServerInv, EndHandler, history
-----------------------------------------------------------------------------
(* exclude_and_remove keeps the invariant.                                  *)
LEMMA ExcludeKeeps ==
    ASSUME IndexInv, NEW f \in Files, ExcludeAndRemove(f)
    PROVE  IndexInv'
<1>1. StoreInv'
  BY RemovalKeeps DEF IndexInv, ExcludeAndRemove
<1>2. excluded' \subseteq Files
  BY ConstantsAssumption DEF ExcludeAndRemove, SameName, IndexInv, ServerInv
<1> QED
  BY <1>1, <1>2 DEF IndexInv, ServerInv, ExcludeAndRemove, queues, history

(* A freshness check only writes an mtime.                                  *)
LEMMA CheckKeeps ==
    ASSUME IndexInv, NEW f \in Files, CheckFileFreshness(f)
    PROVE  IndexInv'
<1>1. disk[f] \in Content
  BY DEF CheckFileFreshness, Outdated, Present, IndexInv, ServerInv
<1>2. rows' \in RowType
  BY <1>1 DEF CheckFileFreshness, upsertFile, IndexInv, StoreInv, RowType, Content
<1>3. StoreInv'
  BY <1>2, RowWriteKeeps DEF IndexInv, CheckFileFreshness
<1> QED
  BY <1>3 DEF IndexInv, ServerInv, CheckFileFreshness, queues, history

(* The flag is cleared only together with communities of every edge, or     *)
(* when there is no edge.                                                   *)
LEMMA GetCommunitiesKeeps ==
    ASSUME IndexInv, GetCommunities
    PROVE  IndexInv'
<1>1. edges' \subseteq communities'
  BY DEF GetCommunities
<1>2. communities' \subseteq Files \X Files
  BY DEF GetCommunities, IndexInv, ServerInv, StoreInv
<1>3. StoreInv'
  BY <1>1 DEF IndexInv, StoreInv, GetCommunities, NoGhostCallers, EveryEdgeSeen
<1> QED
  BY <1>2, <1>3 DEF IndexInv, ServerInv, GetCommunities, queues, history

(* The start of the server keeps the invariant.                             *)
LEMMA StartKeeps ==
    ASSUME IndexInv, Start
    PROVE  IndexInv'
<1>1. StoreInv'
  BY PurgeKeeps DEF IndexInv, Start
<1> QED
  BY <1>1 DEF IndexInv, ServerInv, Start, queues, history

(* Steps of the start that leave the store alone.                           *)
LEMMA PhaseKeeps ==
    ASSUME IndexInv, UseCache \/ Scanned \/ IntegrityCheck \/ Ready
    PROVE  IndexInv'
<1>1. UNCHANGED <<disk, store, excluded, communities, queues, history>>
  BY DEF UseCache, Scanned, IntegrityCheck, Ready
<1>2. StoreInv'
  BY <1>1, UnchangedStoreKeeps DEF IndexInv
<1>3. /\ phase' \in {"down", "purged", "scanning", "built", "sweeping", "up"}
      /\ todo' \subseteq {"scan", "stale", "missing", "new"} \X Files
  BY DEF UseCache, Scanned, IntegrityCheck, Ready, IndexInv, ServerInv
<1> QED
  BY <1>1, <1>2, <1>3 DEF IndexInv, ServerInv, queues, history

(* buildFileTree's purge and rows keep the invariant.                       *)
LEMMA RescanKeeps ==
    ASSUME IndexInv, Rescan
    PROVE  IndexInv'
<1>1. \A f \in Files : Indexable(f) => disk[f].version \in Versions
  BY DEF Indexable, Present, IndexInv, ServerInv, Content
<1>2. rows' \in RowType
  BY <1>1 DEF Rescan, RowType, IndexInv, StoreInv
<1>3. StoreInv'
  BY <1>2, RowWriteKeeps DEF IndexInv, Rescan
<1>4. todo' \subseteq {"scan", "stale", "missing", "new"} \X Files
  BY DEF Rescan
<1> QED
  BY <1>3, <1>4 DEF IndexInv, ServerInv, Rescan, queues, history

(* The extraction of one file in Pass 2 keeps the invariant.                *)
LEMMA ScanFileKeeps ==
    ASSUME IndexInv, NEW f \in Files, ScanFile(f)
    PROVE  IndexInv'
<1>1. /\ Parse(f) \in Parsed
      /\ Parse(f).ok => Parse(f).version \in Versions
  BY ParseType DEF IndexInv, ServerInv
<1>2. StoreInv'
  <2>1. CASE Present(f) /\ ~Unchanged(f)
    <3>1. Parse(f).ok
      BY <2>1 DEF Parse
    <3>2. rows' \in RowType
      BY <2>1 DEF ScanFile, IndexInv, StoreInv, RowType
    <3> QED
      BY <1>1, <2>1, <3>1, <3>2, ExtractionKeeps DEF IndexInv, ScanFile
  <2>2. CASE ~(Present(f) /\ ~Unchanged(f))
    BY <2>2, UnchangedStoreKeeps DEF IndexInv, ScanFile
  <2> QED
    BY <2>1, <2>2
<1>3. todo' \subseteq {"scan", "stale", "missing", "new"} \X Files
  BY DEF ScanFile, IndexInv, ServerInv
<1> QED
  BY <1>2, <1>3 DEF IndexInv, ServerInv, ScanFile, queues, history

(* Every kind of repair of the startup sweep keeps the invariant.           *)
LEMMA HealKeeps ==
    ASSUME IndexInv, Heal
    PROVE  IndexInv'
<1> PICK f \in Files : HealStale(f) \/ HealMissing(f) \/ HealNew(f)
  BY DEF Heal
<1>1. /\ Parse(f) \in Parsed
      /\ Parse(f).ok => Parse(f).version \in Versions
  BY ParseType DEF IndexInv, ServerInv
<1>2. rows[f] \in Versions \cup {Missing, NoMtime}
  BY DEF IndexInv, StoreInv
<1>3. /\ Mtime(f, rows[f]) \in Versions \cup {Missing, NoMtime}
      /\ Mtime(f, NoMtime) \in Versions \cup {Missing, NoMtime}
  BY <1>2, MtimeType DEF IndexInv, ServerInv
<1>4. communities' = communities
  BY DEF Heal
<1>5. StoreInv'
  <2>1. CASE HealStale(f)
    BY <1>1, <1>3, <1>4, <2>1, UpdateKeeps DEF IndexInv, HealStale
  <2>2. CASE HealMissing(f)
    BY <1>4, <2>2, RemovalKeeps DEF IndexInv, HealMissing
  <2>3. CASE HealNew(f)
    BY <1>1, <1>3, <1>4, <2>3, AdditionKeeps DEF IndexInv, HealNew
  <2> QED
    BY <2>1, <2>2, <2>3
<1>6. todo' \subseteq todo
  BY DEF HealStale, HealMissing, HealNew
<1> QED
  BY <1>5, <1>6 DEF IndexInv, ServerInv, Heal, queues, history

(* An end of the process loses the queues and nothing else.                 *)
LEMMA EndedKeeps ==
    ASSUME IndexInv, StoreInv', Ended
    PROVE  IndexInv'
<1>1. stops + 1 \in 0..MaxStops
  BY ConstantsAssumption DEF IndexInv, ServerInv, Ended
<1>2. <<>> \in Seq(Event) /\ IsInjective(<<>>)
  BY DEF IsInjective
<1>3. timers' = <<>> /\ mutex' = <<>> /\ work' = Idle
  BY DEF Ended
<1> QED
  BY <1>1, <1>2, <1>3 DEF IndexInv, ServerInv, Ended

(* A stop keeps the database.                                               *)
LEMMA StopKeeps ==
    ASSUME IndexInv, Stop
    PROVE  IndexInv'
<1>1. StoreInv'
  BY UnchangedStoreKeeps DEF IndexInv, Stop, Ended
<1> QED
  BY <1>1, EndedKeeps DEF Stop

(* A kill between the row and the extraction leaves one row written.        *)
LEMMA KillInWriteKeeps ==
    ASSUME IndexInv, KillInWrite
    PROVE  IndexInv'
<1>1. PICK f \in Files, mtime \in Versions \cup {Missing, NoMtime} :
        upsertFile(f, mtime)
  BY DEF KillInWrite
<1>2. rows' \in RowType
  BY <1>1, UpsertType DEF IndexInv
<1>3. StoreInv'
  BY <1>2, RowWriteKeeps DEF IndexInv, KillInWrite, Ended
<1> QED
  BY <1>3, EndedKeeps DEF KillInWrite
-----------------------------------------------------------------------------
(* The empty index satisfies the invariant.                                 *)
LEMMA InitKeeps == Init => IndexInv
<1> SUFFICES ASSUME Init
             PROVE  IndexInv
  OBVIOUS
<1>1. StoreInv
  BY DEF Init, StoreInv, NoGhostCallers, EveryEdgeSeen
<1>2. disk \in [Files -> Content \cup {Missing}]
  BY ConstantsAssumption DEF Init, Content, Versions
<1>3. <<>> \in Seq(Event) /\ IsInjective(<<>>)
  BY DEF IsInjective
<1>4. 0 \in 0..MaxWrites /\ 0 \in 0..MaxStops
  BY ConstantsAssumption
<1> QED
  BY <1>1, <1>2, <1>3, <1>4 DEF Init, IndexInv, ServerInv

(* Every step keeps the invariant: one case per action of Next.             *)
LEMMA NextKeeps == IndexInv /\ [Next]_vars => IndexInv'
<1> SUFFICES ASSUME IndexInv, [Next]_vars
             PROVE  IndexInv'
  OBVIOUS
<1>1. ASSUME NEW f \in Files, NEW imports \in SUBSET Files, Write(f, imports)
      PROVE  IndexInv'
  BY <1>1, WriteKeeps
<1>2. ASSUME NEW f \in Files, Delete(f)
      PROVE  IndexInv'
  BY <1>2, DeleteKeeps
<1>3. ASSUME NEW f \in Files, ScanFile(f)
      PROVE  IndexInv'
  BY <1>3, ScanFileKeeps
<1>4. ASSUME NEW f \in Files, ExcludeAndRemove(f)
      PROVE  IndexInv'
  BY <1>4, ExcludeKeeps
<1>5. CASE TimerFires
  BY <1>5, TimerKeeps
<1>6. CASE BeginHandler
  BY <1>6, BeginHandlerKeeps
<1>7. CASE EndHandler
  BY <1>7, EndHandlerKeeps
<1>8. CASE GetCommunities
  BY <1>8, GetCommunitiesKeeps
<1>9. CASE Start
  BY <1>9, StartKeeps
<1>10. CASE Rescan
  BY <1>10, RescanKeeps
<1>11. CASE UseCache \/ Scanned \/ IntegrityCheck \/ Ready
  BY <1>11, PhaseKeeps
<1>12. CASE Heal
  BY <1>12, HealKeeps
<1>13. CASE Stop
  BY <1>13, StopKeeps
<1>14. ASSUME NEW f \in Files, CheckFileFreshness(f)
       PROVE  IndexInv'
  BY <1>14, CheckKeeps
<1>15. CASE KillInWrite
  BY <1>15, KillInWriteKeeps
<1>16. CASE UNCHANGED vars
  <2>1. StoreInv'
    BY <1>16, UnchangedStoreKeeps DEF IndexInv, vars
  <2> QED
    BY <1>16, <2>1 DEF vars, queues, history, IndexInv, ServerInv
<1> QED
  BY <1>1, <1>2, <1>3, <1>4, <1>5, <1>6, <1>7, <1>8, <1>9, <1>10, <1>11,
     <1>12, <1>13, <1>14, <1>15, <1>16 DEF Next

(* The inductive invariant holds in every reachable state.                  *)
THEOREM IndexInvariant == Spec => []IndexInv
BY InitKeeps, NextKeeps, PTL DEF Spec

(* No row of symbol_dependencies ever has a caller whose symbol is gone:    *)
(* extractions, removals and the purge find the rows of the old symbols     *)
(* before they delete them, however events, starts and stops interleave.    *)
THEOREM CallersOutliveTheirRows == Spec => []NoGhostCallers
<1>1. IndexInv => NoGhostCallers
  BY DEF IndexInv, StoreInv
<1> QED
  BY <1>1, IndexInvariant, PTL

(* Communities that get_communities serves from the table without           *)
(* recomputing them were computed with every edge the index has.            *)
THEOREM ServedCommunitiesSeeEveryEdge == Spec => []CommunitiesSeeEveryEdge
<1>1. IndexInv => CommunitiesSeeEveryEdge
  BY DEF IndexInv, StoreInv, EveryEdgeSeen, CommunitiesSeeEveryEdge
<1> QED
  BY <1>1, IndexInvariant, PTL

-----------------------------------------------------------------------------
(* Robbed files: a namesake's removal has left no row, symbol or import of  *)
(* theirs, and none comes back before they are written again.               *)

Blank(f) == symbols[f] = Missing /\ \A e \in edges : e[1] # f

RobbedInv ==
    /\ robbed \subseteq Files
    /\ \A f \in robbed : rows[f] = Missing /\ Blank(f) /\ <<"scan", f>> \notin todo
    /\ phase # "scanning" => \A f \in Files : <<"scan", f>> \notin todo

(* A removal takes the row of its file or, when there is none, a namesake's. *)
LEMMA RemovesOne ==
    ASSUME NEW f \in Files, removeFileNode(f)
    PROVE  /\ rows[f] # Missing => deleteFile(f) /\ robbed' = robbed
           /\ rows[f] = Missing =>
                 \/ UNCHANGED store
                 \/ \E g \in Files : g # f /\ deleteFile(g) /\ robbed' = robbed \cup {g}
                                   /\ rows[g] # Missing
<1>1. CASE rows[f] # Missing
  BY <1>1 DEF removeFileNode
<1>2. CASE rows[f] = Missing
  BY <1>2, ConstantsAssumption DEF removeFileNode
<1> QED
  BY <1>1, <1>2

(* What takes rows, symbols and edges away leaves the robbed files robbed.  *)
LEMMA RobbedRemains ==
    ASSUME IndexInv, RobbedInv, robbed' \subseteq robbed,
           \A f \in Files : (rows[f] = Missing => rows'[f] = Missing)
                           /\ (symbols[f] = Missing => symbols'[f] = Missing),
           edges' \subseteq edges, todo' \subseteq todo, phase' = phase \/ todo' = {}
    PROVE  RobbedInv'
<1>1. ASSUME NEW f \in robbed' PROVE rows'[f] = Missing /\ Blank(f)' /\ <<"scan", f>> \notin todo'
  <2>1. f \in robbed /\ f \in Files
    BY <1>1 DEF RobbedInv
  <2> QED
    BY <2>1 DEF RobbedInv, Blank
<1>2. phase' # "scanning" => \A f \in Files : <<"scan", f>> \notin todo'
  BY DEF RobbedInv
<1> QED
  BY <1>1, <1>2 DEF RobbedInv

(* What writes one file takes it off the robbed ones.                       *)
LEMMA RobbedWritten ==
    ASSUME IndexInv, RobbedInv, NEW f \in Files, NEW mtime, upsertFile(f, mtime),
           \A e \in edges' : e[1] = f \/ e \in edges,
           \A g \in Files : g # f => symbols'[g] = symbols[g],
           todo' \subseteq todo, phase' = phase \/ todo' = {}
    PROVE  RobbedInv'
<1>1. robbed' = robbed \ {f} /\ \A g \in Files : g # f => rows'[g] = rows[g]
  BY DEF upsertFile, IndexInv, StoreInv
<1>2. ASSUME NEW g \in robbed' PROVE rows'[g] = Missing /\ Blank(g)' /\ <<"scan", g>> \notin todo'
  BY <1>1, <1>2 DEF RobbedInv, Blank
<1> QED
  BY <1>1, <1>2 DEF RobbedInv

LEMMA RobbedRemoved ==
    ASSUME IndexInv, RobbedInv, NEW f \in Files, removeFileNode(f), phase # "scanning",
           todo' \subseteq todo, phase' = phase
    PROVE  RobbedInv'
<1>1. ASSUME NEW g \in Files, deleteFile(g), robbed' \subseteq robbed \cup {g}
      PROVE  RobbedInv'
  <2>1. /\ rows' = [rows EXCEPT ![g] = Missing] /\ symbols' = [symbols EXCEPT ![g] = Missing]
        /\ edges' = {e \in edges : e[1] # g /\ e[2] # g}
    BY <1>1 DEF deleteFile
  <2>2. rows'[g] = Missing /\ Blank(g)'
    BY <2>1 DEF Blank, IndexInv, StoreInv
  <2>3. \A h \in Files : rows[h] = Missing /\ Blank(h) => rows'[h] = Missing /\ Blank(h)'
    BY <2>1 DEF Blank, IndexInv, StoreInv
  <2> QED
    BY <1>1, <2>2, <2>3 DEF RobbedInv
<1>2. CASE UNCHANGED store
  BY <1>2, RobbedRemains DEF store, extraction
<1> QED
  BY <1>1, <1>2, RemovesOne

(* The extraction of what was read, with or without a failure.              *)
LEMMA ExtractionRobs ==
    ASSUME IndexInv, RobbedInv, NEW f \in Files, NEW parsed, NEW deps, NEW mtime,
           Added(f, parsed, mtime) \/ Updated(f, parsed, deps, mtime),
           todo' \subseteq todo, phase' = phase \/ todo' = {}
    PROVE  RobbedInv'
<1>1. upsertFile(f, mtime)
  BY DEF Added, Updated
<1>2. \A e \in edges' : e[1] = f \/ e \in edges
  BY DEF Added, Updated, setEdges, setEdgesAndSymbols, EdgesFrom, extraction
<1>3. \A g \in Files : g # f => symbols'[g] = symbols[g]
  BY DEF Added, Updated, setEdges, setEdgesAndSymbols, extraction, IndexInv, StoreInv
<1> QED
  BY <1>1, <1>2, <1>3, RobbedWritten

LEMMA RobbedKeeps == IndexInv /\ RobbedInv /\ [Next]_vars => RobbedInv'
<1> SUFFICES ASSUME IndexInv, RobbedInv, [Next]_vars
             PROVE  RobbedInv'
  OBVIOUS
<1>1. ASSUME UNCHANGED store, todo' \subseteq todo, phase' = phase \/ todo' = {}
      PROVE  RobbedInv'
  BY <1>1, RobbedRemains DEF store, extraction
<1>2. ASSUME NEW f \in Files, Delete(f) \/ \E imports \in SUBSET Files : Write(f, imports)
      PROVE  RobbedInv'
  BY <1>1, <1>2 DEF Delete, Write
<1>3. ASSUME NEW f \in Files, ScanFile(f)
      PROVE  RobbedInv'
  <2>1. /\ phase' = phase /\ phase = "scanning" /\ todo' \subseteq todo
        /\ rows' = rows /\ robbed' = robbed /\ <<"scan", f>> \in todo
    BY <1>3 DEF ScanFile, store
  <2>2. /\ \A e \in edges' : e[1] = f \/ e \in edges
        /\ \A g \in Files : g # f => symbols'[g] = symbols[g]
    BY <1>3 DEF ScanFile, store, extraction, setEdgesAndSymbols, EdgesFrom, IndexInv, StoreInv
  <2> QED
    BY <2>1, <2>2 DEF RobbedInv, Blank
<1>4. ASSUME NEW f \in Files, ExcludeAndRemove(f)
      PROVE  RobbedInv'
  BY <1>4, RobbedRemoved DEF ExcludeAndRemove
<1>5. CASE TimerFires \/ Scanned \/ Ready \/ Stop \/ UseCache \/ UNCHANGED vars
  <2>1. \/ UNCHANGED store /\ todo' \subseteq todo /\ (phase' = phase \/ todo' = {})
        \/ UNCHANGED store /\ todo' = todo /\ phase \in {"purged", "sweeping"}
    <3>1. CASE TimerFires
      BY <3>1 DEF TimerFires, store, extraction
    <3>2. CASE Scanned \/ Ready
      BY <3>2 DEF Scanned, Ready, store, extraction
    <3>3. CASE Stop
      BY <3>3 DEF Stop, Ended
    <3>4. CASE UseCache
      BY <3>4 DEF UseCache, store, extraction
    <3>5. CASE UNCHANGED vars
      BY <3>5 DEF vars, store, extraction
    <3> QED
      BY <1>5, <3>1, <3>2, <3>3, <3>4, <3>5
  <2>2. ASSUME UNCHANGED store, todo' = todo, phase \in {"purged", "sweeping"}
        PROVE  RobbedInv'
    BY <2>2 DEF RobbedInv, Blank, store, extraction
  <2> QED
    BY <1>1, <2>1, <2>2
<1>6. CASE BeginHandler
  <2> PICK f, type : f = Head(mutex)[1] /\ type = Head(mutex)[2]
    OBVIOUS
  <2>1. f \in Files
    <3>1. Head(mutex) \in Event
      BY <1>6 DEF IndexInv, ServerInv, BeginHandler
    <3> QED
      BY <3>1 DEF Event
  <2>2. /\ \/ removeFileNode(f) \/ UNCHANGED store
           \/ upsertFile(f, NoMtime) /\ UNCHANGED extraction
        /\ phase = "up" /\ UNCHANGED <<phase, todo>>
    BY <1>6 DEF BeginHandler, Handle, store
  <2>3. CASE upsertFile(f, NoMtime) /\ UNCHANGED extraction
    BY <2>1, <2>2, <2>3, RobbedWritten DEF extraction
  <2> QED
    BY <1>1, <2>1, <2>2, <2>3, RobbedRemoved
<1>7. CASE EndHandler
  <2>1. work.file \in Files
    BY <1>7 DEF EndHandler, IndexInv, ServerInv, Work
  <2> QED
    BY <1>7, <2>1, ExtractionRobs DEF EndHandler
<1>8. CASE GetCommunities
  BY <1>8, RobbedRemains DEF GetCommunities
<1>9. CASE Start
  <2>1. \A f \in Files : (rows[f] = Missing => rows'[f] = Missing)
                        /\ (symbols[f] = Missing => symbols'[f] = Missing)
    BY <1>9 DEF Start, Purge
  <2>2. edges' \subseteq edges
    BY <1>9 DEF Start, Purge
  <2>3. robbed' = robbed /\ todo' = todo /\ phase = "down"
    BY <1>9 DEF Start, Purge
  <2> QED
    BY <2>1, <2>2, <2>3 DEF RobbedInv, Blank
<1>10. CASE Rescan
  <2>1. /\ robbed' = {f \in robbed : ~Indexable(f)} /\ UNCHANGED <<symbols, edges>>
        /\ rows' = [f \in Files |-> IF Indexable(f) THEN disk[f].version ELSE rows[f]]
        /\ todo' = {<<"scan", f>> : f \in {f \in Files : rows'[f] # Missing}}
        /\ phase' = "scanning"
    BY <1>10 DEF Rescan, extraction
  <2>2. ASSUME NEW f \in robbed' PROVE rows'[f] = Missing /\ Blank(f)' /\ <<"scan", f>> \notin todo'
    BY <2>1, <2>2 DEF RobbedInv, Blank
  <2> QED
    BY <2>1, <2>2 DEF RobbedInv
<1>11. CASE IntegrityCheck
  <2>1. UNCHANGED store /\ \A f \in Files : <<"scan", f>> \notin todo'
    BY <1>11 DEF IntegrityCheck
  <2> QED
    BY <2>1 DEF RobbedInv, Blank, store, extraction
<1>12. CASE Heal
  <2>1. PICK f \in Files : HealStale(f) \/ HealMissing(f) \/ HealNew(f)
    BY <1>12 DEF Heal
  <2>2. phase = "sweeping" /\ phase' = phase /\ todo' \subseteq todo
    BY <1>12, <2>1 DEF Heal, HealStale, HealMissing, HealNew
  <2>3. CASE HealMissing(f)
    BY <2>2, <2>3, RobbedRemoved DEF HealMissing
  <2>4. CASE HealStale(f) \/ HealNew(f)
    BY <2>2, <2>4, ExtractionRobs DEF HealStale, HealNew
  <2> QED
    BY <2>1, <2>3, <2>4
<1>13. ASSUME NEW f \in Files, CheckFileFreshness(f)
       PROVE  RobbedInv'
  BY <1>13, RobbedWritten DEF CheckFileFreshness, extraction
<1>14. CASE KillInWrite
  <2>1. PICK f \in Files, mtime \in Versions \cup {NoMtime, Missing} : upsertFile(f, mtime)
    BY <1>14 DEF KillInWrite
  <2>2. todo' = {} /\ UNCHANGED <<edges, symbols>>
    BY <1>14 DEF KillInWrite, Ended, extraction
  <2> QED
    BY <2>1, <2>2, RobbedWritten
<1> QED
  BY <1>2, <1>3, <1>4, <1>5, <1>6, <1>7, <1>8, <1>9, <1>10, <1>11, <1>12, <1>13, <1>14 DEF Next

LEMMA RobbedInit == Init => RobbedInv
BY DEF Init, RobbedInv

(* Every table and queue of the index holds what its declaration says, and  *)
(* debouncing never leaves two timers armed for one file and event type.    *)
THEOREM IndexTypeCorrect == Spec => []TypeOK
<1>1. IndexInv /\ RobbedInv => TypeOK
  BY DEF IndexInv, StoreInv, ServerInv, TypeOK, RobbedInv
<1> QED
  BY <1>1, IndexInvariant, RobbedInit, RobbedKeeps, PTL DEF Spec

-----------------------------------------------------------------------------
(***************************************************************************)
(* The index against the disk: why a server at rest has the rows, symbols  *)
(* and edges of what is on disk.                                           *)
(*                                                                         *)
(* The inductive invariant follows the phases of a server.  While it is    *)
(* up, a file is settled or the last of its waiting events tells what      *)
(* became of it, which depends on how debouncing thins the timers.  While  *)
(* it starts, the scan, the integrity check and the sweep divide the files *)
(* into the settled ones and the ones that a later pass is bound to visit. *)
(* A file that lost its row to the removal of a namesake is settled as it  *)
(* is: blank, until it is written again or a start sweeps it.              *)
(***************************************************************************)

\* What has been reported and not been handled, in the order of its handling.
Waiting == mutex \o timers

\* Event i is the last of its file, the first of it, or follows one of a type.
IsLast(p, i) == \A j \in DOMAIN p : j > i => p[j][1] # p[i][1]
IsFirst(p, i) == \A j \in DOMAIN p : j < i => p[j][1] # p[i][1]
Follows(p, i, types) ==
    \E j \in DOMAIN p : /\ j < i /\ p[j][1] = p[i][1] /\ p[j][2] \in types
                        /\ \A k \in DOMAIN p : j < k /\ k < i => p[k][1] # p[i][1]
NoneOf(p, f) == \A i \in DOMAIN p : p[i][1] # f

HandlerOn(f) == work # Idle /\ work.file = f

\* The index of a file that is on disk: its row, or the handler that writes it.
Extracted(f) ==
    /\ symbols[f] = disk[f].version
    /\ \A e \in edges : e[1] = f => e[2] \in disk[f].imports

Current(f) ==
    IF HandlerOn(f)
    THEN /\ work.parsed.ok /\ work.parsed.version = disk[f].version
         /\ work.parsed.targets \subseteq disk[f].imports
         /\ work.kind = "add" => work.mtime = disk[f].version
    ELSE /\ rows[f] = disk[f].version \/ (stops > 0 /\ rows[f] = NoMtime)
         /\ stops = 0 => Extracted(f)

\* The index of a file that is not.  A removal that finds no row of a robbed file
\* leaves the edges into it.
Gone(f) ==
    /\ ~HandlerOn(f) /\ rows[f] = Missing
    /\ work # Idle => f \notin work.parsed.targets
    /\ stops = 0 => Blank(f) /\ (f \in robbed \/ \A e \in edges : e[2] # f)

Robbed(f) == f \in robbed /\ ~HandlerOn(f)

Settled(f) == IF Present(f) THEN Current(f) \/ Robbed(f) ELSE Gone(f)

\* The last event of a file tells what has become of it, and its handler will
\* not take an addition for done or a removal for one of an unknown file.
LastTells(f, p, i) ==
    \/ p[i][2] = "change" /\ Present(f)
    \/ /\ p[i][2] = "add" /\ Present(f)
       /\ Follows(p, i, {"unlink"}) \/ (IsFirst(p, i) /\ rows[f] = Missing /\ ~HandlerOn(f))
    \/ /\ p[i][2] = "unlink" /\ ~Present(f)
       /\ Follows(p, i, {"add", "change"}) \/ (IsFirst(p, i) /\ (rows[f] # Missing \/ HandlerOn(f) \/ f \in robbed))

Served(f) ==
    \/ NoneOf(Waiting, f) /\ Settled(f)
    \/ \E i \in DOMAIN Waiting : Waiting[i][1] = f /\ IsLast(Waiting, i) /\ LastTells(f, Waiting, i)

\* What the sweep has still to repair.
Swept(f) ==
    /\ <<"stale", f>> \in todo => Present(f)
    /\ <<"missing", f>> \in todo => ~Present(f) /\ rows[f] # Missing
    /\ <<"new", f>> \in todo => Present(f)
    /\ {<<"stale", f>>, <<"missing", f>>, <<"new", f>>} \cap todo = {} => Settled(f)

\* The scan of the first start, before and after it visits a file.
FirstScan(f) ==
    /\ rows[f] # NoMtime
    /\ rows[f] = Missing => Blank(f)
    /\ <<"scan", f>> \in todo => rows[f] # Missing /\ \A e \in edges : e[1] # f
    /\ <<"scan", f>> \notin todo /\ Present(f) /\ rows[f] = disk[f].version => Extracted(f)
    /\ \A e \in edges : e[2] = f => Present(f) \/ rows[f] # Missing

PhaseTells ==
    /\ phase = "up" => \A f \in Files : Served(f)
    /\ phase = "sweeping" => \A f \in Files : Swept(f)
    /\ phase \in {"scanning", "built"} /\ stops = 0 => \A f \in Files : FirstScan(f)
    /\ phase \in {"down", "purged"} /\ stops = 0 => \A f \in Files : rows[f] = Missing /\ Blank(f)

\* Queues and handler are of a server that is up; mtimes are of the past.
Past(mtime) == mtime \in Versions => mtime <= writes

QueuesOfUp ==
    /\ phase # "up" => timers = <<>> /\ mutex = <<>> /\ work = Idle
    /\ phase \in {"down", "purged", "built"} => todo = {}
    /\ work # Idle => work.mtime # Missing /\ Past(work.mtime)
    /\ \A f \in Files : Past(rows[f]) /\ (Present(f) => Past(disk[f].version))

DiskInv == QueuesOfUp /\ RobbedInv /\ (Undisturbed => PhaseTells)

-----------------------------------------------------------------------------
(* The events that are waiting.                                             *)

(* The first event goes, the others keep their order.                       *)
LEMMA TailEvents ==
    ASSUME NEW p \in Seq(Event), p # <<>>
    PROVE  /\ Tail(p) \in Seq(Event)
           /\ \A i \in DOMAIN p : i # 1 => i - 1 \in DOMAIN Tail(p) /\ Tail(p)[i - 1] = p[i]
           /\ \A i \in DOMAIN Tail(p) : i + 1 \in DOMAIN p /\ Tail(p)[i] = p[i + 1]
<1>1. Len(p) \in Nat /\ Len(p) >= 1 /\ DOMAIN p = 1..Len(p)
  OBVIOUS
<1>2. /\ Tail(p) \in Seq(Event) /\ Len(Tail(p)) = Len(p) - 1
      /\ \A i \in 1..Len(p) - 1 : Tail(p)[i] = p[i + 1]
  OBVIOUS
<1>3. DOMAIN Tail(p) = 1..Len(p) - 1
  BY <1>2
<1>4. \A i \in 1..Len(p) : i # 1 => i - 1 \in 1..Len(p) - 1 /\ (i - 1) + 1 = i
  BY <1>1
<1>5. \A i \in 1..Len(p) - 1 : i + 1 \in 1..Len(p)
  BY <1>1
<1> QED
  BY <1>1, <1>2, <1>3, <1>4, <1>5

(* What the last event of a file told it tells without the first one, unless *)
(* it was the first one.                                                    *)
LEMMA TailTells ==
    ASSUME NEW p \in Seq(Event), p # <<>>, NEW i \in DOMAIN p, IsLast(p, i)
    PROVE  /\ i = 1 => NoneOf(Tail(p), p[i][1])
           /\ i # 1 => /\ i - 1 \in DOMAIN Tail(p) /\ Tail(p)[i - 1] = p[i]
                       /\ IsLast(Tail(p), i - 1)
                       /\ \A T : Follows(p, i, T) => \/ Follows(Tail(p), i - 1, T)
                                                     \/ /\ IsFirst(Tail(p), i - 1)
                                                        /\ p[1][1] = p[i][1] /\ p[1][2] \in T
                       /\ IsFirst(p, i) => IsFirst(Tail(p), i - 1) /\ p[1][1] # p[i][1]
<1> DEFINE q == Tail(p)
<1>1. DOMAIN p \subseteq Nat \ {0} /\ 1 \in DOMAIN p /\ DOMAIN q \subseteq Nat \ {0}
  <2>1. p \in Seq(Event) /\ q \in Seq(Event)
    BY TailEvents
  <2>2. DOMAIN p = 1..Len(p) /\ DOMAIN q = 1..Len(q) /\ Len(p) \in Nat /\ Len(q) \in Nat /\ Len(p) # 0
    BY <2>1
  <2> QED
    BY <2>2
<1>2. /\ \A j \in DOMAIN p : j # 1 => j - 1 \in DOMAIN q /\ q[j - 1] = p[j]
      /\ \A j \in DOMAIN q : j + 1 \in DOMAIN p /\ q[j] = p[j + 1]
  BY TailEvents
<1> HIDE DEF q
<1>3. ASSUME i = 1 PROVE NoneOf(q, p[i][1])
  <2>1. ASSUME NEW j \in DOMAIN q PROVE q[j][1] # p[i][1]
    <3>1. j + 1 \in DOMAIN p /\ q[j] = p[j + 1] /\ j + 1 > i
      BY <1>1, <1>2, <1>3
    <3> QED
      BY <3>1 DEF IsLast
  <2> QED
    BY <2>1 DEF NoneOf
<1>4. ASSUME i # 1
      PROVE  i - 1 \in DOMAIN q /\ q[i - 1] = p[i] /\ IsLast(q, i - 1)
  <2>1. i - 1 \in DOMAIN q /\ q[i - 1] = p[i]
    BY <1>2, <1>4
  <2>2. ASSUME NEW j \in DOMAIN q, j > i - 1 PROVE q[j][1] # p[i][1]
    <3>1. j + 1 \in DOMAIN p /\ q[j] = p[j + 1]
      BY <1>2
    <3>2. j + 1 > i
      BY <1>1, <2>2
    <3> QED
      BY <3>1, <3>2 DEF IsLast
  <2> QED
    BY <2>1, <2>2 DEF IsLast
<1>5. ASSUME i # 1, NEW T, Follows(p, i, T)
      PROVE  \/ Follows(q, i - 1, T)
             \/ IsFirst(q, i - 1) /\ p[1][1] = p[i][1] /\ p[1][2] \in T
  <2>1. PICK j \in DOMAIN p : /\ j < i /\ p[j][1] = p[i][1] /\ p[j][2] \in T
                              /\ \A k \in DOMAIN p : j < k /\ k < i => p[k][1] # p[i][1]
    BY <1>5 DEF Follows
  <2>2. i - 1 \in DOMAIN q /\ q[i - 1] = p[i]
    BY <1>4, <1>5
  <2>3. ASSUME NEW k \in DOMAIN q, j < k + 1, k < i - 1 PROVE q[k][1] # p[i][1]
    <3>1. k + 1 \in DOMAIN p /\ q[k] = p[k + 1]
      BY <1>2
    <3>2. k + 1 < i
      BY <1>1, <2>3
    <3> QED
      BY <2>1, <2>3, <3>1, <3>2
  <2>4. CASE j = 1
    <3>1. \A k \in DOMAIN q : k < i - 1 => j < k + 1
      BY <1>1, <2>4
    <3>2. IsFirst(q, i - 1)
      BY <2>2, <2>3, <3>1 DEF IsFirst
    <3> QED
      BY <2>1, <2>4, <3>2
  <2>5. CASE j # 1
    <3>1. j - 1 \in DOMAIN q /\ q[j - 1] = p[j]
      BY <1>2, <2>5
    <3>2. j - 1 < i - 1 /\ \A k \in DOMAIN q : j - 1 < k => j < k + 1
      BY <1>1, <2>1
    <3> QED
      BY <2>1, <2>2, <2>3, <3>1, <3>2 DEF Follows
  <2> QED
    BY <2>4, <2>5
<1>6. ASSUME i # 1, IsFirst(p, i) PROVE IsFirst(q, i - 1) /\ p[1][1] # p[i][1]
  <2>1. 1 < i
    BY <1>1, <1>6
  <2>2. ASSUME NEW j \in DOMAIN q, j < i - 1 PROVE q[j][1] # p[i][1]
    <3>1. j + 1 \in DOMAIN p /\ q[j] = p[j + 1]
      BY <1>2
    <3>2. j + 1 < i
      BY <1>1, <2>2
    <3> QED
      BY <1>6, <3>1, <3>2 DEF IsFirst
  <2> QED
    BY <1>1, <1>4, <1>6, <2>1, <2>2 DEF IsFirst
<1> QED
  BY <1>3, <1>4, <1>5, <1>6 DEF q

\* Sequence r is p without some events e.
Thinner(p, r, e) ==
    \E m \in [DOMAIN r -> DOMAIN p] :
        /\ \A i, j \in DOMAIN r : i < j <=> m[i] < m[j]
        /\ \A i \in DOMAIN r : r[i] = p[m[i]]
        /\ \A k \in DOMAIN p : p[k] # e => \E i \in DOMAIN r : m[i] = k

(* An event that is appended.                                               *)
LEMMA AppendEvents ==
    ASSUME NEW r \in Seq(Event), NEW e \in Event
    PROVE  /\ Append(r, e) \in Seq(Event)
           /\ Len(r) + 1 \in DOMAIN Append(r, e) /\ Append(r, e)[Len(r) + 1] = e
           /\ \A i \in DOMAIN r : i \in DOMAIN Append(r, e) /\ Append(r, e)[i] = r[i] /\ i < Len(r) + 1
           /\ \A i \in DOMAIN Append(r, e) : i \in DOMAIN r \/ i = Len(r) + 1
<1>1. /\ Append(r, e) \in Seq(Event) /\ Len(Append(r, e)) = Len(r) + 1 /\ Len(r) \in Nat
      /\ Append(r, e)[Len(r) + 1] = e
      /\ \A i \in 1..Len(r) : Append(r, e)[i] = r[i]
  OBVIOUS
<1>2. DOMAIN r = 1..Len(r) /\ DOMAIN Append(r, e) = 1..Len(r) + 1
  BY <1>1
<1>3. Len(r) + 1 \in 1..Len(r) + 1 /\ (\A i \in 1..Len(r) : i \in 1..Len(r) + 1 /\ i < Len(r) + 1)
      /\ \A i \in 1..Len(r) + 1 : i \in 1..Len(r) \/ i = Len(r) + 1
  <2>1. Len(r) \in Nat
    OBVIOUS
  <2> QED
    BY <2>1
<1> QED
  BY <1>1, <1>2, <1>3

(* The last event of another file is the last as before.                    *)
LEMMA OthersAsBefore ==
    ASSUME NEW p \in Seq(Event), NEW r \in Seq(Event), NEW e \in Event, Thinner(p, r, e), NEW f, f # e[1]
    PROVE  /\ NoneOf(p, f) => NoneOf(Append(r, e), f)
           /\ \A i \in DOMAIN p : p[i][1] = f /\ IsLast(p, i) =>
                 \E k \in DOMAIN Append(r, e) :
                    /\ Append(r, e)[k] = p[i] /\ IsLast(Append(r, e), k)
                    /\ \A T : Follows(p, i, T) => Follows(Append(r, e), k, T)
                    /\ IsFirst(p, i) => IsFirst(Append(r, e), k)
<1> DEFINE q == Append(r, e)
           n == Len(r) + 1
<1>1. /\ n \in DOMAIN q /\ q[n] = e
      /\ \A i \in DOMAIN r : i \in DOMAIN q /\ q[i] = r[i] /\ i < n
      /\ \A i \in DOMAIN q : i \in DOMAIN r \/ i = n
  BY AppendEvents
<1>2. PICK m \in [DOMAIN r -> DOMAIN p] :
        /\ \A i, j \in DOMAIN r : i < j <=> m[i] < m[j]
        /\ \A i \in DOMAIN r : r[i] = p[m[i]]
        /\ \A k \in DOMAIN p : p[k] # e => \E i \in DOMAIN r : m[i] = k
  BY DEF Thinner
<1> HIDE DEF q, n
<1>3. ASSUME NEW j \in DOMAIN q, q[j][1] = f PROVE j \in DOMAIN r /\ q[j] = p[m[j]] /\ m[j] \in DOMAIN p
  BY <1>1, <1>2, <1>3
<1>4. NoneOf(p, f) => NoneOf(q, f)
  BY <1>3 DEF NoneOf
<1>5. ASSUME NEW i \in DOMAIN p, p[i][1] = f, IsLast(p, i)
      PROVE  \E k \in DOMAIN q : /\ q[k] = p[i] /\ IsLast(q, k)
                                 /\ \A T : Follows(p, i, T) => Follows(q, k, T)
                                 /\ IsFirst(p, i) => IsFirst(q, k)
  <2>1. PICK k \in DOMAIN r : m[k] = i
    BY <1>2, <1>5
  <2>2. k \in DOMAIN q /\ q[k] = p[i]
    BY <1>1, <1>2, <2>1
  <2>3. IsLast(q, k)
    <3>1. ASSUME NEW j \in DOMAIN q, j > k, q[j][1] = f PROVE FALSE
      <4>1. j \in DOMAIN r /\ q[j] = p[m[j]] /\ m[j] \in DOMAIN p
        BY <1>3, <3>1
      <4>2. k < j
        BY <3>1
      <4>3. i < m[j]
        BY <1>2, <2>1, <4>1, <4>2
      <4>4. m[j] > i
        BY <4>3
      <4> QED
        BY <1>5, <3>1, <4>1, <4>4 DEF IsLast
    <3> QED
      BY <1>5, <2>2, <3>1 DEF IsLast
  <2>4. ASSUME NEW T, Follows(p, i, T) PROVE Follows(q, k, T)
    <3>1. PICK j \in DOMAIN p : /\ j < i /\ p[j][1] = f /\ p[j][2] \in T
                                /\ \A h \in DOMAIN p : j < h /\ h < i => p[h][1] # f
      BY <1>5, <2>4 DEF Follows
    <3>2. PICK l \in DOMAIN r : m[l] = j
      BY <1>2, <3>1
    <3>3. l \in DOMAIN q /\ q[l] = p[j] /\ l < k
      BY <1>1, <1>2, <2>1, <3>1, <3>2
    <3>4. ASSUME NEW h \in DOMAIN q, l < h, h < k, q[h][1] = f PROVE FALSE
      <4>1. h \in DOMAIN r /\ q[h] = p[m[h]] /\ m[h] \in DOMAIN p
        BY <1>3, <3>4
      <4>2. j < m[h] /\ m[h] < i
        BY <1>2, <2>1, <3>2, <3>4, <4>1
      <4> QED
        BY <3>1, <3>4, <4>1, <4>2
    <3> QED
      BY <1>5, <2>2, <3>1, <3>3, <3>4 DEF Follows
  <2>5. ASSUME IsFirst(p, i) PROVE IsFirst(q, k)
    <3>1. ASSUME NEW j \in DOMAIN q, j < k, q[j][1] = f PROVE FALSE
      <4>1. j \in DOMAIN r /\ q[j] = p[m[j]] /\ m[j] \in DOMAIN p
        BY <1>3, <3>1
      <4>2. m[j] < i
        BY <1>2, <2>1, <3>1, <4>1
      <4> QED
        BY <1>5, <2>5, <3>1, <4>1, <4>2 DEF IsFirst
    <3> QED
      BY <1>5, <2>2, <3>1 DEF IsFirst
  <2> QED
    BY <2>2, <2>3, <2>4, <2>5
<1> QED
  BY <1>4, <1>5 DEF q

(* The new event is the last of its file, after what was the last.          *)
LEMMA NewIsLast ==
    ASSUME NEW p \in Seq(Event), NEW r \in Seq(Event), NEW e \in Event, Thinner(p, r, e)
    PROVE  \E n \in DOMAIN Append(r, e) :
             /\ Append(r, e)[n] = e /\ IsLast(Append(r, e), n)
             /\ NoneOf(p, e[1]) => IsFirst(Append(r, e), n)
             /\ \A i \in DOMAIN p : \A T : p[i][1] = e[1] /\ IsLast(p, i) /\ p[i] # e /\ p[i][2] \in T
                   => Follows(Append(r, e), n, T)
<1> DEFINE q == Append(r, e)
           n == Len(r) + 1
<1>1. /\ n \in DOMAIN q /\ q[n] = e
      /\ \A i \in DOMAIN r : i \in DOMAIN q /\ q[i] = r[i] /\ i < n
      /\ \A i \in DOMAIN q : i \in DOMAIN r \/ i = n
  BY AppendEvents
<1>2. PICK m \in [DOMAIN r -> DOMAIN p] :
        /\ \A i, j \in DOMAIN r : i < j <=> m[i] < m[j]
        /\ \A i \in DOMAIN r : r[i] = p[m[i]]
        /\ \A k \in DOMAIN p : p[k] # e => \E i \in DOMAIN r : m[i] = k
  BY DEF Thinner
<1>0. n \in Nat /\ DOMAIN r \subseteq Nat /\ DOMAIN p \subseteq Nat
  <2>1. Len(r) \in Nat /\ DOMAIN r = 1..Len(r) /\ DOMAIN p = 1..Len(p)
    OBVIOUS
  <2> QED
    BY <2>1
<1> HIDE DEF q, n
<1>3. IsLast(q, n)
  <2>1. ASSUME NEW j \in DOMAIN q PROVE ~(j > n)
    <3>1. j \in Nat /\ (j < n \/ j = n)
      BY <1>0, <1>1
    <3> QED
      BY <1>0, <3>1
  <2> QED
    BY <2>1 DEF IsLast
<1>4. ASSUME NoneOf(p, e[1]) PROVE IsFirst(q, n)
  <2>1. ASSUME NEW j \in DOMAIN q, j < n PROVE q[j][1] # e[1]
    <3>1. j \in DOMAIN r
      BY <1>0, <1>1, <2>1
    <3> QED
      BY <1>1, <1>2, <1>4, <3>1 DEF NoneOf
  <2> QED
    BY <1>1, <2>1 DEF IsFirst
<1>5. ASSUME NEW i \in DOMAIN p, NEW T, p[i][1] = e[1], IsLast(p, i), p[i] # e, p[i][2] \in T
      PROVE  Follows(q, n, T)
  <2>1. PICK k \in DOMAIN r : m[k] = i
    BY <1>2, <1>5
  <2>2. k \in DOMAIN q /\ q[k] = p[i] /\ k < n
    BY <1>1, <1>2, <2>1
  <2>3. ASSUME NEW h \in DOMAIN q, k < h, h < n PROVE q[h][1] # e[1]
    <3>1. h \in DOMAIN r
      BY <1>0, <1>1, <2>3
    <3>2. i < m[h] /\ m[h] \in DOMAIN p /\ q[h] = p[m[h]]
      BY <1>1, <1>2, <2>1, <2>3, <3>1
    <3>3. m[h] > i
      BY <3>2
    <3> QED
      BY <1>5, <3>2, <3>3 DEF IsLast
  <2> QED
    BY <1>1, <1>5, <2>2, <2>3 DEF Follows
<1> QED
  BY <1>1, <1>3, <1>4, <1>5 DEF q

(* Clearing the timer of an event only drops events equal to it.            *)
LEMMA ClearedThinner ==
    ASSUME timers \in Seq(Event), IsInjective(timers), NEW e \in Event
    PROVE  Thinner(timers, ClearedOf(e), e)
<1>d. DOMAIN timers = 1..Len(timers) /\ Len(timers) \in Nat
  OBVIOUS
<1>1. CASE \A i \in DOMAIN timers : timers[i] # e
  <2>1. ClearedOf(e) = timers
    BY <1>1 DEF ClearedOf
  <2>2. Thinner(timers, timers, e)
    <3> DEFINE m == [i \in DOMAIN timers |-> i]
    <3>1. m \in [DOMAIN timers -> DOMAIN timers] /\ \A i \in DOMAIN timers : m[i] = i
      OBVIOUS
    <3> HIDE DEF m
    <3> QED
      BY <3>1 DEF Thinner
  <2> QED
    BY <2>1, <2>2
<1>2. CASE \E i \in DOMAIN timers : timers[i] = e
  <2> DEFINE k == CHOOSE i \in DOMAIN timers : timers[i] = e
             n == Len(timers)
             before == SubSeq(timers, 1, k - 1)
             after == SubSeq(timers, k + 1, Len(timers))
             rest == before \o after
  <2>1. k \in 1..n /\ timers[k] = e /\ n \in Nat
    BY <1>2
  <2>2. ClearedOf(e) = rest
    BY <1>2 DEF ClearedOf, RemoveAt
  <2> HIDE DEF k
  <2>3. before \in Seq(Event) /\ after \in Seq(Event)
    BY <2>1
  <2>4. Len(before) = k - 1 /\ Len(after) = n - k
    BY <2>1
  <2>5. \A i \in 1..k - 1 : before[i] = timers[i]
    BY <2>1
  <2>6. \A i \in 1..n - k : after[i] = timers[k + i]
    BY <2>1
  <2> HIDE DEF before, after
  <2>7. rest \in Seq(Event) /\ Len(rest) = n - 1
    BY <2>1, <2>3, <2>4
  <2>8. \A i \in 1..n - 1 : rest[i] = IF i < k THEN timers[i] ELSE timers[i + 1]
    <3> SUFFICES ASSUME NEW i \in 1..n - 1
                 PROVE  rest[i] = IF i < k THEN timers[i] ELSE timers[i + 1]
      OBVIOUS
    <3>1. rest[i] = IF i <= k - 1 THEN before[i] ELSE after[i - (k - 1)]
      BY <2>1, <2>3, <2>4
    <3>2. CASE i < k
      BY <2>1, <2>5, <3>1, <3>2
    <3>3. CASE ~(i < k)
      <4>1. i - (k - 1) \in 1..n - k /\ k + (i - (k - 1)) = i + 1
        BY <2>1, <3>3
      <4> QED
        BY <2>1, <2>6, <3>1, <3>3, <4>1
    <3> QED
      BY <3>2, <3>3
  <2> HIDE DEF rest
  <2>9. DOMAIN rest = 1..n - 1
    BY <2>7
  <2> DEFINE m == [i \in 1..n - 1 |-> IF i < k THEN i ELSE i + 1]
  <2> HIDE DEF n
  <2>10. m \in [1..n - 1 -> 1..n]
    <3>1. \A i \in 1..n - 1 : i \in 1..n /\ i + 1 \in 1..n
      BY <2>1
    <3> QED
      BY <3>1
  <2>11. \A i \in 1..n - 1 : m[i] = IF i < k THEN i ELSE i + 1
    OBVIOUS
  <2> HIDE DEF m
  <2>12. \A i, j \in 1..n - 1 : i < j <=> m[i] < m[j]
    BY <2>1, <2>11
  <2>13. \A i \in 1..n - 1 : rest[i] = timers[m[i]]
    BY <2>8, <2>11
  <2>14. ASSUME NEW a \in 1..n, timers[a] # e PROVE \E i \in 1..n - 1 : m[i] = a
    <3>1. a # k
      BY <2>1, <2>14
    <3>2. CASE a < k
      <4>1. a \in 1..n - 1
        BY <2>1, <3>2
      <4> QED
        BY <2>11, <3>2, <4>1
    <3>3. CASE ~(a < k)
      <4>1. a - 1 \in 1..n - 1 /\ ~(a - 1 < k) /\ (a - 1) + 1 = a
        BY <2>1, <3>1, <3>3
      <4> QED
        BY <2>11, <4>1
    <3> QED
      BY <3>2, <3>3
  <2>15. DOMAIN timers = 1..n
    BY DEF n
  <2> QED
    <3>1. Thinner(timers, rest, e)
      <4> DEFINE P == 1..n
                 R == 1..n - 1
      <4>1. \A a \in P : timers[a] # e => \E i \in R : m[i] = a
        BY <2>14
      <4>2. /\ DOMAIN timers = P /\ DOMAIN rest = R /\ m \in [R -> P]
            /\ \A i, j \in R : i < j <=> m[i] < m[j]
            /\ \A i \in R : rest[i] = timers[m[i]]
        BY <2>9, <2>10, <2>12, <2>13, <2>15
      <4> HIDE DEF P, R
      <4> QED
        BY <4>1, <4>2 DEF Thinner
    <3> QED
      BY <2>2, <3>1
<1> QED
  BY <1>1, <1>2

(* Elements of a concatenation.                                             *)
LEMMA Joined ==
    ASSUME NEW u \in Seq(Event), NEW t \in Seq(Event)
    PROVE  /\ u \o t \in Seq(Event) /\ DOMAIN (u \o t) = 1..Len(u) + Len(t)
           /\ \A i \in 1..Len(u) : (u \o t)[i] = u[i]
           /\ \A i \in 1..Len(t) : (u \o t)[Len(u) + i] = t[i]
<1>1. /\ u \o t \in Seq(Event) /\ Len(u \o t) = Len(u) + Len(t)
      /\ \A i \in 1..Len(u) + Len(t) :
            (u \o t)[i] = IF i <= Len(u) THEN u[i] ELSE t[i - Len(u)]
  BY ConcatProperties
<1>2. Len(u) \in Nat /\ Len(t) \in Nat
  OBVIOUS
<1>3. /\ \A i \in 1..Len(u) : i \in 1..Len(u) + Len(t) /\ i <= Len(u)
      /\ \A i \in 1..Len(t) : Len(u) + i \in 1..Len(u) + Len(t) /\ ~(Len(u) + i <= Len(u)) /\ (Len(u) + i) - Len(u) = i
  BY <1>2
<1> QED
  BY <1>1, <1>3

(* What thins the timers thins the events that wait.                        *)
LEMMA JoinedThinner ==
    ASSUME NEW u \in Seq(Event), NEW t \in Seq(Event), NEW c \in Seq(Event), NEW e, Thinner(t, c, e)
    PROVE  Thinner(u \o t, u \o c, e)
<1> DEFINE n == Len(u)
           a == Len(t)
           b == Len(c)
<1>1. n \in Nat /\ a \in Nat /\ b \in Nat /\ DOMAIN t = 1..a /\ DOMAIN c = 1..b
  OBVIOUS
<1>2. /\ DOMAIN (u \o t) = 1..n + a /\ DOMAIN (u \o c) = 1..n + b
      /\ \A i \in 1..n : (u \o t)[i] = u[i] /\ (u \o c)[i] = u[i]
      /\ \A i \in 1..a : (u \o t)[n + i] = t[i]
      /\ \A i \in 1..b : (u \o c)[n + i] = c[i]
  BY Joined
<1>m. PICK m \in [DOMAIN c -> DOMAIN t] :
        /\ \A i, j \in DOMAIN c : i < j <=> m[i] < m[j]
        /\ \A i \in DOMAIN c : c[i] = t[m[i]]
        /\ \A k \in DOMAIN t : t[k] # e => \E i \in DOMAIN c : m[i] = k
  BY DEF Thinner
<1> HIDE DEF n, a, b
<1>3. /\ m \in [1..b -> 1..a]
      /\ \A i, j \in 1..b : i < j <=> m[i] < m[j]
      /\ \A i \in 1..b : c[i] = t[m[i]]
      /\ \A k \in 1..a : t[k] # e => \E i \in 1..b : m[i] = k
  BY <1>1, <1>m
<1> DEFINE w == [i \in 1..n + b |-> IF i <= n THEN i ELSE n + m[i - n]]
           x == u \o t
           y == u \o c
<1>4. \A i \in 1..n + b : i <= n \/ (~(i <= n) /\ i - n \in 1..b /\ n + (i - n) = i)
  BY <1>1
<1>5. w \in [1..n + b -> 1..n + a]
  <2>1. \A i \in 1..n + b : i <= n => i \in 1..n + a
    BY <1>1
  <2>2. \A j \in 1..b : n + m[j] \in 1..n + a
    <3>1. \A k \in 1..a : n + k \in 1..n + a
      BY <1>1
    <3> QED
      BY <1>3, <3>1
  <2> QED
    BY <1>4, <2>1, <2>2
<1>6. \A i \in 1..n + b : w[i] = IF i <= n THEN i ELSE n + m[i - n]
  OBVIOUS
<1> HIDE DEF w, x, y
<1>7. ASSUME NEW i \in 1..n + b, NEW j \in 1..n + b PROVE i < j <=> w[i] < w[j]
  <2>1. CASE i <= n /\ j <= n
    BY <1>6, <2>1
  <2>2. CASE i <= n /\ ~(j <= n)
    <3>1. j - n \in 1..b
      BY <1>4, <2>2
    <3>2. m[j - n] \in Nat /\ m[j - n] >= 1
      BY <1>1, <1>3, <3>1
    <3> HIDE <1>3
    <3>3. i < j /\ i < n + m[j - n]
      BY <1>1, <2>2, <3>2
    <3> QED
      BY <1>6, <2>2, <3>3
  <2>3. CASE ~(i <= n) /\ j <= n
    <3>1. i - n \in 1..b
      BY <1>4, <2>3
    <3>2. m[i - n] \in Nat /\ m[i - n] >= 1
      BY <1>1, <1>3, <3>1
    <3>3. ~(i < j) /\ ~(n + m[i - n] < j)
      BY <1>1, <2>3, <3>2
    <3> QED
      BY <1>6, <2>3, <3>3
  <2>4. CASE ~(i <= n) /\ ~(j <= n)
    <3>1. i - n \in 1..b /\ j - n \in 1..b
      BY <1>4, <2>4
    <3>2. m[i - n] \in Nat /\ m[j - n] \in Nat
      BY <1>1, <1>3, <3>1
    <3>3. i - n < j - n <=> m[i - n] < m[j - n]
      BY <1>3, <3>1
    <3>4. (i < j <=> i - n < j - n) /\ (n + m[i - n] < n + m[j - n] <=> m[i - n] < m[j - n])
      BY <1>1, <3>2
    <3> QED
      BY <1>6, <2>4, <3>3, <3>4
  <2> QED
    BY <2>1, <2>2, <2>3, <2>4
<1>8. ASSUME NEW i \in 1..n + b PROVE y[i] = x[w[i]]
  <2>1. CASE i <= n
    <3>1. i \in 1..n
      BY <1>1, <2>1
    <3> QED
      BY <1>2, <1>6, <2>1, <3>1 DEF x, y
  <2>2. CASE ~(i <= n)
    <3>1. i - n \in 1..b /\ n + (i - n) = i
      BY <1>4, <2>2
    <3>2. y[i] = c[i - n] /\ x[n + m[i - n]] = t[m[i - n]] /\ c[i - n] = t[m[i - n]]
      BY <1>2, <1>3, <3>1 DEF x, y
    <3> QED
      BY <1>6, <2>2, <3>2
  <2> QED
    BY <2>1, <2>2
<1>9. ASSUME NEW k \in 1..n + a, x[k] # e PROVE \E i \in 1..n + b : w[i] = k
  <2>1. CASE k <= n
    <3>1. k \in 1..n + b
      BY <1>1, <2>1
    <3> QED
      BY <1>6, <2>1, <3>1
  <2>2. CASE ~(k <= n)
    <3>1. k - n \in 1..a /\ n + (k - n) = k
      BY <1>1, <2>2
    <3>2. t[k - n] # e
      BY <1>2, <1>9, <3>1 DEF x
    <3>3. PICK i \in 1..b : m[i] = k - n
      BY <1>3, <3>1, <3>2
    <3>4. n + i \in 1..n + b /\ ~(n + i <= n) /\ (n + i) - n = i
      BY <1>1
    <3>5. w[n + i] = n + m[i]
      BY <1>6, <3>4
    <3> QED
      BY <3>1, <3>3, <3>4, <3>5
  <2> QED
    BY <2>1, <2>2
<1>10. Thinner(x, y, e)
  <2>1. DOMAIN x = 1..n + a /\ DOMAIN y = 1..n + b
    BY <1>2 DEF x, y
  <2> QED
    <3> DEFINE P == 1..n + a
               R == 1..n + b
    <3>1. \A i, j \in R : i < j <=> w[i] < w[j]
      BY <1>7
    <3>2. \A i \in R : y[i] = x[w[i]]
      BY <1>8
    <3>3. \A k \in P : x[k] # e => \E i \in R : w[i] = k
      BY <1>9
    <3>4. DOMAIN x = P /\ DOMAIN y = R /\ w \in [R -> P]
      BY <1>5, <2>1
    <3> HIDE DEF P, R
    <3> QED
      BY <3>1, <3>2, <3>3, <3>4 DEF Thinner
<1> QED
  BY <1>10 DEF x, y

-----------------------------------------------------------------------------
(* What is pending, after each step that changes it.                        *)

(* What waits are events.                                                   *)
LEMMA WaitingType ==
    ASSUME IndexInv
    PROVE  Waiting \in Seq(Event) /\ mutex \in Seq(Event) /\ timers \in Seq(Event)
BY ConcatProperties DEF Waiting, IndexInv, ServerInv

(* A timer that fires changes nothing.                                      *)
LEMMA FiringWaits ==
    ASSUME IndexInv, TimerFires
    PROVE  Waiting' = Waiting
<1>1. mutex \in Seq(Event) /\ timers \in Seq(Event) /\ timers # <<>>
  BY DEF TimerFires, IndexInv, ServerInv
<1>2. Head(timers) \in Event /\ Tail(timers) \in Seq(Event) /\ <<Head(timers)>> \in Seq(Event)
  BY <1>1
<1>3. timers = <<Head(timers)>> \o Tail(timers)
  BY <1>1
<1>4. Append(mutex, Head(timers)) = mutex \o <<Head(timers)>>
  BY <1>1, <1>2, AppendIsConcat
<1>5. (mutex \o <<Head(timers)>>) \o Tail(timers) = mutex \o (<<Head(timers)>> \o Tail(timers))
  BY <1>1, <1>2, ConcatAssociative
<1> QED
  BY <1>3, <1>4, <1>5 DEF Waiting, TimerFires

(* An event that is armed comes last, after the others in their order.      *)
LEMMA ArmedWaits ==
    ASSUME IndexInv, NEW e \in Event, timers' = Armed(e), mutex' = mutex
    PROVE  \E r \in Seq(Event) : Waiting' = Append(r, e) /\ Thinner(Waiting, r, e)
<1>1. mutex \in Seq(Event) /\ timers \in Seq(Event) /\ IsInjective(timers)
  BY DEF IndexInv, ServerInv
<1>2. Thinner(timers, ClearedOf(e), e)
  BY <1>1, ClearedThinner
<1>3. ClearedOf(e) \in Seq(Event)
  BY <1>1, ClearedType
<1>4. Thinner(mutex \o timers, mutex \o ClearedOf(e), e)
  BY <1>1, <1>2, <1>3, JoinedThinner
<1>5. mutex \o ClearedOf(e) \in Seq(Event)
  BY <1>1, <1>3, ConcatProperties
<1>6. mutex \o Append(ClearedOf(e), e) = Append(mutex \o ClearedOf(e), e)
  <2>1. /\ Append(ClearedOf(e), e) = ClearedOf(e) \o <<e>>
        /\ Append(mutex \o ClearedOf(e), e) = (mutex \o ClearedOf(e)) \o <<e>>
    BY <1>3, <1>5, AppendIsConcat
  <2>2. <<e>> \in Seq(Event)
    OBVIOUS
  <2>3. (mutex \o ClearedOf(e)) \o <<e>> = mutex \o (ClearedOf(e) \o <<e>>)
    BY <1>1, <1>3, <2>2, ConcatAssociative
  <2> QED
    BY <2>1, <2>3
<1> QED
  BY <1>4, <1>5, <1>6 DEF Waiting, Armed

(* A handler takes the first event.                                         *)
LEMMA TakenWaits ==
    ASSUME IndexInv, mutex # <<>>, mutex' = Tail(mutex), timers' = timers
    PROVE  Waiting # <<>> /\ 1 \in DOMAIN Waiting /\ Waiting[1] = Head(mutex) /\ Waiting' = Tail(Waiting)
<1>1. mutex \in Seq(Event) /\ timers \in Seq(Event) /\ Waiting \in Seq(Event)
  BY WaitingType
<1>2. Head(mutex) \in Event /\ Tail(mutex) \in Seq(Event) /\ <<Head(mutex)>> \in Seq(Event)
  BY <1>1
<1>3. mutex = <<Head(mutex)>> \o Tail(mutex)
  BY <1>1
<1>4. Waiting = <<Head(mutex)>> \o (Tail(mutex) \o timers)
  BY <1>1, <1>2, <1>3, ConcatAssociative DEF Waiting
<1>5. Tail(mutex) \o timers \in Seq(Event)
  BY <1>1, <1>2, ConcatProperties
<1> DEFINE r == Tail(mutex) \o timers
<1> HIDE DEF r
<1>6. ASSUME NEW a \in Event, r \in Seq(Event)
      PROVE  /\ <<a>> \o r # <<>> /\ 1 \in DOMAIN (<<a>> \o r)
             /\ (<<a>> \o r)[1] = a /\ Tail(<<a>> \o r) = r
  BY <1>6
<1> QED
  BY <1>2, <1>4, <1>5, <1>6 DEF Waiting, r

-----------------------------------------------------------------------------
(* Queues are of a server that is up, and mtimes are of the past.           *)

(* The markers of a row are no mtimes.                                      *)
LEMMA NotVersions == Missing \notin Versions /\ NoMtime \notin Versions /\ Missing # NoMtime /\ Versions \subseteq Nat
BY ConstantsAssumption DEF Versions

(* A file on disk has a version.                                            *)
LEMMA PresentVersion ==
    ASSUME IndexInv, NEW f \in Files, Present(f)
    PROVE  disk[f].version \in Versions /\ disk[f].version # Missing /\ disk[f].imports \subseteq Files
<1>1. disk[f] \in Content
  BY DEF IndexInv, ServerInv, Present
<1> QED
  BY <1>1, NotVersions DEF Content

(* The mtime that a handler records is of the past.                         *)
LEMMA MtimePast ==
    ASSUME IndexInv, QueuesOfUp, NEW f \in Files, NEW other, Past(other), other # Missing
    PROVE  Past(Mtime(f, other)) /\ Mtime(f, other) # Missing
BY PresentVersion DEF QueuesOfUp, Mtime

(* The mtimes stay in the past when nothing on disk changes.                *)
LEMMA QueuesStay ==
    ASSUME QueuesOfUp, UNCHANGED <<disk, writes>>,
           phase' # "up" => timers' = <<>> /\ mutex' = <<>> /\ work' = Idle,
           phase' \in {"down", "purged", "built"} => todo' = {},
           work' = work \/ work' = Idle \/ (work'.mtime # Missing /\ Past(work'.mtime)),
           \A f \in Files : Past(rows'[f])
    PROVE  QueuesOfUp'
<1>1. \A m : Past(m)' <=> Past(m)
  BY DEF Past
<1>2. work' # Idle => work'.mtime # Missing /\ Past(work'.mtime)
  BY DEF QueuesOfUp
<1>3. \A f \in Files : Present(f)' => Past(disk'[f].version)
  BY DEF QueuesOfUp, Present
<1> QED
  BY <1>1, <1>2, <1>3 DEF QueuesOfUp, Past, Present

(* A change on disk has the next version.                                   *)
LEMMA ChangeQueues ==
    ASSUME IndexInv, QueuesOfUp, NEW f \in Files, NEW type, Report(f, type),
           writes' = writes + 1, UNCHANGED <<rows, phase, todo, mutex, work>>,
           \A g \in Files : g # f => disk'[g] = disk[g],
           disk'[f] = Missing \/ disk'[f].version = writes + 1
    PROVE  QueuesOfUp'
<1>1. writes \in Nat /\ \A v \in Versions : v \in Nat
  BY NotVersions, ConstantsAssumption DEF IndexInv, ServerInv
<1>2. \A m : Past(m) => (m \in Versions => m <= writes + 1)
  BY <1>1 DEF Past
<1>3. writes + 1 <= writes'
  BY <1>1
<1>4. \A g \in Files : rows'[g] \in Versions => rows'[g] <= writes'
  BY <1>2 DEF QueuesOfUp
<1>5. work' # Idle => work'.mtime # Missing /\ (work'.mtime \in Versions => work'.mtime <= writes')
  BY <1>2 DEF QueuesOfUp
<1>6. \A g \in Files : Present(g)' => (disk'[g].version \in Versions => disk'[g].version <= writes')
  BY <1>2, <1>3 DEF QueuesOfUp, Present
<1>7. phase' # "up" => timers' = timers
  BY DEF Report
<1> QED
  BY <1>4, <1>5, <1>6, <1>7 DEF QueuesOfUp, Past

(* What an extraction or a removal leaves in the rows.                      *)
LEMMA RowsPast ==
    ASSUME QueuesOfUp, NEW f \in Files, IndexInv,
           \/ UNCHANGED rows \/ removeFileNode(f)
           \/ \E m : Past(m) /\ upsertFile(f, m)
    PROVE  \A g \in Files : Past(rows'[g])
<1>1. Past(Missing)
  BY NotVersions DEF Past
<1>2. CASE UNCHANGED rows
  BY <1>2 DEF QueuesOfUp
<1>3. CASE removeFileNode(f)
  <2>1. rows' = rows \/ \E g \in Files : rows' = [rows EXCEPT ![g] = Missing]
    BY <1>3, ConstantsAssumption DEF removeFileNode, deleteFile, store, extraction
  <2> QED
    BY <1>1, <2>1 DEF QueuesOfUp, IndexInv, StoreInv
<1>4. CASE \E m : Past(m) /\ upsertFile(f, m)
  BY <1>4 DEF QueuesOfUp, upsertFile, IndexInv, StoreInv
<1> QED
  BY <1>2, <1>3, <1>4

(* Every step keeps the queues to a server that is up and the mtimes past.  *)
LEMMA QueuesKeep == IndexInv /\ QueuesOfUp /\ [Next]_vars => QueuesOfUp'
<1> SUFFICES ASSUME IndexInv, QueuesOfUp, [Next]_vars
             PROVE  QueuesOfUp'
  OBVIOUS
<1>0. Past(NoMtime) /\ NoMtime # Missing /\ (\A f \in Files : Past(rows[f])) /\ Past(Missing)
  BY NotVersions DEF Past, QueuesOfUp
<1>1. ASSUME NEW f \in Files, NEW imports \in SUBSET Files, Write(f, imports)
      PROVE  QueuesOfUp'
  <2>1. \E type : Report(f, type)
    BY <1>1 DEF Write
  <2>2. /\ writes' = writes + 1 /\ UNCHANGED <<rows, phase, todo, mutex, work>>
        /\ \A g \in Files : g # f => disk'[g] = disk[g]
        /\ disk'[f].version = writes + 1
    BY <1>1 DEF Write, store, extraction, IndexInv, ServerInv
  <2> QED
    BY <2>1, <2>2, ChangeQueues
<1>2. ASSUME NEW f \in Files, Delete(f)
      PROVE  QueuesOfUp'
  <2>1. \E type : Report(f, type)
    BY <1>2 DEF Delete
  <2>2. /\ writes' = writes + 1 /\ UNCHANGED <<rows, phase, todo, mutex, work>>
        /\ \A g \in Files : g # f => disk'[g] = disk[g]
        /\ disk'[f] = Missing
    BY <1>2 DEF Delete, store, extraction, IndexInv, ServerInv
  <2> QED
    BY <2>1, <2>2, ChangeQueues
<1>3. ASSUME NEW f \in Files, ScanFile(f)
      PROVE  QueuesOfUp'
  <2>1. rows' = rows /\ UNCHANGED <<disk, phase, queues, history>> /\ phase = "scanning"
    BY <1>3 DEF ScanFile, store, extraction
  <2> QED
    BY <2>1, RowsPast, QueuesStay, <1>0, <1>3 DEF queues, history, QueuesOfUp
<1>4. ASSUME NEW f \in Files, ExcludeAndRemove(f)
      PROVE  QueuesOfUp'
  <2>1. \A g \in Files : Past(rows'[g])
    BY <1>4, RowsPast DEF ExcludeAndRemove
  <2> QED
    BY <1>4, <2>1, QueuesStay DEF ExcludeAndRemove, queues, history, QueuesOfUp
<1>5. CASE TimerFires
  BY <1>0, <1>5, QueuesStay DEF TimerFires, store, extraction, history
<1>6. CASE BeginHandler
  <2> DEFINE f == Head(mutex)[1]
             type == Head(mutex)[2]
  <2>1. f \in Files
    <3>1. Head(mutex) \in Event
      BY <1>6 DEF IndexInv, ServerInv, BeginHandler
    <3> QED
      BY <3>1 DEF Event
  <2>2. Handle(f, type) /\ UNCHANGED <<disk, phase, writes>> /\ phase = "up"
    BY <1>6 DEF BeginHandler, history
  <2> HIDE DEF f, type
  <2>3. \A g \in Files : Past(rows'[g])
    <3>1. rows' = rows \/ removeFileNode(f) \/ upsertFile(f, NoMtime)
      BY <2>2 DEF Handle, store, extraction
    <3> QED
      BY <1>0, <2>1, <3>1, RowsPast
  <2>4. work' = work \/ (work'.mtime # Missing /\ Past(work'.mtime))
    <3>1. work' = work \/ work' = Adding(f) \/ (rows[f] # Missing /\ work' = Updating(f))
      BY <2>2 DEF Handle
    <3>2. CASE work' = Adding(f)
      BY <1>0, <2>1, <3>2, MtimePast DEF Adding
    <3>3. CASE rows[f] # Missing /\ work' = Updating(f)
      BY <1>0, <2>1, <3>3 DEF Updating
    <3> QED
      BY <3>1, <3>2, <3>3
  <2> QED
    BY <2>2, <2>3, <2>4, QueuesStay
<1>7. CASE EndHandler
  <2>1. work.file \in Files
    BY <1>7 DEF IndexInv, ServerInv, EndHandler, Work
  <2>2. Past(work.mtime) /\ Past(Mtime(work.file, work.mtime))
    BY <1>7, <2>1, MtimePast DEF QueuesOfUp, EndHandler
  <2>3. \E m : Past(m) /\ upsertFile(work.file, m)
    BY <1>7, <2>2 DEF EndHandler, Added, Updated
  <2>4. \A g \in Files : Past(rows'[g])
    BY <2>1, <2>3, RowsPast
  <2> QED
    BY <1>7, <2>4, QueuesStay DEF EndHandler, history
<1>8. CASE GetCommunities
  BY <1>0, <1>8, QueuesStay DEF GetCommunities, queues, history, QueuesOfUp
<1>9. CASE Start
  <2>1. \A g \in Files : Past(rows'[g])
    BY <1>0, <1>9 DEF Start, Purge
  <2> QED
    BY <1>9, <2>1, QueuesStay DEF Start, queues, history, QueuesOfUp
<1>10. CASE Rescan
  <2>1. \A g \in Files : Past(rows'[g])
    BY <1>0, <1>10 DEF Rescan, Indexable, QueuesOfUp
  <2> QED
    BY <1>10, <2>1, QueuesStay DEF Rescan, queues, history, QueuesOfUp
<1>11. CASE UseCache \/ Scanned \/ IntegrityCheck \/ Ready
  BY <1>0, <1>11, QueuesStay DEF UseCache, Scanned, IntegrityCheck, Ready, store, extraction, queues, history, QueuesOfUp
<1>12. CASE Heal
  <2>1. PICK f \in Files : HealStale(f) \/ HealMissing(f) \/ HealNew(f)
    BY <1>12 DEF Heal
  <2>2. \A g \in Files : Past(rows'[g])
    <3>1. CASE HealStale(f)
      <4>1. Past(Mtime(f, rows[f]))
        BY <1>0 DEF Mtime, QueuesOfUp
      <4> QED
        BY <3>1, <4>1, RowsPast DEF HealStale, Updated
    <3>2. CASE HealMissing(f)
      BY <3>2, RowsPast DEF HealMissing
    <3>3. CASE HealNew(f)
      BY <1>0, <3>3, MtimePast, RowsPast DEF HealNew, Added
    <3> QED
      BY <2>1, <3>1, <3>2, <3>3
  <2> QED
    BY <1>12, <2>2, QueuesStay DEF Heal, queues, history, QueuesOfUp
<1>13. CASE Stop
  BY <1>0, <1>13, QueuesStay DEF Stop, Ended, store, extraction
<1>14. ASSUME NEW f \in Files, CheckFileFreshness(f)
       PROVE  QueuesOfUp'
  <2>1. \A g \in Files : Past(rows'[g])
    BY <1>14, RowsPast DEF CheckFileFreshness, Outdated, QueuesOfUp
  <2> QED
    BY <1>14, <2>1, QueuesStay DEF CheckFileFreshness, queues, history, QueuesOfUp
<1>15. CASE KillInWrite
  <2>1. PICK f \in Files, mtime \in Versions \cup {NoMtime, Missing} :
          FirstWrite(f, mtime) /\ upsertFile(f, mtime)
    BY <1>15 DEF KillInWrite
  <2>2. Past(mtime)
    BY <1>0, <2>1 DEF FirstWrite, Mtime, QueuesOfUp
  <2>3. \A g \in Files : Past(rows'[g])
    BY <2>1, <2>2, RowsPast
  <2> QED
    BY <1>15, <2>3, QueuesStay DEF KillInWrite, Ended
<1>16. CASE UNCHANGED vars
  BY <1>0, <1>16, QueuesStay DEF vars, store, extraction, queues, history, QueuesOfUp
<1> QED
  BY <1>1, <1>2, <1>3, <1>4, <1>5, <1>6, <1>7, <1>8, <1>9, <1>10, <1>11,
     <1>12, <1>13, <1>14, <1>15, <1>16 DEF Next

-----------------------------------------------------------------------------
(* A running server: every file is settled or its last event tells.         *)

(* What leaves a file and the edges at it alone leaves it settled.          *)
LEMMA SettledSame ==
    ASSUME NEW g, UNCHANGED <<rows, robbed, symbols, edges, work, stops>>, disk'[g] = disk[g], Settled(g)
    PROVE  Settled(g)'
BY DEF Settled, Present, Current, Gone, Robbed, Blank, Extracted, HandlerOn

(* What leaves a file, its extraction and its handler alone, adds no edges of *)
(* it and none to it once it is gone, leaves it settled.                    *)
LEMMA SettledStays ==
    ASSUME NEW g, Settled(g), ~HandlerOn(g), ~HandlerOn(g)', disk'[g] = disk[g],
           rows'[g] = rows[g], symbols'[g] = symbols[g], stops' = stops,
           g \in robbed => g \in robbed',
           \A e \in edges' : e[1] = g => e \in edges,
           Present(g) \/ \A e \in edges' : e[2] = g => e \in edges,
           Present(g) \/ (work' # Idle => g \notin work'.parsed.targets)
    PROVE  Settled(g)'
<1>1. Present(g)' <=> Present(g)
  BY DEF Present
<1>2. CASE Present(g)
  <2>1. Current(g)' \/ Robbed(g)'
    BY <1>2 DEF Settled, Current, Extracted, Robbed
  <2> QED
    BY <1>1, <1>2, <2>1 DEF Settled
<1>3. CASE ~Present(g)
  <2>1. Gone(g)'
    BY <1>3 DEF Settled, Gone, Blank
  <2> QED
    BY <1>1, <1>3, <2>1 DEF Settled
<1> QED
  BY <1>2, <1>3

(* A change on disk arms an event that tells of it.                         *)
LEMMA ChangeServes ==
    ASSUME IndexInv, phase = "up", excluded = {},
           NEW f \in Files, NEW type \in {"add", "change", "unlink"}, Report(f, type),
           UNCHANGED <<rows, robbed, symbols, edges, mutex, work, stops>>,
           \A g \in Files : g # f => disk'[g] = disk[g],
           \/ type = "change" /\ Present(f)'
           \/ type = "add" /\ ~Present(f) /\ Present(f)'
           \/ type = "unlink" /\ Present(f) /\ ~Present(f)',
           NEW g \in Files, Served(f), Served(g)
    PROVE  Served(g)'
<1> DEFINE event == <<f, type>>
<1>1. event \in Event /\ event[1] = f /\ event[2] = type
  BY DEF Event
<1>2. timers' = Armed(event)
  BY DEF Report
<1> HIDE DEF event
<1>3. PICK r \in Seq(Event) : Waiting' = Append(r, event) /\ Thinner(Waiting, r, event)
  BY <1>1, <1>2, ArmedWaits
<1>4. Waiting \in Seq(Event)
  BY WaitingType
<1> DEFINE p == Waiting
           q == Append(r, event)
<1>5. PICK n \in DOMAIN q :
        /\ q[n] = event /\ IsLast(q, n)
        /\ NoneOf(p, f) => IsFirst(q, n)
        /\ \A i \in DOMAIN p : \A T : p[i][1] = f /\ IsLast(p, i) /\ p[i] # event /\ p[i][2] \in T
              => Follows(q, n, T)
  BY <1>1, <1>3, <1>4, NewIsLast
<1>6. ASSUME g # f PROVE /\ NoneOf(p, g) => NoneOf(q, g)
                         /\ \A i \in DOMAIN p : p[i][1] = g /\ IsLast(p, i) =>
                               \E k \in DOMAIN q :
                                  /\ q[k] = p[i] /\ IsLast(q, k)
                                  /\ \A T : Follows(p, i, T) => Follows(q, k, T)
                                  /\ IsFirst(p, i) => IsFirst(q, k)
  BY <1>1, <1>3, <1>4, <1>6, OthersAsBefore
<1>7. Waiting' = q
  BY <1>3
<1>p. p = Waiting
  OBVIOUS
<1> HIDE DEF p, q
<1>8. CASE g # f
  <2>1. (Present(g)' <=> Present(g)) /\ (HandlerOn(g)' <=> HandlerOn(g)) /\ rows'[g] = rows[g]
    BY <1>8 DEF Present, HandlerOn
  <2>2. CASE NoneOf(p, g) /\ Settled(g)
    <3>1. Settled(g)'
      BY <1>8, <2>2, SettledSame
    <3>2. NoneOf(q, g)
      BY <1>6, <1>8, <2>2
    <3> QED
      BY <1>7, <3>1, <3>2 DEF Served
  <2>3. CASE \E i \in DOMAIN p : p[i][1] = g /\ IsLast(p, i) /\ LastTells(g, p, i)
    <3>1. PICK i \in DOMAIN p : p[i][1] = g /\ IsLast(p, i) /\ LastTells(g, p, i)
      BY <2>3
    <3>2. PICK k \in DOMAIN q : /\ q[k] = p[i] /\ IsLast(q, k)
                                /\ \A T : Follows(p, i, T) => Follows(q, k, T)
                                /\ IsFirst(p, i) => IsFirst(q, k)
      BY <1>6, <1>8, <3>1
    <3>3. LastTells(g, q, k)'
      BY <2>1, <3>1, <3>2 DEF LastTells
    <3>4. q[k][1] = g
      BY <3>1, <3>2
    <3> QED
      BY <1>7, <3>2, <3>3, <3>4 DEF Served
  <2> QED
    BY <1>p, <2>2, <2>3 DEF Served
<1>9. CASE g = f
  <2>1. LastTells(f, q, n)'
    <3>1. q[n][2] = type
      BY <1>1, <1>5
    <3>2. CASE type = "change" /\ Present(f)'
      BY <3>1, <3>2 DEF LastTells
    <3>3. CASE type = "add" /\ ~Present(f) /\ Present(f)'
      <4>1. CASE NoneOf(p, f) /\ Settled(f)
        <5>1. rows[f] = Missing /\ ~HandlerOn(f)
          BY <3>3, <4>1 DEF Settled, Gone
        <5> QED
          BY <1>5, <3>1, <3>3, <4>1, <5>1 DEF LastTells, HandlerOn
      <4>2. CASE \E i \in DOMAIN p : p[i][1] = f /\ IsLast(p, i) /\ LastTells(f, p, i)
        <5>1. PICK i \in DOMAIN p : p[i][1] = f /\ IsLast(p, i) /\ LastTells(f, p, i)
          BY <4>2
        <5>2. p[i][2] = "unlink"
          BY <3>3, <5>1 DEF LastTells
        <5>3. p[i] # event
          BY <1>1, <3>3, <5>2
        <5>4. Follows(q, n, {"unlink"})
          BY <1>5, <5>1, <5>2, <5>3
        <5> QED
          BY <3>1, <3>3, <5>4 DEF LastTells
      <4> QED
        BY <1>p, <4>1, <4>2 DEF Served
    <3>4. CASE type = "unlink" /\ Present(f) /\ ~Present(f)'
      <4>1. CASE NoneOf(p, f) /\ Settled(f)
        <5>1. rows[f] # Missing \/ HandlerOn(f) \/ f \in robbed
          BY <3>4, <4>1, NotVersions, PresentVersion DEF Settled, Current, Robbed
        <5> QED
          BY <1>5, <3>1, <3>4, <4>1, <5>1 DEF LastTells, HandlerOn
      <4>2. CASE \E i \in DOMAIN p : p[i][1] = f /\ IsLast(p, i) /\ LastTells(f, p, i)
        <5>1. PICK i \in DOMAIN p : p[i][1] = f /\ IsLast(p, i) /\ LastTells(f, p, i)
          BY <4>2
        <5>2. p[i][2] \in {"add", "change"}
          BY <3>4, <5>1 DEF LastTells
        <5>3. p[i] # event
          BY <1>1, <3>4, <5>2
        <5>4. Follows(q, n, {"add", "change"})
          BY <1>5, <5>1, <5>2, <5>3
        <5> QED
          BY <3>1, <3>4, <5>4 DEF LastTells
      <4> QED
        BY <1>p, <4>1, <4>2 DEF Served
    <3> QED
      BY <3>2, <3>3, <3>4
  <2>2. q[n][1] = f
    BY <1>1, <1>5
  <2> QED
    BY <1>5, <1>7, <1>9, <2>1, <2>2 DEF Served
<1> QED
  BY <1>8, <1>9

(* What a handler holds of a file that is on disk.                          *)
LEMMA ReadIsCurrent ==
    ASSUME IndexInv, NEW f \in Files, Present(f), work' \in {Adding(f), Updating(f)}, disk' = disk
    PROVE  HandlerOn(f)' /\ Current(f)'
<1>1. /\ work'.file = f /\ work'.parsed = Parse(f)
      /\ work'.kind = "add" => work'.mtime = disk[f].version
  BY DEF Adding, Updating, Mtime
<1>2. work' # Idle
  BY ReadType, ConstantsAssumption
<1>3. /\ Parse(f).ok /\ Parse(f).version = disk[f].version
      /\ Parse(f).targets \subseteq disk[f].imports
  BY DEF Parse
<1>4. HandlerOn(f)'
  BY <1>1, <1>2 DEF HandlerOn
<1> QED
  BY <1>1, <1>3, <1>4 DEF Current

(* A handler that reads a file serves its first event.                      *)
LEMMA BeginServes ==
    ASSUME IndexInv, RobbedInv, RobbedInv', BeginHandler, NEW g \in Files, Served(g)
    PROVE  Served(g)'
<1> PICK p, q : p = Waiting /\ q = Tail(Waiting)
  OBVIOUS
<1> PICK f, type : f = Head(mutex)[1] /\ type = Head(mutex)[2]
  OBVIOUS
<1>1. /\ p \in Seq(Event) /\ p # <<>> /\ 1 \in DOMAIN p /\ p[1] = Head(mutex) /\ Waiting' = q
  BY WaitingType, TakenWaits DEF BeginHandler
<1>2. p[1][1] = f /\ p[1][2] = type /\ f \in Files
  <2>1. Head(mutex) \in Event
    BY DEF IndexInv, ServerInv, BeginHandler
  <2> QED
    BY <1>1, <2>1 DEF Event
<1>3. /\ Handle(f, type) /\ work = Idle
      /\ UNCHANGED <<disk, stops>>
  BY DEF BeginHandler, history
<1>t. ASSUME NEW i \in DOMAIN p, IsLast(p, i)
      PROVE  /\ i = 1 => NoneOf(q, p[i][1])
             /\ i # 1 => /\ i - 1 \in DOMAIN q /\ q[i - 1] = p[i]
                         /\ IsLast(q, i - 1)
                         /\ \A T : Follows(p, i, T) => \/ Follows(q, i - 1, T)
                                                       \/ /\ IsFirst(q, i - 1)
                                                          /\ p[1][1] = p[i][1] /\ p[1][2] \in T
                         /\ IsFirst(p, i) => IsFirst(q, i - 1) /\ p[1][1] # p[i][1]
  BY <1>1, <1>t, TailTells
<1>n. NoneOf(p, g) => NoneOf(q, g) /\ g # f
  BY <1>1, <1>2, TailEvents DEF NoneOf
<1>s. Served(g) <=> \/ NoneOf(p, g) /\ Settled(g)
                    \/ \E i \in DOMAIN p : p[i][1] = g /\ IsLast(p, i) /\ LastTells(g, p, i)
  BY DEF Served
<1>q. Served(g)' <=> \/ NoneOf(q, g) /\ Settled(g)'
                     \/ \E i \in DOMAIN q : q[i][1] = g /\ IsLast(q, i) /\ LastTells(g, q, i)'
  BY <1>1 DEF Served
<1>4. ~HandlerOn(g) /\ (Present(g)' <=> Present(g))
  BY <1>3 DEF HandlerOn, Present
<1>5. \/ removeFileNode(f) /\ work' = work /\ type = "unlink"
      \/ /\ type \in {"add", "change"}
         /\ UNCHANGED <<symbols, edges>>
         /\ rows' = rows \/ (rows' = [rows EXCEPT ![f] = NoMtime] /\ rows[f] = Missing)
         /\ \/ work' \in {Adding(f), Updating(f)}
            \/ type = "add" /\ rows[f] # Missing /\ rows' = rows /\ work' = work
  BY <1>3 DEF Handle, store, extraction, upsertFile
<1>r. /\ rows[f] = Missing /\ removeFileNode(f) =>
            \/ UNCHANGED store
            \/ \E h \in Files : h # f /\ deleteFile(h) /\ robbed' = robbed \cup {h} /\ rows[h] # Missing
      /\ rows[f] # Missing /\ removeFileNode(f) => deleteFile(f) /\ robbed' = robbed
      /\ ~removeFileNode(f) => robbed' = robbed \/ robbed' = robbed \ {f}
  <2>1. ~removeFileNode(f) => robbed' = robbed \/ robbed' = robbed \ {f}
    BY <1>3 DEF Handle, store, upsertFile
  <2> QED
    BY <1>2, <2>1, RemovesOne
<1>6. work' # Idle => work' \in {Adding(f), Updating(f)}
  BY <1>3, <1>5
<1>7. work' # Idle => work'.file = f /\ work'.parsed = Parse(f)
  BY <1>6 DEF Adding, Updating
<1>b. CASE g # f /\ g \in robbed' /\ rows[g] # Missing
  <2>1. ~HandlerOn(g)'
    BY <1>7, <1>b DEF HandlerOn
  <2>2. CASE NoneOf(p, g) /\ Settled(g)
    <3>1. Present(g)
      BY <1>b, <2>2 DEF Settled, Gone
    <3>2. Settled(g)'
      BY <1>4, <1>b, <2>1, <3>1 DEF Settled, Robbed
    <3> QED
      BY <1>n, <1>q, <2>2, <3>2
  <2>3. CASE \E i \in DOMAIN p : p[i][1] = g /\ IsLast(p, i) /\ LastTells(g, p, i)
    <3>1. PICK i \in DOMAIN p : p[i][1] = g /\ IsLast(p, i) /\ LastTells(g, p, i)
      BY <2>3
    <3>2. i # 1
      BY <1>2, <1>b, <3>1
    <3>3. /\ i - 1 \in DOMAIN q /\ q[i - 1] = p[i] /\ IsLast(q, i - 1)
          /\ \A T : Follows(p, i, T) => Follows(q, i - 1, T)
          /\ IsFirst(p, i) => IsFirst(q, i - 1)
      BY <1>t, <1>2, <1>b, <3>1, <3>2
    <3>4. LastTells(g, q, i - 1)'
      BY <1>4, <1>b, <3>1, <3>3 DEF LastTells
    <3>5. q[i - 1][1] = g
      BY <3>1, <3>3
    <3> QED
      BY <1>q, <3>3, <3>4, <3>5
  <2> QED
    BY <1>s, <2>2, <2>3
<1>8. CASE g # f /\ ~(g \in robbed' /\ rows[g] # Missing)
  <2>1. ~HandlerOn(g)'
    BY <1>7, <1>8 DEF HandlerOn
  <2>2. /\ rows'[g] = rows[g] /\ symbols'[g] = symbols[g] /\ edges' \subseteq edges
        /\ g \in robbed => g \in robbed'
    <3>1. CASE removeFileNode(f) /\ rows[f] # Missing
      BY <1>2, <1>8, <1>r, <3>1 DEF deleteFile, IndexInv, StoreInv
    <3>2. CASE removeFileNode(f) /\ UNCHANGED store
      BY <3>2 DEF store, extraction
    <3>3. ASSUME NEW h \in Files, deleteFile(h), robbed' = robbed \cup {h}, rows[h] # Missing
          PROVE  /\ rows'[g] = rows[g] /\ symbols'[g] = symbols[g] /\ edges' \subseteq edges
                 /\ g \in robbed => g \in robbed'
      BY <1>8, <3>3 DEF deleteFile, IndexInv, StoreInv
    <3>4. CASE ~removeFileNode(f)
      BY <1>2, <1>5, <1>8, <1>r, <3>4 DEF IndexInv, StoreInv
    <3> QED
      BY <1>r, <3>1, <3>2, <3>3, <3>4
  <2>3. Present(g) \/ g \notin Parse(f).targets
    BY DEF Parse
  <2>4. CASE NoneOf(p, g) /\ Settled(g)
    <3>1. Settled(g)'
      BY <1>3, <1>4, <1>7, <2>1, <2>2, <2>3, <2>4, SettledStays
    <3> QED
      BY <1>n, <1>q, <2>4, <3>1
  <2>5. CASE \E i \in DOMAIN p : p[i][1] = g /\ IsLast(p, i) /\ LastTells(g, p, i)
    <3>1. PICK i \in DOMAIN p : p[i][1] = g /\ IsLast(p, i) /\ LastTells(g, p, i)
      BY <2>5
    <3>2. i # 1
      BY <1>2, <1>8, <3>1
    <3>3. /\ i - 1 \in DOMAIN q /\ q[i - 1] = p[i] /\ IsLast(q, i - 1)
          /\ \A T : Follows(p, i, T) => Follows(q, i - 1, T)
          /\ IsFirst(p, i) => IsFirst(q, i - 1)
      BY <1>t, <1>2, <1>8, <3>1, <3>2
    <3>4. LastTells(g, q, i - 1)'
      BY <1>4, <2>1, <2>2, <3>1, <3>3 DEF LastTells
    <3>5. q[i - 1][1] = g
      BY <3>1, <3>3
    <3> QED
      BY <1>q, <3>3, <3>4, <3>5
  <2> QED
    BY <1>s, <2>4, <2>5
<1>9. CASE g = f
  <2>1. PICK i \in DOMAIN p : p[i][1] = g /\ IsLast(p, i) /\ LastTells(g, p, i)
    BY <1>n, <1>s, <1>9
  <2>2. CASE i = 1
    <3>1. NoneOf(q, g)
      BY <1>t, <2>1, <2>2
    <3>2. \A T : ~Follows(p, i, T)
      <4>1. p \in Seq(Event)
        BY <1>1
      <4>2. \A j \in DOMAIN p : ~(j < 1)
        BY <4>1
      <4> QED
        BY <2>2, <4>2 DEF Follows
    <3>3. p[i][2] = type
      BY <1>2, <2>2
    <3>4. CASE Present(f)
      <4>1. \/ type = "change"
            \/ type = "add" /\ rows[f] = Missing
        BY <1>9, <2>1, <3>2, <3>3, <3>4 DEF LastTells
      <4>2. work' \in {Adding(f), Updating(f)}
        BY <1>5, <4>1
      <4>3. Settled(g)'
        BY <1>2, <1>3, <1>4, <1>9, <3>4, <4>2, ReadIsCurrent DEF Settled
      <4> QED
        BY <1>q, <3>1, <4>3
    <3>5. CASE ~Present(f)
      <4>1. type = "unlink" /\ (rows[f] # Missing \/ f \in robbed)
        BY <1>4, <1>9, <2>1, <3>2, <3>3, <3>5 DEF LastTells
      <4>2. removeFileNode(f) /\ work' = Idle
        BY <1>3, <1>5, <4>1
      <4>3. Gone(f)'
        <5>1. CASE rows[f] # Missing
          <6>1. deleteFile(f)
            BY <1>r, <4>2, <5>1
          <6> QED
            BY <1>2, <4>2, <6>1 DEF Gone, HandlerOn, Blank, deleteFile, IndexInv, StoreInv
        <5>2. CASE rows[f] = Missing
          <6>1. f \in robbed'
            BY <1>r, <4>1, <4>2, <5>2 DEF store
          <6> QED
            BY <4>2, <6>1 DEF Gone, HandlerOn, RobbedInv
        <5> QED
          BY <5>1, <5>2
      <4> QED
        BY <1>4, <1>9, <1>q, <3>1, <3>5, <4>3 DEF Settled
    <3> QED
      BY <3>4, <3>5
  <2>3. CASE i # 1
    <3>1. /\ i - 1 \in DOMAIN q /\ q[i - 1] = p[i] /\ IsLast(q, i - 1)
          /\ \A T : Follows(p, i, T) => Follows(q, i - 1, T) \/ (IsFirst(q, i - 1) /\ type \in T)
          /\ ~IsFirst(p, i)
      BY <1>t, <1>2, <1>9, <2>1, <2>3
    <3>2. q[i - 1][1] = g
      BY <2>1, <3>1
    <3>3. type = "unlink" => rows'[f] = Missing /\ ~HandlerOn(f)'
      <4>1. ASSUME type = "unlink" PROVE removeFileNode(f) /\ work' = Idle
        BY <1>3, <1>5, <4>1
      <4>2. removeFileNode(f) => rows'[f] = Missing
        <5>1. CASE rows[f] # Missing
          BY <1>2, <1>r, <5>1 DEF deleteFile, IndexInv, StoreInv
        <5>2. CASE rows[f] = Missing
          BY <1>2, <1>r, <5>2 DEF deleteFile, store, IndexInv, StoreInv
        <5> QED
          BY <5>1, <5>2
      <4> QED
        BY <4>1, <4>2 DEF HandlerOn
    <3>4. type \in {"add", "change"} => rows'[f] # Missing \/ HandlerOn(f)'
      <4>1. work' \in {Adding(f), Updating(f)} => HandlerOn(f)'
        <5>1. ASSUME work' \in {Adding(f), Updating(f)} PROVE work' # Idle
          BY <1>2, <5>1, ReadType, ConstantsAssumption
        <5> QED
          BY <1>7, <5>1 DEF HandlerOn
      <4> QED
        BY <1>5, <4>1
    <3>5. LastTells(g, q, i - 1)'
      BY <1>4, <1>9, <2>1, <3>1, <3>3, <3>4 DEF LastTells
    <3> QED
      BY <1>q, <3>1, <3>2, <3>5
  <2> QED
    BY <2>2, <2>3
<1> QED
  BY <1>b, <1>8, <1>9

(* A write of the store for f, with the targets of its content, leaves      *)
(* another file as settled as it was.                                       *)
LEMMA OtherSettled ==
    ASSUME IndexInv, NEW f \in Files, NEW g \in Files, g # f, Settled(g), ~HandlerOn(g),
           NEW targets, Present(g) \/ g \notin targets, UNCHANGED <<disk, stops>>,
           work' = Idle, NEW mtime, upsertFile(f, mtime),
           \/ edges' = EdgesFrom(f, targets) \/ edges' = EdgesFrom(f, {}) \/ edges' = edges,
           symbols' = symbols \/ \E v : symbols' = [symbols EXCEPT ![f] = v]
    PROVE  Settled(g)'
<1>1. ~HandlerOn(g)'
  BY DEF HandlerOn
<1>2. /\ rows'[g] = rows[g] /\ symbols'[g] = symbols[g]
      /\ g \in robbed => g \in robbed'
  BY DEF upsertFile, IndexInv, StoreInv
<1>3. \A e \in edges' : e[1] = g => e \in edges
  BY DEF EdgesFrom
<1>4. Present(g) \/ \A e \in edges' : e[2] = g => e \in edges
  BY DEF EdgesFrom
<1> QED
  BY <1>1, <1>2, <1>3, <1>4, SettledStays

(* The write of a file on disk from a read of its present content.          *)
LEMMA WrittenSettled ==
    ASSUME IndexInv, NEW f \in Files, Present(f), UNCHANGED disk, work' = Idle,
           upsertFile(f, disk[f].version), NEW parsed, parsed.version = disk[f].version,
           parsed.targets \subseteq disk[f].imports, setEdgesAndSymbols(f, parsed)
    PROVE  Settled(f)'
<1>1. rows'[f] = disk[f].version /\ symbols'[f] = disk[f].version
  BY DEF upsertFile, setEdgesAndSymbols, IndexInv, StoreInv
<1>2. \A e \in edges' : e[1] = f => e[2] \in disk[f].imports
  BY DEF setEdgesAndSymbols, EdgesFrom
<1>3. Extracted(f)' /\ ~HandlerOn(f)'
  BY <1>1, <1>2 DEF Extracted, HandlerOn
<1> QED
  BY <1>1, <1>3 DEF Settled, Current, Present

(* What an extraction changes of the edges and the symbols.                 *)
LEMMA WriteEffect ==
    ASSUME NEW f, NEW parsed, NEW deps, NEW mtime, Added(f, parsed, mtime) \/ Updated(f, parsed, deps, mtime)
    PROVE  /\ upsertFile(f, mtime)
           /\ parsed.ok => setEdgesAndSymbols(f, parsed)
           /\ \/ edges' = EdgesFrom(f, parsed.targets) \/ edges' = EdgesFrom(f, {}) \/ edges' = edges
           /\ symbols' = symbols \/ \E v : symbols' = [symbols EXCEPT ![f] = v]
BY DEF Added, Updated, setEdges, setEdgesAndSymbols, extraction

(* A handler that writes what it read leaves the events to come right.      *)
LEMMA EndServes ==
    ASSUME IndexInv, QueuesOfUp, EndHandler, NEW g \in Files, Served(g)
    PROVE  Served(g)'
<1> PICK f, parsed, mtime : f = work.file /\ parsed = work.parsed
                            /\ mtime = IF work.kind = "add" THEN work.mtime ELSE Mtime(work.file, work.mtime)
  OBVIOUS
<1>1. /\ f \in Files /\ work # Idle /\ parsed \in Parsed /\ HandlerOn(f)
      /\ \A h : HandlerOn(h) => h = f
  BY DEF EndHandler, IndexInv, ServerInv, Work, HandlerOn
<1>2. /\ work' = Idle /\ UNCHANGED <<disk, stops, timers, mutex>>
      /\ Added(f, parsed, mtime) \/ Updated(f, parsed, work.deps, mtime)
  BY DEF EndHandler, history
<1>3. Waiting' = Waiting /\ (Present(g)' <=> Present(g)) /\ ~HandlerOn(g)'
  BY <1>2 DEF Waiting, Present, HandlerOn
<1>4. /\ upsertFile(f, mtime)
      /\ parsed.ok => setEdgesAndSymbols(f, parsed)
      /\ \/ edges' = EdgesFrom(f, parsed.targets) \/ edges' = EdgesFrom(f, {}) \/ edges' = edges
      /\ symbols' = symbols \/ \E v : symbols' = [symbols EXCEPT ![f] = v]
  BY <1>2, WriteEffect
<1>5. mtime # Missing
  BY <1>1, MtimePast DEF QueuesOfUp
<1>6. CASE NoneOf(Waiting, g) /\ Settled(g)
  <2>1. CASE g # f
    <3>1. Present(g) \/ g \notin parsed.targets
      BY <1>1, <1>6 DEF Settled, Gone
    <3>2. Settled(g)'
      BY <1>1, <1>2, <1>4, <1>6, <2>1, <3>1, OtherSettled
    <3> QED
      BY <1>3, <1>6, <3>2 DEF Served
  <2>2. CASE g = f
    <3>1. Present(f) /\ Current(f)
      BY <1>1, <1>6, <2>2 DEF Settled, Gone, Robbed
    <3>2. /\ parsed.ok /\ parsed.version = disk[f].version /\ parsed.targets \subseteq disk[f].imports
          /\ mtime = disk[f].version
      BY <1>1, <3>1 DEF Current, Mtime
    <3>3. Settled(f)'
      BY <1>1, <1>2, <1>4, <3>1, <3>2, WrittenSettled
    <3> QED
      BY <1>3, <1>6, <2>2, <3>3 DEF Served
  <2> QED
    BY <2>1, <2>2
<1>7. CASE \E i \in DOMAIN Waiting : Waiting[i][1] = g /\ IsLast(Waiting, i) /\ LastTells(g, Waiting, i)
  <2>1. PICK i \in DOMAIN Waiting : Waiting[i][1] = g /\ IsLast(Waiting, i) /\ LastTells(g, Waiting, i)
    BY <1>7
  <2> PICK p : p = Waiting
    OBVIOUS
  <2>2. /\ g = f => rows'[g] # Missing /\ HandlerOn(g)
        /\ g # f => rows'[g] = rows[g] /\ ~HandlerOn(g) /\ (g \in robbed => g \in robbed')
    BY <1>1, <1>4, <1>5 DEF upsertFile, IndexInv, StoreInv
  <2>3. LastTells(g, p, i)'
    BY <1>3, <2>1, <2>2 DEF LastTells
  <2> QED
    BY <1>3, <2>1, <2>3 DEF Served
<1> QED
  BY <1>6, <1>7 DEF Served

(* Steps that leave disk, queues and extractions alone.                     *)
LEMMA QuietServes ==
    ASSUME IndexInv, RobbedInv, UNCHANGED <<disk, symbols, edges, work, stops>>, Waiting' = Waiting,
           \/ UNCHANGED <<rows, robbed>>
           \/ \E f \in Files : CheckFileFreshness(f),
           NEW g \in Files, Served(g)
    PROVE  Served(g)'
<1>1. (Present(g)' <=> Present(g)) /\ (HandlerOn(g)' <=> HandlerOn(g))
  BY DEF Present, HandlerOn
<1>2. rows'[g] # rows[g] => rows[g] # Missing /\ Present(g) /\ rows'[g] = disk[g].version
  BY NotVersions DEF CheckFileFreshness, Outdated, upsertFile, IndexInv, StoreInv
<1>3. Present(g) => disk[g].version # Missing
  BY PresentVersion
<1>4. rows'[g] = Missing <=> rows[g] = Missing
  BY <1>2, <1>3
<1>r. g \in robbed' <=> g \in robbed
  BY NotVersions DEF CheckFileFreshness, Outdated, upsertFile, RobbedInv
<1>5. Settled(g) => Settled(g)'
  <2>1. CASE Present(g)
    <3>1. Current(g) => Current(g)'
      BY <1>1, <1>2, <2>1 DEF Current, Extracted
    <3> QED
      BY <1>1, <1>r, <2>1, <3>1 DEF Settled, Robbed
  <2>2. CASE ~Present(g)
    <3>1. Gone(g) => Gone(g)'
      BY <1>1, <1>4, <1>r, <2>2 DEF Gone, Blank
    <3> QED
      BY <1>1, <2>2, <3>1 DEF Settled
  <2> QED
    BY <2>1, <2>2
<1> PICK p : p = Waiting
  OBVIOUS
<1>6. ASSUME NEW i, LastTells(g, p, i) PROVE LastTells(g, p, i)'
  BY <1>1, <1>4, <1>6, <1>r DEF LastTells
<1> QED
  BY <1>5, <1>6 DEF Served

-----------------------------------------------------------------------------
(* The passes of a start.                                                   *)

(* A change during the scan is seen by the check that follows it.           *)
LEMMA ChangeScans ==
    ASSUME IndexInv, QueuesOfUp, phase \in {"scanning", "built"}, missed' = FALSE,
           NEW f \in Files, NEW type, Report(f, type),
           UNCHANGED <<rows, symbols, edges, todo>>,
           \A g \in Files : g # f => disk'[g] = disk[g],
           \/ disk'[f].version = writes + 1 /\ Present(f)' /\ writes + 1 \in Versions
           \/ type = "unlink" /\ ~Present(f)',
           NEW g \in Files, FirstScan(g)
    PROVE  FirstScan(g)'
<1>1. CASE g # f
  BY <1>1 DEF FirstScan, Present, Blank, Extracted
<1>2. CASE g = f /\ Present(f)' /\ disk'[f].version = writes + 1 /\ writes + 1 \in Versions
  <2>1. rows[f] \in Versions => rows[f] <= writes
    BY DEF QueuesOfUp, Past
  <2>2. writes \in 0..MaxWrites /\ rows[f] \in Versions \cup {Missing, NoMtime}
    BY DEF IndexInv, ServerInv, StoreInv
  <2>3. writes \in Nat /\ \A v \in Versions : v \in Nat
    BY <2>2, NotVersions, ConstantsAssumption
  <2>4. rows[f] \in Versions => rows[f] # writes + 1
    BY <2>1, <2>3
  <2>5. rows[f] # NoMtime
    BY <1>2 DEF FirstScan
  <2>6. rows[f] = Missing => <<"scan", f>> \notin todo
    BY <1>2 DEF FirstScan
  <2>7. CASE rows[f] \in Versions
    BY <1>2, <2>4, <2>7, NotVersions DEF FirstScan, Blank
  <2>8. CASE rows[f] = Missing
    <3>1. symbols[f] = Missing /\ \A e \in edges : e[1] # f
      BY <1>2, <2>8 DEF FirstScan, Blank
    <3>2. <<"scan", f>> \notin todo' /\ rows'[f] = Missing /\ Blank(f)'
      BY <2>6, <2>8, <3>1 DEF Blank
    <3>3. disk'[f].version # Missing
      BY <1>2, NotVersions
    <3> QED
      BY <1>2, <2>5, <3>2, <3>3, NotVersions DEF FirstScan
  <2> QED
    BY <2>2, <2>5, <2>7, <2>8
<1>3. CASE g = f /\ type = "unlink" /\ ~Present(f)'
  <2>1. rows[f] # Missing
    BY <1>3 DEF Report, IndexInv, ServerInv
  <2> QED
    BY <1>3, <2>1 DEF FirstScan, Blank
<1> QED
  BY <1>1, <1>2, <1>3

(* Pass 1 leaves every row to Pass 2.                                       *)
LEMMA RescanScans ==
    ASSUME IndexInv, Rescan, excluded = {}, \A f \in Files : rows[f] = Missing /\ Blank(f),
           NEW g \in Files
    PROVE  FirstScan(g)'
<1>1. /\ edges' = edges /\ symbols' = symbols /\ disk' = disk
      /\ rows'[g] = IF Present(g) THEN disk[g].version ELSE Missing
      /\ rows'[g] # Missing => <<"scan", g>> \in todo'
      /\ <<"scan", g>> \in todo' => rows'[g] # Missing
  BY DEF Rescan, Indexable, extraction
<1>2. Present(g) => disk[g].version \in Versions
  BY PresentVersion
<1>3. \A e \in edges : e[1] # g /\ e[2] # g
  BY DEF Blank, IndexInv, StoreInv
<1>4. symbols'[g] = Missing
  BY <1>1 DEF Blank
<1> QED
  BY <1>1, <1>2, <1>3, <1>4, NotVersions DEF FirstScan, Blank, Present

(* Pass 2 extracts what a file had when it was visited.                     *)
LEMMA ScanScans ==
    ASSUME IndexInv, NEW f \in Files, ScanFile(f), NEW g \in Files, FirstScan(f), FirstScan(g)
    PROVE  FirstScan(g)'
<1>1. /\ <<"scan", f>> \in todo /\ todo' = todo \ {<<"scan", f>>}
      /\ rows' = rows /\ disk' = disk
  BY DEF ScanFile, store, extraction
<1>2. CASE Present(f) /\ ~Unchanged(f)
  <2>1. /\ edges' = EdgesFrom(f, Parse(f).targets)
        /\ symbols' = [symbols EXCEPT ![f] = disk[f].version]
    BY <1>2 DEF ScanFile, setEdgesAndSymbols, Parse
  <2>2. /\ Parse(f).targets \subseteq disk[f].imports
        /\ \A d \in Parse(f).targets : Present(d)
    BY <1>2 DEF Parse
  <2>3. symbols'[f] = disk[f].version /\ (g # f => symbols'[g] = symbols[g])
    BY <2>1 DEF IndexInv, StoreInv
  <2>4. /\ \A e \in edges' : e[1] = f => e[2] \in Parse(f).targets
        /\ \A e \in edges' : e \notin edges => e[1] = f /\ e[2] \in Parse(f).targets
    BY <2>1 DEF EdgesFrom
  <2>5. rows[f] # Missing
    BY <1>1 DEF FirstScan
  <2>6. \A e \in edges' : e[2] = g => Present(g) \/ rows[g] # Missing
    BY <2>2, <2>4 DEF FirstScan
  <2>7. CASE g = f
    <3>1. Extracted(f)'
      BY <1>1, <2>2, <2>3, <2>4 DEF Extracted
    <3> QED
      BY <1>1, <2>5, <2>6, <2>7, <3>1 DEF FirstScan, Present
  <2>8. CASE g # f
    <3>1. \A e \in edges' : e[1] = g => e \in edges
      BY <2>4, <2>8
    <3>2. (Blank(g) => Blank(g)') /\ (Extracted(g) => Extracted(g)')
      BY <1>1, <2>3, <2>8, <3>1 DEF Blank, Extracted
    <3>3. <<"scan", g>> \in todo' <=> <<"scan", g>> \in todo
      BY <1>1, <2>8
    <3> QED
      BY <1>1, <2>6, <3>1, <3>2, <3>3 DEF FirstScan, Present
  <2> QED
    BY <2>7, <2>8
<1>3. CASE ~(Present(f) /\ ~Unchanged(f))
  <2>1. edges' = edges /\ symbols' = symbols
    BY <1>3 DEF ScanFile, store, extraction
  <2>2. ~Present(f)
    BY <1>1, <1>3 DEF Unchanged, Targets, FirstScan
  <2>3. g # f => (<<"scan", g>> \in todo' <=> <<"scan", g>> \in todo)
    BY <1>1
  <2>4. (Present(g)' <=> Present(g)) /\ (Blank(g)' <=> Blank(g)) /\ (Extracted(g)' <=> Extracted(g))
    BY <1>1, <2>1 DEF Present, Blank, Extracted
  <2>5. rows[f] # Missing
    BY <1>1 DEF FirstScan
  <2> QED
    BY <1>1, <2>1, <2>2, <2>3, <2>4, <2>5 DEF FirstScan
<1> QED
  BY <1>2, <1>3

(* The check lists every file that is not settled.                          *)
LEMMA CheckSweeps ==
    ASSUME IndexInv, QueuesOfUp, IntegrityCheck, excluded = {}, NEW g \in Files,
           stops = 0 => FirstScan(g)
    PROVE  Swept(g)'
<1>1. /\ <<"stale", g>> \in todo' <=> Present(g) /\ rows[g] \in Versions /\ rows[g] # disk[g].version
      /\ <<"missing", g>> \in todo' <=> rows[g] # Missing /\ ~Present(g)
      /\ <<"new", g>> \in todo' <=> rows[g] = Missing /\ Present(g)
  BY DEF IntegrityCheck, Indexable
<1>2. /\ UNCHANGED <<disk, rows, robbed, symbols, edges, work, stops>>
      /\ work = Idle /\ <<"scan", g>> \notin todo
  BY DEF IntegrityCheck, store, extraction, queues, history, QueuesOfUp
<1>3. rows[g] \in Versions \cup {Missing, NoMtime} /\ stops \in Nat
  BY ConstantsAssumption DEF IndexInv, StoreInv, ServerInv
<1>4. (Present(g)' <=> Present(g)) /\ (Settled(g)' <=> Settled(g))
  BY <1>2 DEF Present, Settled, Current, Extracted, Gone, Robbed, Blank, HandlerOn
<1>5. ASSUME <<"stale", g>> \notin todo', <<"missing", g>> \notin todo', <<"new", g>> \notin todo'
      PROVE  Settled(g)
  <2>1. CASE Present(g)
    <3>1. rows[g] = disk[g].version \/ (stops > 0 /\ rows[g] = NoMtime)
      <4>1. stops # 0 => stops > 0
        BY <1>3
      <4> QED
        BY <1>1, <1>3, <1>5, <2>1, <4>1 DEF FirstScan
    <3>2. stops = 0 => Extracted(g)
      <4>1. stops = 0 => rows[g] = disk[g].version
        BY <3>1
      <4> QED
        BY <1>2, <2>1, <4>1 DEF FirstScan
    <3> QED
      BY <1>2, <2>1, <3>1, <3>2 DEF Settled, Current, HandlerOn
  <2>2. CASE ~Present(g)
    <3>1. rows[g] = Missing
      BY <1>1, <1>5, <2>2
    <3>2. stops = 0 => Blank(g) /\ \A e \in edges : e[2] # g
      BY <2>2, <3>1 DEF FirstScan
    <3> QED
      BY <1>2, <2>2, <3>1, <3>2 DEF Settled, Gone, HandlerOn
  <2> QED
    BY <2>1, <2>2
<1>6. \/ <<"stale", g>> \in todo' \/ <<"missing", g>> \in todo' \/ <<"new", g>> \in todo'
      \/ Settled(g)'
  BY <1>4, <1>5
<1> QED
  BY <1>1, <1>2, <1>4, <1>6 DEF Swept

(* A repair settles its file and no other is unsettled by it.               *)
LEMMA HealSweeps ==
    ASSUME IndexInv, QueuesOfUp, Heal, \A g \in Files : Swept(g), NEW g \in Files
    PROVE  Swept(g)'
<1> PICK f \in Files : HealStale(f) \/ HealMissing(f) \/ HealNew(f)
  BY DEF Heal
<1>1. UNCHANGED <<disk, work, stops>> /\ work = Idle /\ work' = Idle
  BY DEF Heal, queues, history, QueuesOfUp
<1>2. (Present(g)' <=> Present(g)) /\ ~HandlerOn(g) /\ ~HandlerOn(g)'
  BY <1>1 DEF Present, HandlerOn
<1>3. CASE HealStale(f) \/ HealNew(f)
  <2>1. Present(f)
    BY <1>3 DEF HealStale, HealNew, Swept
  <2> PICK parsed, mtime : parsed = Parse(f) /\ mtime = disk[f].version
    OBVIOUS
  <2>2. /\ parsed.ok /\ parsed.version = disk[f].version /\ parsed.targets \subseteq disk[f].imports
        /\ \A d \in parsed.targets : Present(d)
    BY <2>1 DEF Parse
  <2>3. \E deps : Added(f, parsed, mtime) \/ Updated(f, parsed, deps, mtime)
    BY <1>3, <2>1 DEF HealStale, HealNew, Mtime
  <2>4. /\ upsertFile(f, mtime) /\ setEdgesAndSymbols(f, parsed)
        /\ \/ edges' = EdgesFrom(f, parsed.targets) \/ edges' = EdgesFrom(f, {}) \/ edges' = edges
        /\ symbols' = symbols \/ \E v : symbols' = [symbols EXCEPT ![f] = v]
    BY <2>2, <2>3, WriteEffect
  <2>5. CASE g = f
    <3>1. Settled(f)'
      BY <1>1, <2>1, <2>2, <2>4, WrittenSettled
    <3>2. <<"missing", f>> \notin todo /\ todo' \subseteq todo
      BY <1>3, <2>1 DEF Swept, HealStale, HealNew
    <3> QED
      BY <1>2, <2>1, <2>5, <3>1, <3>2 DEF Swept
  <2>6. CASE g # f
    <3>1. \A t : <<t, g>> \in todo' <=> <<t, g>> \in todo
      BY <1>3, <2>6 DEF HealStale, HealNew
    <3>2. Present(g) \/ g \notin parsed.targets
      BY <2>2
    <3>3. Settled(g) => Settled(g)'
      BY <1>1, <1>2, <2>4, <2>6, <3>2, OtherSettled
    <3>4. rows'[g] = rows[g]
      BY <2>4, <2>6 DEF upsertFile, IndexInv, StoreInv
    <3>5. {<<"stale", g>>, <<"missing", g>>, <<"new", g>>} \cap todo' = {}
             => {<<"stale", g>>, <<"missing", g>>, <<"new", g>>} \cap todo = {}
      BY <3>1
    <3> QED
      BY <1>2, <3>1, <3>3, <3>4, <3>5 DEF Swept
  <2> QED
    BY <2>5, <2>6
<1>4. CASE HealMissing(f)
  <2>1. ~Present(f) /\ rows[f] # Missing /\ <<"stale", f>> \notin todo /\ <<"new", f>> \notin todo
    BY <1>4 DEF HealMissing, Swept
  <2>2. deleteFile(f) /\ robbed' = robbed /\ todo' = todo \ {<<"missing", f>>}
    BY <1>4, <2>1, RemovesOne DEF HealMissing
  <2>3. rows' = [rows EXCEPT ![f] = Missing] /\ symbols' = [symbols EXCEPT ![f] = Missing]
        /\ edges' = {e \in edges : e[1] # f /\ e[2] # f}
    BY <2>2 DEF deleteFile
  <2>4. CASE g = f
    <3>1. Gone(f)'
      BY <1>1, <2>3 DEF Gone, Blank, HandlerOn, IndexInv, StoreInv
    <3>2. Settled(f)'
      BY <1>2, <2>1, <2>4, <3>1 DEF Settled
    <3> QED
      BY <2>1, <2>2, <2>4, <3>2 DEF Swept
  <2>5. CASE g # f
    <3>1. \A t : <<t, g>> \in todo' <=> <<t, g>> \in todo
      BY <2>2, <2>5
    <3>2. rows'[g] = rows[g] /\ symbols'[g] = symbols[g] /\ edges' \subseteq edges
      BY <2>3, <2>5 DEF IndexInv, StoreInv
    <3>3. Settled(g) => Settled(g)'
      BY <1>1, <1>2, <2>2, <3>2, SettledStays
    <3>4. {<<"stale", g>>, <<"missing", g>>, <<"new", g>>} \cap todo' = {}
             => {<<"stale", g>>, <<"missing", g>>, <<"new", g>>} \cap todo = {}
      BY <3>1
    <3> QED
      BY <1>2, <3>1, <3>2, <3>3, <3>4 DEF Swept
  <2> QED
    BY <2>4, <2>5
<1> QED
  BY <1>3, <1>4

-----------------------------------------------------------------------------
(* Every step keeps the invariant.                                          *)

(* An event that was dropped, or an exclusion, is never undone.             *)
LEMMA DisturbedOnce == IndexInv /\ [Next]_vars /\ Undisturbed' => Undisturbed
<1> SUFFICES ASSUME IndexInv, [Next]_vars, Undisturbed'
             PROVE  Undisturbed
  OBVIOUS
<1>1. \A f, type : Report(f, type) => (missed => missed')
  BY DEF Report
<1>2. CASE \E f \in Files, imports \in SUBSET Files : Write(f, imports)
  BY <1>1, <1>2 DEF Write, Undisturbed
<1>3. CASE \E f \in Files : Delete(f)
  BY <1>1, <1>3 DEF Delete, Undisturbed
<1>4. CASE \E f \in Files : ExcludeAndRemove(f)
  BY <1>4 DEF ExcludeAndRemove, SameName, Undisturbed
<1>5. CASE UNCHANGED <<excluded, missed>>
  BY <1>5 DEF Undisturbed
<1>6. CASE \E f \in Files : ScanFile(f) \/ CheckFileFreshness(f)
  BY <1>5, <1>6 DEF ScanFile, CheckFileFreshness, history
<1>7. CASE TimerFires \/ BeginHandler \/ EndHandler \/ GetCommunities
  BY <1>5, <1>7 DEF TimerFires, BeginHandler, EndHandler, GetCommunities, history
<1>8. CASE Start \/ UseCache \/ Rescan \/ Scanned \/ IntegrityCheck \/ Heal \/ Ready
  BY <1>5, <1>8 DEF Start, UseCache, Rescan, Scanned, IntegrityCheck, Heal, Ready, history
<1>9. CASE Stop \/ KillInWrite
  BY <1>5, <1>9 DEF Stop, KillInWrite, Ended
<1>10. CASE UNCHANGED vars
  BY <1>5, <1>10 DEF vars, history
<1> QED
  BY <1>2, <1>3, <1>4, <1>6, <1>7, <1>8, <1>9, <1>10 DEF Next

(* A change on disk, in every phase.                                        *)
LEMMA ChangeTells ==
    ASSUME IndexInv, QueuesOfUp, Undisturbed, Undisturbed', PhaseTells,
           NEW f \in Files, NEW type \in {"add", "change", "unlink"}, Report(f, type),
           UNCHANGED <<rows, robbed, symbols, edges, phase, todo, mutex, work, stops>>,
           \A g \in Files : g # f => disk'[g] = disk[g],
           \/ type = "change" /\ Present(f)'
           \/ type = "add" /\ ~Present(f) /\ Present(f)'
           \/ type = "unlink" /\ Present(f) /\ ~Present(f)',
           Present(f)' => disk'[f].version = writes + 1 /\ writes + 1 \in Versions
    PROVE  PhaseTells'
<1>1. excluded = {} /\ missed' = FALSE
  BY DEF Undisturbed, IndexInv, ServerInv, Report
<1>2. CASE phase = "up"
  <2>1. \A g \in Files : Served(g)'
    BY <1>1, <1>2, ChangeServes DEF PhaseTells
  <2> QED
    BY <1>2, <2>1 DEF PhaseTells
<1>3. CASE phase = "sweeping"
  BY <1>1, <1>3 DEF Report
<1>4. CASE phase \in {"scanning", "built"}
  <2>1. stops = 0 => \A g \in Files : FirstScan(g)'
    BY <1>1, <1>4, ChangeScans DEF PhaseTells
  <2> QED
    BY <1>4, <2>1 DEF PhaseTells
<1>5. CASE phase \in {"down", "purged"}
  BY <1>5 DEF PhaseTells, Blank
<1> QED
  BY <1>2, <1>3, <1>4, <1>5 DEF IndexInv, ServerInv

(* Every step leaves what its phase promises.                               *)
LEMMA TellsKeep ==
    ASSUME IndexInv, QueuesOfUp, RobbedInv, RobbedInv', Undisturbed, Undisturbed', PhaseTells,
           [Next]_vars
    PROVE  PhaseTells'
<1>0. excluded = {} /\ stops \in Nat
  BY ConstantsAssumption DEF Undisturbed, IndexInv, ServerInv
<1>1. ASSUME NEW f \in Files, NEW imports \in SUBSET Files, Write(f, imports)
      PROVE  PhaseTells'
  <2> PICK type : type = IF Present(f) THEN "change" ELSE "add"
    OBVIOUS
  <2>1. /\ disk' = [disk EXCEPT ![f] = [imports |-> imports, version |-> writes + 1]]
        /\ UNCHANGED <<rows, robbed, symbols, edges, phase, todo, mutex, work, stops>>
        /\ Report(f, type) /\ writes < MaxWrites
    BY <1>1 DEF Write, store, extraction
  <2>2. writes + 1 \in Versions
    BY <2>1, ConstantsAssumption DEF IndexInv, ServerInv, Versions
  <2>3. disk' \in [Files -> Content \cup {Missing}]
    BY <1>1, WriteKeeps DEF IndexInv, ServerInv
  <2>4. disk'[f] = [imports |-> imports, version |-> writes + 1] /\ \A g \in Files : g # f => disk'[g] = disk[g]
    BY <2>1 DEF IndexInv, ServerInv
  <2>5. Present(f)'
    <3>1. [imports |-> imports, version |-> writes + 1] \in Content
      BY <2>2 DEF Content
    <3> QED
      BY <2>4, <3>1, ConstantsAssumption DEF Present
  <2> QED
    BY <2>1, <2>2, <2>4, <2>5, ChangeTells
<1>2. ASSUME NEW f \in Files, Delete(f)
      PROVE  PhaseTells'
  <2>1. /\ disk' = [disk EXCEPT ![f] = Missing] /\ Present(f)
        /\ UNCHANGED <<rows, robbed, symbols, edges, phase, todo, mutex, work, stops>>
        /\ Report(f, "unlink")
    BY <1>2 DEF Delete, store, extraction
  <2>2. disk'[f] = Missing /\ \A g \in Files : g # f => disk'[g] = disk[g]
    BY <2>1 DEF IndexInv, ServerInv
  <2>3. ~Present(f)'
    BY <2>2 DEF Present
  <2> QED
    BY <2>1, <2>2, <2>3, ChangeTells
<1>3. ASSUME NEW f \in Files, ScanFile(f)
      PROVE  PhaseTells'
  <2>1. phase = "scanning" /\ phase' = "scanning" /\ stops' = stops
    BY <1>3 DEF ScanFile, history
  <2>2. stops = 0 => \A g \in Files : FirstScan(g)'
    BY <1>3, <2>1, ScanScans DEF PhaseTells
  <2> QED
    BY <2>1, <2>2 DEF PhaseTells
<1>4. ASSUME NEW f \in Files, ExcludeAndRemove(f)
      PROVE  PhaseTells'
  BY <1>4 DEF ExcludeAndRemove, SameName, Undisturbed
<1>5. ASSUME phase' = "up", phase = "up", \A g \in Files : Served(g) => Served(g)'
      PROVE  PhaseTells'
  BY <1>5 DEF PhaseTells
<1>6. CASE TimerFires
  <2>1. /\ UNCHANGED <<disk, rows, robbed, symbols, edges, work, stops, phase>> /\ phase = "up"
        /\ Waiting' = Waiting
    BY <1>6, FiringWaits DEF TimerFires, store, extraction, history
  <2> QED
    BY <1>5, <2>1, QuietServes
<1>7. CASE BeginHandler
  BY <1>5, <1>7, BeginServes DEF BeginHandler
<1>8. CASE EndHandler
  BY <1>5, <1>8, EndServes DEF EndHandler
<1>9. CASE GetCommunities
  <2>1. /\ UNCHANGED <<disk, rows, robbed, symbols, edges, work, stops, phase>> /\ phase = "up"
        /\ Waiting' = Waiting
    BY <1>9 DEF GetCommunities, queues, history, Waiting
  <2> QED
    BY <1>5, <2>1, QuietServes
<1>10. ASSUME NEW f \in Files, CheckFileFreshness(f)
       PROVE  PhaseTells'
  <2>1. /\ UNCHANGED <<disk, symbols, edges, work, stops, phase>> /\ phase = "up"
        /\ Waiting' = Waiting
    BY <1>10 DEF CheckFileFreshness, extraction, queues, history, Waiting
  <2> QED
    BY <1>5, <1>10, <2>1, QuietServes
<1>11. CASE Start
  <2>1. /\ phase = "down" /\ phase' = "purged" /\ stops' = stops /\ edges' = edges
        /\ \A f \in Files : rows'[f] = rows[f] /\ symbols'[f] = symbols[f]
    BY <1>0, <1>11 DEF Start, Purge, history
  <2>2. stops = 0 => \A f \in Files : rows'[f] = Missing /\ Blank(f)'
    BY <2>1 DEF PhaseTells, Blank
  <2> QED
    BY <2>1, <2>2 DEF PhaseTells
<1>12. CASE UseCache
  <2>1. phase = "purged" /\ phase' = "built" /\ stops' = stops
    BY <1>12 DEF UseCache, history
  <2>2. stops # 0
    BY <1>12, <2>1 DEF UseCache, PhaseTells
  <2> QED
    BY <2>1, <2>2 DEF PhaseTells
<1>13. CASE Rescan
  <2>1. phase = "purged" /\ phase' = "scanning" /\ stops' = stops
    BY <1>13 DEF Rescan, history
  <2>2. stops = 0 => \A g \in Files : FirstScan(g)'
    BY <1>0, <1>13, <2>1, RescanScans DEF PhaseTells
  <2> QED
    BY <2>1, <2>2 DEF PhaseTells
<1>14. CASE Scanned
  <2>1. /\ phase = "scanning" /\ phase' = "built"
        /\ UNCHANGED <<disk, rows, symbols, edges, todo, stops>>
    BY <1>14 DEF Scanned, store, extraction, history
  <2>2. stops = 0 => \A g \in Files : FirstScan(g)'
    BY <2>1 DEF PhaseTells, FirstScan, Blank, Extracted, Present
  <2> QED
    BY <2>1, <2>2 DEF PhaseTells
<1>15. CASE IntegrityCheck
  <2>1. phase = "built" /\ phase' = "sweeping"
    BY <1>15 DEF IntegrityCheck
  <2>2. \A g \in Files : Swept(g)'
    BY <1>0, <1>15, <2>1, CheckSweeps DEF PhaseTells
  <2> QED
    BY <2>1, <2>2 DEF PhaseTells
<1>16. CASE Heal
  <2>1. phase = "sweeping" /\ phase' = "sweeping"
    BY <1>16 DEF Heal
  <2>2. \A g \in Files : Swept(g)'
    BY <1>16, <2>1, HealSweeps DEF PhaseTells
  <2> QED
    BY <2>1, <2>2 DEF PhaseTells
<1>17. CASE Ready
  <2>1. /\ phase = "sweeping" /\ phase' = "up" /\ todo = {}
        /\ UNCHANGED <<disk, rows, robbed, symbols, edges, work, stops>>
        /\ Waiting' = Waiting
    BY <1>17 DEF Ready, store, extraction, queues, history, Waiting
  <2>2. Waiting = <<>>
    <3>1. timers = <<>> /\ mutex = <<>>
      BY <2>1 DEF QueuesOfUp
    <3> QED
      BY <3>1, ConcatEmptySeq, WaitingType DEF Waiting
  <2>3. ASSUME NEW g \in Files PROVE Served(g)'
    <3>1. Settled(g)
      BY <2>1 DEF PhaseTells, Swept
    <3>2. Settled(g)'
      BY <2>1, <3>1, SettledSame
    <3>3. NoneOf(Waiting, g)'
      BY <2>1, <2>2 DEF NoneOf
    <3> QED
      BY <3>2, <3>3 DEF Served
  <2> QED
    BY <2>1, <2>3 DEF PhaseTells
<1>18. CASE Stop \/ KillInWrite
  <2>1. phase' = "down" /\ stops' = stops + 1
    BY <1>18 DEF Stop, KillInWrite, Ended
  <2>2. stops' # 0
    BY <1>0, <2>1
  <2> QED
    BY <2>1, <2>2 DEF PhaseTells
<1>19. CASE UNCHANGED vars
  <2>1. UNCHANGED <<disk, rows, robbed, symbols, edges, phase, todo, timers, mutex, work, stops>>
    BY <1>19 DEF vars, store, extraction, queues, history
  <2> QED
    BY <2>1 DEF PhaseTells, Served, Settled, Swept, FirstScan, Present, Current, Gone, Robbed, Blank,
                Extracted, HandlerOn, Waiting, LastTells
<1> QED
  BY <1>1, <1>2, <1>3, <1>4, <1>6, <1>7, <1>8, <1>9, <1>10, <1>11,
     <1>12, <1>13, <1>14, <1>15, <1>16, <1>17, <1>18, <1>19 DEF Next

(* Before the first start nothing is promised and nothing waits.            *)
LEMMA DiskInit == Init => DiskInv
<1> SUFFICES ASSUME Init
             PROVE  DiskInv
  OBVIOUS
<1>1. \A f \in Files : rows[f] = Missing /\ symbols[f] = Missing
  BY DEF Init
<1>2. Past(0) /\ Past(Missing)
  BY NotVersions DEF Init, Past
<1>3. \A f \in Files : Present(f) => disk[f].version = 0
  BY DEF Init, Present
<1>4. QueuesOfUp
  BY <1>1, <1>2, <1>3 DEF Init, QueuesOfUp
<1>5. PhaseTells
  BY <1>1 DEF Init, PhaseTells, Blank
<1> QED
  BY <1>4, <1>5, RobbedInit DEF DiskInv

(* The invariant is inductive, beside that of IndexProofs.                  *)
LEMMA DiskKeeps == IndexInv /\ DiskInv /\ [Next]_vars => DiskInv'
BY QueuesKeep, RobbedKeeps, TellsKeep, DisturbedOnce DEF DiskInv

(* A server at rest has every file settled.                                 *)
LEMMA RestMatchesDisk == IndexInv /\ DiskInv => IndexMatchesDisk
<1> SUFFICES ASSUME IndexInv, DiskInv
             PROVE  IndexMatchesDisk
  OBVIOUS
<1>1. TypeOK
  BY DEF IndexInv, StoreInv, ServerInv, DiskInv, RobbedInv, TypeOK
<1>2. ASSUME Quiet, Undisturbed, NEW f \in Files PROVE Settled(f) /\ ~HandlerOn(f)
  <2>1. Served(f) /\ work = Idle /\ timers = <<>> /\ mutex = <<>>
    BY <1>2 DEF Quiet, DiskInv, PhaseTells
  <2>2. Waiting = <<>>
    BY <2>1, ConcatEmptySeq, WaitingType DEF Waiting
  <2> QED
    BY <2>1, <2>2 DEF Served, HandlerOn
<1>3. RowsMatchDisk
  <2> SUFFICES ASSUME Quiet, Undisturbed, NEW f \in Files
               PROVE  \/ rows[f] = Mtime(f, Missing) \/ f \in robbed
                      \/ stops > 0 /\ Present(f) /\ rows[f] = NoMtime
    BY DEF RowsMatchDisk
  <2>1. Settled(f) /\ ~HandlerOn(f)
    BY <1>2
  <2> QED
    BY <2>1 DEF Settled, Current, Gone, Robbed, Mtime
<1>4. ExtractionIsCurrent
  <2> SUFFICES ASSUME Quiet, Undisturbed, stops = 0
               PROVE  /\ \A f \in Files : symbols[f] = Mtime(f, Missing) \/ f \in robbed
                      /\ \A e \in edges :
                            /\ Present(e[1]) /\ e[2] \in disk[e[1]].imports
                            /\ Present(e[2]) \/ e[2] \in robbed
    BY DEF ExtractionIsCurrent
  <2>1. ASSUME NEW f \in Files
        PROVE  IF Present(f) THEN Extracted(f) \/ (f \in robbed /\ Blank(f))
               ELSE Blank(f) /\ (f \in robbed \/ \A e \in edges : e[2] # f)
    <3>1. Settled(f) /\ ~HandlerOn(f)
      BY <1>2
    <3> QED
      BY <3>1 DEF Settled, Current, Gone, Robbed, DiskInv, RobbedInv
  <2>2. \A f \in Files : symbols[f] = Mtime(f, Missing) \/ f \in robbed
    BY <2>1 DEF Extracted, Blank, Mtime
  <2>3. ASSUME NEW e \in edges
        PROVE  /\ Present(e[1]) /\ e[2] \in disk[e[1]].imports
               /\ Present(e[2]) \/ e[2] \in robbed
    <3>1. e[1] \in Files /\ e[2] \in Files
      BY DEF IndexInv, StoreInv
    <3>2. Present(e[1]) /\ e[2] \in disk[e[1]].imports
      BY <2>1, <3>1 DEF Extracted, Blank
    <3> QED
      BY <2>1, <3>1, <3>2
  <2> QED
    BY <2>2, <2>3
<1> QED
  BY <1>1, <1>3, <1>4 DEF IndexMatchesDisk

(* Whatever bursts of events, races with the handler and restarts there     *)
(* were, the index of a quiet server has the files on disk, with their      *)
(* mtimes and, before a restart, with the symbols and edges of their        *)
(* present content.  Only a file whose row went in place of a namesake's    *)
(* is not in it until the file is written again.                            *)
THEOREM IndexStaysOnDisk == Spec => []IndexMatchesDisk
<1>1. IndexInv /\ DiskInv /\ [Next]_vars => DiskInv'
  BY DiskKeeps
<1> QED
  BY <1>1, DiskInit, RestMatchesDisk, IndexInvariant, PTL DEF Spec

-----------------------------------------------------------------------------
(* The answers: lists in an order, and what is cut from them.               *)

Orders(order, files) ==
    /\ \A x \in files : <<x, x>> \notin order
    /\ \A x, y, z \in files : <<x, y>> \in order /\ <<y, z>> \in order => <<x, z>> \in order
    /\ \A x, y \in files : x = y \/ <<x, y>> \in order \/ <<y, x>> \in order

(* The place of a file is one more than the number of those before it: each *)
(* place has one file and each file one place.                              *)
LEMMA InOrderLists ==
    ASSUME NEW S, IsFiniteSet(S), NEW R, Orders(R, S)
    PROVE  /\ InOrder(S, R) \in Seq(S) /\ Len(InOrder(S, R)) = Cardinality(S)
           /\ ToSet(InOrder(S, R)) = S
<1> DEFINE Before(x) == {g \in S : <<g, x>> \in R}
           n == Cardinality(S)
           rank == [x \in S |-> Cardinality(Before(x)) + 1]
           s == InOrder(S, R)
<1>1. n \in Nat
  BY FS_CardinalityType
<1>2. ASSUME NEW x \in S
      PROVE  /\ IsFiniteSet(Before(x)) /\ Cardinality(Before(x)) \in Nat
             /\ Cardinality(Before(x)) < n
  <2>1. Before(x) \subseteq S /\ Before(x) # S
    BY DEF Orders
  <2>2. /\ IsFiniteSet(Before(x)) /\ Cardinality(Before(x)) <= n
        /\ n = Cardinality(Before(x)) => Before(x) = S
    BY <2>1, FS_Subset
  <2>3. Cardinality(Before(x)) \in Nat
    BY <2>2, FS_CardinalityType
  <2> HIDE DEF Before, n
  <2> QED
    BY <1>1, <2>1, <2>2, <2>3
<1>3. ASSUME NEW x \in S, NEW y \in S, <<x, y>> \in R
      PROVE  Cardinality(Before(x)) < Cardinality(Before(y))
  <2>1. Before(x) \subseteq Before(y) /\ Before(x) # Before(y)
    BY <1>3 DEF Orders
  <2>2. /\ Cardinality(Before(x)) <= Cardinality(Before(y))
        /\ Cardinality(Before(y)) = Cardinality(Before(x)) => Before(x) = Before(y)
    BY <1>2, <2>1, FS_Subset
  <2> HIDE DEF Before
  <2> QED
    BY <1>2, <2>1, <2>2
<1> HIDE DEF Before, n
<1>4. rank \in [S -> 1..n]
  BY <1>1, <1>2
<1>5. \A x, y \in S : x # y => rank[x] # rank[y]
  <2>1. ASSUME NEW x \in S, NEW y \in S, <<x, y>> \in R PROVE rank[x] # rank[y]
    BY <1>2, <1>3, <2>1
  <2> QED
    BY <2>1 DEF Orders
<1>6. \A i \in 1..n : \E x \in S : rank[x] = i
  <2>1. rank \in Injection(S, 1..n)
    BY <1>4, <1>5 DEF Injection, IsInjective
  <2>2. IsFiniteSet(1..n) /\ Cardinality(1..n) = n
    BY <1>1, FS_Interval
  <2>3. rank \in Surjection(S, 1..n)
    BY <2>1, <2>2, FS_Injection DEF n
  <2> QED
    BY <2>3 DEF Surjection
<1>7. s = [i \in 1..n |-> CHOOSE f \in S : Cardinality(Before(f)) = i - 1]
  BY DEF InOrder, n, Before
<1>8. \A i \in 1..n : \A x \in S : rank[x] = i <=> Cardinality(Before(x)) = i - 1
  BY <1>1, <1>2
<1> HIDE DEF s
<1>9. ASSUME NEW i \in 1..n PROVE s[i] \in S /\ rank[s[i]] = i
  <2>1. \E f \in S : Cardinality(Before(f)) = i - 1
    BY <1>6, <1>8
  <2>2. s[i] \in S /\ Cardinality(Before(s[i])) = i - 1
    BY <1>7, <2>1
  <2> QED
    BY <1>8, <2>2
<1> HIDE DEF rank
<1>10. s \in [1..n -> S]
  BY <1>7, <1>9
<1>11. s \in Seq(S) /\ Len(s) = n /\ DOMAIN s = 1..n
  BY <1>1, <1>10
<1>12. ToSet(s) = S
  <2>1. ASSUME NEW x \in S PROVE \E i \in 1..n : s[i] = x
    <3>1. rank[x] \in 1..n
      BY <1>4
    <3>2. s[rank[x]] \in S /\ rank[s[rank[x]]] = rank[x]
      BY <1>9, <3>1
    <3> QED
      BY <1>5, <3>1, <3>2
  <2> QED
    BY <1>9, <1>11, <2>1 DEF ToSet
<1> QED
  BY <1>11, <1>12 DEF s, n

(* An answer is a prefix; it is cut at the limit, or not at all.            *)
LEMMA AnswerLists ==
    ASSUME NEW S, NEW s \in Seq(S), NEW max \in Nat
    PROVE  /\ Clamped(max) \in Nat
           /\ Answer(s, max).total = Len(s)
           /\ Answer(s, max).truncated <=> Len(Answer(s, max).items) < Len(s)
           /\ Len(Answer(s, max).items) \in {Clamped(max), Len(s)}
           /\ Len(Answer(s, max).items) <= Len(s) /\ Len(Answer(s, max).items) \in Nat
           /\ ToSet(Answer(s, max).items) \subseteq ToSet(s)
           /\ Len(Answer(s, max).items) = Len(s) => ToSet(Answer(s, max).items) = ToSet(s)
<1>1. \A a, b \in Nat : Min({a, b}) \in {a, b} /\ Min({a, b}) <= a /\ Min({a, b}) <= b
  <2> SUFFICES ASSUME NEW a \in Nat, NEW b \in Nat
               PROVE  Min({a, b}) \in {a, b} /\ Min({a, b}) <= a /\ Min({a, b}) <= b
    OBVIOUS
  <2>1. \E x \in {a, b} : \A y \in {a, b} : x <= y
    OBVIOUS
  <2> QED
    BY <2>1 DEF Min
<1>2. \A a, b \in Nat : Max({a, b}) \in {a, b}
  <2> SUFFICES ASSUME NEW a \in Nat, NEW b \in Nat
               PROVE  Max({a, b}) \in {a, b}
    OBVIOUS
  <2>1. \E x \in {a, b} : \A y \in {a, b} : x >= y
    OBVIOUS
  <2> QED
    BY <2>1 DEF Max
<1>3. Clamped(max) \in Nat
  <2>1. PICK m \in Nat : m = Max({1, max})
    BY <1>2
  <2>2. Min({500, m}) \in {500, m}
    BY <1>1
  <2> QED
    BY <2>1, <2>2 DEF Clamped
<1>4. PICK k : k = Min({Clamped(max), Len(s)})
  OBVIOUS
<1>5. k \in Nat /\ k <= Len(s) /\ k \in {Clamped(max), Len(s)} /\ Len(s) \in Nat
  BY <1>1, <1>3, <1>4
<1>6. PICK t : t = SubSeq(s, 1, k)
  OBVIOUS
<1>7. t \in Seq(S) /\ Len(t) = k /\ \A i \in 1..k : t[i] = s[i]
  BY <1>5, <1>6
<1>8. /\ Answer(s, max).items = t /\ Answer(s, max).total = Len(s)
      /\ Answer(s, max).truncated <=> Len(t) < Len(s)
  BY <1>4, <1>6 DEF Answer
<1>9. DOMAIN t = 1..k /\ DOMAIN s = 1..Len(s)
  BY <1>7
<1>10. ToSet(t) \subseteq ToSet(s)
  <2> SUFFICES ASSUME NEW i \in 1..k
               PROVE  \E j \in 1..Len(s) : t[i] = s[j]
    BY <1>9 DEF ToSet
  <2>1. i \in 1..Len(s) /\ t[i] = s[i]
    BY <1>5, <1>7
  <2> QED
    BY <2>1
<1>11. k = Len(s) => ToSet(t) = ToSet(s)
  BY <1>5, <1>7, <1>9 DEF ToSet
<1> QED
  BY <1>3, <1>5, <1>7, <1>8, <1>10, <1>11

(* A file no event of which is on its way is settled.                       *)
LEMMA NothingPending ==
    ASSUME IndexInv, DiskInv, Asked, NEW f \in Files, ~Pending(f)
    PROVE  NoneOf(Waiting, f) /\ Settled(f) /\ ~HandlerOn(f)
<1>1. Waiting \in Seq(Event) /\ mutex \in Seq(Event) /\ timers \in Seq(Event)
  BY WaitingType
<1>2. ASSUME NEW i \in DOMAIN Waiting PROVE Waiting[i][1] # f
  <2>1. \/ i \in DOMAIN mutex /\ Waiting[i] = mutex[i]
        \/ i - Len(mutex) \in DOMAIN timers /\ Waiting[i] = timers[i - Len(mutex)]
    BY <1>1 DEF Waiting
  <2> QED
    BY <2>1 DEF Pending
<1>3. Served(f)
  BY DEF Asked, DiskInv, PhaseTells
<1> QED
  BY <1>2, <1>3 DEF NoneOf, Served, Pending, HandlerOn

(* A list of files in the order of their mtimes.                            *)
LEMMA ListedLists ==
    ASSUME IndexInv, NEW files \in SUBSET {f \in Files : rows[f] # Missing}
    PROVE  Listed(files) \in Seq(files) /\ ToSet(Listed(files)) = files
<1> DEFINE order == {p \in files \X files : Newer(p[1], p[2])}
<1>1. \A f \in files : f \in Nat /\ ListedMtime(f) \in Nat
  <2> SUFFICES ASSUME NEW f \in files
               PROVE  f \in Nat /\ ListedMtime(f) \in Nat
    OBVIOUS
  <2>1. f \in Files /\ rows[f] \in Versions \cup {NoMtime}
    BY DEF IndexInv, StoreInv
  <2>2. 0 \in Nat
    OBVIOUS
  <2> QED
    BY <2>1, <2>2, NotVersions, ConstantsAssumption DEF ListedMtime
<1>2. Orders(order, files)
  <2>1. ASSUME NEW f \in files, NEW g \in files
        PROVE  <<f, g>> \in order <=> Newer(f, g)
    OBVIOUS
  <2> HIDE DEF order
  <2> QED
    BY <1>1, <2>1 DEF Orders, Newer
<1> HIDE DEF order
<1>3. IsFiniteSet(files)
  BY QueriesAssumption, FS_Subset
<1> QED
  BY <1>2, <1>3, InOrderLists DEF Listed, order

(* A client is told of every change, and of nothing else.                   *)
LEMMA ChangesListed == IndexInv /\ DiskInv => ChangesAreListed
<1> SUFFICES ASSUME IndexInv, DiskInv, Asked, NEW since \in Versions, NEW f \in Files, ~Pending(f),
                    f \notin robbed, ~(stops > 0 /\ Present(f) /\ rows[f] = NoMtime)
             PROVE  LET answer == list_changed_since(since, 50)
                        listed == f \in ToSet(answer.items)
                        changed == Present(f) /\ disk[f].version > since
                    IN  IF answer.truncated THEN listed => changed ELSE listed <=> changed
  BY DEF ChangesAreListed
<1>1. PICK files : files = getFilesChangedSince(since)
  OBVIOUS
<1>2. files = {g \in Files : rows[g] \in Versions /\ rows[g] > since}
  BY <1>1 DEF getFilesChangedSince
<1>3. files \subseteq {g \in Files : rows[g] # Missing}
  BY <1>2, NotVersions
<1>4. PICK sorted : sorted = Listed(files)
  OBVIOUS
<1>5. sorted \in Seq(files) /\ ToSet(sorted) = files
  BY <1>3, <1>4, ListedLists
<1>6. PICK answer : answer = Answer(sorted, 50)
  OBVIOUS
<1>7. list_changed_since(since, 50) = answer
  BY <1>1, <1>4, <1>6 DEF list_changed_since
<1>8. /\ ToSet(answer.items) \subseteq files
      /\ answer.truncated \/ ToSet(answer.items) = files
  <2>1. /\ answer.truncated <=> Len(answer.items) < Len(sorted)
        /\ Len(answer.items) <= Len(sorted) /\ Len(answer.items) \in Nat
        /\ ToSet(answer.items) \subseteq ToSet(sorted)
        /\ Len(answer.items) = Len(sorted) => ToSet(answer.items) = ToSet(sorted)
    <3>1. 50 \in Nat
      OBVIOUS
    <3> QED
      BY <1>5, <1>6, <3>1, AnswerLists
  <2>2. Len(sorted) \in Nat
    BY <1>5
  <2> QED
    BY <1>5, <2>1, <2>2
<1>9. f \in files <=> Present(f) /\ disk[f].version > since
  <2>1. Settled(f) /\ ~HandlerOn(f)
    BY NothingPending
  <2>2. CASE Present(f)
    <3>1. rows[f] = disk[f].version
      BY <2>1, <2>2 DEF Settled, Current, Robbed
    <3>2. disk[f].version \in Versions
      BY <2>2, PresentVersion
    <3> QED
      BY <1>2, <2>2, <3>1, <3>2
  <2>3. CASE ~Present(f)
    BY <1>3, <2>1, <2>3 DEF Settled, Gone
  <2> QED
    BY <2>2, <2>3
<1> QED
  BY <1>7, <1>8, <1>9

-----------------------------------------------------------------------------
(* The calls: their live ends have symbols, and an import goes with its     *)
(* calls unless an event of the importing file is on its way.               *)

LiveSymbols ==
    \A c \in calls :
        /\ c.callerLive => symbols[c.caller] # Missing
        /\ c.calleeLive => symbols[c.callee] # Missing

Imported(g) ==
    \A c \in calls : c.caller = g /\ c.callerLive /\ c.calleeLive => <<g, c.callee>> \in edges

\* A read that fails takes the imports and leaves the calls: the event that
\* tells what became of the file is still to come.
ImportsFollow == \A g \in Files : Imported(g) \/ ~NoneOf(Waiting, g) \/ HandlerOn(g)

CallsInv == LiveSymbols /\ (Undisturbed /\ stops = 0 => ImportsFollow)

LEMMA RescannedFields ==
    ASSUME StoreInv, NEW f \in Files, NEW c \in Rescanned(f)
    PROVE  \E d \in calls : /\ c.caller = d.caller /\ c.callee = d.callee
                            /\ c.callerLive <=> d.callerLive /\ d.caller # f
                            /\ c.calleeLive <=> d.calleeLive /\ d.callee # f
<1>1. PICK d \in calls : c = [d EXCEPT !.callerLive = @ /\ d.caller # f,
                                      !.calleeLive = @ /\ d.callee # f]
  BY DEF Rescanned, Orphaned
<1>2. d \in Call
  BY DEF StoreInv
<1>3. DOMAIN d = {"caller", "callee", "callerLive", "calleeLive"}
  BY <1>2 DEF Call
<1>4. /\ c.caller = d.caller /\ c.callee = d.callee
      /\ c.callerLive = (d.callerLive /\ d.caller # f)
      /\ c.calleeLive = (d.calleeLive /\ d.callee # f)
  BY <1>1, <1>3
<1> QED
  BY <1>4

(* An extraction replaces the calls of a file with those of its imports.    *)
LEMMA ExtractionFollows ==
    ASSUME StoreInv, LiveSymbols, NEW f \in Files, NEW parsed \in Parsed, parsed.version \in Versions,
           setEdgesAndSymbols(f, parsed)
    PROVE  LiveSymbols' /\ Imported(f)' /\ \A g \in Files : g # f /\ Imported(g) => Imported(g)'
<1>1. /\ edges' = {e \in edges : e[1] # f} \cup {<<f, d>> : d \in parsed.targets}
      /\ calls' = Rescanned(f) \cup Resolved(f, parsed.targets)
      /\ symbols' = [symbols EXCEPT ![f] = parsed.version]
  BY DEF setEdgesAndSymbols, EdgesFrom
<1>2. \A x \in Files : symbols'[x] = IF x = f THEN parsed.version ELSE symbols[x]
  BY <1>1 DEF StoreInv
<1>3. parsed.version # Missing /\ parsed.targets \subseteq Files
  BY NotVersions DEF Parsed
<1>4. ASSUME NEW c \in calls'
      PROVE  /\ c.callerLive => symbols'[c.caller] # Missing
             /\ c.calleeLive => symbols'[c.callee] # Missing
             /\ c.caller = f /\ c.callerLive => <<f, c.callee>> \in edges'
             /\ \A g \in Files : g # f /\ Imported(g) /\ c.caller = g /\ c.callerLive /\ c.calleeLive =>
                   <<g, c.callee>> \in edges'
  <2>1. CASE c \in Rescanned(f)
    <3>1. PICK d \in calls : /\ c.caller = d.caller /\ c.callee = d.callee
                             /\ c.callerLive <=> d.callerLive /\ d.caller # f
                             /\ c.calleeLive <=> d.calleeLive /\ d.callee # f
      BY <2>1, RescannedFields
    <3>2. d.caller \in Files /\ d.callee \in Files
      BY DEF StoreInv, Call
    <3>3. ASSUME NEW g \in Files, g # f, Imported(g), c.caller = g, c.callerLive, c.calleeLive
          PROVE  <<g, c.callee>> \in edges'
      <4>1. <<g, c.callee>> \in edges
        BY <3>1, <3>3 DEF Imported
      <4> QED
        BY <1>1, <3>3, <4>1
    <3> QED
      BY <1>2, <1>3, <3>1, <3>2, <3>3 DEF LiveSymbols
  <2>2. CASE c \in Resolved(f, parsed.targets)
    <3>1. PICK d \in parsed.targets \ {f} :
            symbols[d] # Missing /\ c = [caller |-> f, callee |-> d, callerLive |-> TRUE, calleeLive |-> TRUE]
      BY <2>2 DEF Resolved
    <3>2. c.caller = f /\ c.callee = d /\ d \in Files
      BY <1>3, <3>1
    <3> QED
      BY <1>1, <1>2, <1>3, <3>1, <3>2
  <2> QED
    BY <1>1, <2>1, <2>2
<1> QED
  BY <1>4 DEF LiveSymbols, Imported

(* What takes the live calls of some files with their symbols and edges.    *)
LEMMA RemovalFollows ==
    ASSUME StoreInv, LiveSymbols, NEW F \in SUBSET Files,
           calls' = calls \ UNION {CalledFrom(f) \cup CalledInto(f) : f \in F},
           \A e \in edges : e[1] \notin F /\ e[2] \notin F => e \in edges',
           \A x \in Files : x \notin F => symbols'[x] = symbols[x]
    PROVE  /\ LiveSymbols' /\ \A f \in F : Imported(f)'
           /\ \A g \in Files : Imported(g) => Imported(g)'
<1>1. ASSUME NEW c \in calls'
      PROVE  /\ c \in calls /\ c.caller \in Files /\ c.callee \in Files
             /\ c.callerLive => c.caller \notin F
             /\ c.calleeLive => c.callee \notin F
  BY DEF CalledFrom, CalledInto, StoreInv, Call
<1>2. LiveSymbols'
  BY <1>1 DEF LiveSymbols
<1>3. \A f \in F : Imported(f)'
  BY <1>1 DEF Imported
<1>4. ASSUME NEW g \in Files, Imported(g), NEW c \in calls', c.caller = g, c.callerLive, c.calleeLive
      PROVE  <<g, c.callee>> \in edges'
  BY <1>1, <1>4 DEF Imported
<1> QED
  BY <1>2, <1>3, <1>4 DEF Imported

LEMMA DeletionFollows ==
    ASSUME StoreInv, LiveSymbols, NEW f \in Files, deleteFile(f)
    PROVE  LiveSymbols' /\ Imported(f)' /\ \A g \in Files : Imported(g) => Imported(g)'
<1>1. calls' = calls \ UNION {CalledFrom(x) \cup CalledInto(x) : x \in {f}}
  BY DEF deleteFile
<1>2. \A e \in edges : e[1] \notin {f} /\ e[2] \notin {f} => e \in edges'
  BY DEF deleteFile
<1>3. \A x \in Files : x \notin {f} => symbols'[x] = symbols[x]
  BY DEF deleteFile, StoreInv
<1>4. {f} \in SUBSET Files
  OBVIOUS
<1> QED
  BY <1>1, <1>2, <1>3, <1>4, RemovalFollows

LEMMA PurgeFollows ==
    ASSUME StoreInv, LiveSymbols, excluded \subseteq Files, Purge
    PROVE  LiveSymbols' /\ \A g \in Files : Imported(g) => Imported(g)'
<1> PICK F : F = excluded
  OBVIOUS
<1>1. calls' = calls \ UNION {CalledFrom(x) \cup CalledInto(x) : x \in F}
  BY DEF Purge
<1>2. \A e \in edges : e[1] \notin F /\ e[2] \notin F => e \in edges'
  BY DEF Purge
<1>3. \A x \in Files : x \notin F => symbols'[x] = symbols[x]
  BY DEF Purge
<1> QED
  BY <1>1, <1>2, <1>3, RemovalFollows

(* The removal of a node, with or without a row of its own.                 *)
LEMMA NodeRemovalFollows ==
    ASSUME StoreInv, LiveSymbols, NEW f \in Files, removeFileNode(f)
    PROVE  /\ LiveSymbols' /\ \A g \in Files : Imported(g) => Imported(g)'
           /\ rows[f] # Missing => Imported(f)'
<1>1. CASE UNCHANGED store
  <2>1. LiveSymbols' /\ \A g \in Files : Imported(g) => Imported(g)'
    BY <1>1 DEF store, extraction, LiveSymbols, Imported
  <2>2. rows[f] # Missing => deleteFile(f)
    BY RemovesOne
  <2> QED
    BY <2>1, <2>2, DeletionFollows
<1>2. ASSUME NEW x \in Files, deleteFile(x), rows[f] # Missing => x = f
      PROVE  LiveSymbols' /\ (rows[f] # Missing => Imported(f)') /\ \A g \in Files : Imported(g) => Imported(g)'
  BY <1>2, DeletionFollows
<1> QED
  BY <1>1, <1>2, RemovesOne

(* A handler or a repair writes what it read.                               *)
LEMMA ReadWriteFollows ==
    ASSUME StoreInv, LiveSymbols, NEW f \in Files, NEW parsed \in Parsed,
           parsed.ok => parsed.version \in Versions, NEW deps, NEW mtime,
           Added(f, parsed, mtime) \/ Updated(f, parsed, deps, mtime)
    PROVE  /\ LiveSymbols' /\ \A g \in Files : g # f /\ Imported(g) => Imported(g)'
           /\ parsed.ok => Imported(f)'
<1>1. CASE parsed.ok
  BY <1>1, ExtractionFollows DEF Added, Updated
<1>2. CASE ~parsed.ok
  <2>1. symbols' = symbols /\ calls' = calls /\ (edges' = edges \/ edges' = EdgesFrom(f, {}))
    BY <1>2 DEF Added, Updated, setEdges, extraction
  <2>2. LiveSymbols'
    BY <2>1 DEF LiveSymbols
  <2>3. ASSUME NEW g \in Files, g # f, Imported(g) PROVE Imported(g)'
    BY <2>1, <2>3 DEF Imported, EdgesFrom
  <2> QED
    BY <1>2, <2>2, <2>3
<1> QED
  BY <1>1, <1>2

(* A store that keeps its symbols, edges and calls.                         *)
LEMMA SameCallsFollow ==
    ASSUME LiveSymbols, UNCHANGED <<symbols, edges, calls>>
    PROVE  LiveSymbols' /\ \A g \in Files : Imported(g) => Imported(g)'
BY DEF LiveSymbols, Imported

(* The handler of the last event of a file removes the file's calls or goes  *)
(* on to read the file.                                                     *)
LEMMA BeginFollows ==
    ASSUME IndexInv, DiskInv, LiveSymbols, BeginHandler
    PROVE  LiveSymbols' /\ (Undisturbed /\ ImportsFollow => ImportsFollow')
<1> PICK f, type : f = Head(mutex)[1] /\ type = Head(mutex)[2]
  OBVIOUS
<1>1. /\ phase = "up" /\ work = Idle /\ mutex # <<>> /\ Handle(f, type)
      /\ mutex' = Tail(mutex) /\ timers' = timers
  BY DEF BeginHandler
<1> PICK p : p = Waiting
  OBVIOUS
<1>2. /\ p \in Seq(Event) /\ p # <<>> /\ 1 \in DOMAIN p /\ p[1] = Head(mutex) /\ Waiting' = Tail(p)
  BY <1>1, WaitingType, TakenWaits
<1>3. f \in Files /\ p[1][1] = f /\ p[1][2] = type
  <2>1. Head(mutex) \in Event
    BY <1>1, WaitingType
  <2> QED
    BY <1>2, <2>1 DEF Event
<1>4. StoreInv
  BY DEF IndexInv
<1>5. LiveSymbols' /\ \A g \in Files : Imported(g) => Imported(g)'
  <2>1. CASE type = "unlink" /\ removeFileNode(f)
    BY <1>3, <1>4, <2>1, NodeRemovalFollows
  <2>2. CASE UNCHANGED <<symbols, edges, calls>>
    BY <2>2, SameCallsFollow
  <2>3. \/ type = "unlink" /\ removeFileNode(f)
        \/ UNCHANGED <<symbols, edges, calls>>
    BY <1>1 DEF Handle, store, extraction
  <2> QED
    BY <2>1, <2>2, <2>3
<1>6. ASSUME Undisturbed, NoneOf(Tail(p), f) PROVE Imported(f)' \/ HandlerOn(f)'
  <2>1. Served(f)
    BY <1>1, <1>3, <1>6 DEF DiskInv, PhaseTells
  <2>2. PICK i \in DOMAIN p : p[i][1] = f /\ IsLast(p, i) /\ LastTells(f, p, i)
    BY <1>2, <1>3, <2>1 DEF Served, NoneOf
  <2>3. i = 1
    <3> SUFFICES ASSUME i # 1
                 PROVE  FALSE
      OBVIOUS
    <3>1. i - 1 \in DOMAIN Tail(p) /\ Tail(p)[i - 1] = p[i]
      BY <1>2, <2>2, TailTells
    <3> QED
      BY <1>6, <2>2, <3>1 DEF NoneOf
  <2>4. \A T : ~Follows(p, 1, T)
    BY <1>2 DEF Follows
  <2>5. \/ type = "change"
        \/ type = "add" /\ rows[f] = Missing
        \/ type = "unlink" /\ rows[f] # Missing
        \/ f \in robbed
    BY <1>1, <1>3, <2>2, <2>3, <2>4 DEF LastTells, HandlerOn
  <2>r. CASE f \in robbed
    <3>1. symbols[f] = Missing
      BY <2>r DEF DiskInv, RobbedInv, Blank
    <3>2. Imported(f)
      BY <3>1 DEF LiveSymbols, Imported
    <3> QED
      BY <1>3, <1>5, <3>2
  <2>6. CASE type = "unlink" /\ rows[f] # Missing
    <3>1. removeFileNode(f)
      BY <1>1, <2>6 DEF Handle
    <3> QED
      BY <1>3, <1>4, <2>6, <3>1, NodeRemovalFollows
  <2>7. CASE type = "change" \/ (type = "add" /\ rows[f] = Missing)
    <3>1. PICK w \in {Adding(f), Updating(f)} : work' = w
      BY <1>1, <2>7 DEF Handle
    <3>2. w.file = f
      BY DEF Adding, Updating
    <3>3. w # Idle
      BY <1>3, ReadType, ConstantsAssumption
    <3> QED
      BY <3>1, <3>2, <3>3 DEF HandlerOn
  <2> QED
    BY <2>5, <2>6, <2>7, <2>r
<1>7. ASSUME Undisturbed, ImportsFollow, NEW g \in Files
      PROVE  Imported(g)' \/ ~NoneOf(Tail(p), g) \/ HandlerOn(g)'
  <2>1. CASE g = f
    BY <1>6, <1>7, <2>1
  <2>2. CASE g # f /\ ~NoneOf(p, g)
    <3>1. PICK i \in DOMAIN p : p[i][1] = g
      BY <2>2 DEF NoneOf
    <3>2. i # 1
      BY <1>3, <2>2, <3>1
    <3>3. i - 1 \in DOMAIN Tail(p) /\ Tail(p)[i - 1] = p[i]
      BY <1>2, <3>2, TailEvents
    <3> QED
      BY <3>1, <3>3 DEF NoneOf
  <2>3. CASE NoneOf(p, g)
    <3>1. ~HandlerOn(g)
      BY <1>1 DEF HandlerOn
    <3> QED
      BY <1>5, <1>7, <2>3, <3>1 DEF ImportsFollow
  <2> QED
    BY <2>1, <2>2, <2>3
<1> QED
  BY <1>2, <1>5, <1>7 DEF ImportsFollow, NoneOf

(* The end of a handler: one whose read failed has an event to come.        *)
LEMMA EndFollows ==
    ASSUME IndexInv, DiskInv, LiveSymbols, EndHandler
    PROVE  LiveSymbols' /\ (Undisturbed /\ ImportsFollow => ImportsFollow')
<1> PICK f, parsed, deps, mtime :
      /\ f = work.file /\ parsed = work.parsed /\ deps = work.deps
      /\ mtime = IF work.kind = "add" THEN work.mtime ELSE Mtime(work.file, work.mtime)
  OBVIOUS
<1>1. /\ f \in Files /\ work # Idle /\ HandlerOn(f) /\ phase = "up"
      /\ parsed \in Parsed /\ (parsed.ok => parsed.version \in Versions)
      /\ \A h : HandlerOn(h) => h = f
  BY DEF EndHandler, IndexInv, ServerInv, Work, HandlerOn
<1>2. Added(f, parsed, mtime) \/ Updated(f, parsed, deps, mtime)
  BY DEF EndHandler
<1>3. /\ LiveSymbols' /\ \A g \in Files : g # f /\ Imported(g) => Imported(g)'
      /\ parsed.ok => Imported(f)'
  BY <1>1, <1>2, ReadWriteFollows DEF IndexInv
<1>4. Waiting' = Waiting
  BY DEF EndHandler, Waiting
<1>5. ASSUME Undisturbed, NoneOf(Waiting, f) PROVE parsed.ok
  <2>1. Served(f)
    BY <1>1, <1>5 DEF DiskInv, PhaseTells
  <2>2. Settled(f)
    BY <1>5, <2>1 DEF Served, NoneOf
  <2> QED
    BY <1>1, <2>2 DEF Settled, Current, Gone, Robbed
<1>6. ASSUME Undisturbed, ImportsFollow, NEW g \in Files
      PROVE  Imported(g)' \/ ~NoneOf(Waiting, g)
  BY <1>1, <1>3, <1>5, <1>6 DEF ImportsFollow
<1> QED
  BY <1>3, <1>4, <1>6 DEF ImportsFollow, NoneOf

(* What leaves the tables alone lets no event of a file go.                 *)
LEMMA QueuesFollow ==
    ASSUME IndexInv, LiveSymbols, UNCHANGED <<symbols, edges, calls, work>>,
           \/ Waiting' = Waiting
           \/ \E e \in Event : timers' = Armed(e) /\ mutex' = mutex
    PROVE  LiveSymbols' /\ (ImportsFollow => ImportsFollow')
<1>1. LiveSymbols' /\ \A g \in Files : Imported(g) => Imported(g)'
  BY SameCallsFollow
<1>2. ASSUME NEW g \in Files, ~NoneOf(Waiting, g) PROVE ~NoneOf(Waiting, g)'
  <2>1. CASE Waiting' = Waiting
    BY <1>2, <2>1 DEF NoneOf
  <2>2. ASSUME NEW e \in Event, timers' = Armed(e), mutex' = mutex PROVE ~NoneOf(Waiting, g)'
    <3>1. PICK i \in DOMAIN Waiting : Waiting[i][1] = g
      BY <1>2 DEF NoneOf
    <3>2. PICK r \in Seq(Event) : Waiting' = Append(r, e) /\ Thinner(Waiting, r, e)
      BY <2>2, ArmedWaits
    <3>3. CASE Waiting[i] = e
      <4>1. /\ Len(r) + 1 \in DOMAIN Append(r, e) /\ Append(r, e)[Len(r) + 1] = e
        BY AppendEvents
      <4> QED
        BY <3>1, <3>2, <3>3, <4>1 DEF NoneOf
    <3>4. CASE Waiting[i] # e
      <4>1. PICK j \in DOMAIN r : r[j] = Waiting[i]
        BY <3>2, <3>4 DEF Thinner
      <4>2. j \in DOMAIN Append(r, e) /\ Append(r, e)[j] = r[j]
        BY AppendEvents
      <4> QED
        BY <3>1, <3>2, <4>1, <4>2 DEF NoneOf
    <3> QED
      BY <3>3, <3>4
  <2> QED
    BY <2>1, <2>2
<1>3. \A g \in Files : HandlerOn(g) => HandlerOn(g)'
  BY DEF HandlerOn
<1> QED
  BY <1>1, <1>2, <1>3 DEF ImportsFollow

(* The sweep reads files that are there.                                    *)
LEMMA HealFollows ==
    ASSUME IndexInv, DiskInv, LiveSymbols, Heal
    PROVE  LiveSymbols' /\ (Undisturbed /\ ImportsFollow => ImportsFollow')
<1> PICK f \in Files : HealStale(f) \/ HealMissing(f) \/ HealNew(f)
  BY DEF Heal
<1>1. phase = "sweeping" /\ UNCHANGED work /\ Waiting' = Waiting /\ StoreInv
  BY DEF Heal, queues, Waiting, IndexInv
<1>2. \A g \in Files : HandlerOn(g)' <=> HandlerOn(g)
  BY <1>1 DEF HandlerOn
<1>3. /\ LiveSymbols' /\ \A g \in Files : g # f /\ Imported(g) => Imported(g)'
      /\ Undisturbed /\ Imported(f) => Imported(f)'
  <2>1. CASE HealMissing(f)
    <3>1. removeFileNode(f)
      BY <2>1 DEF HealMissing
    <3> QED
      BY <1>1, <3>1, NodeRemovalFollows
  <2>2. CASE HealStale(f) \/ HealNew(f)
    <3> PICK parsed, deps, mtime : /\ parsed = Parse(f) /\ deps = Targets(f)
                                   /\ mtime = IF HealStale(f) THEN Mtime(f, rows[f]) ELSE Mtime(f, NoMtime)
      OBVIOUS
    <3>1. Added(f, parsed, mtime) \/ Updated(f, parsed, deps, mtime)
      BY <2>2 DEF HealStale, HealNew
    <3>2. parsed \in Parsed /\ (parsed.ok => parsed.version \in Versions)
      BY ParseType DEF IndexInv, ServerInv
    <3>3. Undisturbed => parsed.ok
      <4>1. Undisturbed => Present(f)
        BY <1>1, <2>2 DEF DiskInv, PhaseTells, Swept, HealStale, HealNew
      <4> QED
        BY <4>1 DEF Parse
    <3> QED
      BY <1>1, <3>1, <3>2, <3>3, ReadWriteFollows
  <2> QED
    BY <2>1, <2>2
<1> QED
  BY <1>1, <1>2, <1>3 DEF ImportsFollow, NoneOf

LEMMA CallsKeep == IndexInv /\ DiskInv /\ CallsInv /\ [Next]_vars => CallsInv'
<1> SUFFICES ASSUME IndexInv, DiskInv, CallsInv, [Next]_vars
             PROVE  CallsInv'
  OBVIOUS
<1>0. Undisturbed' => Undisturbed
  BY DisturbedOnce
<1>1. StoreInv /\ LiveSymbols /\ stops \in Nat /\ excluded \subseteq Files
  BY ConstantsAssumption DEF IndexInv, ServerInv, CallsInv
<1>2. ASSUME LiveSymbols', stops' = stops, Undisturbed /\ ImportsFollow => ImportsFollow'
      PROVE  CallsInv'
  BY <1>0, <1>2 DEF CallsInv
<1>3. ASSUME NEW f \in Files, NEW type \in {"add", "change", "unlink"}, Report(f, type),
             UNCHANGED <<store, mutex, work, stops>>
      PROVE  CallsInv'
  <2>1. UNCHANGED <<symbols, edges, calls, work>>
    BY <1>3 DEF store, extraction
  <2>2. Waiting' = Waiting \/ \E e \in Event : timers' = Armed(e) /\ mutex' = mutex
    BY <1>3 DEF Report, Waiting, Event
  <2> QED
    BY <1>1, <1>2, <1>3, <2>1, <2>2, QueuesFollow
<1>4. ASSUME NEW f \in Files, Delete(f) \/ \E imports \in SUBSET Files : Write(f, imports)
      PROVE  CallsInv'
  BY <1>3, <1>4 DEF Delete, Write
<1>5. ASSUME UNCHANGED <<symbols, edges, calls, work, stops>>, Waiting' = Waiting
      PROVE  CallsInv'
  BY <1>1, <1>2, <1>5, QueuesFollow
<1>6. ASSUME NEW f \in Files, ScanFile(f)
      PROVE  CallsInv'
  <2>1. UNCHANGED <<work, stops>> /\ Waiting' = Waiting
    BY <1>6 DEF ScanFile, queues, history, Waiting
  <2>2. CASE UNCHANGED store
    BY <1>5, <2>1, <2>2 DEF store, extraction
  <2>3. CASE Present(f) /\ setEdgesAndSymbols(f, Parse(f))
    <3>1. PICK parsed : parsed = Parse(f)
      OBVIOUS
    <3>2. parsed.ok
      BY <2>3, <3>1 DEF Parse
    <3>3. parsed \in Parsed /\ parsed.version \in Versions
      BY <3>1, <3>2, ParseType DEF IndexInv, ServerInv
    <3>4. LiveSymbols' /\ Imported(f)' /\ \A g \in Files : g # f /\ Imported(g) => Imported(g)'
      BY <1>1, <2>3, <3>1, <3>3, ExtractionFollows
    <3>5. ImportsFollow => ImportsFollow'
      BY <2>1, <3>4 DEF ImportsFollow, HandlerOn, NoneOf
    <3> QED
      BY <1>2, <2>1, <3>4, <3>5
  <2> QED
    BY <1>6, <2>2, <2>3 DEF ScanFile
<1>7. ASSUME NEW f \in Files, ExcludeAndRemove(f)
      PROVE  CallsInv'
  <2>1. LiveSymbols'
    BY <1>1, <1>7, NodeRemovalFollows DEF ExcludeAndRemove
  <2>2. ~Undisturbed'
    BY <1>7 DEF ExcludeAndRemove, SameName, Undisturbed
  <2> QED
    BY <2>1, <2>2 DEF CallsInv
<1>8. CASE TimerFires
  <2>1. UNCHANGED <<symbols, edges, calls, work, stops>> /\ Waiting' = Waiting
    BY <1>8, FiringWaits DEF TimerFires, store, extraction, history
  <2> QED
    BY <1>5, <2>1
<1>9. CASE BeginHandler
  BY <1>1, <1>2, <1>9, BeginFollows DEF BeginHandler, history
<1>10. CASE EndHandler
  BY <1>1, <1>2, <1>10, EndFollows DEF EndHandler, history
<1>11. CASE Heal
  BY <1>1, <1>2, <1>11, HealFollows DEF Heal, history
<1>12. CASE Start
  <2>1. LiveSymbols' /\ \A g \in Files : Imported(g) => Imported(g)'
    BY <1>1, <1>12, PurgeFollows DEF Start
  <2>2. UNCHANGED <<work, stops>> /\ Waiting' = Waiting
    BY <1>12 DEF Start, queues, history, Waiting
  <2>3. ImportsFollow => ImportsFollow'
    BY <2>1, <2>2 DEF ImportsFollow, HandlerOn, NoneOf
  <2> QED
    BY <1>2, <2>1, <2>2, <2>3
<1>13. CASE \/ GetCommunities \/ UseCache \/ Rescan \/ Scanned \/ IntegrityCheck \/ Ready
            \/ \E f \in Files : CheckFileFreshness(f)
            \/ UNCHANGED vars
  <2>1. UNCHANGED <<symbols, edges, calls, work, stops>> /\ Waiting' = Waiting
    BY <1>13 DEF GetCommunities, UseCache, Rescan, Scanned, IntegrityCheck, Ready,
         CheckFileFreshness, vars, store, extraction, queues, history, Waiting
  <2> QED
    BY <1>5, <2>1
<1>14. CASE Stop \/ KillInWrite
  <2>1. UNCHANGED <<symbols, edges, calls>> /\ stops' = stops + 1
    BY <1>14 DEF Stop, KillInWrite, Ended, store, extraction
  <2>2. LiveSymbols' /\ stops' # 0
    BY <1>1, <2>1, SameCallsFollow
  <2> QED
    BY <2>2 DEF CallsInv
<1> QED
  BY <1>4, <1>6, <1>7, <1>8, <1>9, <1>10, <1>11, <1>12, <1>13, <1>14 DEF Next

-----------------------------------------------------------------------------
(* The answers name what the tables hold.                                   *)

(* A list of files in the order of their paths.                             *)
LEMMA PathLists ==
    ASSUME NEW files \in SUBSET Files
    PROVE  /\ ByPath(files) \in Seq(files) /\ ToSet(ByPath(files)) = files
           /\ Len(ByPath(files)) = Cardinality(files) /\ IsFiniteSet(files)
<1> DEFINE order == {p \in files \X files : p[1] < p[2]}
<1>1. files \subseteq Nat
  BY ConstantsAssumption
<1>2. Orders(order, files)
  <2>1. ASSUME NEW f \in files, NEW g \in files
        PROVE  <<f, g>> \in order <=> f < g
    OBVIOUS
  <2> HIDE DEF order
  <2> QED
    BY <1>1, <2>1 DEF Orders
<1> HIDE DEF order
<1>3. IsFiniteSet(files)
  BY QueriesAssumption, FS_Subset
<1> QED
  BY <1>2, <1>3, InOrderLists DEF ByPath, order

(* A call is known by its ends.                                             *)
LEMMA CallsFinite ==
    ASSUME IndexInv
    PROVE  /\ IsFiniteSet(calls) /\ calls \subseteq Call
           /\ \A c, d \in Call : /\ c.caller = d.caller /\ c.callee = d.callee
                                 /\ c.callerLive <=> d.callerLive
                                 /\ c.calleeLive <=> d.calleeLive
                                 => c = d
<1>1. \A c, d \in Call : /\ c.caller = d.caller /\ c.callee = d.callee
                         /\ c.callerLive <=> d.callerLive
                         /\ c.calleeLive <=> d.calleeLive
                         => c = d
  BY DEF Call
<1> DEFINE Live == {1, 2}
           Ends == (Files \X Files) \X (Live \X Live)
           ends == [c \in Call |-> <<<<c.caller, c.callee>>, <<IF c.callerLive THEN 1 ELSE 2,
                                                              IF c.calleeLive THEN 1 ELSE 2>>>>]
<1>2. IsFiniteSet(Live)
  <2>1. IsFiniteSet(1..2)
    <3>1. 1 \in Int /\ 2 \in Int
      OBVIOUS
    <3> QED
      BY <3>1, FS_Interval
  <2>2. Live = 1..2
    OBVIOUS
  <2> QED
    BY <2>1, <2>2
<1> HIDE DEF Live
<1>3. IsFiniteSet(Ends)
  BY <1>2, QueriesAssumption, FS_Product
<1>4. ends \in Injection(Call, Ends)
  <2>1. ASSUME NEW c \in Call PROVE ends[c] \in Ends
    BY DEF Call, Live
  <2>2. ends \in [Call -> Ends]
    BY <2>1
  <2>3. ASSUME NEW c \in Call, NEW d \in Call, ends[c] = ends[d] PROVE c = d
    <3>1. /\ c.caller = d.caller /\ c.callee = d.callee
          /\ (IF c.callerLive THEN 1 ELSE 2) = (IF d.callerLive THEN 1 ELSE 2)
          /\ (IF c.calleeLive THEN 1 ELSE 2) = (IF d.calleeLive THEN 1 ELSE 2)
      BY <2>3
    <3> HIDE DEF ends
    <3>2. (c.callerLive <=> d.callerLive) /\ (c.calleeLive <=> d.calleeLive)
      BY <3>1
    <3> QED
      BY <1>1, <3>1, <3>2
  <2> HIDE DEF ends, Ends
  <2> QED
    BY <2>2, <2>3 DEF Injection, IsInjective
<1> HIDE DEF ends, Ends
<1>5. IsFiniteSet(Call)
  BY <1>3, <1>4, FS_Injection
<1> QED
  BY <1>1, <1>5, FS_Subset DEF IndexInv, StoreInv

\* The files at the other end of the rows that find_callers and find_callees join.
CallersOf(f) == {c.caller : c \in {d \in CalledInto(f) : d.callerLive}}
CalleesOf(f) == {c.callee : c \in {d \in CalledFrom(f) : d.calleeLive}}

(* What the tools list are these files, from their beginning.               *)
LEMMA CallLists ==
    ASSUME IndexInv, NEW f \in Files, NEW max \in Nat
    PROVE  /\ ToSet(find_callers(f, max).items) \subseteq (IF symbols[f] = Missing THEN {} ELSE CallersOf(f))
           /\ ToSet(find_callees(f, max).items) \subseteq (IF symbols[f] = Missing THEN {} ELSE CalleesOf(f))
<1>1. CallersOf(f) \subseteq Files /\ CalleesOf(f) \subseteq Files
  BY DEF CallersOf, CalleesOf, CalledInto, CalledFrom, IndexInv, StoreInv, Call
<1>2. ASSUME NEW others \in SUBSET Files, NEW rowsOf
      PROVE  ToSet(CallAnswer(rowsOf, others, max).items) \subseteq others
  <2>1. ByPath(others) \in Seq(others) /\ ToSet(ByPath(others)) = others
    BY PathLists
  <2>2. ToSet(Answer(ByPath(others), max).items) \subseteq ToSet(ByPath(others))
    BY <2>1, AnswerLists
  <2> QED
    BY <2>1, <2>2 DEF CallAnswer
<1>3. CASE symbols[f] = Missing
  <2>1. {c.caller : c \in {d \in {} : d.callerLive}} = {} /\ {c.callee : c \in {d \in {} : d.calleeLive}} = {}
    OBVIOUS
  <2>2. /\ find_callers(f, max) = CallAnswer({}, {}, max)
        /\ find_callees(f, max) = CallAnswer({}, {}, max)
    BY <1>3, <2>1 DEF find_callers, find_callees
  <2> QED
    BY <1>2, <1>3, <2>2
<1>4. CASE symbols[f] # Missing
  <2>1. /\ find_callers(f, max) = CallAnswer(CalledInto(f), CallersOf(f), max)
        /\ find_callees(f, max) = CallAnswer(CalledFrom(f), CalleesOf(f), max)
    BY <1>4 DEF find_callers, find_callees, CallersOf, CalleesOf
  <2> QED
    BY <1>1, <1>2, <1>4, <2>1
<1> QED
  BY <1>3, <1>4

(* Shorter than the limit, a list of calls is cut only by rows of which     *)
(* the join finds fewer files.                                              *)
LEMMA CutsCount ==
    ASSUME NEW others \in SUBSET Files, NEW rowsOf, NEW max \in Nat,
           CallAnswer(rowsOf, others, max).truncated, Cardinality(rowsOf) = Cardinality(others)
    PROVE  Len(CallAnswer(rowsOf, others, max).items) = Clamped(max)
<1>1. PICK sorted : sorted = ByPath(others)
  OBVIOUS
<1>2. sorted \in Seq(others) /\ Len(sorted) = Cardinality(others)
  BY <1>1, PathLists
<1>3. PICK items : items = Answer(sorted, max).items
  OBVIOUS
<1>4. Len(items) \in {Clamped(max), Len(sorted)} /\ Len(items) \in Nat
  BY <1>2, <1>3, AnswerLists
<1>5. CallAnswer(rowsOf, others, max).items = items /\ Len(items) < Cardinality(rowsOf)
  BY <1>1, <1>3 DEF CallAnswer
<1> QED
  BY <1>2, <1>4, <1>5

(* Rows with different files at their other end are as many as these files. *)
LEMMA OneEach ==
    ASSUME NEW C, IsFiniteSet(C), NEW end, end = [c \in C |-> end[c]],
           \A c, d \in C : end[c] = end[d] => c = d
    PROVE  Cardinality({end[c] : c \in C}) = Cardinality(C)
<1> DEFINE T == {end[c] : c \in C}
<1>1. end \in Surjection(C, T) /\ end \in Injection(C, T)
  BY DEF Surjection, Injection, IsInjective
<1> HIDE DEF T
<1>2. Cardinality(T) = Cardinality(C)
  BY <1>1, FS_Surjection
<1> QED
  BY <1>2 DEF T

(* No caller is lost in the join, and a callee only when it is counted.     *)
LEMMA CutsTold == IndexInv => CutOnlyByLimit
<1> SUFFICES ASSUME IndexInv, NEW f \in Files, NEW max \in Nat
             PROVE  /\ find_callers(f, max).truncated => Len(find_callers(f, max).items) = Clamped(max)
                    /\ find_callees(f, max).truncated =>
                          \/ Len(find_callees(f, max).items) = Clamped(max)
                          \/ find_callees(f, max).unresolvedCount > 0
  <2>1. {0, 1, 50} \subseteq Nat
    OBVIOUS
  <2> QED
    BY <2>1 DEF CutOnlyByLimit
<1>1. /\ IsFiniteSet(calls) /\ calls \subseteq Call
      /\ \A c, d \in Call : /\ c.caller = d.caller /\ c.callee = d.callee
                            /\ c.callerLive <=> d.callerLive
                            /\ c.calleeLive <=> d.calleeLive
                            => c = d
      /\ \A c \in calls : c.callerLive
  BY CallsFinite DEF IndexInv, StoreInv, NoGhostCallers
<1>2. CalledInto(f) \subseteq calls /\ CalledFrom(f) \subseteq calls
  BY DEF CalledInto, CalledFrom
<1>3. /\ IsFiniteSet(CalledInto(f)) /\ IsFiniteSet(CalledFrom(f))
      /\ CallersOf(f) \subseteq Files /\ CalleesOf(f) \subseteq Files
  <2>1. CallersOf(f) \subseteq Files /\ CalleesOf(f) \subseteq Files
    BY <1>1, <1>2 DEF CallersOf, CalleesOf, Call
  <2> QED
    BY <1>1, <1>2, <2>1, FS_Subset
<1>4. ASSUME NEW max2 \in Nat PROVE ~CallAnswer({}, {}, max2).truncated
  <2>1. Cardinality({}) = 0 /\ ByPath({}) \in Seq({})
    BY FS_EmptySet, PathLists
  <2>2. PICK sorted : sorted = ByPath({})
    OBVIOUS
  <2>3. PICK items : items = Answer(sorted, max2).items
    OBVIOUS
  <2>4. Len(items) \in Nat
    BY <2>1, <2>2, <2>3, AnswerLists
  <2>5. ~(Len(items) < 0)
    BY <2>4
  <2>6. CallAnswer({}, {}, max2).truncated <=> Len(items) < 0
    BY <2>1, <2>2, <2>3 DEF CallAnswer
  <2> QED
    BY <2>5, <2>6
<1>5. CASE symbols[f] = Missing
  <2>1. {c.caller : c \in {d \in {} : d.callerLive}} = {} /\ {c.callee : c \in {d \in {} : d.calleeLive}} = {}
    OBVIOUS
  <2>2. /\ find_callers(f, max) = CallAnswer({}, {}, max)
        /\ find_callees(f, max) = CallAnswer({}, {}, max)
    BY <1>5, <2>1 DEF find_callers, find_callees
  <2> QED
    BY <1>4, <2>2
<1>6. CASE symbols[f] # Missing
  <2>1. /\ find_callers(f, max) = CallAnswer(CalledInto(f), CallersOf(f), max)
        /\ find_callees(f, max) = CallAnswer(CalledFrom(f), CalleesOf(f), max)
    BY <1>6 DEF find_callers, find_callees, CallersOf, CalleesOf
  <2>2. Cardinality(CallersOf(f)) = Cardinality(CalledInto(f))
    <3>1. PICK end : end = [c \in CalledInto(f) |-> c.caller]
      OBVIOUS
    <3>2. \A c, d \in CalledInto(f) : end[c] = end[d] => c = d
      BY <1>1, <1>2, <3>1 DEF CalledInto
    <3>3. CallersOf(f) = {end[c] : c \in CalledInto(f)}
      BY <1>1, <1>2, <3>1 DEF CallersOf
    <3> QED
      BY <1>3, <3>1, <3>2, <3>3, OneEach
  <2>3. UnresolvedIn(CalledFrom(f)) > 0 \/ Cardinality(CalleesOf(f)) = Cardinality(CalledFrom(f))
    <3> DEFINE lost == {c \in CalledFrom(f) : ~c.callerLive \/ ~c.calleeLive}
    <3>1. IsFiniteSet(lost)
      BY <1>3, FS_Subset
    <3>2. UnresolvedIn(CalledFrom(f)) = Cardinality(lost)
      BY DEF UnresolvedIn
    <3>3. CASE lost = {}
      <4>1. \A c \in CalledFrom(f) : c.callerLive /\ c.calleeLive
        BY <3>3
      <4>2. PICK end : end = [c \in CalledFrom(f) |-> c.callee]
        OBVIOUS
      <4>3. \A c, d \in CalledFrom(f) : end[c] = end[d] => c = d
        BY <1>1, <1>2, <4>1, <4>2 DEF CalledFrom
      <4>4. CalleesOf(f) = {end[c] : c \in CalledFrom(f)}
        BY <4>1, <4>2 DEF CalleesOf
      <4> QED
        BY <1>3, <4>2, <4>3, <4>4, OneEach
    <3>4. CASE lost # {}
      <4> HIDE DEF lost
      <4>1. Cardinality(lost) \in Nat /\ Cardinality(lost) # 0
        BY <3>1, <3>4, FS_CardinalityType, FS_EmptySet
      <4> QED
        BY <3>2, <4>1
    <3> QED
      BY <3>3, <3>4
  <2>4. find_callees(f, max).unresolvedCount = UnresolvedIn(CalledFrom(f))
    BY <2>1 DEF CallAnswer
  <2> QED
    BY <1>3, <2>1, <2>2, <2>3, <2>4, CutsCount
<1> QED
  BY <1>5, <1>6

(* The files of an answer are those that the tables name.                   *)
LEMMA NamedFiles ==
    ASSUME IndexInv, NEW f \in Files, NEW g \in Named(f)
    PROVE  /\ g \in Files
           /\ \/ symbols[g] # Missing
              \/ <<f, g>> \in edges \/ <<g, f>> \in edges
              \/ g \in CallersOf(f) \/ g \in CalleesOf(f)
<1>1. 50 \in Nat
  OBVIOUS
<1>2. getDependenciesWithEdgeMetadata(f) = {d \in Files : <<f, d>> \in edges}
  BY DEF getDependenciesWithEdgeMetadata, IndexInv, StoreInv
<1>3. getDependents(f) = {d \in Files : <<d, f>> \in edges}
  BY DEF getDependents, IndexInv, StoreInv
<1>4. CallersOf(f) \subseteq Files /\ CalleesOf(f) \subseteq Files
  BY DEF CallersOf, CalleesOf, CalledInto, CalledFrom, IndexInv, StoreInv, Call
<1>5. CASE g \in ToSet(find_symbol(Files, 50).items)
  <2> DEFINE known == {d \in Files : symbols[d] # Missing}
  <2>1. PICK sorted : sorted = ByPath(known)
    OBVIOUS
  <2>2. sorted \in Seq(known) /\ ToSet(sorted) = known
    BY <2>1, PathLists
  <2>3. ToSet(Answer(sorted, 50).items) \subseteq ToSet(sorted)
    BY <1>1, <2>2, AnswerLists
  <2> QED
    BY <1>5, <2>1, <2>2, <2>3 DEF find_symbol
<1>6. CASE rows[f] # Missing /\ g \in get_file_summary(f).dependencies
  BY <1>2, <1>6 DEF get_file_summary
<1>7. CASE rows[f] # Missing /\ g \in ToSet(get_file_summary(f).dependents)
  <2>1. get_file_summary(f).dependents = ByPath(getDependents(f))
    BY <1>7 DEF get_file_summary
  <2>2. ToSet(ByPath(getDependents(f))) = getDependents(f)
    BY <1>3, PathLists
  <2> QED
    BY <1>3, <1>7, <2>1, <2>2
<1>8. CASE g \in ToSet(find_callers(f, 50).items) \cup ToSet(find_callees(f, 50).items)
  <2>1. g \in CallersOf(f) \/ g \in CalleesOf(f)
    BY <1>1, <1>8, CallLists
  <2> QED
    BY <1>4, <2>1
<1> QED
  BY <1>5, <1>6, <1>7, <1>8 DEF Named

(* A file that is gone is in no table, so in no answer.                     *)
LEMMA NamedExist == IndexInv /\ DiskInv /\ CallsInv => AnswersNameFiles
<1> SUFFICES ASSUME IndexInv, DiskInv, CallsInv, Asked, NEW f \in Files, NEW g \in Named(f),
                    ~Present(g), ~Pending(g), g \notin robbed
             PROVE  stops > 0 /\ rows[g] = Missing
  BY DEF AnswersNameFiles
<1>1. g \in Files
  BY NamedFiles
<1>2. Gone(g) /\ stops \in Nat
  BY <1>1, NothingPending, ConstantsAssumption DEF Settled, IndexInv, ServerInv
<1>3. CASE stops = 0
  <2>1. symbols[g] = Missing /\ \A e \in edges : e[1] # g /\ e[2] # g
    BY <1>2, <1>3 DEF Gone, Blank
  <2>2. g \in CallersOf(f) \/ g \in CalleesOf(f)
    BY <2>1, NamedFiles
  <2>3. \A c \in calls : (c.callerLive => c.caller # g) /\ (c.calleeLive => c.callee # g)
    BY <2>1 DEF CallsInv, LiveSymbols
  <2> QED
    BY <2>2, <2>3 DEF CallersOf, CalleesOf, CalledInto, CalledFrom
<1>4. CASE stops > 0
  BY <1>2, <1>4 DEF Gone
<1> QED
  BY <1>2, <1>3, <1>4

(* A settled file that an edge names has its row.                           *)
LEMMA GraphCloses == IndexInv /\ DiskInv => GraphIsClosed
<1> SUFFICES ASSUME IndexInv, DiskInv, Asked, NEW directory
             PROVE  LET graph == getGraphData(directory)
                    IN  /\ \A e \in graph.edges, f \in Files : f \in {e[1], e[2]} =>
                               \/ \E n \in graph.nodes : n.path = f /\ n.degree > 0
                               \/ Pending(f) \/ f \in robbed \/ stops > 0
                        /\ \A n \in graph.nodes : Present(n.path) \/ Pending(n.path)
  BY DEF GraphIsClosed
<1> DEFINE shown == {e \in edges : e[1] \in directory \/ e[2] \in directory}
           From(f) == {e \in shown : e[1] = f}
           Into(f) == {e \in shown : e[2] = f}
           node(f) == [path |-> f, degree |-> Cardinality(From(f)) + Cardinality(Into(f))]
           nodes == {node(f) : f \in {g \in Files : rows[g] # Missing
                                                     /\ \E e \in shown : g \in {e[1], e[2]}}}
<1>1. getGraphData(directory).edges = shown /\ getGraphData(directory).nodes = nodes
  BY DEF getGraphData
<1>2. edges \subseteq Files \X Files /\ IsFiniteSet(Files \X Files) /\ stops \in Nat
  BY QueriesAssumption, FS_Product, ConstantsAssumption DEF IndexInv, StoreInv, ServerInv
<1>3. ASSUME NEW e \in shown, NEW f \in Files, f \in {e[1], e[2]}, ~Pending(f),
             f \notin robbed, ~(stops > 0)
      PROVE  \E n \in nodes : n.path = f /\ n.degree > 0
  <2>1. Settled(f) /\ ~HandlerOn(f) /\ stops = 0
    BY <1>2, <1>3, NothingPending
  <2>2. Present(f)
    BY <1>3, <2>1 DEF Settled, Gone, Blank
  <2>3. rows[f] # Missing
    BY <1>3, <2>1, <2>2, PresentVersion, NotVersions DEF Settled, Current, Robbed
  <2>4. IsFiniteSet(From(f)) /\ IsFiniteSet(Into(f))
    BY <1>2, FS_Subset
  <2>5. Cardinality(From(f)) \in Nat /\ Cardinality(Into(f)) \in Nat
    BY <2>4, FS_CardinalityType
  <2>6. From(f) # {} \/ Into(f) # {}
    BY <1>3
  <2>7. Cardinality(From(f)) # 0 \/ Cardinality(Into(f)) # 0
    BY <2>4, <2>6, FS_EmptySet
  <2>8. node(f) \in nodes
    BY <1>3, <2>3
  <2> HIDE DEF From, Into, nodes
  <2>9. node(f).path = f /\ node(f).degree > 0
    BY <2>5, <2>7
  <2> QED
    BY <2>8, <2>9
<1>4. ASSUME NEW n \in nodes PROVE Present(n.path) \/ Pending(n.path)
  <2>1. PICK f \in Files : rows[f] # Missing /\ n = node(f)
    OBVIOUS
  <2>2. n.path = f
    BY <2>1
  <2> QED
    BY <2>1, <2>2, NothingPending DEF Settled, Gone
<1> HIDE DEF shown, nodes
<1> QED
  BY <1>1, <1>3, <1>4

(* A call of a settled file goes with its import.                           *)
LEMMA CallersDepend == IndexInv /\ DiskInv /\ CallsInv => CallersAreDependents
<1> SUFFICES ASSUME IndexInv, DiskInv, CallsInv, Asked, stops = 0, NEW f \in Files,
                    NEW g \in ToSet(find_callers(f, 50).items), ~Pending(f), ~Pending(g)
             PROVE  rows[f] # Missing /\ g \in ToSet(get_file_summary(f).dependents)
  BY DEF CallersAreDependents
<1>1. symbols[f] # Missing /\ g \in CallersOf(f)
  <2>1. 50 \in Nat
    OBVIOUS
  <2> QED
    BY <2>1, CallLists
<1>2. g \in Files /\ \E c \in calls : c.caller = g /\ c.callerLive /\ c.callee = f /\ c.calleeLive
  BY <1>1 DEF CallersOf, CalledInto, IndexInv, StoreInv, Call
<1>3. <<g, f>> \in edges
  <2>1. NoneOf(Waiting, g) /\ ~HandlerOn(g)
    BY <1>2, NothingPending
  <2>2. Imported(g)
    BY <1>2, <2>1 DEF CallsInv, ImportsFollow, Asked
  <2> QED
    BY <1>2, <2>2 DEF Imported
<1>4. rows[f] # Missing
  <2>1. Settled(f) /\ ~HandlerOn(f)
    BY NothingPending
  <2>2. Present(f) /\ f \notin robbed
    BY <1>1, <2>1 DEF Settled, Gone, Blank, DiskInv, RobbedInv
  <2> QED
    BY <2>1, <2>2, PresentVersion, NotVersions DEF Settled, Current, Robbed
<1>5. getDependents(f) = {d \in Files : <<d, f>> \in edges}
  BY DEF getDependents, IndexInv, StoreInv
<1>6. ToSet(ByPath(getDependents(f))) = getDependents(f)
  BY <1>5, PathLists
<1>7. get_file_summary(f).dependents = ByPath(getDependents(f))
  BY <1>4 DEF get_file_summary
<1> QED
  BY <1>2, <1>3, <1>4, <1>5, <1>6, <1>7

LEMMA CallsInit == Init => CallsInv
<1> SUFFICES ASSUME Init PROVE CallsInv
  OBVIOUS
<1>1. calls = {}
  BY DEF Init
<1> QED
  BY <1>1 DEF CallsInv, LiveSymbols, ImportsFollow, Imported

(* A client that asks what changed is told of every file whose event is not *)
(* on its way, and of no other: debouncing, the mutex, restarts, the sweep  *)
(* and the freshness check of get_file_summary lose no change for good.     *)
(* Only a file whose row went in place of a namesake's is not listed.       *)
THEOREM ChangesStayListed == Spec => []ChangesAreListed
<1>1. IndexInv /\ DiskInv /\ [Next]_vars => DiskInv'
  BY DiskKeeps
<1> QED
  BY <1>1, DiskInit, ChangesListed, IndexInvariant, PTL DEF Spec

(* What the tools and the dashboard answer holds together: the files named  *)
(* exist, callers import what they call, the graph is closed, and a list of *)
(* calls that says it is cut is as long as its limit.  Exempt are the files *)
(* whose row went in place of a namesake's.                                 *)
THEOREM AnswersStaySound == Spec => []AnswersAreSound
<1>1. IndexInv /\ DiskInv /\ [Next]_vars => DiskInv'
  BY DiskKeeps
<1>2. IndexInv /\ DiskInv /\ CallsInv /\ [Next]_vars => CallsInv'
  BY CallsKeep
<1>3. IndexInv /\ DiskInv /\ CallsInv => AnswersAreSound
  BY NamedExist, GraphCloses, CallersDepend, CutsTold DEF AnswersAreSound
<1> QED
  BY <1>1, <1>2, <1>3, DiskInit, CallsInit, IndexInvariant, PTL DEF Spec
=============================================================================
