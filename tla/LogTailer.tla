----------------------------- MODULE LogTailer -----------------------------
(***************************************************************************)
(* The dashboard's live log: several processes append to the log files     *)
(* through logger.ts, which truncates a file that has grown too long; the  *)
(* Nexus process follows the files with log-tailer.ts, keeps the last      *)
(* lines in a ring and streams them to the browsers (nexus/server.ts).     *)
(*                                                                         *)
(* A line is one unit of size, written by one write(2): <<f, n>> is the    *)
(* n-th line ever appended to file f.  What a process does between two     *)
(* system calls is one step, so the steps of the writers fall between a    *)
(* tailer's stat and its read.                                             *)
(***************************************************************************)
EXTENDS Naturals, Sequences, FiniteSets, SequencesExt, FiniteSetsExt

CONSTANTS
    LogFiles,    \* LOG_PATHS, as a sequence: init handles them in this order
    Writers,     \* processes that log; FileOf[w] is the file w logs to
    FileOf,
    Off,         \* no file, no client, no read under way
    Clients,     \* browsers on /api/stream/activity
    RingSize,    \* RING_BUFFER_SIZE, 500 lines
    LogMaxSize,  \* LOG_MAX_SIZE, in lines
    MaxLines,    \* bound: lines ever written
    MaxStarts,   \* bound: starts of the Nexus process
    MaxConnects  \* bound: connections made by the browsers

Files == Range(LogFiles)
Lines == Files \X (Nat \ {0})

ASSUME LogAssumption ==
    /\ LogFiles \in Seq(STRING) \ {<<>>} /\ IsInjective(LogFiles)
    /\ Off \notin Seq(Lines) /\ Off \notin Files \X Nat
    /\ FileOf \in [Writers -> Files]
    /\ IsFiniteSet(Writers)
    /\ RingSize \in Nat \ {0} /\ LogMaxSize \in Nat
    /\ MaxLines \in Nat /\ MaxStarts \in Nat /\ MaxConnects \in Nat

VARIABLES
    content,   \* what each file holds; Off when it does not exist
    written,   \* lines ever appended to each file
    wpc,       \* each writer between the system calls of _write
    tailer,    \* "down", "up", or the step of initLogTailer for file number at
    at,
    offset,    \* FileState.offset
    watched,   \* FileState.watcher # null
    event,     \* a change that fs.watch has yet to report
    reading,   \* <<f, n>> between statSync and readSync of n lines; Off if none
    ring,      \* ringBuffer
    got,       \* what each connected client has been sent; Off if not connected
    shown,     \* history: every line this process put in the ring
    from,      \* history: the ring's first line in shown when a client connected
    cut,       \* history: the file was truncated since this process started
    base,      \* history: lines written when initLogTailer took the offset
    starts, connects

logVars == <<content, written, wpc, tailer, at, offset, watched, event, reading,
             ring, got, shown, from, cut, base, starts, connects>>
diskVars == <<content, written, wpc>>
ghostVars == <<from, cut, base, starts, connects>>

Size(f) == IF content[f] = Off THEN 0 ELSE Len(content[f])
LastOf(s, n) == SubSeq(s, IF Len(s) > n THEN Len(s) - n + 1 ELSE 1, Len(s))

LogInit ==
    /\ content \in [Files -> {Off, << >>}]
    /\ written = [f \in Files |-> 0]
    /\ wpc = [w \in Writers |-> "idle"]
    /\ tailer = "down" /\ at = 1
    /\ offset = [f \in Files |-> 0]
    /\ watched = [f \in Files |-> FALSE]
    /\ event = [f \in Files |-> FALSE]
    /\ reading = Off
    /\ ring = << >> /\ shown = << >>
    /\ got = [c \in Clients |-> Off]
    /\ from = [c \in Clients |-> 1]
    /\ cut = [f \in Files |-> FALSE]
    /\ base = [f \in Files |-> 0]
    /\ starts = 0 /\ connects = 0

-----------------------------------------------------------------------------
(* The writers: logger.ts _write *)

\* Every change of a watched file is reported some time later.
Notify(f) == event' = [event EXCEPT ![f] = watched[f]]

Oversized(f) == Size(f) > LogMaxSize

\* existsSync and statSync decide whether this write starts the file afresh.
CheckSize(w) ==
    LET f == FileOf[w] IN
    /\ wpc[w] = "idle"
    /\ MapThenSumSet(LAMBDA g : written[g], Files)
          + Cardinality({v \in Writers : wpc[v] # "idle"}) < MaxLines
    /\ wpc' = [wpc EXCEPT ![w] = IF Oversized(f) THEN "truncate" ELSE "append"]
    /\ UNCHANGED <<content, written, tailer, at, offset, watched, event, reading, ring,
                   got, shown, ghostVars>>

\* writeFileSync(path, ''): whatever the others wrote since the check goes too.
Truncate(w) ==
    LET f == FileOf[w] IN
    /\ wpc[w] = "truncate"
    /\ content' = [content EXCEPT ![f] = << >>]
    /\ cut' = [cut EXCEPT ![f] = TRUE]
    /\ wpc' = [wpc EXCEPT ![w] = "append"]
    /\ Notify(f)
    /\ UNCHANGED <<written, tailer, at, offset, watched, reading, ring, got, shown,
                   from, base, starts, connects>>

\* appendFileSync creates the file when it does not exist.
AppendLine(w) ==
    LET f == FileOf[w] IN
    /\ wpc[w] = "append"
    /\ written' = [written EXCEPT ![f] = @ + 1]
    /\ content' = [content EXCEPT ![f] =
                      Append(IF @ = Off THEN << >> ELSE @, <<f, written[f] + 1>>)]
    /\ wpc' = [wpc EXCEPT ![w] = "idle"]
    /\ Notify(f)
    /\ UNCHANGED <<tailer, at, offset, watched, reading, ring, got, shown, ghostVars>>

-----------------------------------------------------------------------------
(* The tailer's start: initLogTailer, file by file *)

\* appendToBuffer for each line of s: the oldest line leaves a full ring.
Show(s) ==
    /\ ring' = LastOf(ring \o s, RingSize)
    /\ shown' = shown \o s

\* A new Nexus process begins with an empty ring.
StartNexus ==
    /\ tailer = "down" /\ starts < MaxStarts
    /\ starts' = starts + 1
    /\ tailer' = "seed" /\ at' = 1
    /\ offset' = [f \in Files |-> 0]
    /\ cut' = [f \in Files |-> FALSE]
    /\ base' = [f \in Files |-> 0]
    /\ ring' = << >> /\ shown' = << >>
    /\ UNCHANGED <<diskVars, watched, event, reading, got, from, connects>>

\* readFileSync and the last 500 parts of its text split at newlines, of which
\* the last is empty; nothing when the file does not exist.
SeedRing ==
    LET f == LogFiles[at] IN
    /\ tailer = "seed"
    /\ IF content[f] = Off
         THEN tailer' = "watch" /\ UNCHANGED <<ring, shown>>
         ELSE tailer' = "stat" /\ Show(LastOf(content[f], RingSize - 1))
    /\ UNCHANGED <<diskVars, at, offset, watched, event, reading, got, ghostVars>>

\* Mutant: the tail starts at the beginning of the file.
SeededOffsetZero(f) == 0

SeededOffset(f) == Size(f)

\* The offset is the size at a second look at the file.
SeedOffset ==
    LET f == LogFiles[at] IN
    /\ tailer = "stat"
    /\ tailer' = "watch"
    /\ offset' = [offset EXCEPT ![f] = SeededOffset(f)]
    /\ base' = [base EXCEPT ![f] = written[f]]
    /\ UNCHANGED <<diskVars, at, watched, event, reading, ring, got, shown,
                   from, cut, starts, connects>>

\* fs.watch throws for a file that does not exist; no later step tries again.
WatchFile ==
    LET f == LogFiles[at] IN
    /\ tailer = "watch"
    /\ watched' = [watched EXCEPT ![f] = content[f] # Off]
    /\ IF at = Len(LogFiles)
         THEN tailer' = "up" /\ at' = 1
         ELSE tailer' = "seed" /\ at' = at + 1
    /\ UNCHANGED <<diskVars, offset, event, reading, ring, got, shown, ghostVars>>

-----------------------------------------------------------------------------
(* The tailer at work: readNewBytes *)

\* Mutant: a single new line is not enough.
HasNewLines(f, o) == Size(f) > o + 1

HasNew(f, o) == Size(f) > o

\* statSync.  A file shorter than the offset was truncated: read it from its start.
StatFile(f) ==
    LET o == IF Size(f) < offset[f] THEN 0 ELSE offset[f] IN
    /\ tailer = "up" /\ reading = Off
    /\ event[f]
    /\ event' = [event EXCEPT ![f] = FALSE]
    /\ offset' = [offset EXCEPT ![f] = o]
    /\ reading' = IF HasNew(f, o) THEN <<f, Size(f) - o>> ELSE Off
    /\ UNCHANGED <<diskVars, tailer, at, watched, ring, got, shown, ghostVars>>

\* broadcast: each line goes to every registered client.
Broadcast(s) ==
    got' = [c \in Clients |-> IF got[c] = Off THEN Off ELSE got[c] \o s]

NextOffset(f, new) == offset[f] + Len(new)

\* readSync at the offset: what the file has there by now, at most n lines.
ReadNew ==
    /\ reading # Off
    /\ LET f == reading[1]
           upto == offset[f] + reading[2]
           new == SubSeq(content[f], offset[f] + 1, IF upto < Size(f) THEN upto ELSE Size(f)) IN
       /\ offset' = [offset EXCEPT ![f] = NextOffset(f, new)]
       /\ Show(new)
       /\ Broadcast(new)
    /\ reading' = Off
    /\ UNCHANGED <<diskVars, tailer, at, watched, event, ghostVars>>

\* The history is flushed and the client registered without an await between.
Connect(c) ==
    /\ tailer = "up" /\ reading = Off
    /\ got[c] = Off /\ connects < MaxConnects
    /\ connects' = connects + 1
    /\ got' = [got EXCEPT ![c] = ring]
    /\ from' = [from EXCEPT ![c] = Len(shown) - Len(ring) + 1]
    /\ UNCHANGED <<diskVars, tailer, at, offset, watched, event, reading, ring, shown, cut, base, starts>>

\* The socket closes: cleanup removes the client.
Disconnect(c) ==
    /\ reading = Off
    /\ got[c] # Off
    /\ got' = [got EXCEPT ![c] = Off]
    /\ UNCHANGED <<diskVars, tailer, at, offset, watched, event, reading, ring, shown, ghostVars>>

\* stopLogTailer and the end of the process.
StopNexus ==
    /\ tailer = "up" /\ reading = Off
    /\ tailer' = "down"
    /\ watched' = [f \in Files |-> FALSE]
    /\ event' = [f \in Files |-> FALSE]
    /\ got' = [c \in Clients |-> Off]
    /\ UNCHANGED <<diskVars, at, offset, reading, ring, shown, ghostVars>>

-----------------------------------------------------------------------------
LogWriterStep == \E w \in Writers : CheckSize(w) \/ Truncate(w) \/ AppendLine(w)
LogTailStep == (\E f \in Files : StatFile(f)) \/ ReadNew
LogStartStep == SeedRing \/ SeedOffset \/ WatchFile
LogNext ==
    \/ LogWriterStep
    \/ LogTailStep
    \/ LogStartStep
    \/ StartNexus \/ StopNexus
    \/ \E c \in Clients : Connect(c) \/ Disconnect(c)

\* The system delivers the events; initLogTailer and a callback run to their end.
LogFairness ==
    /\ WF_logVars(LogStartStep)
    /\ \A f \in Files : WF_logVars(StatFile(f))
    /\ WF_logVars(ReadNew)
LogSpec == LogInit /\ [][LogNext]_logVars /\ LogFairness

-----------------------------------------------------------------------------
LogTypeOK ==
    /\ content \in [Files -> Seq(Lines) \cup {Off}]
    /\ written \in [Files -> Nat]
    /\ wpc \in [Writers -> {"idle", "truncate", "append"}]
    /\ tailer \in {"down", "seed", "stat", "watch", "up"} /\ at \in DOMAIN LogFiles
    /\ offset \in [Files -> Nat]
    /\ watched \in [Files -> BOOLEAN] /\ event \in [Files -> BOOLEAN]
    /\ \A f \in Files : event[f] => watched[f]
    /\ reading \in (Files \X Nat) \cup {Off}
    /\ ring \in Seq(Lines) /\ shown \in Seq(Lines)
    /\ got \in [Clients -> Seq(Lines) \cup {Off}]
    /\ from \in [Clients -> Nat]
    /\ cut \in [Files -> BOOLEAN] /\ base \in [Files -> Nat]
    /\ starts \in Nat /\ connects \in Nat

\* A browser sees, from the oldest line of the ring when it connected, every
\* line the tailer read, once and in order: log-tailer.ts broadcasts to the
\* clients that server.ts registered after flushing the ring (303-310).
ClientsSeeTheStream ==
    \A c \in Clients : got[c] # Off => got[c] = SubSeq(shown, from[c], Len(shown))

\* The ring holds the latest lines, at most RING_BUFFER_SIZE of them (143-148).
RingIsLatest == ring = LastOf(shown, RingSize)

\* However writes, truncations, events and restarts interleave, the lines of
\* one file are shown in the order they were written and none is shown twice.
ShownOnceInOrder ==
    \A i, j \in 1..Len(shown) :
        i < j /\ shown[i][1] = shown[j][1] => shown[i][2] < shown[j][2]

\* While no writer truncates the file, every line before the offset that was
\* written after initLogTailer took it has been shown: what is appended between
\* two events, or between statSync and readSync, is not skipped.
NothingSkipped ==
    \A f \in Files :
        tailer = "up" /\ ~cut[f] /\ content[f] # Off =>
            \A i \in 1..Len(content[f]) :
                i <= offset[f] /\ content[f][i][2] > base[f]
                    => content[f][i] \in Range(shown)

\* Each writer checks the size before it writes, but not with it: the file
\* outgrows LOG_MAX_SIZE by at most one line of every writer (logger.ts 45-51).
LogBounded ==
    \A f \in Files :
        Size(f) <= LogMaxSize + Cardinality({w \in Writers : FileOf[w] = f})

\* What a browser sees is the log: in order, once, without gaps, from a file
\* that stays bounded.
LogIsShown ==
    /\ LogTypeOK /\ LogBounded
    /\ ClientsSeeTheStream /\ RingIsLatest
    /\ ShownOnceInOrder /\ NothingSkipped

\* A line a watched file holds is shown, unless the file is truncated or the
\* process stops first; a line that came between the start's readFileSync and
\* statSync (87-94), which base counts, never is.
WrittenIsShown ==
    \A f \in Files, n \in 1..MaxLines :
        (watched[f] /\ event[f] /\ content[f] # Off /\ n > base[f]
             /\ <<f, n>> \in Range(content[f]))
            ~> (<<f, n>> \in Range(shown) \/ cut[f] \/ ~watched[f])
=============================================================================
