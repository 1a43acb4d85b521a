------------------------------ MODULE LogFeed -------------------------------
(***************************************************************************)
(* The developer log console: a ring buffer in the server process and a    *)
(* page that polls it.  LogBuffer holds a lock for the whole of each call, *)
(* so a call is atomic; the poll and its answer are delayed or lost, and   *)
(* the process may restart in between.                                     *)
(*                                                                         *)
(* A log entry is its id; a stream id (uuid4) is a number, never reused.   *)
(* "Faulty" definitions are part of no behaviour (see Accounts).           *)
(***************************************************************************)
EXTENDS Integers, Sequences, SequencesExt

CONSTANTS
    Capacity,       \* entries the buffer retains
    MaxEntries,     \* bound: entries logged in one stream
    MaxStreams,     \* bound: streams, one more with each restart
    None

ASSUME CapacityAssumption ==
    Capacity \in Nat \ {0} /\ MaxEntries \in Nat /\ MaxStreams \in Nat \ {0} /\ None \notin Nat

VARIABLES
    buffer,     \* _stream_id, _next_id and _entries
    page,       \* what the page keeps in its state
    wire        \* the poll or the answer under way, or None

feedVars == <<buffer, page, wire>>

Stream == 1 .. MaxStreams
Id == 1 .. MaxEntries
Retained == {s \in Seq(Id) : Len(s) <= Capacity}

Message ==
    [kind: {"poll"}, stream: Stream \cup {None}, after: Id \cup {None}]
      \cup [kind: {"answer"}, stream: Stream, latest: Id \cup {None}, reset: BOOLEAN,
            entries: Seq(Id)]

ASSUME MessageAssumption == None \notin Message

FeedTypeOK ==
    /\ buffer.stream \in Stream
    /\ buffer.nextId \in 1 .. MaxEntries + 1
    /\ buffer.entries \in Retained
    /\ page.stream \in Stream \cup {None}
    /\ page.latest \in Id \cup {None}
    /\ page.entries \in Retained
    /\ page.inFlight = (wire # None)
    /\ page.paused \in BOOLEAN

Empty(s) == [stream |-> s, nextId |-> 1, entries |-> <<>>]

FeedInit ==
    /\ buffer = Empty(1)
    /\ page = [stream |-> None, latest |-> None, entries |-> <<>>,
               inFlight |-> FALSE, paused |-> FALSE]
    /\ wire = None

\* The last Capacity elements of s.
Newest(s) == IF Len(s) > Capacity THEN SubSeq(s, Len(s) - Capacity + 1, Len(s)) ELSE s

\* The ids of s that are in S, in their order.
Among(s, S) ==
    LET kept[n \in 0 .. Len(s)] ==
          IF n = 0 THEN <<>>
          ELSE IF s[n] \in S THEN Append(kept[n - 1], s[n])
          ELSE kept[n - 1]
    IN  kept[Len(s)]

-----------------------------------------------------------------------------
(* The buffer.                                                             *)

\* Faulty Log: the list has no limit.
LogForever ==
    /\ buffer.nextId <= MaxEntries
    /\ buffer' = [buffer EXCEPT !.nextId = @ + 1, !.entries = Append(@, buffer.nextId)]
    /\ UNCHANGED <<page, wire>>

\* append: the deque drops its oldest entry when it is full.
Log ==
    /\ buffer.nextId <= MaxEntries
    /\ buffer' = [buffer EXCEPT !.nextId = @ + 1,
                    !.entries = Newest(Append(@, buffer.nextId))]
    /\ UNCHANGED <<page, wire>>

\* clear, and the restart of the process: a new stream, numbered from 1.
Restart ==
    /\ buffer.stream < MaxStreams
    /\ buffer' = Empty(buffer.stream + 1)
    /\ UNCHANGED <<page, wire>>

Latest(b) == IF b.entries = <<>> THEN None ELSE Last(b.entries)

\* Faulty Continues: the cursor of another stream is taken.
ContinuesAnyStream(b, stream, after) ==
    IF b.entries = <<>> THEN after = 0
    ELSE after <= Last(b.entries) /\ after >= Head(b.entries) - 1

\* The entries after the cursor continue what the client has.
Continues(b, stream, after) ==
    /\ stream = b.stream
    /\ IF b.entries = <<>> THEN after = 0
       ELSE after <= Last(b.entries) /\ after >= Head(b.entries) - 1

\* snapshot: what is new since the cursor, or everything.
Answer(b, stream, after) ==
    LET cursor == stream # None /\ after # None
        reset == cursor /\ ~Continues(b, stream, after)
    IN  [kind |-> "answer", stream |-> b.stream, latest |-> Latest(b), reset |-> reset,
         entries |-> IF cursor /\ ~reset
                     THEN Among(b.entries, {id \in Id : id > after})
                     ELSE b.entries]

-----------------------------------------------------------------------------
(* The page.                                                               *)

\* refreshLogs sends its cursor; there is none after an empty answer.
Refresh ==
    /\ ~page.paused
    /\ ~page.inFlight
    /\ page' = [page EXCEPT !.inFlight = TRUE]
    /\ wire' = [kind |-> "poll", stream |-> page.stream, after |-> page.latest]
    /\ UNCHANGED buffer

Serve ==
    /\ wire # None
    /\ wire.kind = "poll"
    /\ wire' = Answer(buffer, wire.stream, wire.after)
    /\ UNCHANGED <<buffer, page>>

\* mergeEntries.
Merged(entries, reset) ==
    Newest(IF page.stream = None \/ reset
           THEN entries
           ELSE page.entries \o Among(entries, Id \ ToSet(page.entries)))

Receive ==
    /\ wire # None
    /\ wire.kind = "answer"
    /\ page' = [page EXCEPT
                  !.entries = Merged(wire.entries, wire.reset \/ wire.stream # page.stream),
                  !.stream = wire.stream,
                  !.latest = wire.latest,
                  !.inFlight = FALSE]
    /\ wire' = None
    /\ UNCHANGED buffer

\* Faulty Fail: the flag is reset only when all went well.
FailForGood ==
    /\ wire # None
    /\ wire' = None
    /\ UNCHANGED <<buffer, page>>

\* The fetch fails: the poll or the answer is lost.
Fail ==
    /\ wire # None
    /\ page' = [page EXCEPT !.inFlight = FALSE]
    /\ wire' = None
    /\ UNCHANGED buffer

\* The pause button; resuming also refreshes, as the timer may at any time.
Pause ==
    /\ page' = [page EXCEPT !.paused = ~page.paused]
    /\ UNCHANGED <<buffer, wire>>

-----------------------------------------------------------------------------

FeedNext == Log \/ Restart \/ Refresh \/ Serve \/ Receive \/ Fail \/ Pause

FeedSpec == FeedInit /\ [][FeedNext]_feedVars

\* The page polls every two seconds, and not every fetch fails.
FeedFairness == WF_feedVars(Refresh) /\ SF_feedVars(Serve) /\ SF_feedVars(Receive)

FairFeedSpec == FeedSpec /\ FeedFairness

-----------------------------------------------------------------------------
(* Properties.                                                             *)

\* The page shows the newest entries of one stream up to the latest it has
\* heard of: none is missing, shown twice or out of order, whatever restarts,
\* evictions and lost answers come between two polls (devlogs.py:141-162,
\* logs.js:111-139).
PageIsWindow ==
    LET n == IF page.latest = None THEN 0 ELSE page.latest
    IN  page.entries = Newest([k \in 1 .. n |-> k])

\* A page that is not paused again and again ends up showing just what the
\* server has retained: no failed fetch, restart or gap leaves it stuck behind
\* (logs.js:121-149).  Entries and restarts are bounded, so the server falls
\* quiet.
CatchesUp ==
    \/ []<>page.paused
    \/ <>[](page.entries = buffer.entries /\ page.stream = buffer.stream)
=============================================================================
