----------------------------- MODULE ChunkStream -----------------------------
(***************************************************************************)
(* The completion chunks of one query: an executor posts them, completes   *)
(* the stream, and clients read it as Server-Sent Events.                  *)
(*                                                                         *)
(* In memory the subscription and the replay of a client see the same      *)
(* array within one callback.  Over Redis each is made of commands of its  *)
(* own: the subscription reads the last entry and the length, then blocks  *)
(* on a second connection; the replay reads the whole stream on the first. *)
(***************************************************************************)
EXTENDS Integers, Sequences, FiniteSets

CONSTANTS
    Readers,
    Completers,    \* requests that complete the stream
    MaxEntries     \* bound: entries of the stream

ASSUME MaxEntriesAssumption == MaxEntries \in Nat

VARIABLES
    backend,    \* CHUNK_BACKEND
    log,        \* kinds of the entries, in order
    completer,  \* progress of POST /stream/{id}/complete
    reader      \* a client of GET /stream/{id}

vars == <<backend, log, completer, reader>>

Kind == {"chunk", "error", "complete"}
Index == 1 .. MaxEntries
Position == 0 .. MaxEntries

\* from, waits: from-beginning and wait-for-query.  sub: progress of the
\* subscription, "broken" once an error has ended its loop; last, base: lastId
\* and baseOrdinal of the loop.  replay: the entries read for the replay.  sent: entries written to the client; twice:
\* those written again; ended: how the response ended; start: the stream's
\* length when the client came.
Reader == [phase : {"off", "replaying", "fetched", "live", "gone"},
           from : BOOLEAN, sub : {"none", "tail", "length", "reading", "broken"},
           last : Position, base : Position,
           replay : Position, buffer : SUBSET (Index \X (1 .. 2 * MaxEntries)),
           timer : BOOLEAN, watched : BOOLEAN,
           sent : SUBSET Index, twice : BOOLEAN, start : Position,
           ended : {"no", "done", "error", "timeout"}]

TypeOK ==
    /\ backend \in {"memory", "redis"}
    /\ log \in Seq(Kind) /\ Len(log) <= MaxEntries
    /\ completer \in [Completers -> {"start", "exists", "open", "answered"}]
    /\ reader \in [Readers -> Reader]

Off == [phase |-> "off", from |-> FALSE, sub |-> "none", last |-> 0, base |-> 0,
        replay |-> 0, buffer |-> {}, timer |-> FALSE, watched |-> FALSE,
        sent |-> {}, twice |-> FALSE, start |-> 0, ended |-> "no"]

Init ==
    /\ backend \in {"memory", "redis"}
    /\ log = <<>>
    /\ completer = [c \in Completers |-> "start"]
    /\ reader = [r \in Readers |-> Off]

-----------------------------------------------------------------------------
(* The response of one client.  Writes after its end are lost. *)

Write(r, i) ==
    IF r.ended # "no" THEN r
    ELSE [r EXCEPT !.sent = @ \cup {i}, !.twice = @ \/ i \in r.sent]

\* res.end() and cleanup: the subscription is cancelled; the 'close' event that
\* follows clears the timer if its handler is registered.
End(r, how) ==
    [r EXCEPT !.sub = "none", !.timer = @ /\ ~r.watched,
              !.ended = IF @ = "no" THEN how ELSE @]

\* writeLiveChunk: an error chunk ends the response.
writeLiveChunk(r, i) ==
    IF log'[i] = "error" THEN End(Write(r, i), "error") ELSE Write(r, i)

\* The subscriber's callback: completion ends the response at once, anything
\* else stops the timer and is written, or buffered until the replay is out.
Deliver(r, i, ordinal) ==
    IF log'[i] = "complete" THEN End(r, "done")
    ELSE LET s == [r EXCEPT !.timer = FALSE]
         IN IF r.phase = "live" THEN writeLiveChunk(s, i)
            ELSE [s EXCEPT !.buffer = @ \cup {<<i, ordinal>>}]

Completed(n) == {i \in 1 .. n : log[i] = "complete"}
BeforeCompletion(n) == {i \in 1 .. n : \A j \in Completed(n) : i < j}

Replayed_SkipsErrors(r) ==
    LET writes == {i \in BeforeCompletion(r.replay) : log[i] # "error"}
        s == IF r.ended = "no" THEN [r EXCEPT !.sent = writes] ELSE r
    IN IF Completed(r.replay) # {} THEN End(s, "done") ELSE s

Replayed_StaysOpen(r) ==
    IF r.ended = "no" THEN [r EXCEPT !.sent = BeforeCompletion(r.replay)] ELSE r

\* replayChunks: everything up to the completion, which ends the response; an
\* error chunk is written like any other.
Replayed(r) ==
    LET writes == BeforeCompletion(r.replay)
        s == IF r.ended = "no" THEN [r EXCEPT !.sent = writes] ELSE r
    IN IF Completed(r.replay) # {} THEN End(s, "done") ELSE s

\* flushBuffer: what came meanwhile, except what the replay had; an error ends
\* the response there.
Unseen(r) == {i \in Index : \E o \in 1 .. 2 * MaxEntries : <<i, o>> \in r.buffer /\ o > r.replay}
Flushable(r) ==
    {i \in Unseen(r) : \A j \in Unseen(r) : j < i => log[j] # "error"}

Flushed(r) ==
    LET s == IF r.ended # "no" THEN r
             ELSE [r EXCEPT !.sent = @ \cup Flushable(r),
                            !.twice = @ \/ Flushable(r) \cap r.sent # {}]
    IN IF \E i \in Unseen(r) : log[i] = "error" THEN End(s, "error") ELSE s

-----------------------------------------------------------------------------
(* The stream *)

\* A new entry; in memory the subscribers are called before append() returns.
appendItem(kind) ==
    /\ Len(log) < MaxEntries
    /\ log' = Append(log, kind)
    /\ UNCHANGED backend
    /\ IF backend = "memory"
       THEN reader' = [r \in Readers |->
                         IF reader[r].sub = "reading"
                         THEN Deliver(reader[r], Len(log'), Len(log'))
                         ELSE reader[r]]
       ELSE UNCHANGED reader

\* POST /stream/{id}: one append after the other, also when the stream is
\* complete already.
addChunk(kind) ==
    /\ kind \in {"chunk", "error"}
    /\ appendItem(kind)
    /\ UNCHANGED completer

HasQuery == log # <<>>

\* The last entry over Redis, any entry in memory.
IsComplete ==
    IF backend = "redis" THEN HasQuery /\ log[Len(log)] = "complete"
    ELSE \E i \in 1 .. Len(log) : log[i] = "complete"

\* POST /stream/{id}/complete looks twice before it appends; in memory nothing
\* comes in between.
CheckExists(c) ==
    /\ backend = "redis" /\ completer[c] = "start"
    /\ completer' = [completer EXCEPT ![c] = IF HasQuery THEN "exists" ELSE "answered"]
    /\ UNCHANGED <<backend, log, reader>>

CheckComplete(c) ==
    /\ backend = "redis" /\ completer[c] = "exists"
    /\ completer' = [completer EXCEPT ![c] = IF IsComplete THEN "answered" ELSE "open"]
    /\ UNCHANGED <<backend, log, reader>>

completeQuery(c) ==
    /\ \/ completer[c] = "open"
       \/ backend = "memory" /\ completer[c] = "start" /\ HasQuery /\ ~IsComplete
    /\ completer' = [completer EXCEPT ![c] = "answered"]
    /\ appendItem("complete")

-----------------------------------------------------------------------------
(* handleQueryStream *)

\* Subscribe, arm the timer, replay.  In memory the replay is over before any
\* other callback runs.
handleQueryStream(r, from, waits) ==
    /\ reader[r].phase = "off"
    /\ LET came == [Off EXCEPT !.phase = IF from THEN "replaying" ELSE "live",
                               !.from = from, !.timer = waits, !.start = Len(log),
                               !.watched = ~from]
           replayed == Replayed([came EXCEPT !.sub = "reading", !.phase = "live",
                                             !.replay = IF from THEN Len(log) ELSE 0])
       IN reader' = [reader EXCEPT ![r] =
            IF backend = "redis" THEN [came EXCEPT !.sub = "tail"]
            ELSE [replayed EXCEPT !.watched = replayed.ended = "no"]]
    /\ UNCHANGED <<backend, log, completer>>

Base_Unset(r) == 0 - r.last
\* What the loop adds to the place of an entry: the entries appended between its
\* two commands.
Base(r) == Len(log) - r.last

\* startXreadLoop: XREVRANGE COUNT 1, then XLEN.
ReadTail(r) ==
    /\ reader[r].sub = "tail" /\ backend = "redis"
    /\ reader' = [reader EXCEPT ![r].sub = "length", ![r].last = Len(log)]
    /\ UNCHANGED <<backend, log, completer>>

ReadLength(r) ==
    /\ reader[r].sub = "length"
    /\ reader' = [reader EXCEPT ![r].sub = "reading", ![r].base = Base(reader[r])]
    /\ UNCHANGED <<backend, log, completer>>

\* XREAD BLOCK: the next entry, numbered from the length read at first.
XRead(r) ==
    /\ backend = "redis" /\ reader[r].sub = "reading" /\ reader[r].phase # "gone"
    /\ reader[r].last < Len(log)
    /\ UNCHANGED <<backend, log, completer>>
    /\ LET i == reader[r].last + 1
       IN reader' = [reader EXCEPT ![r] = Deliver([@ EXCEPT !.last = i], i, i + @.base)]

\* A failed XREAD breaks the loop, a failed XREVRANGE or XLEN crashes it before it
\* starts.  It is logged; the response stays open and is not told.
XReadFails(r) ==
    /\ backend = "redis" /\ reader[r].sub \in {"tail", "length", "reading"}
    /\ reader[r].phase # "gone"
    /\ reader' = [reader EXCEPT ![r].sub = "broken"]
    /\ UNCHANGED <<backend, log, completer>>

\* XRANGE, on the connection of the first two commands and after them.
getByQuery(r) ==
    /\ reader[r].phase = "replaying" /\ reader[r].sub \notin {"tail", "length"}
    /\ reader' = [reader EXCEPT ![r].phase = "fetched", ![r].replay = Len(log)]
    /\ UNCHANGED <<backend, log, completer>>

\* The handlers of 'close' and 'error' are registered only when the client has
\* caught up.
CatchUp(r) ==
    /\ reader[r].phase = "fetched"
    /\ LET s == Replayed(reader[r])
           full == IF Completed(s.replay) = {} THEN Flushed(s) ELSE s
       IN reader' = [reader EXCEPT ![r] =
            [full EXCEPT !.phase = "live", !.buffer = {},
                         !.watched = /\ Completed(s.replay) = {}
                                     /\ \A i \in Unseen(s) : log[i] # "error"]]
    /\ UNCHANGED <<backend, log, completer>>

\* Armed until something is delivered; what the replay wrote does not count.
onQueryTimeout(r) ==
    /\ reader[r].timer
    /\ reader' = [reader EXCEPT ![r] = End([@ EXCEPT !.timer = FALSE], "timeout")]
    /\ UNCHANGED <<backend, log, completer>>

\* A client that leaves before its handlers are registered leaves its
\* subscription and its timer behind.  So does a replay that fails: the response
\* is an error then, and nothing more is written to it.
onStreamClose(r) ==
    /\ reader[r].phase \in {"replaying", "fetched", "live"}
    /\ reader' = [reader EXCEPT ![r].phase = "gone",
                                ![r].sub = IF reader[r].watched THEN "none" ELSE @,
                                ![r].timer = @ /\ ~reader[r].watched]
    /\ UNCHANGED <<backend, log, completer>>

-----------------------------------------------------------------------------
Step(r) == ReadTail(r) \/ ReadLength(r) \/ XRead(r) \/ getByQuery(r) \/ CatchUp(r)

Next ==
    \/ \E kind \in Kind : addChunk(kind)
    \/ \E c \in Completers : CheckExists(c) \/ CheckComplete(c) \/ completeQuery(c)
    \/ \E r \in Readers :
         \/ \E from, waits \in BOOLEAN : handleQueryStream(r, from, waits)
         \/ Step(r) \/ XReadFails(r) \/ onQueryTimeout(r) \/ onStreamClose(r)

Spec == Init /\ [][Next]_vars

\* A command of Redis answers, or fails; nobody has to fail, to leave or to wait
\* for a timer.
FairSpec == Spec /\ \A r \in Readers : WF_vars(Step(r))

-----------------------------------------------------------------------------
\* What a client has is a piece of the stream without holes, from its first
\* entry for a client that asked for the beginning.
GapFree ==
    \A r \in Readers :
        LET got == reader[r].sent
        IN /\ \A i, j \in got : i .. j \subseteq got
           /\ reader[r].from /\ got # {} => 1 \in got

\* Everything before the completion.
All(r) == BeforeCompletion(Len(log)) \subseteq reader[r].sent

\* In memory nothing is sent twice, nothing before the client came unless it
\* asked for it, and [DONE] comes when everything has been sent.
MemoryExact ==
    backend = "memory" =>
        \A r \in Readers :
            /\ ~reader[r].twice
            /\ reader[r].from \/ \A i \in reader[r].sent : i > reader[r].start
            /\ reader[r].from /\ reader[r].ended = "done" => All(r)

\* The loop has died and the replay had no completion: nobody will send [DONE].
Orphaned(r) ==
    reader[r].sub = "broken" /\ reader[r].phase = "live" /\ Completed(reader[r].replay) = {}

\* The stream of a client that asked for the beginning ends once the query is
\* complete, also when its loop died and the replay had the completion; only an
\* orphaned client waits for ever.
StreamsEnd ==
    \A r \in Readers :
        (reader[r].from /\ HasQuery /\ \E i \in 1 .. Len(log) : log[i] = "complete")
        ~> (reader[r].ended # "no" \/ reader[r].phase = "gone" \/ Orphaned(r))
=============================================================================
