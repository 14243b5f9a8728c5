-------------------------- MODULE SessionAggregate --------------------------
(***************************************************************************)
(* The broker's session aggregate: what an event or a message makes of the *)
(* row of its query, and what the rows of a session make of its header.    *)
(* Both backends use these functions; they differ in where the rows are.   *)
(***************************************************************************)
EXTENDS Integers, FiniteSets

CONSTANTS
    Sessions,
    Queries,       \* names; a name can occur in several sessions
    MaxSeq,        \* bound: sequence numbers of the event and message streams
    None

ASSUME MaxSeqAssumption == MaxSeq \in Nat
ASSUME QueriesAssumption == IsFiniteSet(Queries)

\* What resolveQueryPhase makes of the reason of an event.
Kinds == {"running", "done", "error", "canceled"}

\* joins: the event names the conversation; seq: 0 for "undefined", the event of
\* a POST /sessions or of the in-memory backend, which does not look at it.
Event == [session : Sessions, query : Queries, kind : Kinds, joins : BOOLEAN,
          seq : 0 .. MaxSeq]

\* active: lastActivity, as a rank within the session; seen, decided and told:
\* last_applied_event_, last_phase_event_ and last_applied_message_sequence.
Row == [phase : Kinds, joined : BOOLEAN, active : Nat,
        seen : 0 .. MaxSeq, decided : 0 .. MaxSeq, told : 0 .. MaxSeq]

Rows == [Queries -> Row \cup {None}]

NoRows == [q \in Queries |-> None]

Present(rows) == {q \in Queries : rows[q] # None}

isTerminalPhase(kind) == kind \in {"done", "error", "canceled"}

Larger(a, b) == IF a >= b THEN a ELSE b

\* The time of a write: later than every activity of the session so far.
Now(rows) ==
    LET times == {0} \cup {rows[q].active : q \in Present(rows)}
    IN  1 + CHOOSE t \in times : \A u \in times : u <= t

-----------------------------------------------------------------------------
(* Rows *)

\* "A later 'done' supersedes a prior 'error'", but not a cancellation, which
\* in turn does not supersede an error.
PhaseAfter(phase, kind) ==
    IF \/ kind = "error"
       \/ kind = "canceled" /\ phase # "error"
       \/ kind = "done" /\ phase # "canceled"
    THEN kind
    ELSE phase

applyQueryPhase(row, kind, now, touchActivity) ==
    [row EXCEPT !.phase = PhaseAfter(@, kind),
                !.active = IF touchActivity THEN now ELSE @]

mergeQueryMetadata(row, e) == [row EXCEPT !.joined = @ \/ e.joins]

buildQueryEntry(e, now) ==
    [phase |-> e.kind, joined |-> e.joins, active |-> now, seen |-> 0,
     decided |-> 0, told |-> 0]

Stale(row, e) == e.seq # 0 /\ e.seq <= row.seen

PhaseStale(row, e) == e.seq # 0 /\ e.seq <= row.decided

\* Nothing left to do: stale, fills no gap, decides no newer phase.
Redundant(row, e) ==
    /\ Stale(row, e)
    /\ mergeQueryMetadata(row, e) = row
    /\ ~isTerminalPhase(e.kind) \/ PhaseStale(row, e)

EntryAfter_OneWatermark(row, e, now) ==
    IF ~Stale(row, e) THEN applyQueryPhase(row, e.kind, now, TRUE) ELSE row

EntryAfter(row, e, now) ==
    IF ~Stale(row, e) THEN applyQueryPhase(row, e.kind, now, TRUE)
    ELSE IF isTerminalPhase(e.kind) /\ ~PhaseStale(row, e)
         THEN applyQueryPhase(row, e.kind, now, FALSE)
         ELSE row

\* The watermark of the phase moves with terminal events only.
DecidedBy(e) == IF isTerminalPhase(e.kind) THEN e.seq ELSE 0

\* What an event makes of the row it has read (None: there was none) by the time
\* of its upsert, which keeps the greater watermarks of the row that is there.
RowAfterEvent(read, current, e, now) ==
    LET entry == IF read = None THEN buildQueryEntry(e, now)
                 ELSE EntryAfter(mergeQueryMetadata(read, e), e, now)
        there == IF current = None THEN [seen |-> 0, decided |-> 0, told |-> 0]
                 ELSE current
    IN  [entry EXCEPT !.seen = Larger(there.seen, e.seq),
                      !.decided = Larger(there.decided, DecidedBy(e)),
                      !.told = there.told]

\* A message joins the query to its conversation; it is not an activity of it.
RowAfterMessage(row, seq) ==
    [row EXCEPT !.joined = TRUE, !.told = IF seq = 0 THEN @ ELSE seq]

-----------------------------------------------------------------------------
(* Headers *)

ErrorCount(rows) == Cardinality({q \in Present(rows) : rows[q].phase = "error"})

\* The latest activity of a session without a running query is its status.
Status(rows) ==
    IF \E q \in Present(rows) : rows[q].phase = "running" THEN "active"
    ELSE IF \E q \in Present(rows) :
                /\ rows[q].phase = "error"
                /\ \A p \in Present(rows) : rows[p].active <= rows[q].active
         THEN "error"
         ELSE "idle"

\* The conversations, by the queries that have joined one.
Conversations(rows) == {q \in Present(rows) : rows[q].joined}

Header == [status : {"active", "idle", "error"}, errorCount : 0 .. Cardinality(Queries),
           conversations : SUBSET Queries, live : BOOLEAN]

ASSUME NoneAssumption == None \notin Row \cup Header \cup [header : Header, rows : Rows]

recalculateSessionStatus(rows, live) ==
    [status |-> Status(rows), errorCount |-> ErrorCount(rows),
     conversations |-> Conversations(rows), live |-> live]

recalculateSessionConversations(header, rows, live) ==
    [header EXCEPT !.conversations = Conversations(rows), !.live = live]
=============================================================================
