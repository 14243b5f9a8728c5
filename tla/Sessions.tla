------------------------------ MODULE Sessions ------------------------------
(***************************************************************************)
(* The sessions of the broker in Postgres, written by the replicas at the  *)
(* same time, and the clients that watch them.                             *)
(*                                                                         *)
(* A request of a client is a sequence of statements.  They run in one     *)
(* transaction that holds the lock of a session's header from lockHeader   *)
(* to the commit; other requests see what is committed, and run between    *)
(* any two statements.  Watchers are notified after the commit; each       *)
(* notification starts a read of its own, nothing orders the reads.        *)
(***************************************************************************)
EXTENDS SessionAggregate, Sequences

CONSTANTS
    Requests,      \* bound: each makes one call
    Posts,         \* bound: what events say, of [kind : Kinds, joins : BOOLEAN]
    Watchers,
    MaxFaults      \* bound: calls that fail, sessions that pass their expires_at

ASSUME BoundsAssumption == /\ Posts \subseteq [kind : Kinds, joins : BOOLEAN]
                           /\ MaxFaults \in Nat
ASSUME RequestsAssumption == None \notin Requests

VARIABLES
    header, row,   \* the tables sessions and session_queries, as committed
    lock,          \* per session: the request whose transaction holds the header
    events,        \* the event stream; an item's number is its place
    messages,      \* the number of the last message
    req,
    watch,
    faults,
    applied,       \* history: per row, the events its requests were answered for
    lost,          \* history: sessions with a notification or a read that failed
    revived        \* history: sessions a message took back from expiry silently

tables == <<header, row, applied, revived>>
streams == <<events, messages>>
vars == <<tables, lock, streams, req, watch, faults, lost>>

Pc == {"idle", "probe", "insert", "lock", "write", "notify", "done"}

Op == {"none", "event", "message", "deleteQuery", "delete"}

\* e: the event, or for the other calls the fields they have; old: the row that
\* was read; todo: owners still to visit; tell: sessions to notify about.
Request == [pc : Pc, op : Op, e : {None} \cup [session : Sessions \cup {None},
            query : Queries, kind : Kinds, joins : BOOLEAN, seq : 0 .. MaxSeq],
            old : Row \cup {None}, todo : SUBSET Sessions, tell : SUBSET Sessions]

\* A getSession in flight, of the notification of a request: its first SELECT is
\* still to come, or what it has is the newest state, or an older or a torn one.
Read == [by : Requests, session : Sessions, got : {"asked", "new", "old"}]

\* seen: sessions it has been shown since their last commit; last: those where
\* nothing older was shown after that; mixed: those with reads that overlapped;
\* buffered: those with a read to be shown behind the initial one.
Watch == [phase : {"off", "subscribed", "fetched", "live"}, reads : SUBSET Read,
          seen : SUBSET Sessions, last : SUBSET Sessions,
          mixed : SUBSET Sessions, buffered : SUBSET Sessions]

TypeOK ==
    /\ header \in [Sessions -> Header \cup {None}]
    /\ row \in [Sessions -> Rows]
    /\ lock \in [Sessions -> Requests \cup {None}]
    /\ \A s \in Sessions : lock[s] # None => /\ req[lock[s]].pc \in {"lock", "write"}
                                             /\ req[lock[s]].e.session = s
    /\ events \in Seq(Event) /\ Len(events) <= MaxSeq
    /\ messages \in 0 .. MaxSeq
    /\ req \in [Requests -> Request]
    /\ watch \in [Watchers -> Watch]
    /\ faults \in 0 .. MaxFaults
    /\ applied \in [Sessions -> [Queries -> SUBSET (1 .. MaxSeq)]]
    /\ lost \subseteq Sessions /\ revived \subseteq Sessions

Idle == [pc |-> "idle", op |-> "none", e |-> None, old |-> None, todo |-> {}, tell |-> {}]

Off == [phase |-> "off", reads |-> {}, seen |-> {}, last |-> {}, mixed |-> {}, buffered |-> {}]

Init ==
    /\ header = [s \in Sessions |-> None]
    /\ row = [s \in Sessions |-> NoRows]
    /\ lock = [s \in Sessions |-> None]
    /\ events = <<>> /\ messages = 0
    /\ req = [r \in Requests |-> Idle]
    /\ watch = [w \in Watchers |-> Off]
    /\ faults = 0
    /\ applied = [s \in Sessions |-> [q \in Queries |-> {}]]
    /\ lost = {} /\ revived = {}

-----------------------------------------------------------------------------
(* Calls *)

\* POST /events: the event is in its stream, with its number, before it is
\* applied to its session.
PostEvent(r, s, q, post) ==
    LET e == [session |-> s, query |-> q, kind |-> post.kind, joins |-> post.joins,
              seq |-> Len(events) + 1]
    IN  /\ req[r].pc = "idle" /\ Len(events) < MaxSeq
        /\ events' = Append(events, e)
        /\ req' = [req EXCEPT ![r] = [req[r] EXCEPT !.pc = "insert", !.op = "event", !.e = e]]
        /\ UNCHANGED <<tables, lock, messages, watch, faults, lost>>

\* POST /messages knows the query, not its session.
PostMessage(r, q) ==
    /\ req[r].pc = "idle" /\ messages < MaxSeq
    /\ messages' = messages + 1
    /\ req' = [req EXCEPT ![r] =
         [req[r] EXCEPT !.pc = "probe", !.op = "message",
                   !.e = [session |-> None, query |-> q, kind |-> "running",
                          joins |-> TRUE, seq |-> messages + 1]]]
    /\ UNCHANGED <<tables, lock, events, watch, faults, lost>>

\* DELETE /sessions/queries/:query_id, from the finalizer of a Query.
DeleteQuery(r, q) ==
    /\ req[r].pc = "idle"
    /\ req' = [req EXCEPT ![r] =
         [req[r] EXCEPT !.pc = "probe", !.op = "deleteQuery",
                   !.e = [session |-> None, query |-> q, kind |-> "running",
                          joins |-> FALSE, seq |-> 0]]]
    /\ UNCHANGED <<tables, lock, streams, watch, faults, lost>>

\* DELETE /sessions is one statement: it waits for the headers that are locked,
\* and the rows go with their headers.
delete(r) ==
    /\ req[r].pc = "idle"
    /\ \A s \in Sessions : header[s] # None => lock[s] = None
    /\ header' = [s \in Sessions |-> None]
    /\ row' = [s \in Sessions |-> NoRows]
    /\ applied' = [s \in Sessions |-> [q \in Queries |-> {}]]
    /\ req' = [req EXCEPT ![r] = [req[r] EXCEPT !.pc = "done", !.op = "delete"]]
    /\ UNCHANGED <<lock, streams, watch, revived, faults, lost>>

-----------------------------------------------------------------------------
(* Statements *)

Owners(q) == {s \in Sessions : row[s][q] # None}

Goto(r, pc) == req' = [req EXCEPT ![r].pc = pc]

\* The unlocked probe of a message, for a session that is preferably live.
ProbeMessage(r) ==
    LET owners == Owners(req[r].e.query)
        live   == {s \in owners : header[s].live}
    IN  /\ req[r].pc = "probe" /\ req[r].op = "message"
        /\ IF owners = {} THEN Goto(r, "done")
           ELSE \E s \in (IF live # {} THEN live ELSE owners) :
                    req' = [req EXCEPT ![r].pc = "lock", ![r].e.session = s]
        /\ UNCHANGED <<tables, lock, streams, watch, faults, lost>>

\* With nothing left to write, which sessions a request is to notify about.
Notifying(tell) == [Idle EXCEPT !.pc = "notify", !.tell = tell]

NextOwner(q, todo) ==
    IF todo = {} THEN Notifying(q.tell)
    ELSE [q EXCEPT !.pc = "lock", !.todo = todo]

\* The unlocked probe of deleteQuery, and its loop over the owners.
ProbeDelete(r) ==
    /\ req[r].pc = "probe" /\ req[r].op = "deleteQuery"
    /\ req' = [req EXCEPT ![r] = NextOwner(req[r], Owners(req[r].e.query))]
    /\ UNCHANGED <<tables, lock, streams, watch, faults, lost>>

\* INSERT INTO sessions ... ON CONFLICT DO NOTHING: no lock on a header that is
\* there; on one that another transaction inserts, wait for its end.
InsertHeader(r) ==
    LET s == req[r].e.session IN
    /\ req[r].pc = "insert"
    /\ header[s] = None => lock[s] = None
    /\ lock' = IF header[s] = None THEN [lock EXCEPT ![s] = r] ELSE lock
    /\ Goto(r, "lock")
    /\ UNCHANGED <<tables, streams, watch, faults, lost>>

Free_Always(r, s) == TRUE

\* SELECT ... FOR UPDATE waits for the transaction that holds the header.
Free(r, s) == lock[s] \in {None, r}

\* With the header locked, the SELECT of the query's row; nobody else writes it
\* before the commit.
LockAndRead(r) ==
    LET e == req[r].e IN
    /\ lock' = [lock EXCEPT ![e.session] = r]
    /\ req' = [req EXCEPT ![r].pc = "write", ![r].old = row[e.session][e.query]]

\* lockHeaderOrRecreate of an event: a purge may have come between, then the
\* header is inserted again.  There is a header to lock in either case.
LockForEvent(r) ==
    LET s == req[r].e.session IN
    /\ req[r].pc = "lock" /\ req[r].op = "event"
    /\ Free(r, s)
    /\ LockAndRead(r)
    /\ UNCHANGED <<tables, streams, watch, faults, lost>>

\* lockHeader of a message: without a header there is nothing left to do.
LockForMessage(r) ==
    LET s == req[r].e.session IN
    /\ req[r].pc = "lock" /\ req[r].op = "message"
    /\ IF header[s] = None
       THEN /\ Goto(r, "done")
            /\ UNCHANGED lock
       ELSE /\ Free(r, s)
            /\ LockAndRead(r)
    /\ UNCHANGED <<tables, streams, watch, faults, lost>>

\* lockHeader of deleteQuery: without a header, on to the next owner.
LockForDelete(r) ==
    /\ req[r].pc = "lock" /\ req[r].op = "deleteQuery"
    /\ \E s \in req[r].todo :
         IF header[s] = None
         THEN /\ req' = [req EXCEPT ![r] = NextOwner(req[r], req[r].todo \ {s})]
              /\ UNCHANGED lock
         ELSE /\ Free(r, s)
              /\ lock' = [lock EXCEPT ![s] = r]
              /\ req' = [req EXCEPT ![r] =
                   [req[r] EXCEPT !.pc = "write", !.e.session = s, !.todo = @ \ {s}]]
    /\ UNCHANGED <<tables, streams, watch, faults, lost>>

-----------------------------------------------------------------------------
(* Writes and commits *)

Release_Leaked(r) == lock' = lock

\* COMMIT or ROLLBACK.
Release(r) == lock' = [s \in Sessions |-> IF lock[s] = r THEN None ELSE lock[s]]

\* What a commit means for the watchers of a session: what they were shown and
\* what is read for them is old.
Overtaken(d, ss) ==
    IF d.got = "new" /\ d.session \in ss THEN [d EXCEPT !.got = "old"] ELSE d

Behind(x, ss) ==
    [x EXCEPT !.seen = @ \ ss, !.last = @ \ ss, !.reads = {Overtaken(d, ss) : d \in @}]

Outdated(ss) == [w \in Watchers |-> Behind(watch[w], ss)]

Committed(r, told) == req' = [req EXCEPT ![r] = Notifying(@.tell \cup told)]

\* Upsert, refreshHeader, COMMIT.
WriteEvent(r) ==
    LET e    == req[r].e
        old  == req[r].old
        rows == [row[e.session] EXCEPT
                   ![e.query] = RowAfterEvent(old, @, e, Now(row[e.session]))]
    IN  /\ req[r].pc = "write" /\ req[r].op = "event"
        /\ IF old # None /\ Redundant(old, e)
           THEN /\ Committed(r, {})
                /\ UNCHANGED <<row, header, watch>>
           ELSE /\ row' = [row EXCEPT ![e.session] = rows]
                /\ header' = [header EXCEPT ![e.session] = recalculateSessionStatus(rows, TRUE)]
                /\ watch' = Outdated({e.session})
                /\ Committed(r, {e.session})
        /\ applied' = [applied EXCEPT ![e.session][e.query] = @ \cup {e.seq}]
        /\ Release(r)
        /\ UNCHANGED <<revived, streams, faults, lost>>

Tell_Never(old, s) == {}

\* Only a message that attaches the query to a conversation is announced.
Tell(old, s) == IF old.joined THEN {} ELSE {s}

\* UPDATE session_queries, refreshHeader(conversationsOnly), COMMIT.
WriteMessage(r) ==
    LET e    == req[r].e
        s    == e.session
        old  == req[r].old
        rows == [row[s] EXCEPT ![e.query] = RowAfterMessage(@, e.seq)]
    IN  /\ req[r].pc = "write" /\ req[r].op = "message"
        /\ IF old = None \/ row[s][e.query] = None \/ (old # None /\ e.seq <= old.told)
           THEN /\ Committed(r, {})
                /\ UNCHANGED <<row, header, watch, revived>>
           ELSE /\ row' = [row EXCEPT ![s] = rows]
                /\ header' = [header EXCEPT ![s] = recalculateSessionConversations(@, rows, TRUE)]
                /\ watch' = IF old.joined THEN watch ELSE Outdated({s})
                /\ revived' = IF header[s].live \/ ~old.joined THEN revived ELSE revived \cup {s}
                /\ Committed(r, Tell(old, s))
        /\ Release(r)
        /\ UNCHANGED <<applied, streams, faults, lost>>

HeaderAfterDelete_Kept(s, rows) ==
    IF rows = NoRows THEN None ELSE header[s]

\* refreshHeaderAggregates, or DELETE FROM sessions with the last row.
HeaderAfterDelete(s, rows) ==
    IF rows = NoRows THEN None ELSE recalculateSessionStatus(rows, header[s].live)

\* DELETE FROM session_queries, the header after it, COMMIT, the next owner.
WriteDelete(r) ==
    LET e    == req[r].e
        s    == e.session
        rows == [row[s] EXCEPT ![e.query] = None]
        told == IF row[s][e.query] # None /\ rows # NoRows THEN {s} ELSE {}
    IN  /\ req[r].pc = "write" /\ req[r].op = "deleteQuery"
        /\ IF row[s][e.query] = None
           THEN UNCHANGED <<row, header, applied>>
           ELSE /\ row' = [row EXCEPT ![s] = rows]
                /\ header' = [header EXCEPT ![s] = HeaderAfterDelete(s, rows)]
                /\ applied' = [applied EXCEPT ![s][e.query] = {}]
        /\ watch' = Outdated(told)
        /\ req' = [req EXCEPT ![r] = NextOwner([req[r] EXCEPT !.tell = @ \cup told], req[r].todo)]
        /\ Release(r)
        /\ UNCHANGED <<revived, streams, faults, lost>>

InFlight(w) == {d.session : d \in watch[w].reads}

\* pg_notify on the pool; every replica hears it and tells its subscribers, each
\* of which starts a read of the session.
Notify(r) ==
    /\ req[r].pc = "notify"
    /\ watch' = [w \in Watchers |->
          IF watch[w].phase = "off" THEN watch[w]
          ELSE [watch[w] EXCEPT
                  !.reads = @ \cup {[by |-> r, session |-> s, got |-> "asked"] : s \in req[r].tell},
                  !.mixed = (@ \ req[r].tell) \cup (req[r].tell \cap InFlight(w))]]
    /\ req' = [req EXCEPT ![r].pc = "done", ![r].tell = {}]
    /\ UNCHANGED <<tables, lock, streams, faults, lost>>

\* The replica crashes, or the database does not answer: what is not committed
\* is rolled back, what is not announced never will be.
Fail(r) ==
    /\ faults < MaxFaults /\ faults' = faults + 1
    /\ req[r].pc \notin {"idle", "done"}
    /\ req' = [req EXCEPT ![r] = [Idle EXCEPT !.pc = "done", !.op = req[r].op]]
    /\ lost' = lost \cup req[r].tell
    /\ Release(r)
    /\ UNCHANGED <<tables, streams, watch>>

Expire(s) ==
    /\ faults < MaxFaults /\ faults' = faults + 1
    /\ header[s] # None /\ header[s].live
    /\ header' = [header EXCEPT ![s].live = FALSE]
    /\ UNCHANGED <<row, applied, revived, lock, streams, req, watch, lost>>

-----------------------------------------------------------------------------
(* Watching *)

Visible(s) == header[s] # None /\ header[s].live

Subscribe(w) ==
    /\ watch[w].phase = "off"
    /\ watch' = [watch EXCEPT ![w].phase = "subscribed"]
    /\ UNCHANGED <<tables, lock, streams, req, faults, lost>>

\* getReplay, the SELECT of the headers: every live session.  It is shown before
\* the reads that end meanwhile, and those come after it whatever they read.
getAll(w) ==
    /\ watch[w].phase = "subscribed"
    /\ LET found == {s \in Sessions : Visible(s)}
       IN watch' = [watch EXCEPT ![w] =
            [watch[w] EXCEPT !.phase = "fetched", !.buffered = {},
                             !.seen = @ \cup found,
                             !.last = @ \cup (found \ watch[w].buffered)]]
    /\ UNCHANGED <<tables, lock, streams, req, faults, lost>>

\* The initial sessions and the buffer are written.  If getAll fails, never.
CatchUp(w) ==
    /\ watch[w].phase = "fetched"
    /\ watch' = [watch EXCEPT ![w].phase = "live"]
    /\ UNCHANGED <<tables, lock, streams, req, faults, lost>>

\* getSession, the SELECT of the header; a miss is dropped.  A commit before the
\* SELECT of the rows, or before the answer is shown, makes it an old one.
getSession(w, d) ==
    /\ d \in watch[w].reads /\ d.got = "asked"
    /\ watch' = [watch EXCEPT ![w].reads =
          (@ \ {d}) \cup (IF Visible(d.session) THEN {[d EXCEPT !.got = "new"]} ELSE {})]
    /\ UNCHANGED <<tables, lock, streams, req, faults, lost>>

\* then(callback): what was read is shown, in the order in which the reads end.
Show(w, d) ==
    /\ d \in watch[w].reads /\ d.got # "asked"
    /\ LET s == {d.session}
       IN watch' = [watch EXCEPT ![w] =
            [watch[w] EXCEPT !.reads = @ \ {d},
                             !.seen = IF d.got = "new" THEN @ \cup s ELSE @,
                             !.last = IF d.got = "new" THEN @ \cup s ELSE @ \ s,
                             !.buffered = IF watch[w].phase = "subscribed" THEN @ \cup s ELSE @]]
    /\ UNCHANGED <<tables, lock, streams, req, faults, lost>>

\* catch: it is logged, the watcher is not told.
ReadFails(w, d) ==
    /\ faults < MaxFaults /\ faults' = faults + 1
    /\ d \in watch[w].reads
    /\ watch' = [watch EXCEPT ![w].reads = @ \ {d}]
    /\ lost' = lost \cup {d.session}
    /\ UNCHANGED <<tables, lock, streams, req>>

Disconnect(w) ==
    /\ watch[w].phase # "off"
    /\ watch' = [watch EXCEPT ![w] = Off]
    /\ UNCHANGED <<tables, lock, streams, req, faults, lost>>

-----------------------------------------------------------------------------
Call(r) ==
    \/ \E s \in Sessions, q \in Queries, post \in Posts : PostEvent(r, s, q, post)
    \/ \E q \in Queries : PostMessage(r, q) \/ DeleteQuery(r, q)
    \/ delete(r)

Statement(r) ==
    \/ ProbeMessage(r) \/ ProbeDelete(r) \/ InsertHeader(r)
    \/ LockForEvent(r) \/ LockForMessage(r) \/ LockForDelete(r)
    \/ WriteEvent(r) \/ WriteMessage(r) \/ WriteDelete(r)
    \/ Notify(r)

Next ==
    \/ \E r \in Requests : Call(r) \/ Statement(r) \/ Fail(r)
    \/ \E s \in Sessions : Expire(s)
    \/ \E w \in Watchers :
         \/ Subscribe(w) \/ getAll(w) \/ CatchUp(w) \/ Disconnect(w)
         \/ \E d \in watch[w].reads : getSession(w, d) \/ Show(w, d) \/ ReadFails(w, d)

Spec == Init /\ [][Next]_vars

-----------------------------------------------------------------------------
(* Properties *)

Kind(n) == events[n].kind

Decisive(s, q) == {n \in applied[s][q] : isTerminalPhase(Kind(n))}

\* Whatever the order in which the events of a query were applied, its phase is
\* the one the latest terminal event decides, or one which that may not replace;
\* and what any of them said of its conversation has been kept.
LatestPhaseDecides ==
    \A s \in Sessions, q \in Queries : row[s][q] # None =>
        /\ \A n \in Decisive(s, q) :
             (\A m \in Decisive(s, q) : m <= n) => row[s][q].phase = PhaseAfter(row[s][q].phase, Kind(n))
        /\ (\E n \in applied[s][q] : events[n].joins) => row[s][q].joined

\* A session is listed exactly as long as it has a query, with the number of its
\* queries in error, as active if one is running, and with their conversations.
HeaderAgrees ==
    \A s \in Sessions :
        IF Present(row[s]) = {} THEN header[s] = None
        ELSE /\ header[s].errorCount = ErrorCount(row[s])
             /\ (header[s].status = "active") = (\E q \in Present(row[s]) : row[s][q].phase = "running")
             /\ header[s].status = "error" => header[s].errorCount > 0
             /\ header[s].conversations = {q \in Present(row[s]) : row[s][q].joined}

\* A read that has, or will have, the newest state of s is on its way.
Coming(w, s) ==
    \/ \E d \in watch[w].reads : d.session = s /\ d.got # "old"
    \/ \E r \in Requests : s \in req[r].tell

\* The newest state of every live session has been shown to a watcher, or is about
\* to be, unless a notification or a read failed or the session came back from
\* expiry.  It is the last thing that was shown of the session, unless its reads
\* have overlapped: an older one may end after a newer one then.
WatchersTold ==
    \A w \in Watchers, s \in Sessions :
        watch[w].phase = "live" /\ Visible(s) /\ s \notin revived \cup lost =>
            \/ s \in (IF s \in watch[w].mixed THEN watch[w].seen ELSE watch[w].last)
            \/ Coming(w, s)

Stored == [s \in Sessions |-> IF header[s] = None THEN None
                              ELSE [header |-> header[s], rows |-> row[s]]]

Store == INSTANCE SessionStore WITH store <- Stored

\* Each commit is one call that takes effect at once: Store!Spec, said so that
\* the steps that commit nothing need no further look.
StoreSpec == Store!Init /\ [][<<header, row>>' # <<header, row>> => Store!Next]_vars
=============================================================================
