------------------------------ MODULE LiveTail ------------------------------
(***************************************************************************)
(* GET /messages?watch=true and its kin over the Postgres streams: a       *)
(* client gets the rows after a cursor and then, as Server-Sent Events,    *)
(* the rows that are appended through the replica it is connected to.      *)
(*                                                                         *)
(* A row has its number from the moment the INSERT runs, can be read once  *)
(* it is committed, and is emitted to the subscribers of its replica when  *)
(* the response of the database is back there.  The replay is a query of   *)
(* its own, whose answer may overtake or be overtaken by any of these.     *)
(***************************************************************************)
EXTENDS Integers, FiniteSets

CONSTANTS
    Replicas,
    Watchers,
    MaxRows,       \* bound: rows appended
    MaxCrashes,    \* bound: replicas that crash and restart
    MaxWatches,    \* bound: connections of a watcher
    None

ASSUME ConstantsAssumption == MaxRows \in Nat /\ MaxCrashes \in Nat /\ MaxWatches \in Nat
ASSUME NoneAssumption == None \notin Replicas

VARIABLES
    row,       \* the table, and where the response of each INSERT is
    last,      \* the last value of the identity column
    watcher,
    crashes

vars == <<row, last, watcher, crashes>>

Row == 1 .. MaxRows
\* "silent": committed, but the replica that would emit it is gone.
RowState == {"free", "inserted", "committed", "emitted", "silent", "aborted"}

\* buffer, replay: of streamSSE; sent: written to the response; again: written
\* twice; due: given to the subscriber since it subscribed; late: of those, the
\* ones that came after it had caught up; got: received by the client over all
\* of its connections; from: the cursor of the first one.
\* "deaf": the replay failed, and the response stays open without a subscriber.
Watcher == [phase : {"off", "asked", "fetched", "live", "deaf"},
            on : Replicas \cup {None}, cursor : {None} \cup 0 .. MaxRows,
            replay : SUBSET Row, buffer : SUBSET Row, sent : SUBSET Row,
            again : SUBSET Row, due : SUBSET Row, late : SUBSET Row,
            got : SUBSET Row, from : {None} \cup 0 .. MaxRows, watches : 0 .. MaxWatches]

TypeOK ==
    /\ row \in [Row -> [state : RowState, by : Replicas \cup {None}]]
    /\ last \in 0 .. MaxRows
    /\ watcher \in [Watchers -> Watcher]
    /\ crashes \in 0 .. MaxCrashes

Off == [phase |-> "off", on |-> None, cursor |-> None, replay |-> {}, buffer |-> {},
        sent |-> {}, again |-> {}, due |-> {}, late |-> {}, got |-> {}, from |-> None,
        watches |-> 0]

Init ==
    /\ row = [n \in Row |-> [state |-> "free", by |-> None]]
    /\ last = 0
    /\ watcher = [w \in Watchers |-> Off]
    /\ crashes = 0

Visible == {n \in Row : row[n].state \in {"committed", "emitted", "silent"}}

Greatest(s) == CHOOSE n \in s \cup {0} : \A m \in s : m <= n

-----------------------------------------------------------------------------
(* append() of the Postgres streams *)

Insert(r) ==
    /\ last < MaxRows
    /\ last' = last + 1
    /\ row' = [row EXCEPT ![last + 1] = [state |-> "inserted", by |-> r]]
    /\ UNCHANGED <<watcher, crashes>>

\* The database commits; nobody listens if the replica has crashed meanwhile.
Commit(n) ==
    /\ row[n].state = "inserted"
    /\ row' = [row EXCEPT ![n].state = IF row[n].by = None THEN "silent" ELSE "committed"]
    /\ UNCHANGED <<last, watcher, crashes>>

Abort(n) ==
    /\ row[n].state = "inserted"
    /\ row' = [row EXCEPT ![n].state = "aborted"]
    /\ UNCHANGED <<last, watcher, crashes>>

Receive_OnlyLive(w, n) ==
    IF w.phase = "live"
    THEN [w EXCEPT !.due = @ \cup {n}, !.late = @ \cup {n},
                   !.again = @ \cup (w.sent \cap {n}),
                   !.sent = @ \cup {n}, !.got = @ \cup {n}]
    ELSE [w EXCEPT !.due = @ \cup {n}]

\* The callback of streamSSE: buffer until the replay is out, then write.
Receive(w, n) ==
    IF w.phase = "live"
    THEN [w EXCEPT !.due = @ \cup {n}, !.late = @ \cup {n},
                   !.again = @ \cup (w.sent \cap {n}),
                   !.sent = @ \cup {n}, !.got = @ \cup {n}]
    ELSE [w EXCEPT !.due = @ \cup {n}, !.buffer = @ \cup {n}]

\* this.emitter.emit('item', item) after the INSERT returned.
Emit(n) ==
    /\ row[n].state = "committed"
    /\ row' = [row EXCEPT ![n].state = "emitted"]
    /\ watcher' = [w \in Watchers |->
                     IF watcher[w].on = row[n].by THEN Receive(watcher[w], n) ELSE watcher[w]]
    /\ UNCHANGED <<last, crashes>>

-----------------------------------------------------------------------------
(* streamSSE *)

\* Subscribe, then ask for the rows after the cursor.  Without a cursor there is
\* no replay and the subscriber has caught up before the next callback.
streamSSE(w, r, c) ==
    /\ watcher[w].phase = "off" /\ watcher[w].watches < MaxWatches
    /\ watcher' = [watcher EXCEPT ![w] =
         [watcher[w] EXCEPT !.phase = IF c = None THEN "live" ELSE "asked",
                               !.on = r, !.cursor = c, !.watches = @ + 1,
                               !.from = IF watcher[w].watches = 0 THEN c ELSE @]]
    /\ UNCHANGED <<row, last, crashes>>

Resume_Next(w) == Greatest(w.got) + 1
\* The cursor of a client that comes back: the last number it knows.
Resume(w) == Greatest(w.got)

\* A client starts at the beginning or now, and resumes after what it knows.
Watch(w, r) ==
    IF watcher[w].watches = 0
    THEN streamSSE(w, r, 0) \/ streamSSE(w, r, None)
    ELSE streamSSE(w, r, Resume(watcher[w]))

\* filterBy({afterSequence}) reads what is committed.
filterBy(w) ==
    /\ watcher[w].phase = "asked"
    /\ watcher' = [watcher EXCEPT
         ![w].replay = {n \in Visible : n > watcher[w].cursor},
         ![w].phase = "fetched"]
    /\ UNCHANGED <<row, last, crashes>>

Remaining_Inclusive(w) == {n \in w.buffer : n >= Greatest(w.replay)}

\* What the replay does not cover, as told by the greatest number in it.
Remaining(w) == {n \in w.buffer : n > Greatest(w.replay)}

\* The replay is written, then the buffer, then the subscriber has caught up.
CatchUp(w) ==
    LET v == watcher[w] IN
    /\ v.phase = "fetched"
    /\ watcher' = [watcher EXCEPT ![w] =
         [v EXCEPT !.phase = "live",
                   !.sent = v.replay \cup Remaining(v),
                   !.again = v.replay \cap Remaining(v),
                   !.got = @ \cup v.replay \cup Remaining(v),
                   !.buffer = {}]]
    /\ UNCHANGED <<row, last, crashes>>

Closed(w) == [Off EXCEPT !.got = w.got, !.from = w.from, !.watches = w.watches]

\* The query of the replay fails: the subscriber goes, the client is not told.
ReplayFails(w) ==
    /\ watcher[w].phase = "asked"
    /\ watcher' = [watcher EXCEPT ![w] = [Closed(@) EXCEPT !.phase = "deaf"]]
    /\ UNCHANGED <<row, last, crashes>>

Disconnect(w) ==
    /\ watcher[w].phase # "off"
    /\ watcher' = [watcher EXCEPT ![w] = Closed(@)]
    /\ UNCHANGED <<row, last, crashes>>

Crash(r) ==
    /\ crashes < MaxCrashes
    /\ crashes' = crashes + 1
    /\ row' = [n \in Row |->
                 IF row[n].by # r THEN row[n]
                 ELSE [state |-> IF row[n].state = "committed" THEN "silent" ELSE row[n].state,
                       by |-> None]]
    /\ watcher' = [w \in Watchers |->
                     IF watcher[w].on = r THEN Closed(watcher[w]) ELSE watcher[w]]
    /\ UNCHANGED last

-----------------------------------------------------------------------------
Next ==
    \/ \E r \in Replicas : Insert(r) \/ Crash(r)
    \/ \E n \in Row : Commit(n) \/ Abort(n) \/ Emit(n)
    \/ \E w \in Watchers :
         \/ \E r \in Replicas : Watch(w, r)
         \/ filterBy(w) \/ CatchUp(w) \/ ReplayFails(w) \/ Disconnect(w)

Spec == Init /\ [][Next]_vars

-----------------------------------------------------------------------------
Live(w) == watcher[w].phase = "live"

\* Rows whose INSERT had not committed when the replay was read, although a
\* later number had.
Overtaken(w) == {n \in Row \ watcher[w].replay : n < Greatest(watcher[w].replay)}

\* Whatever was committed before the replay, or emitted since the subscription,
\* is written to the client; only a row that was overtaken may be missing.
NoneSkipped ==
    \A w \in Watchers :
        Live(w) => watcher[w].replay \cup (watcher[w].due \ Overtaken(w)) \subseteq watcher[w].sent

\* A row is written twice only if its INSERT returned after the client had
\* caught up with a replay that contained it.
RepeatsAreLate ==
    \A w \in Watchers : watcher[w].again \subseteq watcher[w].replay \cap watcher[w].late

Settled == \A n \in Row : row[n].state \notin {"inserted", "committed"}

\* "Add ?cursor=<n> to resume after a known sequence number": a client of the
\* only replica that asked for everything has everything.
NothingLost ==
    \A w \in Watchers :
        Live(w) /\ watcher[w].from = 0 /\ Settled => Visible \subseteq watcher[w].got
=============================================================================
