---------------------------- MODULE SessionStore ----------------------------
(***************************************************************************)
(* What a sessions backend promises: every event, message and deletion     *)
(* takes effect at once, on the session as its predecessor left it.  The   *)
(* in-memory backend is this specification with events of sequence 0.      *)
(***************************************************************************)
EXTENDS SessionAggregate

VARIABLE store      \* per session: its header and its rows, None: no such session

Session == [header : Header, rows : Rows]

TypeOK == store \in [Sessions -> Session \cup {None}]

Init == store = [s \in Sessions |-> None]

RowsOf(s) == IF store[s] = None THEN NoRows ELSE store[s].rows

\* The session with these rows, which is gone with the last of them.
WithRows(rows, live) ==
    IF rows = NoRows THEN None
    ELSE [header |-> recalculateSessionStatus(rows, live), rows |-> rows]

applyEvent(e) ==
    LET rows == RowsOf(e.session)
        row  == rows[e.query]
    IN  /\ row = None \/ ~Redundant(row, e)
        /\ store' = [store EXCEPT ![e.session] =
             WithRows([rows EXCEPT ![e.query] = RowAfterEvent(row, row, e, Now(rows))], TRUE)]

\* A message touches the conversations, never the status.
applyMessage(s, q, seq) ==
    LET row == RowsOf(s)[q] IN
    /\ row # None
    /\ seq = 0 \/ seq > row.told
    /\ LET rows == [RowsOf(s) EXCEPT ![q] = RowAfterMessage(row, seq)]
       IN  store' = [store EXCEPT ![s] =
             [header |-> recalculateSessionConversations(@.header, rows, TRUE), rows |-> rows]]

deleteQuery(s, q) ==
    /\ RowsOf(s)[q] # None
    /\ store' = [store EXCEPT ![s] = WithRows([@.rows EXCEPT ![q] = None], @.header.live)]

delete ==
    \E gone \in SUBSET Sessions :
        store' = [s \in Sessions |-> IF s \in gone THEN None ELSE store[s]]

Expire(s) ==
    /\ store[s] # None
    /\ store' = [store EXCEPT ![s].header.live = FALSE]

Next ==
    \/ \E e \in Event : applyEvent(e)
    \/ \E s \in Sessions, q \in Queries :
         \/ \E seq \in 0 .. MaxSeq : applyMessage(s, q, seq)
         \/ deleteQuery(s, q)
    \/ delete
    \/ \E s \in Sessions : Expire(s)

Spec == Init /\ [][Next]_store
=============================================================================
