---------------------------- MODULE SessionsProofs ----------------------------
(***************************************************************************)
(* Theorems about Sessions, for any sessions, queries, requests, watchers  *)
(* and every value of the bounds.                                          *)
(***************************************************************************)
EXTENDS Sessions, FiniteSetTheorems, WellFoundedInduction, TLAPS

-----------------------------------------------------------------------------
(* Times of activity *)

LEMMA BoundedSet ==
    ASSUME NEW T \in SUBSET Nat, IsFiniteSet(T), T # {}
    PROVE  \E m \in T : \A n \in T : n <= m
<1> DEFINE HasMax(S) == \E m \in S : \A n \in S : n <= m
           Bad == {S \in SUBSET Nat : IsFiniteSet(S) /\ S # {} /\ ~HasMax(S)}
           Sizes == {Cardinality(S) : S \in Bad}
<1> SUFFICES ASSUME T \in Bad PROVE FALSE
  OBVIOUS
<1>1. Sizes \subseteq Nat /\ Sizes # {}
  <2>1. \A S \in Bad : Cardinality(S) \in Nat
    BY FS_CardinalityType
  <2> QED BY <2>1
<1>2. PICK c \in Sizes : \A d \in Sizes : <<d, c>> \notin OpToRel(<, Nat)
  BY <1>1, NatLessThanWellFounded, WFMin
<1>3. \A d \in Sizes : ~(d < c)
  BY <1>1, <1>2 DEF OpToRel
<1>4. PICK S \in Bad : c = Cardinality(S)
  OBVIOUS
<1>5. PICK x \in S : TRUE
  OBVIOUS
<1> DEFINE R == S \ {x}
<1>6. R \in SUBSET Nat /\ IsFiniteSet(R) /\ Cardinality(R) = Cardinality(S) - 1
  BY <1>5, FS_RemoveElement
<1>7. R # {}
  <2> SUFFICES ASSUME R = {} PROVE FALSE
    OBVIOUS
  <2>1. \A n \in S : n <= x
    BY <1>5
  <2> QED BY <1>5, <2>1
<1>8. R \notin Bad
  <2> SUFFICES ASSUME R \in Bad PROVE FALSE
    OBVIOUS
  <2>1. Cardinality(R) \in Sizes
    OBVIOUS
  <2>2. ~(Cardinality(R) < Cardinality(S)) /\ Cardinality(S) \in Nat
    BY <1>1, <1>3, <1>4, <2>1
  <2> HIDE DEF R
  <2> QED BY <1>6, <2>2
<1>9. PICK m \in R : \A n \in R : n <= m
  BY <1>6, <1>7, <1>8
<1>10. CASE m <= x
  <2>1. \A n \in S : n <= x
    BY <1>5, <1>9, <1>10
  <2> QED BY <1>5, <2>1
<1>11. CASE ~(m <= x)
  <2>1. m \in S /\ \A n \in S : n <= m
    BY <1>5, <1>9, <1>11
  <2> QED BY <2>1
<1> QED BY <1>10, <1>11

LEMMA PresentFinite ==
    ASSUME NEW rows \in Rows
    PROVE  /\ Present(rows) \subseteq Queries /\ IsFiniteSet(Present(rows))
           /\ \A q \in Present(rows) : rows[q] \in Row
           /\ \A q \in Queries \ Present(rows) : rows[q] = None
           /\ (Present(rows) = {}) = (rows = NoRows)
<1>1. Present(rows) \subseteq Queries
  BY DEF Present
<1>2. IsFiniteSet(Present(rows))
  BY <1>1, QueriesAssumption, FS_Subset
<1>3. (Present(rows) = {}) = (rows = NoRows)
  BY DEF Present, NoRows, Rows
<1> QED BY <1>1, <1>2, <1>3 DEF Present, Rows

LEMMA NowType ==
    ASSUME NEW rows \in Rows
    PROVE  Now(rows) \in Nat
<1> DEFINE P == Present(rows)
           f == [q \in P |-> rows[q].active]
           T == {rows[q].active : q \in P}
<1>1. T \subseteq Nat
  BY PresentFinite DEF Row
<1>2. f \in Surjection(P, T)
  BY DEF Surjection
<1>3. IsFiniteSet(T)
  BY <1>2, PresentFinite, FS_Surjection
<1> HIDE DEF T, f, P
<1>4. /\ {0} \cup T \in SUBSET Nat /\ IsFiniteSet({0} \cup T) /\ {0} \cup T # {}
  <2>1. IsFiniteSet(T \cup {0})
    BY <1>3, FS_AddElement
  <2>2. T \cup {0} = {0} \cup T
    OBVIOUS
  <2> QED BY <1>1, <2>1, <2>2
<1>5. \E m \in {0} \cup T : \A n \in {0} \cup T : n <= m
  BY <1>4, BoundedSet
<1>6. (CHOOSE t \in {0} \cup T : \A u \in {0} \cup T : u <= t) \in Nat
  BY <1>4, <1>5
<1>7. Now(rows) = 1 + CHOOSE t \in {0} \cup T : \A u \in {0} \cup T : u <= t
  BY DEF Now, T, P
<1> QED BY <1>6, <1>7

-----------------------------------------------------------------------------
(* Rows *)

LEMMA PhaseAfterFacts ==
    ASSUME NEW p \in Kinds, NEW k \in Kinds
    PROVE  /\ PhaseAfter(p, k) \in Kinds
           /\ PhaseAfter(p, k) = PhaseAfter(PhaseAfter(p, k), k)
           /\ k = PhaseAfter(k, k)
           /\ ~isTerminalPhase(k) => PhaseAfter(p, k) = p
BY DEF PhaseAfter, Kinds, isTerminalPhase

\* What an event makes of the row it has read, if nobody else has written it.
LEMMA RowEvent ==
    ASSUME NEW row0 \in Row \cup {None}, NEW e \in Event, NEW now \in Nat,
           NEW new, new = RowAfterEvent(row0, row0, e, now)
    PROVE  /\ new \in Row
           /\ row0 = None =>
                /\ new.phase = e.kind /\ new.joined = e.joins /\ new.seen = e.seq
                /\ new.decided = DecidedBy(e)
           /\ row0 # None =>
                /\ new.joined = (row0.joined \/ e.joins)
                /\ new.seen = Larger(row0.seen, e.seq)
                /\ new.decided = Larger(row0.decided, DecidedBy(e))
                /\ new.phase = IF \/ ~Stale(row0, e)
                                  \/ isTerminalPhase(e.kind) /\ ~PhaseStale(row0, e)
                               THEN PhaseAfter(row0.phase, e.kind) ELSE row0.phase
<1>1. /\ e.kind \in Kinds /\ e.joins \in BOOLEAN /\ e.seq \in 0 .. MaxSeq
      /\ DecidedBy(e) \in 0 .. MaxSeq
  BY MaxSeqAssumption DEF Event, DecidedBy
<1>2. CASE row0 = None
  <2>1. new = [buildQueryEntry(e, now) EXCEPT !.seen = Larger(0, e.seq),
                 !.decided = Larger(0, DecidedBy(e)), !.told = 0]
    BY <1>2 DEF RowAfterEvent
  <2>2. Larger(0, e.seq) = e.seq /\ Larger(0, DecidedBy(e)) = DecidedBy(e)
    BY <1>1 DEF Larger
  <2>3. 0 \in 0 .. MaxSeq
    BY MaxSeqAssumption
  <2>4. new = [phase |-> e.kind, joined |-> e.joins, active |-> now, seen |-> e.seq,
               decided |-> DecidedBy(e), told |-> 0]
    BY <2>1, <2>2 DEF buildQueryEntry
  <2> QED BY <1>1, <1>2, <2>3, <2>4 DEF Row
<1>3. CASE row0 # None
  <2> DEFINE m == mergeQueryMetadata(row0, e)
             entry == EntryAfter(m, e, now)
             decisive == ~Stale(row0, e) \/ (isTerminalPhase(e.kind) /\ ~PhaseStale(row0, e))
  <2>1. row0 \in Row
    BY <1>3
  <2>2. m \in Row /\ m = [row0 EXCEPT !.joined = row0.joined \/ e.joins]
    BY <1>1, <2>1 DEF mergeQueryMetadata, Row
  <2>3. Stale(m, e) = Stale(row0, e) /\ PhaseStale(m, e) = PhaseStale(row0, e)
    BY <2>1, <2>2 DEF Stale, PhaseStale, Row
  <2>4. entry \in Row /\ entry.joined = m.joined
        /\ entry.phase = IF decisive THEN PhaseAfter(m.phase, e.kind) ELSE m.phase
    <3>1. PhaseAfter(m.phase, e.kind) \in Kinds
      BY <1>1, <2>2, PhaseAfterFacts DEF Row
    <3> HIDE DEF m
    <3>2. CASE ~Stale(row0, e)
      BY <1>1, <2>2, <2>3, <3>1, <3>2 DEF EntryAfter, applyQueryPhase, Row
    <3>3. CASE Stale(row0, e) /\ isTerminalPhase(e.kind) /\ ~PhaseStale(row0, e)
      BY <1>1, <2>2, <2>3, <3>1, <3>3 DEF EntryAfter, applyQueryPhase, Row
    <3>4. CASE ~decisive
      <4>1. entry = m
        BY <2>3, <3>4 DEF EntryAfter
      <4> HIDE DEF entry
      <4> QED BY <2>2, <3>4, <4>1
    <3> QED BY <3>2, <3>3, <3>4
  <2>5. /\ Larger(row0.seen, e.seq) \in 0 .. MaxSeq
        /\ Larger(row0.decided, DecidedBy(e)) \in 0 .. MaxSeq
        /\ row0.told \in 0 .. MaxSeq
    BY <1>1, <2>1 DEF Larger, Row
  <2>6. new = [entry EXCEPT !.seen = Larger(row0.seen, e.seq),
                 !.decided = Larger(row0.decided, DecidedBy(e)), !.told = row0.told]
    BY <1>3 DEF RowAfterEvent
  <2>7. m.phase = row0.phase /\ m.joined = (row0.joined \/ e.joins)
    BY <2>1, <2>2 DEF Row
  <2> HIDE DEF entry, m
  <2> QED BY <1>3, <2>4, <2>5, <2>6, <2>7 DEF Row
<1> QED BY <1>2, <1>3

-----------------------------------------------------------------------------
(* Headers *)

\* A header and its rows: what HeaderAgrees says of every session.
HeaderOK(h, rows) ==
    IF Present(rows) = {} THEN h = None
    ELSE /\ h \in Header
         /\ h.errorCount = ErrorCount(rows)
         /\ (h.status = "active") = (\E q \in Present(rows) : rows[q].phase = "running")
         /\ h.status = "error" => h.errorCount > 0
         /\ h.conversations = {q \in Present(rows) : rows[q].joined}

LEMMA NoneFacts ==
    /\ None \notin Row /\ None \notin Header
    /\ \A h \in Header, rows \in Rows : [header |-> h, rows |-> rows] # None
BY NoneAssumption

LEMMA ErrorCountType ==
    ASSUME NEW rows \in Rows
    PROVE  /\ ErrorCount(rows) \in 0 .. Cardinality(Queries)
           /\ (\E q \in Present(rows) : rows[q].phase = "error") => ErrorCount(rows) > 0
<1> DEFINE errors == {q \in Present(rows) : rows[q].phase = "error"}
<1>1. errors \in SUBSET Queries
  BY DEF Present
<1>2. /\ IsFiniteSet(errors) /\ Cardinality(errors) <= Cardinality(Queries)
      /\ Cardinality(errors) \in Nat /\ Cardinality(Queries) \in Nat
      /\ (Cardinality(errors) = 0) = (errors = {})
  BY <1>1, QueriesAssumption, FS_Subset, FS_CardinalityType, FS_EmptySet
<1>3. ErrorCount(rows) = Cardinality(errors)
  BY DEF ErrorCount
<1>4. (\E q \in Present(rows) : rows[q].phase = "error") => errors # {}
  OBVIOUS
<1> HIDE DEF errors
<1> QED BY <1>2, <1>3, <1>4

LEMMA StatusAgrees ==
    ASSUME NEW rows \in Rows, rows # NoRows, NEW live \in BOOLEAN,
           NEW h, h = recalculateSessionStatus(rows, live)
    PROVE  h \in Header /\ HeaderOK(h, rows) /\ h.live = live
<1>1. /\ Status(rows) \in {"active", "idle", "error"}
      /\ (Status(rows) = "active") = (\E q \in Present(rows) : rows[q].phase = "running")
      /\ Status(rows) = "error" => \E q \in Present(rows) : rows[q].phase = "error"
  BY DEF Status
<1>2. Conversations(rows) \in SUBSET Queries
  BY DEF Conversations, Present
<1>3. h = [status |-> Status(rows), errorCount |-> ErrorCount(rows),
           conversations |-> Conversations(rows), live |-> live]
  BY DEF recalculateSessionStatus
<1>4. h \in Header
  BY <1>1, <1>2, <1>3, ErrorCountType DEF Header
<1>5. Conversations(rows) = {q \in Present(rows) : rows[q].joined}
  BY DEF Conversations
<1>6. Status(rows) = "error" => ErrorCount(rows) > 0
  BY <1>1, ErrorCountType
<1>7. Present(rows) # {}
  BY PresentFinite
<1>8. /\ h.errorCount = ErrorCount(rows) /\ h.status = Status(rows)
      /\ h.conversations = Conversations(rows) /\ h.live = live
  BY <1>3
<1>9. HeaderOK(h, rows)
  BY <1>1, <1>4, <1>5, <1>6, <1>7, <1>8, Zenon DEF HeaderOK
<1> QED BY <1>4, <1>8, <1>9

\* A message touches neither which queries there are nor their phases.
LEMMA ConversationsAgree ==
    ASSUME NEW old \in Rows, NEW rows \in Rows, rows # NoRows, NEW g, HeaderOK(g, old),
           Present(rows) = Present(old), \A q \in Present(rows) : rows[q].phase = old[q].phase,
           NEW live \in BOOLEAN, NEW h, h = recalculateSessionConversations(g, rows, live)
    PROVE  h \in Header /\ HeaderOK(h, rows) /\ h.live = live
<1>1. Present(old) # {}
  BY PresentFinite
<1>2. Conversations(rows) \in SUBSET Queries
  BY DEF Conversations, Present
<1>3. g \in Header /\ h = [g EXCEPT !.conversations = Conversations(rows), !.live = live]
  BY <1>1 DEF HeaderOK, recalculateSessionConversations
<1>4. /\ h \in Header /\ h.conversations = Conversations(rows) /\ h.live = live
      /\ h.status = g.status /\ h.errorCount = g.errorCount
  BY <1>2, <1>3 DEF Header
<1>5. ErrorCount(rows) = ErrorCount(old)
  <2>1. {q \in Present(rows) : rows[q].phase = "error"} = {q \in Present(old) : old[q].phase = "error"}
    OBVIOUS
  <2> QED BY <2>1 DEF ErrorCount
<1>6. Conversations(rows) = {q \in Present(rows) : rows[q].joined}
  BY DEF Conversations
<1>7. /\ g.errorCount = ErrorCount(old)
      /\ (g.status = "active") = (\E q \in Present(old) : old[q].phase = "running")
      /\ g.status = "error" => g.errorCount > 0
  BY <1>1, Zenon DEF HeaderOK
<1>8. (\E q \in Present(old) : old[q].phase = "running")
        = (\E q \in Present(rows) : rows[q].phase = "running")
  OBVIOUS
<1>9. HeaderOK(h, rows)
  BY <1>1, <1>4, <1>5, <1>6, <1>7, <1>8, Zenon DEF HeaderOK
<1> QED BY <1>4, <1>9

-----------------------------------------------------------------------------
(***************************************************************************)
(* The inductive invariant.  The watermarks of a row are the greatest      *)
(* numbers that were applied to it, and a request that is about to write   *)
(* holds the header and has read what is there.                            *)
(***************************************************************************)

RowOK(r, ap, es) ==
    /\ r = None => ap = {}
    /\ r # None =>
         /\ \A n \in ap : n <= r.seen
         /\ \A n \in ap : isTerminalPhase(es[n].kind) => n <= r.decided
         /\ r.decided <= r.seen
         /\ r.decided # 0 => /\ r.decided \in ap /\ isTerminalPhase(es[r.decided].kind)
                             /\ r.phase = PhaseAfter(r.phase, es[r.decided].kind)
         /\ \A n \in ap : es[n].joins => r.joined

SessionOK(h, rows, ap, es) ==
    /\ HeaderOK(h, rows)
    /\ \A q \in Queries : ap[q] \subseteq 1 .. Len(es) /\ RowOK(rows[q], ap[q], es)

Target == [session : Sessions \cup {None}, query : Queries, kind : Kinds, joins : BOOLEAN,
           seq : 0 .. MaxSeq]

RequestOK(r, x, lk, rows, es) ==
    /\ x.pc = "insert" => x.op = "event"
    /\ x.pc = "probe" => x.op \in {"message", "deleteQuery"}
    /\ x.pc \in {"lock", "write"} => x.op \in {"event", "message", "deleteQuery"}
    /\ x.op = "event" /\ x.pc \in {"insert", "lock", "write"} =>
         x.e \in Event /\ x.e.seq \in 1 .. Len(es) /\ x.e = es[x.e.seq]
    /\ x.op \in {"message", "deleteQuery"} /\ x.pc \in {"probe", "lock", "write"} => x.e \in Target
    /\ x.op = "message" /\ x.pc = "lock" => x.e.session \in Sessions
    /\ x.pc = "write" =>
         /\ x.e.session \in Sessions /\ lk[x.e.session] = r
         /\ x.op \in {"event", "message"} => x.old = rows[x.e.session][x.e.query]

\* Only the header that an event has inserted is locked before the row is read.
LockOK(x) == x.pc = "lock" => x.op = "event"

Announced(rs) == UNION {rs[r].tell : r \in Requests}

\* The sessions of which a watcher should know.
Listed(h, back) == {s \in Sessions : h[s] # None /\ h[s].live} \ back

OneRead(x, s) ==
    s \notin x.mixed => \A d, e \in x.reads : d.session = s /\ e.session = s => d = e

Fresh(x, s) == \E d \in x.reads : d.session = s /\ d.got # "old"

\* It has the initial sessions, or will be shown a read of s behind them.
Informed(x, s) ==
    \/ x.phase \in {"fetched", "live"}
    \/ x.phase = "subscribed" /\ s \in x.buffered \ x.mixed

\* T, V, L: the sessions that are about to be announced, that are listed, and of
\* which a notification or a read has failed.  A read that is old although none
\* overlapped it has a notification before it.
WatcherOK(x, s, T, V, L) ==
    /\ x.phase = "off" => x.reads = {} /\ x.buffered = {}
    /\ OneRead(x, s)
    /\ s \notin x.mixed \cup L =>
         \A d \in x.reads : d.session = s /\ d.got = "old" => s \in T
    /\ s \in V \ L /\ Informed(x, s) =>
         \/ s \in (IF s \in x.mixed THEN x.seen ELSE x.last)
         \/ Fresh(x, s)
         \/ s \in T

Inv ==
    /\ TypeOK
    /\ \A s \in Sessions : SessionOK(header[s], row[s], applied[s], events)
    /\ \A r \in Requests : RequestOK(r, req[r], lock, row, events)
    /\ \A s \in Sessions : lock[s] # None => LockOK(req[lock[s]])
    /\ \A w \in Watchers, s \in Sessions :
         WatcherOK(watch[w], s, Announced(req), Listed(header, revived), lost)

-----------------------------------------------------------------------------
(* What a watcher knows *)

\* More may be announced or missed, and what comes to be listed is announced.
LEMMA WatcherLater ==
    ASSUME NEW x, NEW s, NEW T, NEW V, NEW L, WatcherOK(x, s, T, V, L),
           NEW T2, NEW V2, NEW L2,
           s \in T => s \in T2 \cup L2, s \in V2 => s \in V \cup T2, s \in L => s \in L2
    PROVE  WatcherOK(x, s, T2, V2, L2)
BY DEF WatcherOK

LEMMA QuietWatcher ==
    ASSUME NEW x, x.phase = "off", NEW s, NEW T, NEW V, NEW L, WatcherOK(x, s, T, V, L),
           NEW T2, NEW V2, NEW L2
    PROVE  WatcherOK(x, s, T2, V2, L2)
BY DEF WatcherOK, OneRead, Informed

\* A commit to session s that is to be announced.
LEMMA WatcherOutdated ==
    ASSUME NEW x \in Watch, NEW s, NEW u, NEW T, NEW V, NEW L, WatcherOK(x, u, T, V, L),
           u = s => u \in T,
           NEW y, y = Behind(x, {s})
    PROVE  y \in Watch /\ WatcherOK(y, u, T, V, L)
<1>1. /\ y.phase = x.phase /\ y.mixed = x.mixed /\ y.buffered = x.buffered
      /\ y.seen = x.seen \ {s} /\ y.last = x.last \ {s}
      /\ y.reads = {Overtaken(d, {s}) : d \in x.reads}
  BY DEF Watch, Behind
<1>2. x.reads \subseteq Read
  BY DEF Watch
<1>3. \A d \in Read : /\ Overtaken(d, {s}) \in Read /\ Overtaken(d, {s}).session = d.session
                      /\ d.session # s => Overtaken(d, {s}) = d
  BY DEF Overtaken, Read
<1>4. y \in Watch
  <2>1. y.reads \subseteq Read
    BY <1>1, <1>2, <1>3
  <2> QED BY <2>1 DEF Watch, Behind
<1>5. OneRead(y, u)
  <2> SUFFICES ASSUME u \notin y.mixed, NEW d \in y.reads, NEW e \in y.reads,
                      d.session = u, e.session = u
               PROVE  d = e
    BY DEF OneRead
  <2>1. PICK c \in x.reads : d = Overtaken(c, {s})
    BY <1>1
  <2>2. PICK f \in x.reads : e = Overtaken(f, {s})
    BY <1>1
  <2>3. c.session = u /\ f.session = u
    BY <1>2, <1>3, <2>1, <2>2
  <2>4. c = f
    BY <1>1, <2>3 DEF WatcherOK, OneRead
  <2> QED BY <2>1, <2>2, <2>4
<1>6. x.phase = "off" => y.reads = {} /\ y.buffered = {}
  BY <1>1 DEF WatcherOK
<1>7. CASE u = s
  BY <1>1, <1>4, <1>5, <1>6, <1>7 DEF WatcherOK
<1>8. CASE u # s
  <2>1. \A d \in Read : d.session = u => Overtaken(d, {s}) = d
    BY <1>3, <1>8
  <2>2. \A d : d \in y.reads /\ d.session = u <=> d \in x.reads /\ d.session = u
    <3>1. ASSUME NEW d \in y.reads, d.session = u PROVE d \in x.reads
      <4>1. PICK c \in x.reads : d = Overtaken(c, {s})
        BY <1>1
      <4>2. c \in Read /\ c.session = u
        BY <1>2, <1>3, <3>1, <4>1
      <4> QED BY <2>1, <4>1, <4>2
    <3>2. ASSUME NEW d \in x.reads, d.session = u PROVE d \in y.reads
      <4>1. Overtaken(d, {s}) = d
        BY <1>2, <2>1, <3>2
      <4> QED BY <1>1, <4>1
    <3> QED BY <3>1, <3>2
  <2>3. Fresh(x, u) <=> Fresh(y, u)
    BY <2>2 DEF Fresh
  <2>4. /\ u \in y.seen <=> u \in x.seen
        /\ u \in y.last <=> u \in x.last
        /\ Informed(y, u) => Informed(x, u)
    BY <1>1, <1>8 DEF Informed
  <2>5. \A d \in y.reads : d.session = u /\ d.got = "old" => d \in x.reads
    BY <2>2
  <2>6. y.phase = x.phase /\ y.mixed = x.mixed
    BY <1>1
  <2> QED BY <1>4, <1>5, <1>6, <2>3, <2>4, <2>5, <2>6 DEF WatcherOK
<1> QED BY <1>4, <1>7, <1>8

LEMMA AnnouncedStep ==
    ASSUME Inv, NEW r \in Requests, NEW x \in Request, req' = [req EXCEPT ![r] = x]
    PROVE  /\ x.tell \subseteq Announced(req')
           /\ \A s : s \in Announced(req) => s \in Announced(req') \cup req[r].tell
<1>1. /\ req'[r] = x /\ \A p \in Requests \ {r} : req'[p] = req[p]
  BY DEF Inv, TypeOK
<1> QED BY <1>1 DEF Announced

-----------------------------------------------------------------------------
(* Steps within one request *)

\* A request goes on, and may lock a header, but writes nothing.
LEMMA LocalInv ==
    ASSUME Inv, NEW r \in Requests, NEW x \in Request, req' = [req EXCEPT ![r] = x],
           UNCHANGED <<tables, events, watch, faults, lost>>, messages' \in 0 .. MaxSeq,
           lock' \in [Sessions -> Requests \cup {None}],
           \A s \in Sessions : lock'[s] = lock[s] \/ (lock[s] = None /\ lock'[s] = r),
           \A s \in Sessions : lock'[s] = r =>
                x.pc \in {"lock", "write"} /\ x.e.session = s /\ LockOK(x),
           RequestOK(r, x, lock', row, events), req[r].tell \subseteq x.tell
    PROVE  Inv'
<1>1. UNCHANGED <<header, row, applied, revived, events, watch, faults, lost>>
  BY DEF tables
<1>2. /\ req \in [Requests -> Request] /\ req' \in [Requests -> Request] /\ req'[r] = x
      /\ \A p \in Requests \ {r} : req'[p] = req[p]
  BY DEF Inv, TypeOK
<1>3. TypeOK'
  <2>1. ASSUME NEW s \in Sessions, lock'[s] # None
        PROVE  req'[lock'[s]].pc \in {"lock", "write"} /\ req'[lock'[s]].e.session = s
    <3>1. CASE lock'[s] = r
      BY <1>2, <3>1
    <3>2. CASE lock'[s] # r
      BY <1>2, <2>1, <3>2 DEF Inv, TypeOK
    <3> QED BY <3>1, <3>2
  <2> QED BY <1>1, <1>2, <2>1 DEF Inv, TypeOK
<1>4. ASSUME NEW s \in Sessions
      PROVE  SessionOK(header[s], row[s], applied[s], events)'
  BY <1>1 DEF Inv
<1>5. ASSUME NEW p \in Requests
      PROVE  RequestOK(p, req[p], lock, row, events)'
  <2>1. CASE p = r
    BY <1>1, <1>2, <2>1 DEF RequestOK
  <2>2. CASE p # r
    <3>1. RequestOK(p, req[p], lock, row, events) /\ req'[p] = req[p]
      BY <1>2, <2>2 DEF Inv
    <3>2. req[p].pc = "write" => lock'[req[p].e.session] = p
      BY <3>1, RequestsAssumption DEF RequestOK
    <3> QED BY <1>1, <3>1, <3>2 DEF RequestOK
  <2> QED BY <2>1, <2>2
<1>6. ASSUME NEW s \in Sessions, lock'[s] # None
      PROVE  LockOK(req'[lock'[s]])
  <2>1. CASE lock'[s] = r
    BY <1>2, <2>1
  <2>2. CASE lock'[s] # r
    <3>1. lock[s] = lock'[s] /\ lock[s] \in Requests \ {r}
      BY <1>6, <2>2 DEF Inv, TypeOK
    <3> QED BY <1>2, <1>6, <3>1 DEF Inv
  <2> QED BY <2>1, <2>2
<1>7. ASSUME NEW w \in Watchers, NEW s \in Sessions
      PROVE  WatcherOK(watch'[w], s, Announced(req'), Listed(header', revived'), lost')
  <2>1. WatcherOK(watch[w], s, Announced(req), Listed(header, revived), lost)
    BY DEF Inv
  <2>2. s \in Announced(req) => s \in Announced(req')
    BY AnnouncedStep
  <2> QED BY <1>1, <2>1, <2>2, WatcherLater
<1>8. \A s \in Sessions : lock'[s] # None => LockOK(req[lock[s]])'
  BY <1>6 DEF LockOK
<1> QED BY <1>3, <1>4, <1>5, <1>7, <1>8 DEF Inv

\* A request commits what it has made of its session.
LEMMA CommitInv ==
    ASSUME Inv, NEW r \in Requests, req[r].pc = "write", NEW s, s = req[r].e.session,
           NEW x \in Request, req' = [req EXCEPT ![r] = x], x.pc \in {"notify", "lock"},
           x.pc = "lock" => x.op = "deleteQuery" /\ x.e \in Target,
           Release(r), UNCHANGED <<streams, faults, lost>>,
           NEW rows \in Rows, row' = [row EXCEPT ![s] = rows],
           NEW h \in Header \cup {None}, header' = [header EXCEPT ![s] = h],
           NEW ap \in [Queries -> SUBSET (1 .. Len(events))], applied' = [applied EXCEPT ![s] = ap],
           SessionOK(h, rows, ap, events),
           watch' = watch \/ (watch' = Outdated({s}) /\ s \in x.tell),
           h # None /\ h.live => s \in x.tell \/ s \in revived' \/ Visible(s),
           req[r].tell \subseteq x.tell, revived \subseteq revived', revived' \subseteq Sessions
    PROVE  Inv'
<1>1. /\ s \in Sessions /\ lock[s] = r /\ UNCHANGED <<events, messages, faults, lost>>
      /\ lock' = [t \in Sessions |-> IF lock[t] = r THEN None ELSE lock[t]]
  BY DEF Inv, RequestOK, streams, Release
<1>2. /\ req \in [Requests -> Request] /\ req' \in [Requests -> Request] /\ req'[r] = x
      /\ \A p \in Requests \ {r} : req'[p] = req[p]
  BY DEF Inv, TypeOK
<1>3. /\ row' \in [Sessions -> Rows] /\ row'[s] = rows
      /\ header' \in [Sessions -> Header \cup {None}] /\ header'[s] = h
      /\ applied' \in [Sessions -> [Queries -> SUBSET (1 .. MaxSeq)]] /\ applied'[s] = ap
      /\ \A t \in Sessions \ {s} : row'[t] = row[t] /\ header'[t] = header[t] /\ applied'[t] = applied[t]
  <2>1. ap \in [Queries -> SUBSET (1 .. MaxSeq)]
    <3>1. Len(events) \in Nat /\ Len(events) <= MaxSeq
      BY DEF Inv, TypeOK
    <3>2. 1 .. Len(events) \subseteq 1 .. MaxSeq
      BY <3>1, MaxSeqAssumption
    <3> QED BY <3>2
  <2> QED BY <1>1, <2>1 DEF Inv, TypeOK
<1>4. /\ watch' \in [Watchers -> Watch]
      /\ \A w \in Watchers, t \in Sessions :
           WatcherOK(watch'[w], t, Announced(req'), Listed(header', revived'), lost')
  <2>1. watch \in [Watchers -> Watch]
    BY DEF Inv, TypeOK
  <2>2. /\ x.tell \subseteq Announced(req')
        /\ \A t \in Sessions : t \in Announced(req) => t \in Announced(req')
    BY AnnouncedStep
  <2>3. ASSUME NEW t \in Sessions, t \in Listed(header', revived')
        PROVE  t \in Listed(header, revived) \cup Announced(req')
    <3>1. header'[t] # None /\ header'[t].live /\ t \notin revived'
      BY <2>3 DEF Listed
    <3>2. CASE t = s
      BY <1>3, <2>2, <3>1, <3>2 DEF Listed, Visible
    <3>3. CASE t # s
      BY <1>3, <3>1, <3>3 DEF Listed
    <3> QED BY <3>2, <3>3
  <2>4. ASSUME NEW w \in Watchers, NEW t \in Sessions
        PROVE  WatcherOK(watch[w], t, Announced(req'), Listed(header', revived'), lost')
    <3>1. WatcherOK(watch[w], t, Announced(req), Listed(header, revived), lost)
      BY DEF Inv
    <3>2. /\ t \in Announced(req) => t \in Announced(req')
          /\ t \in Listed(header', revived') => t \in Listed(header, revived) \cup Announced(req')
          /\ lost' = lost
      BY <1>1, <2>2, <2>3
    <3> QED BY <3>1, <3>2, WatcherLater
  <2>5. CASE watch' = Outdated({s}) /\ s \in x.tell
    <3>1. ASSUME NEW w \in Watchers
          PROVE  watch'[w] = Behind(watch[w], {s})
      BY <2>5, Zenon DEF Outdated
    <3>2. ASSUME NEW w \in Watchers, NEW t \in Sessions
          PROVE  /\ watch'[w] \in Watch
                 /\ WatcherOK(watch'[w], t, Announced(req'), Listed(header', revived'), lost')
      <4>1. /\ watch[w] \in Watch
            /\ t = s => t \in Announced(req')
            /\ WatcherOK(watch[w], t, Announced(req'), Listed(header', revived'), lost')
        BY <2>1, <2>2, <2>4, <2>5
      <4>2. watch'[w] = Behind(watch[w], {s})
        BY <3>1
      <4> DEFINE A == Announced(req')
                 V == Listed(header', revived')
                 x0 == watch[w]
                 y == watch'[w]
      <4>3. x0 \in Watch /\ (t = s => t \in A) /\ WatcherOK(x0, t, A, V, lost') /\ y = Behind(x0, {s})
        BY <4>1, <4>2
      <4>4. y \in Watch /\ WatcherOK(y, t, A, V, lost')
        <5> HIDE DEF A, V, x0, y
        <5> QED BY <4>3, WatcherOutdated
      <4> QED BY <4>4
    <3>3. \A w \in Watchers : watch'[w] \in Watch
      BY <1>1, <3>2
    <3> QED BY <2>5, <3>2, <3>3 DEF Outdated
  <2>6. CASE watch' = watch
    BY <2>1, <2>4, <2>6
  <2> QED BY <2>5, <2>6
<1>5. TypeOK'
  <2>1. ASSUME NEW t \in Sessions, lock'[t] # None
        PROVE  req'[lock'[t]].pc \in {"lock", "write"} /\ req'[lock'[t]].e.session = t
    BY <1>1, <1>2, <2>1 DEF Inv, TypeOK
  <2>2. lock' \in [Sessions -> Requests \cup {None}]
    BY <1>1 DEF Inv, TypeOK
  <2> QED BY <1>1, <1>2, <1>3, <1>4, <2>1, <2>2 DEF Inv, TypeOK
<1>6. ASSUME NEW t \in Sessions
      PROVE  SessionOK(header[t], row[t], applied[t], events)'
  <2>1. CASE t = s
    BY <1>1, <1>3, <2>1
  <2>2. CASE t # s
    BY <1>1, <1>3, <2>2 DEF Inv
  <2> QED BY <2>1, <2>2
<1>7. ASSUME NEW p \in Requests
      PROVE  RequestOK(p, req[p], lock, row, events)'
  <2>1. CASE p = r
    BY <1>2, <2>1 DEF RequestOK
  <2>2. CASE p # r
    <3>1. RequestOK(p, req[p], lock, row, events) /\ req'[p] = req[p]
      BY <1>2, <2>2 DEF Inv
    <3>2. req[p].pc = "write" =>
            /\ req[p].e.session \in Sessions \ {s}
            /\ lock'[req[p].e.session] = p
            /\ row'[req[p].e.session] = row[req[p].e.session]
      BY <1>1, <1>3, <2>2, <3>1 DEF RequestOK
    <3> QED BY <1>1, <3>1, <3>2 DEF RequestOK
  <2> QED BY <2>1, <2>2
<1>8. ASSUME NEW t \in Sessions, lock'[t] # None
      PROVE  LockOK(req[lock[t]])'
  BY <1>1, <1>2, <1>8 DEF Inv, TypeOK, LockOK
<1> QED BY <1>4, <1>5, <1>6, <1>7, <1>8 DEF Inv

LEMMA NoLock ==
    ASSUME Inv, NEW r \in Requests,
           req[r].pc \notin {"lock", "write"} \/ (req[r].pc = "lock" /\ req[r].op # "event")
    PROVE  \A s \in Sessions : lock[s] # r
BY RequestsAssumption DEF Inv, TypeOK, LockOK

LEMMA EmptyRows ==
    /\ NoRows \in Rows /\ HeaderOK(None, NoRows)
    /\ \A h : \A rows \in Rows : HeaderOK(h, rows) => (h = None) = (rows = NoRows)
<1>1. NoRows \in Rows /\ Present(NoRows) = {}
  BY DEF NoRows, Rows, Present
<1>2. HeaderOK(None, NoRows)
  BY <1>1 DEF HeaderOK
<1>3. ASSUME NEW h, NEW rows \in Rows, HeaderOK(h, rows)
      PROVE  (h = None) = (rows = NoRows)
  BY <1>3, PresentFinite, NoneFacts, Zenon DEF HeaderOK
<1> QED BY <1>1, <1>2, <1>3

LEMMA RequestChange ==
    ASSUME NEW q \in Request, NEW pc \in Pc, NEW op \in Op
    PROVE  /\ [q EXCEPT !.pc = pc] \in Request
           /\ [q EXCEPT !.pc = pc, !.op = op] \in Request
           /\ \A e \in Target : [q EXCEPT !.pc = pc, !.op = op, !.e = e] \in Request
BY DEF Request, Target

-----------------------------------------------------------------------------
(* Calls *)

\* The stream of events grows at its end.
LEMMA LongerStream ==
    ASSUME NEW es, NEW fs, Len(es) \in Nat, Len(fs) = Len(es) + 1,
           \A n \in 1 .. Len(es) : fs[n] = es[n]
    PROVE  /\ \A h, rows, ap : SessionOK(h, rows, ap, es) => SessionOK(h, rows, ap, fs)
           /\ \A r, x, lk, rows : RequestOK(r, x, lk, rows, es) => RequestOK(r, x, lk, rows, fs)
<1>1. 1 .. Len(es) \subseteq 1 .. Len(fs)
  OBVIOUS
<1>2. ASSUME NEW r, NEW ap, ap \subseteq 1 .. Len(es), RowOK(r, ap, es)
      PROVE  RowOK(r, ap, fs)
  BY <1>2 DEF RowOK
<1>3. \A h, rows, ap : SessionOK(h, rows, ap, es) => SessionOK(h, rows, ap, fs)
  BY <1>1, <1>2, Zenon DEF SessionOK
<1>4. \A r, x, lk, rows : RequestOK(r, x, lk, rows, es) => RequestOK(r, x, lk, rows, fs)
  BY <1>1 DEF RequestOK
<1> QED BY <1>3, <1>4

LEMMA PostEventInv ==
    ASSUME Inv, NEW r \in Requests, NEW s \in Sessions, NEW q \in Queries, NEW post \in Posts,
           PostEvent(r, s, q, post)
    PROVE  Inv'
<1> DEFINE e == [session |-> s, query |-> q, kind |-> post.kind, joins |-> post.joins,
                 seq |-> Len(events) + 1]
           x == [req[r] EXCEPT !.pc = "insert", !.op = "event", !.e = e]
<1>1. /\ req[r].pc = "idle" /\ Len(events) < MaxSeq /\ events' = Append(events, e)
      /\ req' = [req EXCEPT ![r] = x]
      /\ UNCHANGED <<header, row, applied, revived, lock, messages, watch, faults, lost>>
  BY DEF PostEvent, tables
<1>2. events \in Seq(Event) /\ Len(events) \in Nat
  BY DEF Inv, TypeOK
<1>3. e \in Event /\ e \in Target /\ e.seq = Len(events) + 1
  BY <1>1, <1>2, BoundsAssumption, MaxSeqAssumption DEF Event, Target
<1> HIDE DEF e
<1>4. /\ x \in Request /\ x.pc = "insert" /\ x.op = "event" /\ x.e = e /\ x.tell = req[r].tell
  <2>1. req[r] \in Request /\ "insert" \in Pc /\ "event" \in Op
    BY DEF Inv, TypeOK, Pc, Op
  <2>2. x \in Request
    BY <1>3, <2>1, RequestChange
  <2> QED BY <2>1, <2>2 DEF Request
<1> HIDE DEF x
<1>5. /\ events' \in Seq(Event) /\ Len(events') = Len(events) + 1 /\ events'[Len(events) + 1] = e
      /\ \A n \in 1 .. Len(events) : events'[n] = events[n]
  BY <1>1, <1>2, <1>3
<1>6. /\ req' \in [Requests -> Request] /\ req'[r] = x
      /\ \A p \in Requests \ {r} : req'[p] = req[p]
  BY <1>1, <1>4 DEF Inv, TypeOK
<1>7. \A t \in Sessions : lock[t] # r
  BY <1>1, NoLock
<1>8. TypeOK'
  BY <1>1, <1>2, <1>5, <1>6, <1>7, MaxSeqAssumption DEF Inv, TypeOK
<1>9. ASSUME NEW t \in Sessions
      PROVE  SessionOK(header[t], row[t], applied[t], events)'
  BY <1>1, <1>2, <1>5, LongerStream DEF Inv
<1>10. ASSUME NEW p \in Requests
       PROVE  RequestOK(p, req[p], lock, row, events)'
  <2>1. CASE p = r
    <3>1. Len(events) + 1 \in 1 .. Len(events')
      BY <1>2, <1>5
    <3> QED BY <1>3, <1>4, <1>5, <1>6, <2>1, <3>1 DEF RequestOK
  <2>2. CASE p # r
    BY <1>1, <1>2, <1>5, <1>6, <2>2, LongerStream DEF Inv
  <2> QED BY <2>1, <2>2
<1>11. ASSUME NEW t \in Sessions, lock'[t] # None
       PROVE  LockOK(req[lock[t]])'
  BY <1>1, <1>6, <1>7, <1>11 DEF Inv, TypeOK, LockOK
<1>12. ASSUME NEW w \in Watchers, NEW t \in Sessions
       PROVE  WatcherOK(watch'[w], t, Announced(req'), Listed(header', revived'), lost')
  <2>1. WatcherOK(watch[w], t, Announced(req), Listed(header, revived), lost)
    BY DEF Inv
  <2>2. t \in Announced(req) => t \in Announced(req')
    BY <1>1, <1>4, AnnouncedStep
  <2> QED BY <1>1, <2>1, <2>2, WatcherLater
<1> QED BY <1>8, <1>9, <1>10, <1>11, <1>12 DEF Inv

LEMMA PostMessageInv ==
    ASSUME Inv, NEW r \in Requests, NEW q \in Queries, PostMessage(r, q)
    PROVE  Inv'
<1> DEFINE e == [session |-> None, query |-> q, kind |-> "running", joins |-> TRUE,
                 seq |-> messages + 1]
           x == [req[r] EXCEPT !.pc = "probe", !.op = "message", !.e = e]
<1>1. /\ req[r].pc = "idle" /\ messages' \in 0 .. MaxSeq
      /\ messages + 1 \in 0 .. MaxSeq
      /\ req' = [req EXCEPT ![r] = x]
      /\ UNCHANGED <<tables, lock, events, watch, faults, lost>>
  BY MaxSeqAssumption DEF PostMessage, Inv, TypeOK
<1>2. e \in Target
  BY <1>1 DEF Target, Kinds
<1> HIDE DEF e
<1>3. x \in Request /\ x.pc = "probe" /\ x.op = "message" /\ x.e = e /\ x.tell = req[r].tell
  <2>1. req[r] \in Request /\ "probe" \in Pc /\ "message" \in Op
    BY DEF Inv, TypeOK, Pc, Op
  <2>2. x \in Request
    BY <1>2, <2>1, RequestChange
  <2> QED BY <2>1, <2>2 DEF Request
<1>4. RequestOK(r, x, lock', row, events)
  BY <1>2, <1>3 DEF RequestOK
<1>5. lock' \in [Sessions -> Requests \cup {None}] /\ \A s \in Sessions : lock'[s] # r
  BY <1>1, NoLock DEF Inv, TypeOK
<1> HIDE DEF x
<1> QED BY <1>1, <1>3, <1>4, <1>5, LocalInv

LEMMA DeleteQueryInv ==
    ASSUME Inv, NEW r \in Requests, NEW q \in Queries, DeleteQuery(r, q)
    PROVE  Inv'
<1> DEFINE e == [session |-> None, query |-> q, kind |-> "running", joins |-> FALSE, seq |-> 0]
           x == [req[r] EXCEPT !.pc = "probe", !.op = "deleteQuery", !.e = e]
<1>1. /\ req[r].pc = "idle" /\ messages' \in 0 .. MaxSeq
      /\ req' = [req EXCEPT ![r] = x]
      /\ UNCHANGED <<tables, lock, events, watch, faults, lost>>
  BY DEF DeleteQuery, streams, Inv, TypeOK
<1>2. e \in Target
  BY MaxSeqAssumption DEF Target, Kinds
<1> HIDE DEF e
<1>3. x \in Request /\ x.pc = "probe" /\ x.op = "deleteQuery" /\ x.e = e /\ x.tell = req[r].tell
  <2>1. req[r] \in Request /\ "probe" \in Pc /\ "deleteQuery" \in Op
    BY DEF Inv, TypeOK, Pc, Op
  <2>2. x \in Request
    BY <1>2, <2>1, RequestChange
  <2> QED BY <2>1, <2>2 DEF Request
<1>4. RequestOK(r, x, lock', row, events)
  BY <1>2, <1>3 DEF RequestOK
<1>5. lock' \in [Sessions -> Requests \cup {None}] /\ \A s \in Sessions : lock'[s] # r
  BY <1>1, NoLock DEF Inv, TypeOK
<1> HIDE DEF x
<1> QED BY <1>1, <1>3, <1>4, <1>5, LocalInv

\* DELETE /sessions leaves alone what another request has read: where a header
\* is locked there is none, and so no row.
LEMMA DeleteInv ==
    ASSUME Inv, NEW r \in Requests, delete(r)
    PROVE  Inv'
<1> DEFINE x == [req[r] EXCEPT !.pc = "done", !.op = "delete"]
<1>1. /\ req[r].pc = "idle" /\ \A s \in Sessions : header[s] # None => lock[s] = None
      /\ header' = [s \in Sessions |-> None] /\ row' = [s \in Sessions |-> NoRows]
      /\ applied' = [s \in Sessions |-> [q \in Queries |-> {}]]
      /\ req' = [req EXCEPT ![r] = x]
      /\ UNCHANGED <<lock, events, messages, watch, revived, faults, lost>>
  BY DEF delete, streams
<1>2. x \in Request /\ x.pc = "done" /\ x.tell = req[r].tell
  <2>1. req[r] \in Request /\ "done" \in Pc /\ "delete" \in Op
    BY DEF Inv, TypeOK, Pc, Op
  <2>2. x \in Request
    BY <2>1, RequestChange
  <2> QED BY <2>1, <2>2 DEF Request
<1> HIDE DEF x
<1>3. /\ req' \in [Requests -> Request] /\ req'[r] = x
      /\ \A p \in Requests \ {r} : req'[p] = req[p]
  BY <1>1, <1>2 DEF Inv, TypeOK
<1>4. \A t \in Sessions : lock[t] # r
  BY <1>1, NoLock
<1>5. TypeOK'
  BY <1>1, <1>3, <1>4, EmptyRows DEF Inv, TypeOK
<1>6. ASSUME NEW t \in Sessions
      PROVE  SessionOK(header[t], row[t], applied[t], events)'
  <2>1. SessionOK(None, NoRows, [q \in Queries |-> {}], events)
    BY EmptyRows DEF SessionOK, RowOK, NoRows
  <2> QED BY <1>1, <2>1
<1>7. ASSUME NEW p \in Requests
      PROVE  RequestOK(p, req[p], lock, row, events)'
  <2>1. CASE p = r
    BY <1>2, <1>3, <2>1 DEF RequestOK
  <2>2. CASE p # r
    <3>1. RequestOK(p, req[p], lock, row, events) /\ req'[p] = req[p]
      BY <1>3, <2>2 DEF Inv
    <3>2. req[p].pc = "write" => row'[req[p].e.session] = row[req[p].e.session]
      <4> SUFFICES ASSUME req[p].pc = "write" PROVE row'[req[p].e.session] = row[req[p].e.session]
        OBVIOUS
      <4> DEFINE s == req[p].e.session
      <4>1. s \in Sessions /\ lock[s] = p
        BY <3>1 DEF RequestOK
      <4>2. header[s] = None
        BY <1>1, <4>1, RequestsAssumption
      <4>3. row[s] \in Rows /\ HeaderOK(header[s], row[s])
        BY <4>1 DEF Inv, TypeOK, SessionOK
      <4>4. row[s] = NoRows
        BY <4>2, <4>3, EmptyRows
      <4> QED BY <1>1, <4>1, <4>4
    <3> QED BY <1>1, <3>1, <3>2 DEF RequestOK
  <2> QED BY <2>1, <2>2
<1>8. ASSUME NEW t \in Sessions, lock'[t] # None
      PROVE  LockOK(req[lock[t]])'
  BY <1>1, <1>3, <1>4, <1>8 DEF Inv, TypeOK, LockOK
<1>9. ASSUME NEW w \in Watchers, NEW t \in Sessions
      PROVE  WatcherOK(watch'[w], t, Announced(req'), Listed(header', revived'), lost')
  <2>1. WatcherOK(watch[w], t, Announced(req), Listed(header, revived), lost)
    BY DEF Inv
  <2>2. t \in Announced(req) => t \in Announced(req')
    BY <1>1, <1>2, AnnouncedStep
  <2>3. t \notin Listed(header', revived')
    BY <1>1 DEF Listed
  <2> QED BY <1>1, <2>1, <2>2, <2>3, WatcherLater
<1> QED BY <1>5, <1>6, <1>7, <1>8, <1>9 DEF Inv

-----------------------------------------------------------------------------
(* Statements before the writes *)

LEMMA NextOwnerType ==
    ASSUME NEW q \in Request, NEW todo \in SUBSET Sessions, NEW x, x = NextOwner(q, todo)
    PROVE  /\ x \in Request /\ x.pc \in {"notify", "lock"} /\ x.tell = q.tell
           /\ x.pc = "lock" => x.op = q.op /\ x.e = q.e
<1>1. CASE todo = {}
  <2>1. x = [Idle EXCEPT !.pc = "notify", !.tell = q.tell] /\ "notify" \in Pc
    BY <1>1 DEF NextOwner, Notifying, Pc
  <2> QED BY <2>1 DEF Request, Idle, Op
<1>2. CASE todo # {}
  <2>1. x = [q EXCEPT !.pc = "lock", !.todo = todo] /\ "lock" \in Pc
    BY <1>2 DEF NextOwner, Pc
  <2> QED BY <2>1 DEF Request
<1> QED BY <1>1, <1>2

LEMMA GotoInv ==
    ASSUME Inv, NEW r \in Requests, NEW pc \in Pc, Goto(r, pc), pc \notin {"insert", "probe", "write"},
           UNCHANGED <<tables, streams, watch, faults, lost>>,
           pc = "lock" => req[r].pc = "insert",
           lock' \in [Sessions -> Requests \cup {None}],
           \A s \in Sessions : lock'[s] = lock[s] \/ (lock[s] = None /\ lock'[s] = r),
           \A s \in Sessions : lock'[s] = r => pc = "lock" /\ req[r].e.session = s
    PROVE  Inv'
<1> DEFINE x == [req[r] EXCEPT !.pc = pc]
<1>1. req' = [req EXCEPT ![r] = x] /\ req \in [Requests -> Request] /\ req[r] \in Request
  BY DEF Goto, Inv, TypeOK
<1>2. x \in Request
  BY <1>1 DEF Request
<1>3. x.pc = pc /\ x.op = req[r].op /\ x.e = req[r].e /\ x.tell = req[r].tell /\ x.old = req[r].old
  BY <1>1 DEF Request
<1>4. RequestOK(r, req[r], lock, row, events)
  BY DEF Inv
<1>5. RequestOK(r, x, lock', row, events)
  BY <1>3, <1>4 DEF RequestOK
<1>6. pc = "lock" => LockOK(x)
  BY <1>3, <1>4 DEF LockOK, RequestOK
<1>7. messages' \in 0 .. MaxSeq /\ UNCHANGED <<tables, events, watch, faults, lost>>
  BY DEF streams, Inv, TypeOK
<1> HIDE DEF x
<1>8. \A s \in Sessions : lock'[s] = r =>
        x.pc \in {"lock", "write"} /\ x.e.session = s /\ LockOK(x)
  BY <1>3, <1>6
<1>9. req[r].tell \subseteq x.tell
  BY <1>3
<1> QED BY <1>1, <1>2, <1>5, <1>7, <1>8, <1>9, LocalInv

LEMMA ProbeMessageInv ==
    ASSUME Inv, NEW r \in Requests, ProbeMessage(r)
    PROVE  Inv'
<1>1. /\ req[r].pc = "probe" /\ req[r].op = "message"
      /\ UNCHANGED <<tables, lock, streams, watch, faults, lost>>
  BY DEF ProbeMessage
<1>2. /\ lock' \in [Sessions -> Requests \cup {None}]
      /\ \A s \in Sessions : lock'[s] = lock[s] /\ lock'[s] # r
  BY <1>1, NoLock DEF Inv, TypeOK
<1>3. CASE Goto(r, "done")
  BY <1>1, <1>2, <1>3, GotoInv DEF Pc
<1>4. ASSUME NEW s \in Sessions, req' = [req EXCEPT ![r].pc = "lock", ![r].e.session = s]
      PROVE  Inv'
  <2> DEFINE e == [req[r].e EXCEPT !.session = s]
             x == [req[r] EXCEPT !.pc = "lock", !.e = e]
  <2>1. req \in [Requests -> Request] /\ req[r] \in Request /\ req[r].e \in Target
    BY <1>1 DEF Inv, TypeOK, RequestOK
  <2>2. e \in Target /\ e.session = s
    BY <2>1 DEF Target
  <2>3. req' = [req EXCEPT ![r] = x]
    BY <1>4, <2>1
  <2> HIDE DEF e
  <2>4. /\ x \in Request /\ x.pc = "lock" /\ x.op = "message" /\ x.e = e
        /\ x.tell = req[r].tell
    <3>1. "lock" \in Pc
      BY DEF Pc
    <3> QED BY <1>1, <2>1, <2>2, <3>1 DEF Request, Target
  <2>5. RequestOK(r, x, lock', row, events)
    BY <2>2, <2>4 DEF RequestOK
  <2>6. messages' \in 0 .. MaxSeq /\ UNCHANGED <<tables, events, watch, faults, lost>>
    BY <1>1 DEF streams, Inv, TypeOK
  <2> HIDE DEF x
  <2> QED BY <1>2, <2>3, <2>4, <2>5, <2>6, LocalInv
<1>5. Goto(r, "done") \/ \E s \in Sessions : req' = [req EXCEPT ![r].pc = "lock", ![r].e.session = s]
  BY DEF ProbeMessage, Owners
<1> QED BY <1>3, <1>4, <1>5

LEMMA ProbeDeleteInv ==
    ASSUME Inv, NEW r \in Requests, ProbeDelete(r)
    PROVE  Inv'
<1> DEFINE x == NextOwner(req[r], Owners(req[r].e.query))
<1>1. /\ req[r].pc = "probe" /\ req[r].op = "deleteQuery"
      /\ req' = [req EXCEPT ![r] = x]
      /\ UNCHANGED <<tables, lock, streams, watch, faults, lost>>
  BY DEF ProbeDelete
<1>2. req[r] \in Request /\ req[r].e \in Target
  BY <1>1 DEF Inv, TypeOK, RequestOK
<1>3. /\ x \in Request /\ x.pc \in {"notify", "lock"}
      /\ x.pc = "lock" => x.op = "deleteQuery" /\ x.e \in Target
      /\ x.tell = req[r].tell
  BY <1>1, <1>2, NextOwnerType DEF Owners
<1> HIDE DEF x
<1>4. RequestOK(r, x, lock', row, events)
  BY <1>3 DEF RequestOK
<1>5. /\ lock' \in [Sessions -> Requests \cup {None}]
      /\ \A s \in Sessions : lock'[s] = lock[s] /\ lock'[s] # r
  BY <1>1, NoLock DEF Inv, TypeOK
<1>6. messages' \in 0 .. MaxSeq /\ UNCHANGED <<tables, events, watch, faults, lost>>
  BY <1>1 DEF streams, Inv, TypeOK
<1> QED BY <1>1, <1>3, <1>4, <1>5, <1>6, LocalInv

LEMMA InsertHeaderInv ==
    ASSUME Inv, NEW r \in Requests, InsertHeader(r)
    PROVE  Inv'
<1> DEFINE s == req[r].e.session
<1>1. /\ req[r].pc = "insert"
      /\ header[s] = None => lock[s] = None
      /\ lock' = IF header[s] = None THEN [lock EXCEPT ![s] = r] ELSE lock
      /\ Goto(r, "lock") /\ UNCHANGED <<tables, streams, watch, faults, lost>>
  BY DEF InsertHeader
<1>2. s \in Sessions
  BY <1>1 DEF Inv, RequestOK, Event
<1> HIDE DEF s
<1>3. lock \in [Sessions -> Requests \cup {None}] /\ \A t \in Sessions : lock[t] # r
  BY <1>1, NoLock DEF Inv, TypeOK
<1>4. /\ lock' \in [Sessions -> Requests \cup {None}]
      /\ \A t \in Sessions : lock'[t] = lock[t] \/ (lock[t] = None /\ lock'[t] = r)
      /\ \A t \in Sessions : lock'[t] = r => t = s
  BY <1>1, <1>2, <1>3
<1>5. "lock" \in Pc
  BY DEF Pc
<1> QED BY <1>1, <1>3, <1>4, <1>5, GotoInv DEF s

LEMMA LockAndReadInv ==
    ASSUME Inv, NEW r \in Requests, req[r].pc = "lock", req[r].op \in {"event", "message"},
           Free(r, req[r].e.session), LockAndRead(r),
           UNCHANGED <<tables, streams, watch, faults, lost>>
    PROVE  Inv'
<1> DEFINE e == req[r].e
           s == e.session
           old == row[s][e.query]
           x == [req[r] EXCEPT !.pc = "write", !.old = old]
<1>1. RequestOK(r, req[r], lock, row, events) /\ req[r] \in Request
  BY DEF Inv, TypeOK
<1>2. s \in Sessions /\ e.query \in Queries
  BY <1>1 DEF RequestOK, Event, Target
<1>3. old \in Row \cup {None}
  BY <1>2 DEF Inv, TypeOK, Rows
<1>4. lock' = [lock EXCEPT ![s] = r] /\ req' = [req EXCEPT ![r] = x]
  BY DEF LockAndRead, Inv, TypeOK
<1> HIDE DEF old
<1>5. /\ x \in Request /\ x.pc = "write" /\ x.op = req[r].op /\ x.e = e /\ x.old = old
      /\ x.tell = req[r].tell
  <2>1. "write" \in Pc
    BY DEF Pc
  <2> QED BY <1>1, <1>3, <2>1 DEF Request
<1>6. /\ lock' \in [Sessions -> Requests \cup {None}] /\ lock'[s] = r
      /\ \A t \in Sessions : lock'[t] = lock[t] \/ (lock[t] = None /\ lock'[t] = r)
      /\ \A t \in Sessions : lock'[t] = r => s = t
  BY <1>2, <1>4, RequestsAssumption DEF Free, Inv, TypeOK
<1>7. RequestOK(r, x, lock', row, events)
  BY <1>1, <1>2, <1>5, <1>6 DEF RequestOK, old
<1> HIDE DEF x
<1>8. \A t \in Sessions : lock'[t] = r =>
        x.pc \in {"lock", "write"} /\ x.e.session = t /\ LockOK(x)
  BY <1>5, <1>6 DEF LockOK
<1>9. messages' \in 0 .. MaxSeq /\ UNCHANGED <<tables, events, watch, faults, lost>>
  BY DEF streams, Inv, TypeOK
<1>10. req[r].tell \subseteq x.tell
  BY <1>5
<1> QED BY <1>4, <1>5, <1>6, <1>7, <1>8, <1>9, <1>10, LocalInv

LEMMA LockForEventInv ==
    ASSUME Inv, NEW r \in Requests, LockForEvent(r)
    PROVE  Inv'
BY LockAndReadInv DEF LockForEvent

LEMMA LockForMessageInv ==
    ASSUME Inv, NEW r \in Requests, LockForMessage(r)
    PROVE  Inv'
<1>1. /\ req[r].pc = "lock" /\ req[r].op = "message"
      /\ UNCHANGED <<tables, streams, watch, faults, lost>>
  BY DEF LockForMessage
<1>2. CASE Goto(r, "done") /\ UNCHANGED lock
  <2>1. /\ lock' \in [Sessions -> Requests \cup {None}]
        /\ \A s \in Sessions : lock'[s] = lock[s] /\ lock'[s] # r
    BY <1>1, <1>2, NoLock DEF Inv, TypeOK
  <2>2. "done" \in Pc
    BY DEF Pc
  <2> QED BY <1>1, <1>2, <2>1, <2>2, GotoInv
<1>3. CASE Free(r, req[r].e.session) /\ LockAndRead(r)
  BY <1>1, <1>3, LockAndReadInv
<1> QED BY <1>2, <1>3 DEF LockForMessage

LEMMA LockForDeleteInv ==
    ASSUME Inv, NEW r \in Requests, LockForDelete(r)
    PROVE  Inv'
<1>1. /\ req[r].pc = "lock" /\ req[r].op = "deleteQuery"
      /\ UNCHANGED <<tables, streams, watch, faults, lost>>
  BY DEF LockForDelete
<1>2. req[r] \in Request /\ req[r].e \in Target
  BY <1>1 DEF Inv, TypeOK, RequestOK
<1>3. messages' \in 0 .. MaxSeq /\ UNCHANGED <<tables, events, watch, faults, lost>>
  BY <1>1 DEF streams, Inv, TypeOK
<1>4. lock \in [Sessions -> Requests \cup {None}] /\ \A t \in Sessions : lock[t] # r
  BY <1>1, NoLock DEF Inv, TypeOK
<1>5. PICK s \in req[r].todo :
        IF header[s] = None
        THEN /\ req' = [req EXCEPT ![r] = NextOwner(req[r], req[r].todo \ {s})]
             /\ UNCHANGED lock
        ELSE /\ Free(r, s)
             /\ lock' = [lock EXCEPT ![s] = r]
             /\ req' = [req EXCEPT ![r] =
                  [req[r] EXCEPT !.pc = "write", !.e.session = s, !.todo = @ \ {s}]]
  BY DEF LockForDelete
<1>6. s \in Sessions /\ req[r].todo \ {s} \in SUBSET Sessions
  BY <1>2 DEF Request
<1>7. CASE header[s] = None
  <2> DEFINE x == NextOwner(req[r], req[r].todo \ {s})
  <2>1. req' = [req EXCEPT ![r] = x] /\ UNCHANGED lock
    BY <1>5, <1>7
  <2>2. /\ x \in Request /\ x.pc \in {"notify", "lock"}
        /\ x.pc = "lock" => x.op = "deleteQuery" /\ x.e \in Target
        /\ x.tell = req[r].tell
    BY <1>1, <1>2, <1>6, NextOwnerType
  <2> HIDE DEF x
  <2>3. RequestOK(r, x, lock', row, events)
    BY <2>2 DEF RequestOK
  <2> QED BY <1>3, <1>4, <2>1, <2>2, <2>3, LocalInv
<1>8. CASE header[s] # None
  <2> DEFINE e == [req[r].e EXCEPT !.session = s]
             todo == req[r].todo \ {s}
             x == [req[r] EXCEPT !.pc = "write", !.e = e, !.todo = todo]
  <2>1. Free(r, s) /\ lock' = [lock EXCEPT ![s] = r] /\ req' = [req EXCEPT ![r] = x]
    BY <1>2, <1>5, <1>8
  <2>2. e \in Target /\ e.session = s
    BY <1>2, <1>6 DEF Target
  <2> HIDE DEF e
  <2>3. /\ x \in Request /\ x.pc = "write" /\ x.op = "deleteQuery" /\ x.e = e
        /\ x.tell = req[r].tell
    <3>1. "write" \in Pc /\ todo \in SUBSET Sessions
      BY <1>6 DEF Pc
    <3> QED BY <1>1, <1>2, <2>2, <3>1 DEF Request, Target
  <2>4. /\ lock' \in [Sessions -> Requests \cup {None}] /\ lock'[s] = r
        /\ \A t \in Sessions : lock'[t] = lock[t] \/ (lock[t] = None /\ lock'[t] = r)
        /\ \A t \in Sessions : lock'[t] = r => s = t
    BY <1>4, <1>6, <2>1 DEF Free
  <2>5. RequestOK(r, x, lock', row, events)
    BY <1>6, <2>2, <2>3, <2>4 DEF RequestOK
  <2> HIDE DEF x
  <2>6. \A t \in Sessions : lock'[t] = r =>
          x.pc \in {"lock", "write"} /\ x.e.session = t /\ LockOK(x)
    BY <2>2, <2>3, <2>4 DEF LockOK
  <2>7. req[r].tell \subseteq x.tell
    BY <2>3
  <2> QED BY <1>3, <2>1, <2>3, <2>4, <2>5, <2>6, <2>7, LocalInv
<1> QED BY <1>7, <1>8

-----------------------------------------------------------------------------
(* Writes *)

\* Whatever is already known of later events, the watermarks decide what an
\* event may still change.
LEMMA RowAfterEventOK ==
    ASSUME NEW es \in Seq(Event), NEW e \in Event, e.seq \in 1 .. Len(es), es[e.seq] = e,
           NEW row0 \in Row \cup {None}, NEW ap \in SUBSET (1 .. Len(es)), RowOK(row0, ap, es)
    PROVE  /\ \A now \in Nat : LET new == RowAfterEvent(row0, row0, e, now)
                               IN  new \in Row /\ RowOK(new, ap \cup {e.seq}, es)
           /\ row0 # None /\ Redundant(row0, e) => RowOK(row0, ap \cup {e.seq}, es)
<1>1. /\ \A n \in ap : n \in 1 .. Len(es) /\ es[n] \in Event /\ es[n].kind \in Kinds
      /\ e.kind \in Kinds /\ e.joins \in BOOLEAN /\ e.seq \in Nat /\ e.seq # 0
      /\ Len(es) \in Nat
  <2>1. Len(es) \in Nat /\ \A n \in 1 .. Len(es) : es[n] \in Event
    OBVIOUS
  <2>2. \A f \in Event : f.kind \in Kinds /\ f.joins \in BOOLEAN
    BY DEF Event
  <2> QED BY <2>1, <2>2
<1>2. /\ isTerminalPhase(e.kind) => DecidedBy(e) = e.seq
      /\ ~isTerminalPhase(e.kind) => DecidedBy(e) = 0
  BY DEF DecidedBy
<1>3. ASSUME NEW now \in Nat, NEW new, new = RowAfterEvent(row0, row0, e, now)
      PROVE  new \in Row /\ RowOK(new, ap \cup {e.seq}, es)
  <2>1. new \in Row /\ new # None
    BY <1>3, RowEvent, NoneFacts
  <2>2. CASE row0 = None
    <3>1. /\ ap = {} /\ new.phase = e.kind /\ new.joined = e.joins /\ new.seen = e.seq
          /\ new.decided = DecidedBy(e)
      <4>1. ap = {}
        BY <2>2 DEF RowOK
      <4>2. row0 = None =>
              /\ new.phase = e.kind /\ new.joined = e.joins /\ new.seen = e.seq
              /\ new.decided = DecidedBy(e)
        BY <1>3, RowEvent, ZenonT(40)
      <4> QED BY <2>2, <4>1, <4>2
    <3>2. e.kind = PhaseAfter(e.kind, e.kind)
      BY <1>1, PhaseAfterFacts
    <3>3. ap \cup {e.seq} = {e.seq}
      BY <3>1
    <3>4. RowOK(new, {e.seq}, es)
      <4>1. CASE isTerminalPhase(e.kind)
        <5>1. new.decided = e.seq /\ es[new.decided].kind = e.kind
          BY <1>2, <3>1, <4>1
        <5> QED BY <1>1, <2>1, <3>1, <3>2, <4>1, <5>1 DEF RowOK
      <4>2. CASE ~isTerminalPhase(e.kind)
        <5>1. new.decided = 0
          BY <1>2, <3>1, <4>2
        <5> QED BY <1>1, <2>1, <3>1, <4>2, <5>1 DEF RowOK
      <4> QED BY <4>1, <4>2
    <3> QED BY <2>1, <3>3, <3>4
  <2>3. CASE row0 # None
    <3> DEFINE decisive == \/ ~Stale(row0, e)
                           \/ isTerminalPhase(e.kind) /\ ~PhaseStale(row0, e)
               decided == Larger(row0.decided, DecidedBy(e))
    <3>1. /\ new.joined = (row0.joined \/ e.joins)
          /\ new.seen = Larger(row0.seen, e.seq)
          /\ new.decided = decided
          /\ new.phase = IF decisive THEN PhaseAfter(row0.phase, e.kind) ELSE row0.phase
      BY <1>3, <2>3, RowEvent
    <3>2. /\ row0.phase \in Kinds /\ row0.joined \in BOOLEAN /\ row0.seen \in Nat
          /\ row0.decided \in Nat
      BY <2>3 DEF Row
    <3>3. /\ \A n \in ap : n <= row0.seen
          /\ \A n \in ap : isTerminalPhase(es[n].kind) => n <= row0.decided
          /\ row0.decided <= row0.seen
          /\ row0.decided # 0 => /\ row0.decided \in ap /\ isTerminalPhase(es[row0.decided].kind)
                                 /\ row0.phase = PhaseAfter(row0.phase, es[row0.decided].kind)
          /\ \A n \in ap : es[n].joins => row0.joined
      BY <2>3 DEF RowOK
    <3>4. /\ new.seen \in Nat /\ new.seen >= row0.seen /\ new.seen >= e.seq
          /\ \A n \in ap \cup {e.seq} : n <= new.seen
      BY <1>1, <3>1, <3>2, <3>3 DEF Larger
    <3>5. /\ decided \in {row0.decided, DecidedBy(e)} /\ decided >= row0.decided
          /\ decided >= DecidedBy(e) /\ decided \in Nat /\ decided <= new.seen
      BY <1>1, <1>2, <3>2, <3>3, <3>4 DEF Larger
    <3>6. \A n \in ap \cup {e.seq} : isTerminalPhase(es[n].kind) => n <= decided
      BY <1>1, <1>2, <3>2, <3>3, <3>5
    <3>7. \A n \in ap \cup {e.seq} : es[n].joins => new.joined
      BY <3>1, <3>2, <3>3
    <3>8. decided # 0 => /\ decided \in ap \cup {e.seq} /\ isTerminalPhase(es[decided].kind)
                         /\ new.phase = PhaseAfter(new.phase, es[decided].kind)
      <4> SUFFICES ASSUME decided # 0
                   PROVE  /\ decided \in ap \cup {e.seq} /\ isTerminalPhase(es[decided].kind)
                          /\ new.phase = PhaseAfter(new.phase, es[decided].kind)
        OBVIOUS
      <4>1. CASE isTerminalPhase(e.kind) /\ decided = e.seq
        <5>1. CASE decisive
          BY <1>1, <3>1, <3>2, <4>1, <5>1, PhaseAfterFacts
        <5>2. CASE ~decisive
          <6>1. e.seq <= row0.decided
            BY <4>1, <5>2 DEF PhaseStale
          <6>2. decided = row0.decided
            BY <1>1, <3>2, <3>5, <4>1, <6>1
          <6> QED BY <3>1, <3>3, <4>1, <5>2, <6>2
        <5> QED BY <5>1, <5>2
      <4>2. CASE ~isTerminalPhase(e.kind)
        <5>1. decided = row0.decided
          BY <1>2, <3>2, <3>5, <4>2
        <5>2. new.phase = row0.phase
          BY <1>1, <3>1, <3>2, <4>2, PhaseAfterFacts
        <5> QED BY <3>3, <5>1, <5>2
      <4>3. CASE isTerminalPhase(e.kind) /\ decided # e.seq
        <5>1. decided = row0.decided /\ e.seq <= row0.decided
          BY <1>1, <1>2, <3>2, <3>5, <4>3
        <5>2. ~decisive
          BY <1>1, <3>2, <3>3, <4>3, <5>1 DEF Stale, PhaseStale
        <5> QED BY <3>1, <3>3, <5>1, <5>2
      <4> QED BY <4>1, <4>2, <4>3
    <3> HIDE DEF decided, decisive
    <3> QED BY <2>1, <3>1, <3>4, <3>5, <3>6, <3>7, <3>8 DEF RowOK
  <2> QED BY <2>1, <2>2, <2>3
<1>4. ASSUME row0 # None, Redundant(row0, e)
      PROVE  RowOK(row0, ap \cup {e.seq}, es)
  <2>1. row0 \in Row
    BY <1>4
  <2>2. mergeQueryMetadata(row0, e) = row0 => (e.joins => row0.joined)
    BY <1>1, <2>1 DEF mergeQueryMetadata, Row
  <2>3. /\ e.seq <= row0.seen
        /\ e.joins => row0.joined
        /\ isTerminalPhase(e.kind) => e.seq <= row0.decided
    BY <1>4, <2>2 DEF Redundant, Stale, PhaseStale
  <2> QED BY <1>4, <2>3 DEF RowOK
<1> QED BY <1>3, <1>4

LEMMA CommittedType ==
    ASSUME Inv, NEW r \in Requests, NEW told \in SUBSET Sessions, Committed(r, told)
    PROVE  \E x \in Request : /\ req' = [req EXCEPT ![r] = x]
                              /\ x.pc = "notify" /\ x.tell = req[r].tell \cup told
<1> DEFINE x == [Idle EXCEPT !.pc = "notify", !.tell = req[r].tell \cup told]
<1>1. req \in [Requests -> Request] /\ req[r] \in Request
  BY DEF Inv, TypeOK
<1>2. req' = [req EXCEPT ![r] = x]
  BY <1>1 DEF Committed, Notifying
<1>3. x \in Request /\ x.pc = "notify" /\ x.tell = req[r].tell \cup told
  <2>1. "notify" \in Pc /\ req[r].tell \cup told \in SUBSET Sessions
    BY <1>1 DEF Pc, Request
  <2> QED BY <2>1 DEF Request, Idle, Op
<1> HIDE DEF x
<1> QED BY <1>2, <1>3

\* What a request that is about to write knows of its session.
LEMMA AboutToWrite ==
    ASSUME Inv, NEW r \in Requests, req[r].pc = "write", NEW s, s = req[r].e.session,
           NEW q, q = req[r].e.query
    PROVE  /\ s \in Sessions /\ q \in Queries
           /\ row[s] \in Rows /\ row[s][q] \in Row \cup {None} /\ header[s] \in Header \cup {None}
           /\ applied[s] \in [Queries -> SUBSET (1 .. Len(events))]
           /\ SessionOK(header[s], row[s], applied[s], events)
           /\ HeaderOK(header[s], row[s])
           /\ RowOK(row[s][q], applied[s][q], events)
           /\ row = [row EXCEPT ![s] = row[s]] /\ header = [header EXCEPT ![s] = header[s]]
           /\ applied = [applied EXCEPT ![s] = applied[s]]
<1>1. RequestOK(r, req[r], lock, row, events)
  BY DEF Inv
<1>2. s \in Sessions /\ q \in Queries
  BY <1>1 DEF RequestOK, Event, Target
<1>3. /\ row[s] \in Rows /\ header[s] \in Header \cup {None}
      /\ applied[s] \in [Queries -> SUBSET (1 .. MaxSeq)]
      /\ SessionOK(header[s], row[s], applied[s], events)
      /\ row = [row EXCEPT ![s] = row[s]] /\ header = [header EXCEPT ![s] = header[s]]
      /\ applied = [applied EXCEPT ![s] = applied[s]]
  BY <1>2 DEF Inv, TypeOK
<1>4. row[s][q] \in Row \cup {None}
  BY <1>2, <1>3 DEF Rows
<1>5. /\ HeaderOK(header[s], row[s]) /\ RowOK(row[s][q], applied[s][q], events)
      /\ \A p \in Queries : applied[s][p] \subseteq 1 .. Len(events)
  BY <1>2, <1>3 DEF SessionOK
<1> QED BY <1>2, <1>3, <1>4, <1>5

\* A transaction that leaves the session as it is.
LEMMA NoWriteInv ==
    ASSUME Inv, NEW r \in Requests, req[r].pc = "write", NEW s, s = req[r].e.session,
           NEW x \in Request, req' = [req EXCEPT ![r] = x], x.pc \in {"notify", "lock"},
           x.pc = "lock" => x.op = "deleteQuery" /\ x.e \in Target,
           req[r].tell \subseteq x.tell,
           Release(r), UNCHANGED <<streams, faults, lost, row, header, watch, revived>>,
           NEW ap \in [Queries -> SUBSET (1 .. Len(events))], applied' = [applied EXCEPT ![s] = ap],
           SessionOK(header[s], row[s], ap, events)
    PROVE  Inv'
<1> DEFINE rows == row[s]
           h == header[s]
<1>1. /\ row' = [row EXCEPT ![s] = rows] /\ header' = [header EXCEPT ![s] = h]
      /\ rows \in Rows /\ h \in Header \cup {None} /\ SessionOK(h, rows, ap, events)
  BY AboutToWrite
<1>2. h # None /\ h.live => Visible(s)
  BY DEF Visible
<1>3. /\ revived \subseteq revived' /\ revived' \subseteq Sessions /\ watch' = watch
      /\ UNCHANGED <<streams, faults, lost>>
  BY DEF Inv, TypeOK
<1> HIDE DEF rows, h
<1> QED BY <1>1, <1>2, <1>3, CommitInv

LEMMA WriteEventInv ==
    ASSUME Inv, NEW r \in Requests, WriteEvent(r)
    PROVE  Inv'
<1> DEFINE e == req[r].e
           s == e.session
           q == e.query
           old == req[r].old
           new == RowAfterEvent(row[s][q], row[s][q], e, Now(row[s]))
           rows == [row[s] EXCEPT ![q] = new]
           ap == [applied[s] EXCEPT ![q] = applied[s][q] \cup {e.seq}]
<1>1. /\ req[r].pc = "write" /\ req[r].op = "event" /\ Release(r)
      /\ UNCHANGED <<revived, streams, faults, lost>>
  BY DEF WriteEvent
<1>2. /\ e \in Event /\ e.seq \in 1 .. Len(events) /\ e = events[e.seq]
      /\ old = row[s][q] /\ events \in Seq(Event)
  BY <1>1 DEF Inv, TypeOK, RequestOK
<1>3. /\ s \in Sessions /\ q \in Queries
      /\ row[s] \in Rows /\ row[s][q] \in Row \cup {None} /\ header[s] \in Header \cup {None}
      /\ applied[s] \in [Queries -> SUBSET (1 .. Len(events))]
      /\ SessionOK(header[s], row[s], applied[s], events)
      /\ HeaderOK(header[s], row[s])
      /\ RowOK(row[s][q], applied[s][q], events)
      /\ row = [row EXCEPT ![s] = row[s]] /\ header = [header EXCEPT ![s] = header[s]]
  BY <1>1, AboutToWrite
<1>4. applied[s][q] \in SUBSET (1 .. Len(events))
  BY <1>3
<1>5. /\ \A now \in Nat :
           LET n == RowAfterEvent(row[s][q], row[s][q], e, now)
           IN  n \in Row /\ RowOK(n, applied[s][q] \cup {e.seq}, events)
      /\ row[s][q] # None /\ Redundant(row[s][q], e) =>
           RowOK(row[s][q], applied[s][q] \cup {e.seq}, events)
  BY <1>2, <1>3, <1>4, RowAfterEventOK
<1>6. ap \in [Queries -> SUBSET (1 .. Len(events))]
  BY <1>2, <1>3, <1>4
<1>7. applied' = [applied EXCEPT ![s] = ap]
  BY <1>3 DEF WriteEvent, Inv, TypeOK
<1>8. CASE old # None /\ Redundant(old, e)
  <2>1. Committed(r, {}) /\ UNCHANGED <<row, header, watch>>
    BY <1>8 DEF WriteEvent
  <2>2. PICK x \in Request : /\ req' = [req EXCEPT ![r] = x]
                             /\ x.pc = "notify" /\ x.tell = req[r].tell \cup {}
    BY <2>1, CommittedType
  <2>3. SessionOK(header[s], row[s], ap, events)
    BY <1>2, <1>3, <1>5, <1>6, <1>8 DEF SessionOK
  <2>4. req[r].tell \subseteq x.tell
    BY <2>2
  <2> HIDE DEF ap, s
  <2> QED BY <1>1, <1>6, <1>7, <2>1, <2>2, <2>3, <2>4, NoWriteInv DEF s
<1>9. CASE ~(old # None /\ Redundant(old, e))
  <2> DEFINE h == recalculateSessionStatus(rows, TRUE)
  <2>1. /\ row' = [row EXCEPT ![s] = rows] /\ header' = [header EXCEPT ![s] = h]
        /\ watch' = Outdated({s}) /\ Committed(r, {s})
    BY <1>2, <1>9 DEF WriteEvent
  <2>2. PICK x \in Request : /\ req' = [req EXCEPT ![r] = x]
                             /\ x.pc = "notify" /\ x.tell = req[r].tell \cup {s}
    <3>1. {s} \in SUBSET Sessions /\ Committed(r, {s})
      BY <1>3, <2>1
    <3> HIDE DEF e, s, q, old, new, rows, ap, h
    <3> QED BY <3>1, CommittedType
  <2>3. new \in Row /\ RowOK(new, applied[s][q] \cup {e.seq}, events)
    BY <1>3, <1>5, NowType
  <2> HIDE DEF new
  <2>4. rows \in Rows /\ rows # NoRows
    BY <1>3, <2>3, NoneFacts DEF Rows, NoRows
  <2>5. h \in Header /\ HeaderOK(h, rows)
    BY <2>4, StatusAgrees
  <2>6. SessionOK(h, rows, ap, events)
    BY <1>3, <1>6, <2>3, <2>5 DEF SessionOK, Rows
  <2> HIDE DEF ap, s, rows, h
  <2> QED BY <1>1, <1>3, <1>6, <1>7, <2>1, <2>2, <2>4, <2>5, <2>6, CommitInv DEF s, Inv, TypeOK
<1> QED BY <1>8, <1>9

LEMMA RowMessage ==
    ASSUME NEW row0 \in Row, NEW n \in 0 .. MaxSeq, NEW new, new = RowAfterMessage(row0, n)
    PROVE  /\ new \in Row /\ new.phase = row0.phase
           /\ \A ap, es : RowOK(row0, ap, es) => RowOK(new, ap, es)
<1> DEFINE told == IF n = 0 THEN row0.told ELSE n
<1>1. told \in 0 .. MaxSeq
  BY DEF Row
<1>2. new = [row0 EXCEPT !.joined = TRUE, !.told = told]
  BY DEF RowAfterMessage
<1> HIDE DEF told
<1>3. /\ new \in Row /\ new.phase = row0.phase /\ new.seen = row0.seen
      /\ new.decided = row0.decided /\ new.joined = TRUE
  BY <1>1, <1>2 DEF Row
<1>4. \A ap, es : RowOK(row0, ap, es) => RowOK(new, ap, es)
  BY <1>3, NoneFacts DEF RowOK
<1> QED BY <1>3, <1>4

LEMMA WriteMessageInv ==
    ASSUME Inv, NEW r \in Requests, WriteMessage(r)
    PROVE  Inv'
<1> DEFINE e == req[r].e
           s == e.session
           q == e.query
           old == req[r].old
           new == RowAfterMessage(row[s][q], e.seq)
           rows == [row[s] EXCEPT ![q] = new]
           ap == applied[s]
<1>1. /\ req[r].pc = "write" /\ req[r].op = "message" /\ Release(r)
      /\ UNCHANGED <<applied, streams, faults, lost>>
  BY DEF WriteMessage
<1>2. old = row[s][q] /\ e.seq \in 0 .. MaxSeq
  BY <1>1 DEF Inv, RequestOK, Target
<1>3. /\ s \in Sessions /\ q \in Queries
      /\ row[s] \in Rows /\ row[s][q] \in Row \cup {None}
      /\ ap \in [Queries -> SUBSET (1 .. Len(events))]
      /\ SessionOK(header[s], row[s], ap, events)
      /\ HeaderOK(header[s], row[s])
      /\ applied = [applied EXCEPT ![s] = ap]
  BY <1>1, AboutToWrite
<1>4. CASE old = None \/ row[s][q] = None \/ (old # None /\ e.seq <= old.told)
  <2>1. Committed(r, {}) /\ UNCHANGED <<row, header, watch, revived>>
    BY <1>4 DEF WriteMessage
  <2>2. PICK x \in Request : /\ req' = [req EXCEPT ![r] = x]
                             /\ x.pc = "notify" /\ x.tell = req[r].tell \cup {}
    BY <2>1, CommittedType
  <2>3. req[r].tell \subseteq x.tell
    BY <2>2
  <2> HIDE DEF ap, s
  <2> QED BY <1>1, <1>3, <2>1, <2>2, <2>3, NoWriteInv DEF s
<1>5. CASE ~(old = None \/ row[s][q] = None \/ (old # None /\ e.seq <= old.told))
  <2> DEFINE h == recalculateSessionConversations(header[s], rows, TRUE)
  <2>1. /\ row' = [row EXCEPT ![s] = rows] /\ header' = [header EXCEPT ![s] = h]
        /\ watch' = IF old.joined THEN watch ELSE Outdated({s})
        /\ revived' = IF header[s].live \/ ~old.joined THEN revived ELSE revived \cup {s}
        /\ Committed(r, Tell(old, s))
    BY <1>5, Zenon DEF WriteMessage
  <2>2. Tell(old, s) \in SUBSET Sessions
    BY <1>3 DEF Tell
  <2>3. PICK x \in Request : /\ req' = [req EXCEPT ![r] = x]
                             /\ x.pc = "notify" /\ x.tell = req[r].tell \cup Tell(old, s)
    BY <2>1, <2>2, CommittedType
  <2>4. /\ new \in Row /\ new.phase = row[s][q].phase
        /\ RowOK(new, ap[q], events)
    <3>1. row[s][q] \in Row
      BY <1>3, <1>5
    <3>2. /\ new \in Row /\ new.phase = row[s][q].phase
          /\ \A aq, es : RowOK(row[s][q], aq, es) => RowOK(new, aq, es)
      BY <1>2, <3>1, RowMessage
    <3>3. RowOK(row[s][q], ap[q], events)
      BY <1>3 DEF SessionOK
    <3> QED BY <3>2, <3>3
  <2> HIDE DEF new
  <2>5. /\ rows \in Rows /\ rows # NoRows /\ Present(rows) = Present(row[s])
        /\ \A p \in Present(rows) : rows[p].phase = row[s][p].phase
    <3>1. /\ rows \in Rows /\ rows[q] = new /\ new # None /\ row[s][q] # None
          /\ \A p \in Queries \ {q} : rows[p] = row[s][p]
      BY <1>3, <1>5, <2>4, NoneFacts DEF Rows
    <3>2. rows # NoRows
      BY <1>3, <3>1 DEF NoRows
    <3>3. Present(rows) = Present(row[s])
      BY <1>3, <3>1 DEF Present
    <3> QED BY <1>3, <2>4, <3>1, <3>2, <3>3 DEF Present
  <2>6. h \in Header /\ HeaderOK(h, rows)
    <3>1. h = recalculateSessionConversations(header[s], rows, TRUE)
      OBVIOUS
    <3>2. row[s] \in Rows /\ HeaderOK(header[s], row[s])
      BY <1>3
    <3> HIDE DEF h, rows, s, q
    <3> QED BY <2>5, <3>1, <3>2, ConversationsAgree
  <2>7. SessionOK(h, rows, ap, events)
    BY <1>3, <2>4, <2>6 DEF SessionOK, Rows
  <2>8. header[s] # None
    BY <1>3, <2>5, EmptyRows, PresentFinite
  <2>9. /\ revived \subseteq revived' /\ revived' \subseteq Sessions
        /\ req[r].tell \subseteq x.tell
        /\ s \in x.tell \/ s \in revived' \/ Visible(s)
        /\ watch' = watch \/ (watch' = Outdated({s}) /\ s \in x.tell)
    BY <1>3, <2>1, <2>3, <2>8 DEF Visible, Tell, Inv, TypeOK
  <2>10. applied' = [applied EXCEPT ![s] = ap]
    BY <1>1, <1>3
  <2> HIDE DEF ap, s, rows, h
  <2> QED BY <1>1, <1>3, <2>1, <2>3, <2>5, <2>6, <2>7, <2>9, <2>10, CommitInv DEF s
<1> QED BY <1>4, <1>5

LEMMA NothingOutdated == ASSUME watch \in [Watchers -> Watch] PROVE Outdated({}) = watch
<1>1. ASSUME NEW w \in Watchers
      PROVE  Outdated({})[w] = watch[w]
  <2> DEFINE x == watch[w]
  <2>1. x \in Watch
    OBVIOUS
  <2>2. {Overtaken(d, {}) : d \in x.reads} = x.reads
    BY DEF Overtaken
  <2>3. Behind(x, {}) = x
    <3>1. x.seen \ {} = x.seen /\ x.last \ {} = x.last
      OBVIOUS
    <3>2. {Overtaken(d, {}) : d \in x.reads} = x.reads
      BY <2>2
    <3> HIDE DEF x
    <3> QED BY <2>1, <3>1, <3>2 DEF Watch, Behind
  <2> QED BY <2>3 DEF Outdated
<1> QED BY <1>1 DEF Outdated

LEMMA WriteDeleteInv ==
    ASSUME Inv, NEW r \in Requests, WriteDelete(r)
    PROVE  Inv'
<1> DEFINE e == req[r].e
           s == e.session
           q == e.query
           rows == [row[s] EXCEPT ![q] = None]
           told == IF row[s][q] # None /\ rows # NoRows THEN {s} ELSE {}
           asked == [req[r] EXCEPT !.tell = req[r].tell \cup told]
           x == NextOwner(asked, req[r].todo)
<1>1. /\ req[r].pc = "write" /\ req[r].op = "deleteQuery" /\ Release(r)
      /\ watch' = Outdated(told) /\ req' = [req EXCEPT ![r] = x]
      /\ UNCHANGED <<revived, streams, faults, lost>>
  BY DEF WriteDelete
<1>2. /\ s \in Sessions /\ q \in Queries
      /\ row[s] \in Rows /\ row[s][q] \in Row \cup {None} /\ header[s] \in Header \cup {None}
      /\ applied[s] \in [Queries -> SUBSET (1 .. Len(events))]
      /\ SessionOK(header[s], row[s], applied[s], events)
      /\ HeaderOK(header[s], row[s])
      /\ applied = [applied EXCEPT ![s] = applied[s]]
  <2>1. req[r].pc = "write"
    BY <1>1
  <2> QED BY <2>1, AboutToWrite
<1>3. req[r] \in Request /\ e \in Target /\ revived \subseteq Sessions
  BY <1>1 DEF Inv, TypeOK, RequestOK
<1>4. told \in SUBSET Sessions /\ told \in {{}, {s}}
  BY <1>2
<1>5. /\ x \in Request /\ x.pc \in {"notify", "lock"}
      /\ x.pc = "lock" => x.op = "deleteQuery" /\ x.e = e
      /\ x.tell = req[r].tell \cup told
  <2> HIDE DEF told
  <2>1. /\ asked \in Request /\ asked.op = "deleteQuery" /\ asked.e = e
        /\ asked.tell = req[r].tell \cup told
    BY <1>1, <1>3, <1>4 DEF Request
  <2>2. req[r].todo \in SUBSET Sessions
    BY <1>3 DEF Request
  <2> HIDE DEF asked
  <2> QED BY <2>1, <2>2, NextOwnerType
<1>6. watch' = watch \/ (watch' = Outdated({s}) /\ s \in x.tell)
  <2>1. CASE told = {}
    <3>1. watch \in [Watchers -> Watch]
      BY DEF Inv, TypeOK
    <3>2. Outdated({}) = watch
      BY <3>1, NothingOutdated
    <3> QED BY <1>1, <2>1, <3>2
  <2>2. CASE told = {s}
    BY <1>1, <1>5, <2>2
  <2> QED BY <1>4, <2>1, <2>2
<1>7. CASE row[s][q] = None
  <2>1. UNCHANGED <<row, header, applied>> /\ told = {}
    BY <1>7 DEF WriteDelete
  <2>2. watch' = watch
    <3>1. watch \in [Watchers -> Watch]
      BY DEF Inv, TypeOK
    <3> QED BY <1>1, <2>1, <3>1, NothingOutdated
  <2>3. applied' = [applied EXCEPT ![s] = applied[s]] /\ req[r].tell \subseteq x.tell
    BY <1>2, <1>5, <2>1
  <2> HIDE DEF s, x, told
  <2> QED BY <1>1, <1>2, <1>3, <1>5, <2>1, <2>2, <2>3, NoWriteInv DEF s
<1>8. CASE row[s][q] # None
  <2> DEFINE h == HeaderAfterDelete(s, rows)
             ap == [applied[s] EXCEPT ![q] = {}]
  <2>1. row' = [row EXCEPT ![s] = rows] /\ header' = [header EXCEPT ![s] = h]
    BY <1>8 DEF WriteDelete
  <2>2. applied' = [applied EXCEPT ![s] = ap] /\ ap \in [Queries -> SUBSET (1 .. Len(events))]
    BY <1>2, <1>8 DEF WriteDelete, Inv, TypeOK
  <2>3. rows \in Rows
    BY <1>2 DEF Rows
  <2>4. header[s] # None /\ header[s].live \in BOOLEAN
    <3>1. Present(row[s]) # {}
      BY <1>2, <1>8 DEF Present
    <3> QED BY <1>2, <3>1, NoneFacts DEF HeaderOK, Header
  <2>5. /\ h \in Header \cup {None} /\ HeaderOK(h, rows)
        /\ h # None => rows # NoRows /\ h.live = header[s].live
    <3>1. CASE rows = NoRows
      BY <3>1, EmptyRows DEF HeaderAfterDelete
    <3>2. CASE rows # NoRows
      <4>1. h = recalculateSessionStatus(rows, header[s].live)
        BY <3>2 DEF HeaderAfterDelete
      <4> QED BY <2>3, <2>4, <3>2, <4>1, StatusAgrees
    <3> QED BY <3>1, <3>2
  <2>6. SessionOK(h, rows, ap, events)
    BY <1>2, <2>2, <2>3, <2>5 DEF SessionOK, RowOK, Rows
  <2>7. h # None /\ h.live => Visible(s)
    BY <2>4, <2>5 DEF Visible
  <2>8. req[r].tell \subseteq x.tell /\ revived \subseteq revived' /\ revived' \subseteq Sessions
    BY <1>1, <1>3, <1>5
  <2> HIDE DEF s, x, told, rows, h, ap
  <2> QED BY <1>1, <1>3, <1>5, <1>6, <2>1, <2>2, <2>3, <2>5, <2>6, <2>7, <2>8, CommitInv DEF s
<1> QED BY <1>7, <1>8


-----------------------------------------------------------------------------
(* The end of a request, expiry, and the watchers *)

\* A request ends: it writes nothing and holds no lock.
LEMMA DoneKeeps ==
    ASSUME Inv, NEW r \in Requests, NEW x \in Request, req' = [req EXCEPT ![r] = x],
           x.pc = "done", Release(r), UNCHANGED <<tables, streams>>
    PROVE  /\ lock' \in [Sessions -> Requests \cup {None}]
           /\ req' \in [Requests -> Request]
           /\ \A s \in Sessions : lock'[s] # None =>
                /\ req'[lock'[s]].pc \in {"lock", "write"}
                /\ req'[lock'[s]].e.session = s
                /\ LockOK(req'[lock'[s]])
           /\ \A p \in Requests : RequestOK(p, req'[p], lock', row', events')
<1>1. /\ lock' = [s \in Sessions |-> IF lock[s] = r THEN None ELSE lock[s]]
      /\ lock \in [Sessions -> Requests \cup {None}] /\ req \in [Requests -> Request]
      /\ row' = row /\ events' = events
  BY DEF Release, Inv, TypeOK, tables, streams
<1>2. /\ req' \in [Requests -> Request] /\ req'[r] = x
      /\ \A p \in Requests \ {r} : req'[p] = req[p]
  BY <1>1
<1>3. lock' \in [Sessions -> Requests \cup {None}]
  BY <1>1
<1>4. ASSUME NEW s \in Sessions, lock'[s] # None
      PROVE  /\ req'[lock'[s]].pc \in {"lock", "write"}
             /\ req'[lock'[s]].e.session = s
             /\ LockOK(req'[lock'[s]])
  <2>1. lock'[s] = lock[s] /\ lock[s] # None /\ lock[s] \in Requests \ {r}
    BY <1>1, <1>4
  <2> QED BY <1>2, <2>1 DEF Inv, TypeOK
<1>5. ASSUME NEW p \in Requests
      PROVE  RequestOK(p, req'[p], lock', row', events')
  <2>1. CASE p = r
    BY <1>2, <2>1 DEF RequestOK
  <2>2. CASE p # r
    <3>1. RequestOK(p, req[p], lock, row, events) /\ req'[p] = req[p]
      BY <1>2, <2>2 DEF Inv
    <3>2. \A s \in Sessions : lock[s] = p => lock'[s] = p
      BY <1>1, <2>2
    <3> QED BY <1>1, <3>1, <3>2 DEF RequestOK
  <2> QED BY <2>1, <2>2
<1> QED BY <1>2, <1>3, <1>4, <1>5

LEMMA NotifyInv ==
    ASSUME Inv, NEW r \in Requests, Notify(r)
    PROVE  Inv'
<1> DEFINE x == [req[r] EXCEPT !.pc = "done", !.tell = {}]
<1>1. /\ req[r].pc = "notify"
      /\ UNCHANGED <<header, row, applied, revived, lock, events, messages, faults, lost>>
  BY DEF Notify, tables, streams
<1>2. /\ req \in [Requests -> Request] /\ lock \in [Sessions -> Requests \cup {None}]
      /\ watch \in [Watchers -> Watch]
  BY DEF Inv, TypeOK
<1>3. req' = [req EXCEPT ![r] = x] /\ x \in Request /\ x.pc = "done"
  <2>1. x \in Request /\ x.pc = "done"
    BY <1>2 DEF Request, Pc
  <2> QED BY <1>2, <2>1 DEF Notify
<1> HIDE DEF x
<1>4. Release(r)
  <2>1. \A s \in Sessions : lock[s] # r
    BY <1>1, NoLock
  <2> QED BY <1>1, <1>2, <2>1 DEF Release
<1>5. UNCHANGED <<tables, streams>>
  BY <1>1 DEF tables, streams
<1>6. /\ lock' \in [Sessions -> Requests \cup {None}]
      /\ req' \in [Requests -> Request]
      /\ \A s \in Sessions : lock'[s] # None =>
           /\ req'[lock'[s]].pc \in {"lock", "write"}
           /\ req'[lock'[s]].e.session = s
           /\ LockOK(req'[lock'[s]])
      /\ \A p \in Requests : RequestOK(p, req'[p], lock', row', events')
  BY <1>3, <1>4, <1>5, DoneKeeps
<1> DEFINE T == req[r].tell
           Asked == {[by |-> r, session |-> s, got |-> "asked"] : s \in T}
<1>7. ASSUME NEW w \in Watchers, watch[w].phase # "off"
      PROVE  /\ watch'[w] \in Watch /\ watch'[w].phase = watch[w].phase
             /\ watch'[w].reads = watch[w].reads \cup Asked
             /\ watch'[w].mixed = (watch[w].mixed \ T) \cup (T \cap InFlight(w))
             /\ watch'[w].seen = watch[w].seen /\ watch'[w].last = watch[w].last
             /\ watch'[w].buffered = watch[w].buffered
  <2>1. Asked \subseteq Read /\ T \subseteq Sessions
    BY <1>2 DEF Read, Request
  <2>2. watch'[w] = [watch[w] EXCEPT !.reads = @ \cup Asked,
                                     !.mixed = (@ \ T) \cup (T \cap InFlight(w))]
    BY <1>7 DEF Notify
  <2>3. T \cap InFlight(w) \subseteq Sessions /\ watch[w] \in Watch
    BY <1>2, <2>1
  <2> HIDE DEF Asked, T
  <2>4. /\ (watch[w].reads \cup Asked) \subseteq Read
        /\ ((watch[w].mixed \ T) \cup (T \cap InFlight(w))) \subseteq Sessions
    BY <2>1, <2>3 DEF Watch
  <2>5. watch'[w] \in Watch
    BY <2>2, <2>3, <2>4 DEF Watch
  <2> QED BY <2>2, <2>3, <2>5 DEF Watch
<1>8. watch' \in [Watchers -> Watch]
  BY <1>2, <1>7 DEF Notify
<1>9. TypeOK'
  BY <1>1, <1>6, <1>8 DEF Inv, TypeOK
<1>10. ASSUME NEW w \in Watchers, NEW s \in Sessions
       PROVE  WatcherOK(watch'[w], s, Announced(req'), Listed(header', revived'), lost')
  <2>1. WatcherOK(watch[w], s, Announced(req), Listed(header, revived), lost)
    BY DEF Inv
  <2>2. s \in Announced(req) => s \in Announced(req') \cup T
    BY <1>3, AnnouncedStep
  <2>3. CASE watch[w].phase = "off"
    <3>1. watch'[w] = watch[w]
      BY <2>3 DEF Notify
    <3> QED BY <1>1, <2>1, <2>2, <2>3, <3>1, QuietWatcher
  <2>4. CASE watch[w].phase # "off" /\ s \notin T
    <3>1. \A d : d \in watch'[w].reads /\ d.session = s <=> d \in watch[w].reads /\ d.session = s
      BY <1>7, <2>4
    <3>2. s \in watch'[w].mixed <=> s \in watch[w].mixed
      BY <1>7, <2>4
    <3>3. WatcherOK(watch'[w], s, Announced(req), Listed(header, revived), lost)
      BY <1>7, <2>1, <2>4, <3>1, <3>2 DEF WatcherOK, OneRead, Fresh, Informed
    <3> QED BY <1>1, <2>2, <2>4, <3>3, WatcherLater
  <2>5. CASE watch[w].phase # "off" /\ s \in T
    <3> DEFINE a == [by |-> r, session |-> s, got |-> "asked"]
    <3>1. a \in watch'[w].reads /\ Fresh(watch'[w], s)
      BY <1>7, <2>5 DEF Fresh
    <3>2. s \notin watch'[w].mixed => \A d \in watch'[w].reads : d.session = s => d = a
      BY <1>7, <2>5 DEF InFlight
    <3>3. OneRead(watch'[w], s) /\ watch'[w].phase # "off" /\ a.got # "old"
      BY <1>7, <2>5, <3>2 DEF OneRead
    <3> HIDE DEF a
    <3> QED BY <3>1, <3>2, <3>3 DEF WatcherOK
  <2> QED BY <2>3, <2>4, <2>5
<1> QED BY <1>1, <1>6, <1>9, <1>10 DEF Inv

LEMMA FailInv ==
    ASSUME Inv, NEW r \in Requests, Fail(r)
    PROVE  Inv'
<1> DEFINE x == [Idle EXCEPT !.pc = "done", !.op = req[r].op]
<1>1. /\ faults < MaxFaults /\ faults' = faults + 1 /\ lost' = lost \cup req[r].tell
      /\ Release(r) /\ UNCHANGED <<tables, streams>>
      /\ UNCHANGED <<header, row, applied, revived, events, messages, watch>>
  BY DEF Fail, tables, streams
<1>2. /\ req \in [Requests -> Request] /\ faults \in 0 .. MaxFaults /\ lost \subseteq Sessions
      /\ req[r] \in Request
  BY DEF Inv, TypeOK
<1>3. req' = [req EXCEPT ![r] = x] /\ x \in Request /\ x.pc = "done" /\ x.tell = {}
  <2>1. x \in Request /\ x.pc = "done" /\ x.tell = {}
    BY <1>2 DEF Idle, Request, Pc
  <2> QED BY <2>1 DEF Fail
<1> HIDE DEF x
<1>4. /\ lock' \in [Sessions -> Requests \cup {None}]
      /\ req' \in [Requests -> Request]
      /\ \A s \in Sessions : lock'[s] # None =>
           /\ req'[lock'[s]].pc \in {"lock", "write"}
           /\ req'[lock'[s]].e.session = s
           /\ LockOK(req'[lock'[s]])
      /\ \A p \in Requests : RequestOK(p, req'[p], lock', row', events')
  BY <1>1, <1>3, DoneKeeps
<1>5. faults' \in 0 .. MaxFaults /\ lost' \subseteq Sessions
  BY <1>1, <1>2, BoundsAssumption DEF Request
<1>6. TypeOK'
  BY <1>1, <1>4, <1>5 DEF Inv, TypeOK
<1>7. ASSUME NEW w \in Watchers, NEW s \in Sessions
      PROVE  WatcherOK(watch'[w], s, Announced(req'), Listed(header', revived'), lost')
  <2>1. WatcherOK(watch[w], s, Announced(req), Listed(header, revived), lost)
    BY DEF Inv
  <2>2. s \in Announced(req) => s \in Announced(req') \cup req[r].tell
    BY <1>3, AnnouncedStep
  <2> QED BY <1>1, <2>1, <2>2, WatcherLater
<1> QED BY <1>1, <1>4, <1>6, <1>7 DEF Inv

LEMMA ExpireInv ==
    ASSUME Inv, NEW s \in Sessions, Expire(s)
    PROVE  Inv'
<1> DEFINE h == [header[s] EXCEPT !.live = FALSE]
<1>1. /\ faults < MaxFaults /\ faults' = faults + 1 /\ header[s] # None
      /\ header' = [header EXCEPT ![s].live = FALSE]
      /\ UNCHANGED <<row, applied, revived, lock, events, messages, req, watch, lost>>
  BY DEF Expire, streams
<1>2. /\ header \in [Sessions -> Header \cup {None}] /\ faults \in 0 .. MaxFaults
      /\ SessionOK(header[s], row[s], applied[s], events)
  BY DEF Inv, TypeOK
<1>3. /\ h \in Header /\ h.live = FALSE /\ h.status = header[s].status
      /\ h.errorCount = header[s].errorCount /\ h.conversations = header[s].conversations
  BY <1>1, <1>2 DEF Header
<1>4. header' = [header EXCEPT ![s] = h]
  BY <1>1, <1>2
<1>5. HeaderOK(h, row[s])
  BY <1>1, <1>2, <1>3, NoneFacts DEF SessionOK, HeaderOK
<1> HIDE DEF h
<1>6. header' \in [Sessions -> Header \cup {None}] /\ header'[s] = h
      /\ \A p \in Sessions \ {s} : header'[p] = header[p]
  BY <1>2, <1>3, <1>4
<1>7. faults' \in 0 .. MaxFaults
  BY <1>1, <1>2, BoundsAssumption
<1>8. TypeOK'
  BY <1>1, <1>6, <1>7 DEF Inv, TypeOK
<1>9. ASSUME NEW p \in Sessions
      PROVE  SessionOK(header'[p], row'[p], applied'[p], events')
  <2>1. CASE p = s
    BY <1>1, <1>2, <1>5, <1>6, <2>1 DEF SessionOK
  <2>2. CASE p # s
    BY <1>1, <1>6, <2>2 DEF Inv
  <2> QED BY <2>1, <2>2
<1>10. ASSUME NEW w \in Watchers, NEW p \in Sessions
       PROVE  WatcherOK(watch'[w], p, Announced(req'), Listed(header', revived'), lost')
  <2>1. WatcherOK(watch[w], p, Announced(req), Listed(header, revived), lost)
    BY DEF Inv
  <2>2. p \in Listed(header', revived') => p \in Listed(header, revived)
    BY <1>1, <1>3, <1>6 DEF Listed
  <2> QED BY <1>1, <2>1, <2>2, WatcherLater
<1> QED BY <1>1, <1>8, <1>9, <1>10 DEF Inv

\* A step of one watcher.
LEMMA WatchInv ==
    ASSUME Inv, NEW w \in Watchers, NEW x \in Watch, watch' = [watch EXCEPT ![w] = x],
           UNCHANGED <<tables, lock, streams, req>>, faults' \in 0 .. MaxFaults,
           lost \subseteq lost', lost' \subseteq Sessions,
           \A s \in Sessions : WatcherOK(x, s, Announced(req), Listed(header, revived), lost')
    PROVE  Inv'
<1>1. UNCHANGED <<header, row, applied, revived, lock, events, messages, req>>
  BY DEF tables, streams
<1>2. /\ watch' \in [Watchers -> Watch] /\ watch'[w] = x
      /\ \A v \in Watchers \ {w} : watch'[v] = watch[v]
  BY DEF Inv, TypeOK
<1>3. TypeOK'
  BY <1>1, <1>2 DEF Inv, TypeOK
<1>4. ASSUME NEW v \in Watchers, NEW s \in Sessions
      PROVE  WatcherOK(watch'[v], s, Announced(req'), Listed(header', revived'), lost')
  <2>1. CASE v = w
    BY <1>1, <1>2, <2>1
  <2>2. CASE v # w
    <3>1. WatcherOK(watch[v], s, Announced(req), Listed(header, revived), lost)
      BY DEF Inv
    <3> QED BY <1>1, <1>2, <2>2, <3>1, WatcherLater
  <2> QED BY <2>1, <2>2
<1> QED BY <1>1, <1>3, <1>4 DEF Inv

LEMMA SubscribeInv ==
    ASSUME Inv, NEW w \in Watchers, Subscribe(w) \/ CatchUp(w) \/ Disconnect(w)
    PROVE  Inv'
<1>1. /\ watch \in [Watchers -> Watch] /\ watch[w] \in Watch
      /\ UNCHANGED <<tables, lock, streams, req, faults, lost>>
      /\ faults' \in 0 .. MaxFaults /\ lost \subseteq lost' /\ lost' \subseteq Sessions
  BY DEF Subscribe, CatchUp, Disconnect, Inv, TypeOK
<1>2. \A s \in Sessions : WatcherOK(watch[w], s, Announced(req), Listed(header, revived), lost')
  BY <1>1 DEF Inv
<1>3. CASE Subscribe(w)
  <2> DEFINE x == [watch[w] EXCEPT !.phase = "subscribed"]
  <2>1. /\ x \in Watch /\ x.phase = "subscribed" /\ x.reads = watch[w].reads
        /\ x.mixed = watch[w].mixed /\ x.buffered = watch[w].buffered
    BY <1>1 DEF Watch
  <2>2. watch' = [watch EXCEPT ![w] = x] /\ watch[w].phase = "off"
    BY <1>1, <1>3 DEF Subscribe
  <2> HIDE DEF x
  <2>3. \A s \in Sessions : WatcherOK(x, s, Announced(req), Listed(header, revived), lost')
    BY <1>2, <2>1, <2>2 DEF WatcherOK, OneRead, Informed
  <2> QED BY <1>1, <2>1, <2>2, <2>3, WatchInv
<1>4. CASE CatchUp(w)
  <2> DEFINE x == [watch[w] EXCEPT !.phase = "live"]
  <2>1. /\ x \in Watch /\ x.phase = "live" /\ x.reads = watch[w].reads /\ x.seen = watch[w].seen
        /\ x.last = watch[w].last /\ x.mixed = watch[w].mixed
    BY <1>1 DEF Watch
  <2>2. watch' = [watch EXCEPT ![w] = x] /\ watch[w].phase = "fetched"
    BY <1>1, <1>4 DEF CatchUp
  <2> HIDE DEF x
  <2>3. \A s \in Sessions : WatcherOK(x, s, Announced(req), Listed(header, revived), lost')
    BY <1>2, <2>1, <2>2 DEF WatcherOK, OneRead, Fresh, Informed
  <2> QED BY <1>1, <2>1, <2>2, <2>3, WatchInv
<1>5. CASE Disconnect(w)
  <2>1. Off \in Watch
    BY DEF Off, Watch
  <2>2. \A s \in Sessions : WatcherOK(Off, s, Announced(req), Listed(header, revived), lost')
    BY DEF Off, WatcherOK, OneRead, Informed
  <2> QED BY <1>1, <1>5, <2>1, <2>2, WatchInv DEF Disconnect
<1> QED BY <1>3, <1>4, <1>5

LEMMA GetAllInv ==
    ASSUME Inv, NEW w \in Watchers, getAll(w)
    PROVE  Inv'
<1> DEFINE found == {s \in Sessions : Visible(s)}
           x == [watch[w] EXCEPT !.phase = "fetched", !.buffered = {}, !.seen = @ \cup found,
                                 !.last = @ \cup (found \ watch[w].buffered)]
<1>1. /\ watch \in [Watchers -> Watch] /\ watch[w] \in Watch /\ watch[w].phase = "subscribed"
      /\ UNCHANGED <<tables, lock, streams, req, faults, lost>>
      /\ faults' \in 0 .. MaxFaults /\ lost \subseteq lost' /\ lost' \subseteq Sessions
  BY DEF getAll, Inv, TypeOK
<1>2. \A s \in Sessions : WatcherOK(watch[w], s, Announced(req), Listed(header, revived), lost')
  BY <1>1 DEF Inv
<1>3. watch' = [watch EXCEPT ![w] = x]
  BY <1>1 DEF getAll
<1>4. /\ x \in Watch /\ x.phase = "fetched" /\ x.reads = watch[w].reads /\ x.mixed = watch[w].mixed
      /\ x.seen = watch[w].seen \cup found
      /\ x.last = watch[w].last \cup (found \ watch[w].buffered)
  BY <1>1 DEF Watch
<1>5. \A s \in Sessions : s \in Listed(header, revived) => s \in found
  BY DEF Listed, Visible
<1> HIDE DEF x, found
<1>6. ASSUME NEW s \in Sessions
      PROVE  WatcherOK(x, s, Announced(req), Listed(header, revived), lost')
  <2>1. OneRead(x, s) /\ (Fresh(x, s) <=> Fresh(watch[w], s))
    BY <1>2, <1>4 DEF WatcherOK, OneRead, Fresh, Informed
  <2> QED BY <1>1, <1>2, <1>4, <1>5, <2>1 DEF WatcherOK, Informed
<1> QED BY <1>1, <1>3, <1>4, <1>6, WatchInv

LEMMA GetSessionInv ==
    ASSUME Inv, NEW w \in Watchers, NEW d, getSession(w, d)
    PROVE  Inv'
<1> DEFINE c == [d EXCEPT !.got = "new"]
           answer == IF Visible(d.session) THEN {c} ELSE {}
           x == [watch[w] EXCEPT !.reads = (@ \ {d}) \cup answer]
<1>1. /\ watch \in [Watchers -> Watch] /\ watch[w] \in Watch
      /\ d \in watch[w].reads /\ d.got = "asked"
      /\ UNCHANGED <<tables, lock, streams, req, faults, lost>>
      /\ faults' \in 0 .. MaxFaults /\ lost \subseteq lost' /\ lost' \subseteq Sessions
  BY DEF getSession, Inv, TypeOK
<1>2. d \in Read
  BY <1>1 DEF Watch
<1>3. \A s \in Sessions : WatcherOK(watch[w], s, Announced(req), Listed(header, revived), lost')
  BY <1>1 DEF Inv
<1>4. watch' = [watch EXCEPT ![w] = x]
  BY <1>1 DEF getSession
<1>5. c \in Read /\ c.session = d.session /\ c.got = "new"
  BY <1>2 DEF Read
<1> HIDE DEF c
<1>6. /\ x \in Watch /\ x.phase = watch[w].phase /\ x.reads = (watch[w].reads \ {d}) \cup answer
      /\ x.mixed = watch[w].mixed /\ x.seen = watch[w].seen /\ x.last = watch[w].last
      /\ x.buffered = watch[w].buffered
  <2>1. answer \subseteq Read
    BY <1>5
  <2> HIDE DEF answer
  <2> QED BY <1>1, <2>1 DEF Watch
<1> HIDE DEF x
<1>7. ASSUME NEW s \in Sessions
      PROVE  WatcherOK(x, s, Announced(req), Listed(header, revived), lost')
  <2>1. CASE s # d.session
    <3>1. \A e : e \in x.reads /\ e.session = s <=> e \in watch[w].reads /\ e.session = s
      BY <1>5, <1>6, <2>1
    <3>2. OneRead(x, s) /\ (Fresh(x, s) <=> Fresh(watch[w], s))
      BY <1>3, <1>6, <3>1 DEF WatcherOK, OneRead, Fresh, Informed
    <3> QED BY <1>1, <1>3, <1>6, <3>1, <3>2 DEF WatcherOK, Informed
  <2>2. CASE s = d.session
    <3>1. OneRead(x, s)
      <4>1. s \notin x.mixed => \A e \in watch[w].reads : e.session = s => e = d
        BY <1>1, <1>3, <1>6, <2>2 DEF WatcherOK, OneRead
      <4>2. s \notin x.mixed => \A e \in x.reads : e.session = s => e = c
        BY <1>6, <4>1
      <4> QED BY <4>2 DEF OneRead
    <3>2. \A e \in x.reads : e.got = "old" => e \in watch[w].reads
      BY <1>5, <1>6
    <3>3. s \in Listed(header, revived) => Fresh(x, s)
      BY <1>5, <1>6, <2>2 DEF Listed, Visible, Fresh
    <3>4. x.phase # "off"
      BY <1>1, <1>3, <1>6 DEF WatcherOK
    <3> QED BY <1>3, <1>6, <3>1, <3>2, <3>3, <3>4 DEF WatcherOK
  <2> QED BY <2>1, <2>2
<1> QED BY <1>1, <1>4, <1>6, <1>7, WatchInv

LEMMA ShowInv ==
    ASSUME Inv, NEW w \in Watchers, NEW d, Show(w, d)
    PROVE  Inv'
<1> DEFINE S == {d.session}
           x == [watch[w] EXCEPT !.reads = @ \ {d},
                   !.seen = IF d.got = "new" THEN @ \cup S ELSE @,
                   !.last = IF d.got = "new" THEN @ \cup S ELSE @ \ S,
                   !.buffered = IF watch[w].phase = "subscribed" THEN @ \cup S ELSE @]
<1>1. /\ watch \in [Watchers -> Watch] /\ watch[w] \in Watch
      /\ d \in watch[w].reads /\ d.got # "asked"
      /\ UNCHANGED <<tables, lock, streams, req, faults, lost>>
      /\ faults' \in 0 .. MaxFaults /\ lost \subseteq lost' /\ lost' \subseteq Sessions
  BY DEF Show, Inv, TypeOK
<1>2. d \in Read /\ d.got \in {"new", "old"}
  BY <1>1 DEF Watch, Read
<1>3. \A s \in Sessions : WatcherOK(watch[w], s, Announced(req), Listed(header, revived), lost')
  BY <1>1 DEF Inv
<1>4. watch' = [watch EXCEPT ![w] = x]
  BY <1>1 DEF Show
<1>5. /\ x \in Watch /\ x.phase = watch[w].phase /\ x.reads = watch[w].reads \ {d}
      /\ x.mixed = watch[w].mixed
      /\ x.seen = IF d.got = "new" THEN watch[w].seen \cup S ELSE watch[w].seen
      /\ x.last = IF d.got = "new" THEN watch[w].last \cup S ELSE watch[w].last \ S
      /\ x.buffered = IF watch[w].phase = "subscribed" THEN watch[w].buffered \cup S
                      ELSE watch[w].buffered
  <2>1. S \subseteq Sessions
    BY <1>2 DEF Read
  <2> HIDE DEF S
  <2> QED BY <1>1, <2>1 DEF Watch
<1> HIDE DEF x
<1>6. ASSUME NEW s \in Sessions
      PROVE  WatcherOK(x, s, Announced(req), Listed(header, revived), lost')
  <2>1. OneRead(x, s)
    BY <1>3, <1>5 DEF WatcherOK, OneRead
  <2>2. x.phase # "off"
    BY <1>1, <1>3, <1>5 DEF WatcherOK
  <2>3. \A e \in x.reads : e \in watch[w].reads
    BY <1>5
  <2>4. CASE s # d.session
    <3>1. Fresh(watch[w], s) => Fresh(x, s)
      BY <1>5, <2>4 DEF Fresh
    <3>2. /\ s \in x.seen <=> s \in watch[w].seen
          /\ s \in x.last <=> s \in watch[w].last
          /\ s \in x.buffered <=> s \in watch[w].buffered
      BY <1>5, <2>4
    <3> QED BY <1>3, <1>5, <2>1, <2>2, <2>3, <3>1, <3>2 DEF WatcherOK, Informed
  <2>5. CASE s = d.session /\ d.got = "new"
    <3>1. s \in x.seen /\ s \in x.last
      BY <1>5, <2>5
    <3> QED BY <1>3, <1>5, <2>1, <2>2, <2>3, <3>1 DEF WatcherOK, Informed
  <2>6. CASE s = d.session /\ d.got = "old"
    <3>1. Fresh(watch[w], s) => Fresh(x, s)
      BY <1>5, <2>6 DEF Fresh
    <3>2. s \notin x.mixed \cup lost' => s \in Announced(req)
      BY <1>1, <1>3, <1>5, <2>6 DEF WatcherOK
    <3>3. x.seen = watch[w].seen
      BY <1>5, <2>6
    <3> QED BY <1>3, <1>5, <2>1, <2>2, <2>3, <3>1, <3>2, <3>3 DEF WatcherOK, Informed
  <2> QED BY <1>2, <2>4, <2>5, <2>6
<1> QED BY <1>1, <1>4, <1>5, <1>6, WatchInv

LEMMA ReadFailsInv ==
    ASSUME Inv, NEW w \in Watchers, NEW d, ReadFails(w, d)
    PROVE  Inv'
<1> DEFINE x == [watch[w] EXCEPT !.reads = @ \ {d}]
<1>1. /\ watch \in [Watchers -> Watch] /\ watch[w] \in Watch /\ d \in watch[w].reads
      /\ UNCHANGED <<tables, lock, streams, req>> /\ lost' = lost \cup {d.session}
      /\ faults < MaxFaults /\ faults' = faults + 1 /\ faults \in 0 .. MaxFaults
      /\ lost \subseteq Sessions
  BY DEF ReadFails, Inv, TypeOK
<1>2. faults' \in 0 .. MaxFaults /\ lost \subseteq lost' /\ lost' \subseteq Sessions
  BY <1>1, BoundsAssumption DEF Watch, Read
<1>3. \A s \in Sessions : WatcherOK(watch[w], s, Announced(req), Listed(header, revived), lost)
  BY DEF Inv
<1>4. watch' = [watch EXCEPT ![w] = x]
  BY <1>1 DEF ReadFails
<1>5. /\ x \in Watch /\ x.phase = watch[w].phase /\ x.reads = watch[w].reads \ {d}
      /\ x.mixed = watch[w].mixed /\ x.seen = watch[w].seen /\ x.last = watch[w].last
      /\ x.buffered = watch[w].buffered
  BY <1>1 DEF Watch
<1> HIDE DEF x
<1>6. ASSUME NEW s \in Sessions
      PROVE  WatcherOK(x, s, Announced(req), Listed(header, revived), lost')
  <2>1. OneRead(x, s)
    BY <1>3, <1>5 DEF WatcherOK, OneRead
  <2>2. x.phase # "off"
    BY <1>1, <1>3, <1>5 DEF WatcherOK
  <2>3. CASE s \in lost'
    BY <2>1, <2>2, <2>3 DEF WatcherOK
  <2>4. CASE s \notin lost'
    <3>1. s # d.session /\ s \notin lost
      BY <1>1, <2>4
    <3>2. Fresh(watch[w], s) => Fresh(x, s)
      BY <1>5, <3>1 DEF Fresh
    <3> QED BY <1>3, <1>5, <2>1, <2>2, <3>1, <3>2 DEF WatcherOK, Informed
  <2> QED BY <2>3, <2>4
<1> QED BY <1>1, <1>2, <1>4, <1>5, <1>6, WatchInv

LEMMA InitInv == ASSUME Init PROVE Inv
<1>1. /\ header \in [Sessions -> Header \cup {None}] /\ row \in [Sessions -> Rows]
      /\ lock \in [Sessions -> Requests \cup {None}]
      /\ events \in Seq(Event) /\ Len(events) = 0 /\ messages \in 0 .. MaxSeq
      /\ faults \in 0 .. MaxFaults /\ lost \subseteq Sessions /\ revived \subseteq Sessions
      /\ applied \in [Sessions -> [Queries -> SUBSET (1 .. MaxSeq)]]
  BY EmptyRows, MaxSeqAssumption, BoundsAssumption DEF Init
<1>2. Idle \in Request /\ Idle.pc = "idle" /\ Off \in Watch /\ Off.phase = "off"
  BY DEF Idle, Request, Pc, Op, Off, Watch
<1>3. req \in [Requests -> Request] /\ watch \in [Watchers -> Watch]
  BY <1>2 DEF Init
<1>4. TypeOK
  BY <1>1, <1>3, MaxSeqAssumption DEF TypeOK, Init
<1>5. ASSUME NEW s \in Sessions
      PROVE  SessionOK(header[s], row[s], applied[s], events)
  <2>1. header[s] = None /\ row[s] = NoRows /\ applied[s] = [q \in Queries |-> {}]
    BY DEF Init
  <2>2. \A q \in Queries : NoRows[q] = None
    BY DEF NoRows
  <2> QED BY <2>1, <2>2, EmptyRows DEF SessionOK, RowOK
<1>6. ASSUME NEW r \in Requests
      PROVE  RequestOK(r, req[r], lock, row, events)
  BY <1>2 DEF Init, RequestOK, Idle
<1>7. ASSUME NEW w \in Watchers, NEW s \in Sessions
      PROVE  WatcherOK(watch[w], s, Announced(req), Listed(header, revived), lost)
  BY DEF Init, WatcherOK, OneRead, Off, Informed
<1> QED BY <1>1, <1>4, <1>5, <1>6, <1>7 DEF Inv, Init

LEMMA StutterInv == ASSUME Inv, UNCHANGED vars PROVE Inv'
<1>1. UNCHANGED <<header, row, applied, revived, lock, events, messages, req, watch, faults, lost>>
  BY DEF vars, tables, streams
<1>2. TypeOK'
  BY <1>1 DEF Inv, TypeOK
<1>3. ASSUME NEW w \in Watchers, NEW s \in Sessions
      PROVE  WatcherOK(watch'[w], s, Announced(req'), Listed(header', revived'), lost')
  BY <1>1 DEF Inv
<1> QED BY <1>1, <1>2, <1>3 DEF Inv

LEMMA StepInv == ASSUME Inv, Next PROVE Inv'
<1>1. ASSUME NEW r \in Requests, Call(r) PROVE Inv'
  BY <1>1, PostEventInv, PostMessageInv, DeleteQueryInv, DeleteInv DEF Call
<1>2. ASSUME NEW r \in Requests, Statement(r) PROVE Inv'
  BY <1>2, ProbeMessageInv, ProbeDeleteInv, InsertHeaderInv, LockForEventInv, LockForMessageInv,
     LockForDeleteInv, WriteEventInv, WriteMessageInv, WriteDeleteInv, NotifyInv DEF Statement
<1>3. ASSUME NEW r \in Requests, Fail(r) PROVE Inv'
  BY <1>3, FailInv
<1>4. ASSUME NEW s \in Sessions, Expire(s) PROVE Inv'
  BY <1>4, ExpireInv
<1>5. ASSUME NEW w \in Watchers, Subscribe(w) \/ getAll(w) \/ CatchUp(w) \/ Disconnect(w)
      PROVE  Inv'
  BY <1>5, SubscribeInv, GetAllInv
<1>6. ASSUME NEW w \in Watchers, NEW d, getSession(w, d) \/ Show(w, d) \/ ReadFails(w, d)
      PROVE  Inv'
  BY <1>6, GetSessionInv, ShowInv, ReadFailsInv
<1> QED BY <1>1, <1>2, <1>3, <1>4, <1>5, <1>6 DEF Next

-----------------------------------------------------------------------------
(* The refinement: what each statement does to the abstract store *)

\* The operators of the instance are those of the aggregate.
LEMMA SameAggregate ==
    /\ Store!NoRows = NoRows
    /\ Store!Event = Event
    /\ \A rows : Store!Now(rows) = Now(rows)
    /\ \A r, e : Store!Redundant(r, e) = Redundant(r, e)
    /\ \A r, c, e, n : Store!RowAfterEvent(r, c, e, n) = RowAfterEvent(r, c, e, n)
    /\ \A r, n : Store!RowAfterMessage(r, n) = RowAfterMessage(r, n)
    /\ \A rows, live : Store!recalculateSessionStatus(rows, live) = recalculateSessionStatus(rows, live)
    /\ \A h, rows, live : Store!recalculateSessionConversations(h, rows, live)
                            = recalculateSessionConversations(h, rows, live)
<1>1. Store!NoRows = NoRows
  BY Zenon DEF NoRows, Store!NoRows
<1>2. Store!Event = Event
  BY Zenon DEF Event, Store!Event, Kinds, Store!Kinds
<1>3. \A rows : Store!Present(rows) = Present(rows)
  BY Zenon DEF Present, Store!Present
<1>4. \A rows : Store!Now(rows) = Now(rows)
  BY <1>3, Zenon DEF Now, Store!Now
<1>5. \A k : Store!isTerminalPhase(k) = isTerminalPhase(k)
  BY Zenon DEF isTerminalPhase, Store!isTerminalPhase
<1>6. \A p, k : Store!PhaseAfter(p, k) = PhaseAfter(p, k)
  BY Zenon DEF PhaseAfter, Store!PhaseAfter
<1>7. \A r, e : /\ Store!Stale(r, e) = Stale(r, e)
                /\ Store!PhaseStale(r, e) = PhaseStale(r, e)
                /\ Store!mergeQueryMetadata(r, e) = mergeQueryMetadata(r, e)
  BY Zenon DEF Stale, Store!Stale, PhaseStale, Store!PhaseStale, mergeQueryMetadata,
     Store!mergeQueryMetadata
<1>8. \A r, e : Store!Redundant(r, e) = Redundant(r, e)
  BY <1>5, <1>7, Zenon DEF Redundant, Store!Redundant
<1>9. \A r, k, n, t : Store!applyQueryPhase(r, k, n, t) = applyQueryPhase(r, k, n, t)
  BY <1>6, Zenon DEF applyQueryPhase, Store!applyQueryPhase
<1>10. \A r, e, n : Store!EntryAfter(r, e, n) = EntryAfter(r, e, n)
  BY <1>5, <1>7, <1>9, Zenon DEF EntryAfter, Store!EntryAfter
<1>11. /\ \A e, n : Store!buildQueryEntry(e, n) = buildQueryEntry(e, n)
       /\ \A e : Store!DecidedBy(e) = DecidedBy(e)
       /\ \A a, b : Store!Larger(a, b) = Larger(a, b)
  BY <1>5, Zenon DEF buildQueryEntry, Store!buildQueryEntry, DecidedBy, Store!DecidedBy,
     Larger, Store!Larger
<1>12. \A r, c, e, n : Store!RowAfterEvent(r, c, e, n) = RowAfterEvent(r, c, e, n)
  <2> TAKE r, c, e, n
  <2> DEFINE entry == IF r = None THEN buildQueryEntry(e, n)
                      ELSE EntryAfter(mergeQueryMetadata(r, e), e, n)
             there == IF c = None THEN [seen |-> 0, decided |-> 0, told |-> 0] ELSE c
             next  == [entry EXCEPT !.seen = Larger(there.seen, e.seq),
                         !.decided = Larger(there.decided, DecidedBy(e)), !.told = there.told]
  <2>1. RowAfterEvent(r, c, e, n) = next
    BY Zenon DEF RowAfterEvent
  <2>2. Store!mergeQueryMetadata(r, e) = mergeQueryMetadata(r, e)
    BY <1>7
  <2>3. entry = IF r = None THEN Store!buildQueryEntry(e, n)
                ELSE Store!EntryAfter(Store!mergeQueryMetadata(r, e), e, n)
    BY <1>10, <1>11, <2>2
  <2>4. /\ Larger(there.seen, e.seq) = Store!Larger(there.seen, e.seq)
        /\ Larger(there.decided, DecidedBy(e)) = Store!Larger(there.decided, Store!DecidedBy(e))
    BY <1>11
  <2> QED BY <2>1, <2>3, <2>4 DEF Store!RowAfterEvent
<1>13. \A r, n : Store!RowAfterMessage(r, n) = RowAfterMessage(r, n)
  BY Zenon DEF RowAfterMessage, Store!RowAfterMessage
<1>14. /\ \A rows : Store!Conversations(rows) = Conversations(rows)
       /\ \A rows : Store!Status(rows) = Status(rows)
  BY <1>3, Zenon DEF Conversations, Store!Conversations, Status, Store!Status
<1>15. \A T : Store!Cardinality(T) = Cardinality(T)
  BY Zenon DEF Cardinality, Store!Cardinality
<1>16. \A rows : Store!ErrorCount(rows) = ErrorCount(rows)
  BY <1>3, <1>15, Zenon DEF ErrorCount, Store!ErrorCount
<1>17. \A rows, live : Store!recalculateSessionStatus(rows, live) = recalculateSessionStatus(rows, live)
  BY <1>14, <1>16, Zenon DEF recalculateSessionStatus, Store!recalculateSessionStatus
<1>18. \A h, rows, live : Store!recalculateSessionConversations(h, rows, live)
                            = recalculateSessionConversations(h, rows, live)
  BY <1>14, Zenon DEF recalculateSessionConversations, Store!recalculateSessionConversations
<1> QED BY <1>1, <1>2, <1>4, <1>8, <1>12, <1>13, <1>17, <1>18

\* A store whose session s has the header h and the rows.
LEMMA StoredChange ==
    ASSUME Inv, NEW s \in Sessions, NEW h, NEW rows,
           header' = [header EXCEPT ![s] = h], row' = [row EXCEPT ![s] = rows]
    PROVE  Stored' = [Stored EXCEPT ![s] = IF h = None THEN None ELSE [header |-> h, rows |-> rows]]
<1>1. header \in [Sessions -> Header \cup {None}] /\ row \in [Sessions -> Rows]
  BY DEF Inv, TypeOK
<1>2. /\ header'[s] = h /\ row'[s] = rows
      /\ \A p \in Sessions \ {s} : header'[p] = header[p] /\ row'[p] = row[p]
  BY <1>1
<1> QED BY <1>2 DEF Stored

LEMMA StoredFacts ==
    ASSUME Inv, NEW s \in Sessions
    PROVE  /\ Store!RowsOf(s) = row[s]
           /\ (Stored[s] = None) = (header[s] = None)
           /\ (header[s] = None) = (row[s] = NoRows)
           /\ header[s] # None => Stored[s] = [header |-> header[s], rows |-> row[s]]
<1>1. /\ header[s] \in Header \cup {None} /\ row[s] \in Rows
      /\ SessionOK(header[s], row[s], applied[s], events)
  BY DEF Inv, TypeOK
<1>2. (header[s] = None) = (row[s] = NoRows)
  BY <1>1, EmptyRows DEF SessionOK
<1>3. /\ header[s] = None => Stored[s] = None
      /\ header[s] # None => Stored[s] = [header |-> header[s], rows |-> row[s]] /\ Stored[s] # None
  BY <1>1, NoneFacts DEF Stored
<1>4. Store!RowsOf(s) = IF Stored[s] = None THEN NoRows ELSE Stored[s].rows
  BY SameAggregate, Zenon DEF Store!RowsOf
<1> QED BY <1>2, <1>3, <1>4

LEMMA WriteEventStep ==
    ASSUME Inv, NEW r \in Requests, WriteEvent(r)
    PROVE  UNCHANGED <<header, row>> \/ Store!Next
<1> DEFINE e == req[r].e
           s == e.session
           q == e.query
           old == row[s][q]
           new == RowAfterEvent(old, old, e, Now(row[s]))
           rows == [row[s] EXCEPT ![q] = new]
           h == recalculateSessionStatus(rows, TRUE)
<1>1. req[r].pc = "write" /\ req[r].op = "event"
  BY DEF WriteEvent
<1>2. e \in Event /\ req[r].old = old
  BY <1>1 DEF Inv, RequestOK
<1>3. s \in Sessions /\ q \in Queries /\ row[s] \in Rows /\ old \in Row \cup {None}
  BY <1>1, AboutToWrite
<1>4. CASE old # None /\ Redundant(old, e)
  BY <1>2, <1>4 DEF WriteEvent
<1>5. CASE ~(old # None /\ Redundant(old, e))
  <2>1. row' = [row EXCEPT ![s] = rows] /\ header' = [header EXCEPT ![s] = h]
    BY <1>2, <1>5 DEF WriteEvent
  <2>2. new \in Row
    <3>1. Now(row[s]) \in Nat
      BY <1>3, NowType
    <3> QED BY <1>2, <1>3, <3>1, RowEvent
  <2> HIDE DEF new
  <2>3. rows \in Rows /\ rows # NoRows
    BY <1>3, <2>2, NoneFacts DEF Rows, NoRows
  <2>4. h \in Header
    BY <2>3, StatusAgrees
  <2> HIDE DEF rows, h
  <2>5. Stored' = [Stored EXCEPT ![s] = [header |-> h, rows |-> rows]]
    BY <1>3, <2>1, <2>4, StoredChange, NoneFacts
  <2>6. Store!RowsOf(s) = row[s]
    BY <1>3, StoredFacts
  <2>7. new = Store!RowAfterEvent(old, old, e, Store!Now(row[s])) /\ (Store!Redundant(old, e) = Redundant(old, e))
    BY SameAggregate DEF new
  <2>8. Store!WithRows(rows, TRUE) = [header |-> h, rows |-> rows]
    BY <2>3, SameAggregate, Zenon DEF Store!WithRows, h
  <2>9. Store!applyEvent(e)
    <3>1. rows = [Store!RowsOf(s) EXCEPT ![q] = Store!RowAfterEvent(old, old, e, Store!Now(Store!RowsOf(s)))]
      BY <2>6, <2>7 DEF rows
    <3>2. Store!RowsOf(s)[q] = old
      BY <2>6
    <3>3. old = None \/ ~Store!Redundant(old, e)
      BY <1>5, <2>7
    <3>4. Stored' = [Stored EXCEPT ![s] = Store!WithRows(rows, TRUE)]
      BY <2>5, <2>8
    <3> HIDE DEF old
    <3> QED BY <3>1, <3>2, <3>3, <3>4, Zenon DEF Store!applyEvent, s, q
  <2> HIDE DEF e
  <2> QED BY <1>2, <2>9, SameAggregate DEF Store!Next
<1> QED BY <1>4, <1>5

LEMMA WriteMessageStep ==
    ASSUME Inv, NEW r \in Requests, WriteMessage(r)
    PROVE  UNCHANGED <<header, row>> \/ Store!Next
<1> DEFINE e == req[r].e
           s == e.session
           q == e.query
           old == row[s][q]
           new == RowAfterMessage(old, e.seq)
           rows == [row[s] EXCEPT ![q] = new]
           h == recalculateSessionConversations(header[s], rows, TRUE)
<1>1. req[r].pc = "write" /\ req[r].op = "message"
  BY DEF WriteMessage
<1>2. req[r].old = old /\ e.seq \in 0 .. MaxSeq
  BY <1>1 DEF Inv, RequestOK, Target
<1>3. /\ s \in Sessions /\ q \in Queries /\ row[s] \in Rows /\ old \in Row \cup {None}
      /\ header[s] \in Header \cup {None}
  BY <1>1, AboutToWrite
<1>4. CASE old = None \/ (old # None /\ e.seq <= old.told)
  BY <1>2, <1>4 DEF WriteMessage
<1>5. CASE ~(old = None \/ (old # None /\ e.seq <= old.told))
  <2>1. row' = [row EXCEPT ![s] = rows] /\ header' = [header EXCEPT ![s] = h]
    BY <1>2, <1>3, <1>5 DEF WriteMessage, Inv, TypeOK
  <2>2. e.seq > old.told
    BY <1>2, <1>3, <1>5, MaxSeqAssumption DEF Row
  <2>3. header[s] \in Header
    <3>1. row[s] # NoRows
      BY <1>3, <1>5 DEF NoRows
    <3> QED BY <1>3, <3>1, StoredFacts
  <2>4. h \in Header
    BY <2>3 DEF recalculateSessionConversations, Header, Conversations, Present
  <2> HIDE DEF rows, h
  <2>5. Stored' = [Stored EXCEPT ![s] = [header |-> h, rows |-> rows]]
    BY <1>3, <2>1, <2>4, StoredChange, NoneFacts
  <2>6. /\ Store!RowsOf(s) = row[s] /\ Stored[s].header = header[s]
    <3>1. header[s] # None
      BY <2>3, NoneFacts
    <3> HIDE DEF s
    <3>2. Store!RowsOf(s) = row[s] /\ Stored[s] = [header |-> header[s], rows |-> row[s]]
      BY <1>3, <3>1, StoredFacts
    <3> QED BY <3>2
  <2>7. rows = [Store!RowsOf(s) EXCEPT ![q] = Store!RowAfterMessage(old, e.seq)]
    BY <2>6, SameAggregate DEF rows
  <2>8. h = Store!recalculateSessionConversations(Stored[s].header, rows, TRUE)
    BY <2>6, SameAggregate DEF h
  <2>9. Store!applyMessage(s, q, e.seq)
    <3>1. Store!RowsOf(s)[q] = old
      BY <2>6
    <3>2. Stored' = [Stored EXCEPT ![s] =
            [header |-> Store!recalculateSessionConversations(@.header, rows, TRUE), rows |-> rows]]
      BY <2>5, <2>8
    <3> HIDE DEF old
    <3> QED BY <1>5, <2>2, <2>7, <3>1, <3>2, Zenon DEF Store!applyMessage
  <2> HIDE DEF s, q, e
  <2> QED BY <1>2, <1>3, <2>9, Zenon DEF Store!Next
<1> QED BY <1>4, <1>5

LEMMA WriteDeleteStep ==
    ASSUME Inv, NEW r \in Requests, WriteDelete(r)
    PROVE  UNCHANGED <<header, row>> \/ Store!Next
<1> DEFINE e == req[r].e
           s == e.session
           q == e.query
           rows == [row[s] EXCEPT ![q] = None]
           h == HeaderAfterDelete(s, rows)
<1>1. req[r].pc = "write" /\ req[r].op = "deleteQuery"
  BY DEF WriteDelete
<1>2. /\ s \in Sessions /\ q \in Queries /\ row[s] \in Rows /\ header[s] \in Header \cup {None}
  BY <1>1, AboutToWrite
<1>3. CASE row[s][q] = None
  BY <1>3 DEF WriteDelete
<1>4. CASE row[s][q] # None
  <2>1. row' = [row EXCEPT ![s] = rows] /\ header' = [header EXCEPT ![s] = h]
    BY <1>4 DEF WriteDelete
  <2>2. header[s] \in Header
    <3>1. row[s] # NoRows
      BY <1>2, <1>4 DEF NoRows
    <3> QED BY <1>2, <3>1, StoredFacts
  <2>3. rows \in Rows /\ header[s].live \in BOOLEAN
    BY <1>2, <2>2 DEF Rows, Header
  <2>4. rows = NoRows => h = None
    BY DEF HeaderAfterDelete
  <2>5. rows # NoRows => h = recalculateSessionStatus(rows, header[s].live)
    BY DEF HeaderAfterDelete
  <2> HIDE DEF h, rows
  <2>6. rows # NoRows => h \in Header
    BY <2>3, <2>5, StatusAgrees
  <2>7. Store!RowsOf(s) = row[s] /\ Stored[s].header = header[s] /\ Stored[s].rows = row[s]
    <3>1. header[s] # None
      BY <2>2, NoneFacts
    <3> HIDE DEF s
    <3>2. Store!RowsOf(s) = row[s] /\ Stored[s] = [header |-> header[s], rows |-> row[s]]
      BY <1>2, <3>1, StoredFacts
    <3> QED BY <3>2
  <2>8. (IF h = None THEN None ELSE [header |-> h, rows |-> rows])
          = Store!WithRows(rows, header[s].live)
    <3>1. CASE rows = NoRows
      BY <2>4, <3>1, SameAggregate, Zenon DEF Store!WithRows
    <3>2. CASE rows # NoRows
      <4>1. h # None
        BY <2>6, <3>2, NoneFacts
      <4> QED BY <2>5, <3>2, <4>1, SameAggregate, Zenon DEF Store!WithRows
    <3> QED BY <3>1, <3>2
  <2>9. Stored' = [Stored EXCEPT ![s] = Store!WithRows(rows, header[s].live)]
    <3> HIDE DEF s
    <3>1. Stored' = [Stored EXCEPT ![s] = IF h = None THEN None ELSE [header |-> h, rows |-> rows]]
      BY <1>2, <2>1, StoredChange
    <3> QED BY <2>8, <3>1
  <2>10. Store!deleteQuery(s, q)
    <3>1. Store!RowsOf(s)[q] # None
      BY <1>4, <2>7
    <3>2. rows = [Stored[s].rows EXCEPT ![q] = None]
      BY <2>7 DEF rows
    <3>3. Stored' = [Stored EXCEPT ![s] = Store!WithRows([@.rows EXCEPT ![q] = None], @.header.live)]
      BY <2>7, <2>9, <3>2
    <3> QED BY <3>1, <3>3, Zenon DEF Store!deleteQuery
  <2> HIDE DEF s, q, e
  <2> QED BY <1>2, <2>10, Zenon DEF Store!Next
<1> QED BY <1>3, <1>4

LEMMA ExpireStep ==
    ASSUME Inv, NEW s \in Sessions, Expire(s)
    PROVE  Store!Next
<1> DEFINE h == [header[s] EXCEPT !.live = FALSE]
<1>1. header[s] # None /\ header' = [header EXCEPT ![s].live = FALSE] /\ row' = row
  BY DEF Expire
<1>2. header \in [Sessions -> Header \cup {None}] /\ row \in [Sessions -> Rows]
  BY DEF Inv, TypeOK
<1>3. header' = [header EXCEPT ![s] = h] /\ row' = [row EXCEPT ![s] = row[s]]
  BY <1>1, <1>2
<1>4. h \in Header
  BY <1>1, <1>2 DEF Header
<1> HIDE DEF h
<1>5. Stored' = [Stored EXCEPT ![s] = [header |-> h, rows |-> row[s]]]
  BY <1>3, <1>4, StoredChange, NoneFacts
<1>6. Stored[s] # None /\ Stored[s] = [header |-> header[s], rows |-> row[s]]
  BY <1>1, StoredFacts
<1>7. [Stored[s] EXCEPT !.header.live = FALSE] = [header |-> h, rows |-> row[s]]
  <2>1. PICK st : st = Stored[s] /\ st = [header |-> header[s], rows |-> row[s]]
    BY <1>6
  <2>2. [st EXCEPT !.header.live = FALSE] = [header |-> h, rows |-> row[s]]
    <3>1. [st EXCEPT !.header.live = FALSE] = [st EXCEPT !.header = [st.header EXCEPT !.live = FALSE]]
      BY Zenon
    <3>2. st.header = header[s] /\ [st.header EXCEPT !.live = FALSE] = h
      BY <2>1 DEF h
    <3>3. [st EXCEPT !.header = h] = [header |-> h, rows |-> row[s]]
      BY <2>1
    <3> QED BY <3>1, <3>2, <3>3, Zenon
  <2> QED BY <2>1, <2>2, Zenon
<1>8. Stored' = [Stored EXCEPT ![s].header.live = FALSE]
  BY <1>5, <1>7
<1>9. Store!Expire(s)
  BY <1>6, <1>8, Zenon DEF Store!Expire
<1> QED BY <1>9, Zenon DEF Store!Next

LEMMA DeleteStep ==
    ASSUME Inv, NEW r \in Requests, delete(r)
    PROVE  Store!Next
<1>1. Stored' = [s \in Sessions |-> None]
  BY DEF delete, Stored
<1>2. [s \in Sessions |-> IF s \in Sessions THEN None ELSE Stored[s]] = [s \in Sessions |-> None]
  OBVIOUS
<1>3. Store!delete
  BY <1>1, <1>2, Zenon DEF Store!delete
<1> QED BY <1>3, Zenon DEF Store!Next

-----------------------------------------------------------------------------
(* Theorems *)

LEMMA InvCorrect == Spec => []Inv
<1>1. Init => Inv
  BY InitInv
<1>2. Inv /\ [Next]_vars => Inv'
  BY StepInv, StutterInv
<1> QED BY <1>1, <1>2, PTL DEF Spec

\* The tables, the locks, the requests and the watchers have their types, and a
\* locked header is held by the request that reads or writes that session.
THEOREM TypeCorrect == Spec => []TypeOK
<1>1. Inv => TypeOK
  BY DEF Inv
<1> QED BY <1>1, InvCorrect, PTL

LEMMA InvDecides == ASSUME Inv PROVE LatestPhaseDecides
<1> SUFFICES ASSUME NEW s \in Sessions, NEW q \in Queries, row[s][q] # None
             PROVE  /\ \A n \in Decisive(s, q) :
                         (\A m \in Decisive(s, q) : m <= n) =>
                            row[s][q].phase = PhaseAfter(row[s][q].phase, Kind(n))
                    /\ (\E n \in applied[s][q] : events[n].joins) => row[s][q].joined
  BY DEF LatestPhaseDecides
<1>1. /\ RowOK(row[s][q], applied[s][q], events) /\ applied[s][q] \subseteq 1 .. Len(events)
      /\ row[s][q] \in Row /\ Len(events) \in Nat
  BY DEF Inv, SessionOK, TypeOK, Rows
<1>2. row[s][q].decided \in Nat
  BY <1>1, MaxSeqAssumption DEF Row
<1>3. ASSUME NEW n \in Decisive(s, q), \A m \in Decisive(s, q) : m <= n
      PROVE  row[s][q].phase = PhaseAfter(row[s][q].phase, Kind(n))
  <2>1. n \in applied[s][q] /\ isTerminalPhase(events[n].kind) /\ n \in Nat /\ n >= 1
    BY <1>1 DEF Decisive, Kind
  <2>2. n <= row[s][q].decided
    BY <1>1, <2>1 DEF RowOK
  <2>3. row[s][q].decided # 0
    BY <1>2, <2>1, <2>2
  <2>4. row[s][q].decided \in Decisive(s, q)
        /\ row[s][q].phase = PhaseAfter(row[s][q].phase, events[row[s][q].decided].kind)
    BY <1>1, <2>3 DEF RowOK, Decisive, Kind
  <2>5. row[s][q].decided = n
    BY <1>2, <1>3, <2>1, <2>2, <2>4
  <2> QED BY <2>4, <2>5 DEF Kind
<1>4. ASSUME NEW n \in applied[s][q], events[n].joins
      PROVE  row[s][q].joined
  BY <1>1, <1>4 DEF RowOK
<1> QED BY <1>3, <1>4

\* In whatever order the replicas apply the events of a query, the latest
\* terminal one decides its phase: the two watermarks of a row make it so.
THEOREM PhaseCorrect == Spec => []LatestPhaseDecides
<1>1. Inv => LatestPhaseDecides
  BY InvDecides
<1> QED BY <1>1, InvCorrect, PTL

LEMMA InvAgrees == ASSUME Inv PROVE HeaderAgrees
<1> SUFFICES ASSUME NEW s \in Sessions
             PROVE  IF Present(row[s]) = {} THEN header[s] = None
                    ELSE /\ header[s].errorCount = ErrorCount(row[s])
                         /\ (header[s].status = "active") = (\E q \in Present(row[s]) : row[s][q].phase = "running")
                         /\ header[s].status = "error" => header[s].errorCount > 0
                         /\ header[s].conversations = {q \in Present(row[s]) : row[s][q].joined}
  BY DEF HeaderAgrees
<1>1. HeaderOK(header[s], row[s])
  BY DEF Inv, SessionOK
<1> QED BY <1>1, Zenon DEF HeaderOK

\* What a header says of its session is what the rows of the session say, after
\* any interleaving of events, messages and deletions.
THEOREM HeaderCorrect == Spec => []HeaderAgrees
<1>1. Inv => HeaderAgrees
  BY InvAgrees
<1> QED BY <1>1, InvCorrect, PTL

LEMMA InvTold == ASSUME Inv PROVE WatchersTold
<1> SUFFICES ASSUME NEW w \in Watchers, NEW s \in Sessions, watch[w].phase = "live",
                    Visible(s), s \notin revived \cup lost
             PROVE  \/ s \in (IF s \in watch[w].mixed THEN watch[w].seen ELSE watch[w].last)
                    \/ Coming(w, s)
  BY DEF WatchersTold
<1>1. WatcherOK(watch[w], s, Announced(req), Listed(header, revived), lost)
  BY DEF Inv
<1>2. s \in Listed(header, revived)
  BY DEF Listed, Visible
<1>3. Fresh(watch[w], s) \/ s \in Announced(req) => Coming(w, s)
  BY DEF Fresh, Announced, Coming
<1> QED BY <1>1, <1>2, <1>3 DEF WatcherOK, Informed

\* Every watcher has been, or will be, shown the newest state of every session,
\* and nothing older behind it unless reads have overlapped; what is excepted is a
\* notification or a read that failed and a session that a message has taken
\* back from expiry.
THEOREM WatchCorrect == Spec => []WatchersTold
<1>1. Inv => WatchersTold
  BY InvTold
<1> QED BY <1>1, InvCorrect, PTL

LEMMA StoreStep == ASSUME Inv, Next PROVE UNCHANGED <<header, row>> \/ Store!Next
<1>1. ASSUME NEW r \in Requests, Call(r) PROVE UNCHANGED <<header, row>> \/ Store!Next
  <2>1. CASE delete(r)
    BY <2>1, DeleteStep
  <2>2. ASSUME NEW s \in Sessions, NEW q \in Queries, NEW post \in Posts, PostEvent(r, s, q, post)
        PROVE  UNCHANGED <<header, row>>
    BY <2>2 DEF PostEvent, tables
  <2>3. ASSUME NEW q \in Queries, PostMessage(r, q) \/ DeleteQuery(r, q)
        PROVE  UNCHANGED <<header, row>>
    BY <2>3 DEF PostMessage, DeleteQuery, tables
  <2> QED BY <1>1, <2>1, <2>2, <2>3 DEF Call
<1>2. ASSUME NEW r \in Requests, Statement(r) PROVE UNCHANGED <<header, row>> \/ Store!Next
  <2>1. CASE WriteEvent(r)
    BY <2>1, WriteEventStep
  <2>2. CASE WriteMessage(r)
    BY <2>2, WriteMessageStep
  <2>3. CASE WriteDelete(r)
    BY <2>3, WriteDeleteStep
  <2>4. CASE ProbeMessage(r) \/ ProbeDelete(r) \/ InsertHeader(r) \/ Notify(r)
    BY <2>4 DEF ProbeMessage, ProbeDelete, InsertHeader, Notify, tables
  <2>5. CASE LockForEvent(r) \/ LockForMessage(r) \/ LockForDelete(r)
    BY <2>5 DEF LockForEvent, LockForMessage, LockForDelete, tables
  <2> QED BY <1>2, <2>1, <2>2, <2>3, <2>4, <2>5 DEF Statement
<1>3. ASSUME NEW r \in Requests, Fail(r) PROVE UNCHANGED <<header, row>>
  BY <1>3 DEF Fail, tables
<1>4. ASSUME NEW s \in Sessions, Expire(s) PROVE Store!Next
  BY <1>4, ExpireStep
<1>5. ASSUME NEW w \in Watchers, Subscribe(w) \/ getAll(w) \/ CatchUp(w) \/ Disconnect(w)
      PROVE  UNCHANGED <<header, row>>
  BY <1>5 DEF Subscribe, getAll, CatchUp, Disconnect, tables
<1>6. ASSUME NEW w \in Watchers, NEW d, getSession(w, d) \/ Show(w, d) \/ ReadFails(w, d)
      PROVE  UNCHANGED <<header, row>>
  BY <1>6 DEF getSession, Show, ReadFails, tables
<1> QED BY <1>1, <1>2, <1>3, <1>4, <1>5, <1>6 DEF Next

\* The backend keeps its promise: every statement leaves the sessions as they
\* are or is one call of SessionStore on what its predecessor left.
THEOREM StoreCorrect == Spec => StoreSpec
<1>1. Init => Store!Init
  <2> SUFFICES ASSUME Init PROVE Store!Init
    OBVIOUS
  <2>1. \A s \in Sessions : header[s] = None
    BY DEF Init
  <2>2. Stored = [s \in Sessions |-> None]
    BY <2>1 DEF Stored
  <2> QED BY <2>2, Zenon DEF Store!Init
<1>2. Inv /\ [Next]_vars => [<<header, row>>' # <<header, row>> => Store!Next]_vars
  BY StoreStep
<1> QED BY <1>1, <1>2, InvCorrect, PTL DEF Spec, StoreSpec

\* The same as a refinement in the usual form, with every other step a stutter.
THEOREM StoreImplemented == Spec => Store!Spec
<1>1. StoreSpec <=> Store!Init /\ [][<<header, row>>' # <<header, row>> => Store!Next]_vars
  BY DEF StoreSpec
<1>2. [<<header, row>>' # <<header, row>> => Store!Next]_vars => [Store!Next]_Stored
  BY DEF vars, tables, Stored
<1> QED BY <1>1, <1>2, StoreCorrect, PTL DEF Store!Spec
==============================================================================
