---------------------------- MODULE LiveTailProofs ----------------------------
(***************************************************************************)
(* Theorems about LiveTail, for any replicas and watchers and every value  *)
(* of the bounds.                                                          *)
(***************************************************************************)
EXTENDS LiveTail, WellFoundedInduction, TLAPS

-----------------------------------------------------------------------------
(* Greatest is what its name says, and zero for no rows at all. *)

LEMMA GreatestIsMaximal ==
    ASSUME NEW S \in SUBSET Row
    PROVE  /\ Greatest(S) \in S \cup {0} /\ Greatest(S) \in 0 .. MaxRows
           /\ \A n \in S : n <= Greatest(S)
<1> DEFINE left == {MaxRows - n : n \in S}
<1>1. \A n \in S : n \in Nat /\ n <= MaxRows
  BY ConstantsAssumption DEF Row
<1>2. \E m \in S \cup {0} : \A n \in S : n <= m
  <2>1. CASE S = {}
    BY <2>1
  <2>2. CASE S # {}
    <3>1. left \subseteq Nat /\ left # {}
      BY <1>1, <2>2, ConstantsAssumption
    <3>2. PICK x \in left : \A y \in left : <<y, x>> \notin OpToRel(<, Nat)
      BY <3>1, NatLessThanWellFounded, WFMin
    <3>3. \A y \in left : y < x => <<y, x>> \in OpToRel(<, Nat)
      BY <3>1 DEF OpToRel
    <3>4. \A y \in left : ~ (y < x)
      BY <3>2, <3>3
    <3>5. PICK m \in S : x = MaxRows - m
      OBVIOUS
    <3>6. \A n \in S : n <= m
      <4> SUFFICES ASSUME NEW n \in S PROVE n <= m
        OBVIOUS
      <4>1. ~ (MaxRows - n < MaxRows - m)
        BY <3>4, <3>5
      <4> QED BY <1>1, <4>1, ConstantsAssumption
    <3> QED BY <3>6
  <2> QED BY <2>1, <2>2
<1>3. Greatest(S) \in S \cup {0} /\ \A n \in S : n <= Greatest(S)
  BY <1>2 DEF Greatest
<1> QED BY <1>1, <1>3, ConstantsAssumption

-----------------------------------------------------------------------------
(***************************************************************************)
(* The inductive invariant.  A row that was given to a client has been     *)
(* emitted, and no row is emitted twice: what a client has that its replay *)
(* did not contain cannot come again.                                      *)
(***************************************************************************)
Emitted == {n \in Row : row[n].state = "emitted"}

RowsInv ==
    /\ \A n \in Row : row[n].state = "committed" => row[n].by \in Replicas
    /\ \A n \in Row : n > last => row[n].state = "free"

\* One client, when the rows in e have been emitted.
Tail(v, e) ==
    /\ v.phase \in {"off", "deaf"} => v.on = None /\ v.due = {} /\ v.replay = {}
    /\ v.phase = "asked" => v.replay = {}
    /\ v.phase # "live" => v.due \subseteq v.buffer /\ v.sent = {} /\ v.again = {} /\ v.late = {}
    /\ v.buffer \subseteq v.due /\ v.due \subseteq e
    /\ v.phase = "live" =>
         /\ v.replay \subseteq v.sent
         /\ \A n \in v.due \ v.replay : n > Greatest(v.replay) => n \in v.sent
         /\ v.sent \subseteq v.replay \cup v.due
    /\ v.again \subseteq v.replay \cap v.late

Inv == TypeOK /\ RowsInv /\ \A w \in Watchers : Tail(watcher[w], Emitted)

LEMMA TailLater ==
    ASSUME NEW v, NEW e, NEW f, e \subseteq f, Tail(v, e)
    PROVE  Tail(v, f)
BY DEF Tail

\* A connected client is given a row for the first time.
LEMMA ReceiveTail ==
    ASSUME NEW v \in Watcher, NEW e, NEW n \in Row, n \notin e, v.on # None, Tail(v, e)
    PROVE  Receive(v, n) \in Watcher /\ Tail(Receive(v, n), e \cup {n})
<1>1. CASE v.phase = "live"
  <2> DEFINE u == [v EXCEPT !.due = @ \cup {n}, !.late = @ \cup {n},
                            !.again = @ \cup (v.sent \cap {n}),
                            !.sent = @ \cup {n}, !.got = @ \cup {n}]
  <2>1. Receive(v, n) = u
    BY <1>1 DEF Receive
  <2>2. u \in Watcher
    BY DEF Watcher
  <2>3. /\ u.due = v.due \cup {n} /\ u.late = v.late \cup {n}
        /\ u.again = v.again \cup (v.sent \cap {n}) /\ u.sent = v.sent \cup {n}
        /\ u.phase = v.phase /\ u.on = v.on /\ u.replay = v.replay /\ u.buffer = v.buffer
    BY DEF Watcher
  <2>4. n \in v.sent => n \in v.replay
    BY <1>1 DEF Tail
  <2> HIDE DEF u
  <2>5. Tail(u, e \cup {n})
    BY <1>1, <2>3, <2>4 DEF Tail
  <2> QED BY <2>1, <2>2, <2>5
<1>2. CASE v.phase # "live"
  <2> DEFINE u == [v EXCEPT !.due = @ \cup {n}, !.buffer = @ \cup {n}]
  <2>1. Receive(v, n) = u
    BY <1>2 DEF Receive
  <2>2. u \in Watcher
    BY DEF Watcher
  <2>3. /\ u.due = v.due \cup {n} /\ u.buffer = v.buffer \cup {n} /\ u.late = v.late
        /\ u.again = v.again /\ u.sent = v.sent
        /\ u.phase = v.phase /\ u.on = v.on /\ u.replay = v.replay
    BY DEF Watcher
  <2> HIDE DEF u
  <2>5. Tail(u, e \cup {n})
    BY <1>2, <2>3 DEF Tail
  <2> QED BY <2>1, <2>2, <2>5
<1> QED BY <1>1, <1>2

\* A client that is gone has nothing and is given nothing.
LEMMA ClosedTail ==
    ASSUME NEW v \in Watcher, NEW e
    PROVE  Closed(v) \in Watcher /\ Tail(Closed(v), e)
<1>1. Off \in Watcher
  BY ConstantsAssumption DEF Off, Watcher
<1>2. Closed(v) \in Watcher
  BY <1>1 DEF Closed, Watcher
<1>3. /\ Closed(v).phase = "off" /\ Closed(v).on = None /\ Closed(v).due = {}
      /\ Closed(v).replay = {} /\ Closed(v).buffer = {} /\ Closed(v).sent = {}
      /\ Closed(v).again = {} /\ Closed(v).late = {}
  BY DEF Closed, Off
<1> QED BY <1>2, <1>3 DEF Tail

\* So does one whose replay failed.
LEMMA DeafTail ==
    ASSUME NEW v \in Watcher, NEW e
    PROVE  /\ [Closed(v) EXCEPT !.phase = "deaf"] \in Watcher
           /\ Tail([Closed(v) EXCEPT !.phase = "deaf"], e)
<1> DEFINE c == Closed(v)
           d == [c EXCEPT !.phase = "deaf"]
<1>1. c \in Watcher /\ Tail(c, e) /\ c.phase = "off"
  BY ClosedTail DEF Closed, Off
<1> HIDE DEF c
<1>2. /\ d \in Watcher /\ d.phase = "deaf" /\ d.on = c.on /\ d.due = c.due
      /\ d.replay = c.replay /\ d.buffer = c.buffer /\ d.sent = c.sent
      /\ d.again = c.again /\ d.late = c.late
  BY <1>1 DEF Watcher
<1> HIDE DEF d
<1>3. Tail(d, e)
  BY <1>1, <1>2 DEF Tail
<1> QED BY <1>2, <1>3 DEF c, d

-----------------------------------------------------------------------------
(* The steps *)

\* The rows change and no more of them have been emitted than before.
LEMMA RowsChange ==
    ASSUME Inv, row' \in [Row -> [state : RowState, by : Replicas \cup {None}]],
           last' \in 0 .. MaxRows, crashes' \in 0 .. MaxCrashes,
           watcher' = watcher, RowsInv', Emitted \subseteq Emitted'
    PROVE  Inv'
<1>1. TypeOK'
  BY DEF Inv, TypeOK
<1>2. \A w \in Watchers : Tail(watcher'[w], Emitted')
  BY TailLater DEF Inv
<1> QED BY <1>1, <1>2 DEF Inv

\* One client changes and the rows do not.
LEMMA WatcherChanges ==
    ASSUME Inv, NEW w \in Watchers, NEW v \in Watcher, Tail(v, Emitted),
           watcher' = [watcher EXCEPT ![w] = v], UNCHANGED <<row, last, crashes>>
    PROVE  Inv'
<1>1. Emitted' = Emitted
  BY DEF Emitted
<1>2. TypeOK'
  BY DEF Inv, TypeOK
<1>3. \A u \in Watchers : Tail(watcher'[u], Emitted)
  BY DEF Inv, TypeOK
<1> QED BY <1>1, <1>2, <1>3 DEF Inv, RowsInv

LEMMA InsertInv ==
    ASSUME Inv, NEW r \in Replicas, Insert(r)
    PROVE  Inv'
<1>1. /\ last < MaxRows /\ last' = last + 1 /\ watcher' = watcher /\ crashes' = crashes
      /\ row' = [row EXCEPT ![last + 1] = [state |-> "inserted", by |-> r]]
  BY DEF Insert
<1>2. last \in Nat /\ last + 1 \in Row /\ last' \in 0 .. MaxRows
  BY <1>1, ConstantsAssumption DEF Inv, TypeOK, Row
<1>3. row[last + 1].state = "free"
  BY <1>2 DEF Inv, RowsInv
<1>4. row' \in [Row -> [state : RowState, by : Replicas \cup {None}]]
  BY <1>1, <1>2 DEF Inv, TypeOK, RowState
<1>5. \A n \in Row : row'[n] = IF n = last + 1 THEN [state |-> "inserted", by |-> r] ELSE row[n]
  BY <1>1 DEF Inv, TypeOK
<1>6. \A n \in Row : n > last' => n > last /\ n # last + 1
  BY <1>1, <1>2, ConstantsAssumption DEF Row
<1>7. RowsInv'
  BY <1>5, <1>6 DEF Inv, RowsInv
<1>8. Emitted \subseteq Emitted'
  BY <1>3, <1>5 DEF Emitted
<1> QED BY <1>1, <1>2, <1>4, <1>7, <1>8, RowsChange DEF Inv, TypeOK

\* A row that was inserted commits, for whoever waits for it, or aborts.
LEMMA RowEnds ==
    ASSUME Inv, NEW n \in Row, row[n].state = "inserted", NEW s \in RowState, s # "free",
           s = "committed" => row[n].by \in Replicas,
           row' = [row EXCEPT ![n].state = s], UNCHANGED <<last, watcher, crashes>>
    PROVE  Inv'
<1>1. row' \in [Row -> [state : RowState, by : Replicas \cup {None}]]
  BY DEF Inv, TypeOK
<1>2. \A m \in Row : IF m = n THEN row'[m].state = s /\ row'[m].by = row[m].by
                     ELSE row'[m] = row[m]
  BY DEF Inv, TypeOK
<1>3. RowsInv'
  BY <1>2 DEF Inv, RowsInv
<1>4. Emitted \subseteq Emitted'
  BY <1>2 DEF Emitted
<1> QED BY <1>1, <1>3, <1>4, RowsChange DEF Inv, TypeOK

LEMMA EmitInv ==
    ASSUME Inv, NEW n \in Row, Emit(n)
    PROVE  Inv'
<1>1. /\ row[n].state = "committed" /\ row' = [row EXCEPT ![n].state = "emitted"]
      /\ watcher' = [w \in Watchers |->
                       IF watcher[w].on = row[n].by THEN Receive(watcher[w], n) ELSE watcher[w]]
      /\ last' = last /\ crashes' = crashes
  BY DEF Emit
<1>2. row[n].by # None
  BY <1>1, NoneAssumption DEF Inv, RowsInv
<1>3. row' \in [Row -> [state : RowState, by : Replicas \cup {None}]]
  BY <1>1 DEF Inv, TypeOK, RowState
<1>4. \A m \in Row : IF m = n THEN row'[m].state = "emitted" ELSE row'[m] = row[m]
  BY <1>1 DEF Inv, TypeOK
<1>5. RowsInv'
  BY <1>1, <1>4 DEF Inv, RowsInv
<1>6. n \notin Emitted /\ Emitted' = Emitted \cup {n}
  BY <1>1, <1>4 DEF Emitted
<1>7. ASSUME NEW w \in Watchers
      PROVE  watcher'[w] \in Watcher /\ Tail(watcher'[w], Emitted')
  <2>1. watcher[w] \in Watcher /\ Tail(watcher[w], Emitted)
    BY DEF Inv, TypeOK
  <2>2. CASE watcher[w].on = row[n].by
    <3>1. watcher'[w] = Receive(watcher[w], n)
      BY <1>1, <2>2
    <3> QED BY <1>2, <1>6, <2>1, <2>2, <3>1, ReceiveTail
  <2>3. CASE watcher[w].on # row[n].by
    <3>1. watcher'[w] = watcher[w]
      BY <1>1, <2>3
    <3> QED BY <1>6, <2>1, <3>1, TailLater
  <2> QED BY <2>2, <2>3
<1>8. TypeOK'
  BY <1>1, <1>3, <1>7 DEF Inv, TypeOK
<1> QED BY <1>5, <1>7, <1>8 DEF Inv

LEMMA CrashInv ==
    ASSUME Inv, NEW r \in Replicas, Crash(r)
    PROVE  Inv'
<1>1. /\ crashes < MaxCrashes /\ crashes' = crashes + 1 /\ last' = last
      /\ row' = [n \in Row |->
                   IF row[n].by # r THEN row[n]
                   ELSE [state |-> IF row[n].state = "committed" THEN "silent" ELSE row[n].state,
                         by |-> None]]
      /\ watcher' = [w \in Watchers |->
                       IF watcher[w].on = r THEN Closed(watcher[w]) ELSE watcher[w]]
  BY DEF Crash
<1>2. row' \in [Row -> [state : RowState, by : Replicas \cup {None}]]
  BY <1>1 DEF Inv, TypeOK, RowState
<1>3. \A n \in Row : \/ row'[n] = row[n]
                     \/ /\ row'[n].state # "committed"
                        /\ row[n].state # "committed" => row'[n].state = row[n].state
                        /\ row[n].state = "committed" => row'[n].state = "silent"
  BY <1>1
<1>4. RowsInv'
  BY <1>1, <1>3 DEF Inv, RowsInv
<1>5. Emitted \subseteq Emitted'
  BY <1>3 DEF Emitted
<1>6. ASSUME NEW w \in Watchers
      PROVE  watcher'[w] \in Watcher /\ Tail(watcher'[w], Emitted')
  <2>1. watcher[w] \in Watcher /\ Tail(watcher[w], Emitted)
    BY DEF Inv, TypeOK
  <2>2. watcher'[w] = Closed(watcher[w]) \/ watcher'[w] = watcher[w]
    BY <1>1
  <2> QED BY <1>5, <2>1, <2>2, ClosedTail, TailLater
<1>7. crashes' \in 0 .. MaxCrashes
  BY <1>1, ConstantsAssumption DEF Inv, TypeOK
<1>8. TypeOK'
  BY <1>1, <1>2, <1>6, <1>7 DEF Inv, TypeOK
<1> QED BY <1>4, <1>6, <1>8 DEF Inv

LEMMA StreamInv ==
    ASSUME Inv, NEW w \in Watchers, NEW r \in Replicas,
           NEW c \in {None} \cup 0 .. MaxRows, streamSSE(w, r, c)
    PROVE  Inv'
<1> DEFINE v == [watcher[w] EXCEPT !.phase = IF c = None THEN "live" ELSE "asked",
                   !.on = r, !.cursor = c, !.watches = @ + 1,
                   !.from = IF watcher[w].watches = 0 THEN c ELSE @]
<1>1. /\ watcher[w].phase = "off" /\ watcher[w].watches < MaxWatches
      /\ watcher' = [watcher EXCEPT ![w] = v] /\ UNCHANGED <<row, last, crashes>>
  BY DEF streamSSE
<1>2. watcher[w] \in Watcher /\ Tail(watcher[w], Emitted)
  BY DEF Inv, TypeOK
<1>3. watcher[w].watches + 1 \in 0 .. MaxWatches
  BY <1>1, <1>2, ConstantsAssumption DEF Watcher
<1>4. v \in Watcher
  BY <1>2, <1>3 DEF Watcher
<1>5. /\ v.phase \in {"live", "asked"}
      /\ v.due = watcher[w].due /\ v.replay = watcher[w].replay /\ v.buffer = watcher[w].buffer
      /\ v.sent = watcher[w].sent /\ v.again = watcher[w].again /\ v.late = watcher[w].late
  BY <1>2 DEF Watcher
<1> HIDE DEF v
<1>6. Tail(v, Emitted)
  BY <1>1, <1>2, <1>5 DEF Tail
<1> QED BY <1>1, <1>4, <1>6, WatcherChanges

LEMMA FilterInv ==
    ASSUME Inv, NEW w \in Watchers, filterBy(w)
    PROVE  Inv'
<1> DEFINE rows == {n \in Visible : n > watcher[w].cursor}
           v == [watcher[w] EXCEPT !.replay = rows, !.phase = "fetched"]
<1>1. watcher[w] \in Watcher /\ Tail(watcher[w], Emitted)
  BY DEF Inv, TypeOK
<1>2. /\ watcher[w].phase = "asked" /\ UNCHANGED <<row, last, crashes>>
      /\ watcher' = [watcher EXCEPT ![w].replay = rows, ![w].phase = "fetched"]
  BY DEF filterBy
<1>3. watcher' = [watcher EXCEPT ![w] = v]
  BY <1>2 DEF Inv, TypeOK
<1>4. rows \subseteq Row
  BY DEF Visible
<1>5. v \in Watcher
  BY <1>1, <1>4 DEF Watcher
<1>6. /\ v.phase = "fetched" /\ v.due = watcher[w].due /\ v.buffer = watcher[w].buffer
      /\ v.sent = watcher[w].sent /\ v.again = watcher[w].again /\ v.late = watcher[w].late
  BY <1>1 DEF Watcher
<1> HIDE DEF v
<1>7. Tail(v, Emitted)
  BY <1>1, <1>2, <1>6 DEF Tail
<1> QED BY <1>2, <1>3, <1>5, <1>7, WatcherChanges

\* Nothing that the client has to get falls between the replay and the buffer,
\* and the two have nothing in common.
LEMMA CatchUpInv ==
    ASSUME Inv, NEW w \in Watchers, CatchUp(w)
    PROVE  Inv'
<1> DEFINE u == watcher[w]
           v == [u EXCEPT !.phase = "live",
                   !.sent = u.replay \cup Remaining(u),
                   !.again = u.replay \cap Remaining(u),
                   !.got = @ \cup u.replay \cup Remaining(u),
                   !.buffer = {}]
<1>1. u \in Watcher /\ Tail(u, Emitted)
  BY DEF Inv, TypeOK
<1>2. /\ u.phase = "fetched" /\ watcher' = [watcher EXCEPT ![w] = v]
      /\ UNCHANGED <<row, last, crashes>>
  BY DEF CatchUp
<1>3. u.replay \in SUBSET Row /\ u.due \in SUBSET Row /\ u.buffer \in SUBSET Row
  BY <1>1 DEF Watcher
<1>4. Remaining(u) \subseteq u.buffer /\ Remaining(u) \in SUBSET Row
  BY <1>3 DEF Remaining
<1>5. v \in Watcher
  BY <1>1, <1>3, <1>4 DEF Watcher
<1>6. /\ v.phase = "live" /\ v.sent = u.replay \cup Remaining(u)
      /\ v.again = u.replay \cap Remaining(u) /\ v.buffer = {}
      /\ v.due = u.due /\ v.replay = u.replay /\ v.late = u.late
  BY <1>1 DEF Watcher
<1>7. u.replay \cap Remaining(u) = {}
  <2> SUFFICES ASSUME NEW n \in u.replay, n \in Remaining(u) PROVE FALSE
    OBVIOUS
  <2>1. n <= Greatest(u.replay) /\ n > Greatest(u.replay) /\ Greatest(u.replay) \in Nat
    BY <1>3, GreatestIsMaximal, ConstantsAssumption DEF Remaining
  <2>2. n \in Nat
    BY <1>3, ConstantsAssumption DEF Row
  <2> QED BY <2>1, <2>2
<1>8. \A n \in u.due : n > Greatest(u.replay) => n \in Remaining(u)
  BY <1>1, <1>2 DEF Tail, Remaining
<1> HIDE DEF v
<1>9. Tail(v, Emitted)
  BY <1>1, <1>4, <1>6, <1>7, <1>8 DEF Tail
<1> QED BY <1>2, <1>5, <1>9, WatcherChanges

LEMMA InitInv == Init => Inv
<1> SUFFICES ASSUME Init PROVE Inv
  OBVIOUS
<1>1. Off \in Watcher
  BY ConstantsAssumption DEF Off, Watcher
<1>2. TypeOK
  BY <1>1, ConstantsAssumption DEF Init, TypeOK, RowState
<1>3. \A e : Tail(Off, e)
  BY DEF Off, Tail
<1> QED BY <1>2, <1>3 DEF Init, Inv, RowsInv

LEMMA StepInv == Inv /\ [Next]_vars => Inv'
<1> SUFFICES ASSUME Inv, [Next]_vars PROVE Inv'
  OBVIOUS
<1>1. ASSUME NEW r \in Replicas, Insert(r) PROVE Inv'
  BY <1>1, InsertInv
<1>2. ASSUME NEW r \in Replicas, Crash(r) PROVE Inv'
  BY <1>2, CrashInv
<1>3. ASSUME NEW n \in Row, Commit(n) PROVE Inv'
  <2> DEFINE s == IF row[n].by = None THEN "silent" ELSE "committed"
  <2>1. /\ row[n].state = "inserted" /\ row' = [row EXCEPT ![n].state = s]
        /\ UNCHANGED <<last, watcher, crashes>>
    BY <1>3 DEF Commit
  <2>2. s \in RowState /\ s # "free" /\ (s = "committed" => row[n].by \in Replicas)
    BY DEF RowState, Inv, TypeOK
  <2> HIDE DEF s
  <2> QED BY <2>1, <2>2, RowEnds
<1>4. ASSUME NEW n \in Row, Abort(n) PROVE Inv'
  <2>1. "aborted" \in RowState
    BY DEF RowState
  <2> QED BY <1>4, <2>1, RowEnds DEF Abort
<1>5. ASSUME NEW n \in Row, Emit(n) PROVE Inv'
  BY <1>5, EmitInv
<1>6. ASSUME NEW w \in Watchers, NEW r \in Replicas, Watch(w, r) PROVE Inv'
  <2>1. watcher[w] \in Watcher
    BY DEF Inv, TypeOK
  <2>2. Resume(watcher[w]) \in 0 .. MaxRows
    <3>1. watcher[w].got \in SUBSET Row
      BY <2>1 DEF Watcher
    <3> QED BY <3>1, GreatestIsMaximal DEF Resume
  <2>3. 0 \in 0 .. MaxRows
    BY ConstantsAssumption
  <2> QED BY <1>6, <2>2, <2>3, StreamInv DEF Watch
<1>7. ASSUME NEW w \in Watchers, filterBy(w) PROVE Inv'
  BY <1>7, FilterInv
<1>8. ASSUME NEW w \in Watchers, CatchUp(w) PROVE Inv'
  BY <1>8, CatchUpInv
<1>9. ASSUME NEW w \in Watchers, Disconnect(w) PROVE Inv'
  <2>1. Closed(watcher[w]) \in Watcher /\ Tail(Closed(watcher[w]), Emitted)
    BY ClosedTail DEF Inv, TypeOK
  <2> QED BY <1>9, <2>1, WatcherChanges DEF Disconnect
<1>10. ASSUME NEW w \in Watchers, ReplayFails(w) PROVE Inv'
  <2> DEFINE v == [Closed(watcher[w]) EXCEPT !.phase = "deaf"]
  <2>1. v \in Watcher /\ Tail(v, Emitted)
    BY DeafTail DEF Inv, TypeOK
  <2> HIDE DEF v
  <2>2. watcher' = [watcher EXCEPT ![w] = v] /\ UNCHANGED <<row, last, crashes>>
    BY <1>10 DEF ReplayFails, v
  <2> QED BY <2>1, <2>2, WatcherChanges
<1>11. CASE UNCHANGED vars
  BY <1>11 DEF vars, Inv, TypeOK, RowsInv, Emitted
<1> QED
  BY <1>1, <1>2, <1>3, <1>4, <1>5, <1>6, <1>7, <1>8, <1>9, <1>10, <1>11 DEF Next

LEMMA InvCorrect == Spec => []Inv
BY InitInv, StepInv, PTL DEF Spec

-----------------------------------------------------------------------------
(* The properties of the run *)

\* Every variable keeps its type; a cursor to resume from is a number a row may
\* have.
THEOREM TypeCorrect == Spec => []TypeOK
<1>1. Inv => TypeOK
  BY DEF Inv
<1> QED BY <1>1, InvCorrect, PTL

\* A client that has caught up was written all of its replay and all it was
\* given since it subscribed, but rows that commit after a later number.
THEOREM NoneSkippedCorrect == Spec => []NoneSkipped
<1>1. Inv => NoneSkipped
  <2> SUFFICES ASSUME Inv, NEW w \in Watchers, Live(w),
                      NEW n \in watcher[w].replay \cup (watcher[w].due \ Overtaken(w))
               PROVE  n \in watcher[w].sent
    BY DEF NoneSkipped
  <2>1. Tail(watcher[w], Emitted) /\ watcher[w] \in Watcher /\ watcher[w].phase = "live"
    BY DEF Inv, TypeOK, Live
  <2>2. CASE n \in watcher[w].replay
    BY <2>1, <2>2 DEF Tail
  <2>3. CASE n \notin watcher[w].replay
    <3>1. n \in watcher[w].due /\ n \in Row /\ watcher[w].replay \in SUBSET Row
      BY <2>1, <2>3 DEF Watcher
    <3>2. ~ (n < Greatest(watcher[w].replay))
      BY <2>3, <3>1 DEF Overtaken
    <3>3. Greatest(watcher[w].replay) \in 0 .. MaxRows /\ n # Greatest(watcher[w].replay)
      BY <2>3, <3>1, GreatestIsMaximal, ConstantsAssumption DEF Row
    <3>4. n > Greatest(watcher[w].replay)
      BY <3>1, <3>2, <3>3, ConstantsAssumption DEF Row
    <3> QED BY <2>1, <2>3, <3>1, <3>4 DEF Tail
  <2> QED BY <2>2, <2>3
<1> QED BY <1>1, InvCorrect, PTL

\* A row is written twice only when the response of its INSERT came after the
\* client had caught up with a replay that contained it.
THEOREM RepeatsCorrect == Spec => []RepeatsAreLate
<1>1. Inv => RepeatsAreLate
  BY DEF Inv, Tail, RepeatsAreLate
<1> QED BY <1>1, InvCorrect, PTL

===============================================================================
