-------------------------- MODULE ChatSessionProofs --------------------------
(***************************************************************************)
(* Theorems about ChatSession, for any number of turns, cards and rounds   *)
(* of approval.                                                            *)
(***************************************************************************)
EXTENDS ChatSession, SequenceTheorems, FiniteSetTheorems, TLAPS

-----------------------------------------------------------------------------
(***************************************************************************)
(* The list is a sequence, whatever is put at whatever place of it.        *)
(***************************************************************************)
IsSeq(ms) == \E S : ms \in Seq(S)

LEMMA AppendIsSeq == ASSUME NEW ms, NEW m, IsSeq(ms) PROVE IsSeq(Append(ms, m))
<1>1. PICK S : ms \in Seq(S)
  BY DEF IsSeq
<1>2. ms \in Seq(S \cup {m})
  BY <1>1, SeqDef
<1>3. Append(ms, m) \in Seq(S \cup {m})
  BY <1>2, AppendProperties
<1> QED BY <1>3 DEF IsSeq

LEMMA ConcatIsSeq == ASSUME NEW ms, NEW ns, IsSeq(ms), IsSeq(ns) PROVE IsSeq(ms \o ns)
<1>1. PICK S : ms \in Seq(S)
  BY DEF IsSeq
<1>2. PICK T : ns \in Seq(T)
  BY DEF IsSeq
<1>3. ms \in Seq(S \cup T) /\ ns \in Seq(S \cup T)
  BY <1>1, <1>2, SeqDef
<1>4. ms \o ns \in Seq(S \cup T)
  BY <1>3, ConcatProperties
<1> QED BY <1>4 DEF IsSeq

LEMMA LenIsNat == ASSUME NEW ms, IsSeq(ms) PROVE Len(ms) \in Nat /\ DOMAIN ms = 1 .. Len(ms)
BY LenProperties DEF IsSeq

LEMMA FunctionIsSeq ==
    ASSUME NEW n \in Nat, NEW f, f = [i \in 1 .. n |-> f[i]] PROVE IsSeq(f)
<1> DEFINE S == {f[i] : i \in 1 .. n}
<1>1. f \in [1 .. n -> S]
  OBVIOUS
<1>2. f \in Seq(S)
  BY <1>1, SeqDef
<1> QED BY <1>2 DEF IsSeq

LEMMA PlacedIsSeq ==
    ASSUME NEW ms, NEW i \in Int, NEW m, IsSeq(ms) PROVE IsSeq(Placed(ms, i, m))
<1> DEFINE n == IF i > Len(ms) THEN i ELSE Len(ms)
           f == Placed(ms, i, m)
<1>1. n \in Nat
  BY LenIsNat
<1>2. f = [j \in 1 .. n |-> f[j]]
  BY DEF Placed
<1> HIDE DEF n, f
<1>3. IsSeq(f)
  BY <1>1, <1>2, FunctionIsSeq
<1> QED BY <1>3 DEF f

LEMMA SubSeqIsSeq ==
    ASSUME NEW ms, NEW n \in Int, IsSeq(ms), n <= Len(ms) PROVE IsSeq(SubSeq(ms, 1, n))
<1>1. PICK S : ms \in Seq(S)
  BY DEF IsSeq
<1>2. SubSeq(ms, 1, n) \in Seq(S)
  BY <1>1, SubSeqProperties, LenProperties
<1> QED BY <1>2 DEF IsSeq

LEMMA SliceIsSeq == ASSUME NEW ms, NEW n \in Int, IsSeq(ms) PROVE IsSeq(Slice(ms, n))
BY LenIsNat, SubSeqIsSeq DEF Slice

-----------------------------------------------------------------------------
(***************************************************************************)
(* What isProcessing depends on.  The messages do not matter, nor what is  *)
(* on the cards.                                                           *)
(***************************************************************************)
Mounts == 0 .. MaxEvents

\* The fields of a turn, without the bounds of their places.
AnyTurn == [pc : {"idle", "submit", "follow", "final", "ensure", "poll", "sleep", "done"},
            start : Int, at : Int, agent : BOOLEAN, approving : BOOLEAN,
            asked : Turns \cup {None}, session : Int, mount : Mounts, aborted : BOOLEAN]

AnyPoller == [of : Turns, at : Int, mount : Mounts, stopped : BOOLEAN]

Names == [Mounts -> Turns \cup {None}]

Types == /\ turn \in [Turns -> AnyTurn]
         /\ poller \in [Cards -> {None} \cup AnyPoller]
         /\ lastQuery \in Names
         /\ conversation \in Turns \cup {None}
         /\ session \in Int /\ stops \in Nat /\ clears \in Nat /\ mount \in Mounts
         /\ isProcessing \in BOOLEAN

Sent(t) == t \in Turns /\ turn[t].pc # "idle"

\* Turns are sent in order, by a hook that was mounted, and approvals are those of
\* turns that were sent.
Order == /\ \A t, u \in Turns : t < u /\ Sent(u) => Sent(t)
         /\ \A t \in Turns : turn[t].mount <= mount
         /\ pending # None => Sent(pending.of) /\ pending.at \in Int
         /\ \A c \in Cards : poller[c] # None => Sent(poller[c].of)

\* A turn of the mounted hook.
Own(t) == Running(t) /\ turn[t].mount = mount

\* Such a turn is the latest, of this session, and asks for its own query.
Foremost(t) == /\ \A u \in Turns : u > t => ~Sent(u)
               /\ turn[t].session = session
               /\ turn[t].pc \in {"follow", "final"} => lastQuery[mount] = t
               /\ turn[t].pc = "ensure" => turn[t].asked = t

Alone == /\ isProcessing <=> \E t \in Turns : Own(t)
         /\ \A t \in Turns : Own(t) => Foremost(t)
         /\ mount = 0 /\ conversation # None => turn[conversation].session = session

Guarded == stops = 0 /\ ~spoiled => Alone

Inv == Types /\ Order /\ Guarded

\* The places of a new turn are computed from the length of the list.
Listed == IsSeq(messages)

-----------------------------------------------------------------------------
(***************************************************************************)
(* A turn that moves.                                                      *)
(***************************************************************************)
\* Only turn t changes, and it stays one that was sent, in its session and hook.
Moves(t) == /\ Sent(t) /\ turn' \in [Turns -> AnyTurn]
            /\ \A u \in Turns \ {t} : turn'[u] = turn[u]
            /\ turn'[t].pc # "idle" /\ turn'[t].session = turn[t].session
            /\ turn'[t].mount \in {0, turn[t].mount}
            /\ Running(t)' => turn'[t].mount = turn[t].mount

\* No name is given to the query of another hook.
NamesOwn(t) == /\ lastQuery' \in Names
               /\ \A m \in Mounts : m # turn[t].mount => lastQuery'[m] = lastQuery[m]

Others == UNCHANGED <<session, stops, clears, mount, spoiled, poller>>

\* Running turns of the mounted hook are alone.
LEMMA OnlyOne ==
    ASSUME Types, Alone, NEW t \in Turns, NEW u \in Turns, Own(t), Own(u)
    PROVE  t = u
BY DEF Alone, Foremost, Sent, Own, Running, Turns

LEMMA NamedOwn ==
    ASSUME Types, NEW t \in Turns, NEW q \in Turns \cup {None}, lastQuery' = Named(t, q)
    PROVE  NamesOwn(t) /\ lastQuery'[turn[t].mount] = q
<1>1. turn[t].mount \in Mounts
  BY DEF Types, AnyTurn
<1> QED BY <1>1 DEF Types, Named, Names, NamesOwn

LEMMA SameNames == ASSUME Types, NEW t, UNCHANGED lastQuery PROVE NamesOwn(t)
BY DEF Types, NamesOwn

LEMMA OverMoves ==
    ASSUME Types, NEW t \in Turns, Sent(t), turn' = [turn EXCEPT ![t] = Over(t)]
    PROVE  Moves(t) /\ ~Running(t)'
<1>0. Idle \in AnyTurn /\ Idle.mount = 0 /\ turn[t].session \in Int
  BY BoundsAssumption DEF Types, Idle, AnyTurn, Mounts
<1>1. /\ Over(t) \in AnyTurn /\ Over(t).pc = "done" /\ Over(t).session = turn[t].session
      /\ Over(t).mount = 0
  BY <1>0 DEF Over, AnyTurn
<1>2. turn'[t] = Over(t) /\ \A u \in Turns \ {t} : turn'[u] = turn[u]
  BY DEF Types
<1>3. turn' \in [Turns -> AnyTurn]
  BY <1>1 DEF Types
<1> QED BY <1>1, <1>2, <1>3 DEF Moves, Running

\* A turn that moves leaves the turns of the mounted hook as they are, itself apart.
LEMMA OwnMoves ==
    ASSUME Types, NEW t \in Turns, Moves(t), Others
    PROVE  /\ \A u \in Turns \ {t} : Own(u)' <=> Own(u)
           /\ \A u : Sent(u)' <=> Sent(u)
           /\ Own(t)' <=> Running(t)' /\ turn[t].mount = mount
BY DEF Moves, Others, Own, Running, Sent

\* What a turn of another hook does is not seen by the mounted one.
LEMMA ElsewhereMoves ==
    ASSUME Types, Order, Alone, NEW t \in Turns, Moves(t), Others, NamesOwn(t),
           turn[t].mount # mount, UNCHANGED isProcessing
    PROVE  Alone'
<1>1. /\ UNCHANGED <<session, mount>> /\ lastQuery'[mount] = lastQuery[mount]
      /\ \A u \in Turns : Own(u)' <=> Own(u) /\ u # t
      /\ ~Own(t) /\ \A u : Sent(u)' <=> Sent(u)
  BY OwnMoves DEF NamesOwn, Types, Others, Own
<1>2. ASSUME NEW u \in Turns, Own(u)' PROVE Foremost(u)'
  BY <1>1, <1>2 DEF Alone, Foremost, Moves
<1>3. mount # 0
  BY DEF Order, Types, AnyTurn, Mounts
<1>4. isProcessing' <=> \E u \in Turns : Own(u)'
  BY <1>1 DEF Alone
<1> QED BY <1>1, <1>2, <1>3, <1>4 DEF Alone

\* A turn that ends.
LEMMA Ends ==
    ASSUME Inv, NEW t \in Turns, Running(t), Finally(t), Others, NamesOwn(t),
           \/ UNCHANGED conversation \/ conversation' = t
           \/ turn[t].pc = "ensure" /\ conversation' = turn[t].asked
    PROVE  Types' /\ Guarded'
<1>1. Moves(t) /\ ~Running(t)'
  BY OverMoves DEF Inv, Finally, Sent, Running
<1>i. isProcessing' = (isProcessing /\ ~(turn[t].mount = mount))
  BY DEF Finally, Mounted
<1>b. isProcessing' \in BOOLEAN
  BY <1>i
<1>c. conversation' \in Turns \cup {None}
  BY DEF Inv, Types, AnyTurn
<1>2. Types'
  BY <1>1, <1>b, <1>c DEF Inv, Types, Others, Moves, NamesOwn
<1>3. ASSUME stops = 0, ~spoiled, turn[t].mount = mount PROVE Alone'
  <2>1. Alone
    BY <1>3 DEF Inv, Guarded
  <2>2. Own(t) /\ \A u \in Turns : ~Own(u)'
    BY <1>1, <1>3, <2>1, OnlyOne, OwnMoves DEF Inv, Own
  <2>3. turn[t].session = session /\ (turn[t].pc = "ensure" => turn[t].asked = t)
    BY <2>1, <2>2 DEF Alone, Foremost
  <2>4. mount' = 0 /\ conversation' # None => turn'[conversation'].session = session'
    BY <1>1, <2>1, <2>3 DEF Inv, Types, Alone, Moves, Others
  <2>5. ~isProcessing'
    BY <1>i, <1>3
  <2> QED BY <2>2, <2>4, <2>5 DEF Alone
<1>4. ASSUME stops = 0, ~spoiled, turn[t].mount # mount PROVE Alone'
  <2>1. UNCHANGED isProcessing
    BY <1>i, <1>4 DEF Inv, Types
  <2> QED BY <1>1, <1>4, <2>1, ElsewhereMoves DEF Inv, Guarded
<1> QED BY <1>2, <1>3, <1>4 DEF Guarded, Others

\* A turn that goes on.
LEMMA GoesOn ==
    ASSUME Inv, NEW t \in Turns, Running(t), Moves(t), Running(t)', NamesOwn(t),
           Others, UNCHANGED isProcessing,
           UNCHANGED conversation \/ conversation' = t,
           Alone /\ Own(t) => /\ turn'[t].pc \in {"follow", "final"} => lastQuery'[mount] = t
                              /\ turn'[t].pc = "ensure" => turn'[t].asked = t
    PROVE  Types' /\ Guarded'
<1>1. Types'
  BY DEF Inv, Types, Others, Moves, NamesOwn
<1>2. ASSUME stops = 0, ~spoiled, turn[t].mount = mount PROVE Alone'
  <2>1. Alone /\ Own(t)
    BY <1>2 DEF Inv, Guarded, Own
  <2>2. \A u \in Turns : Own(u)' <=> u = t
    BY <1>2, <2>1, OnlyOne, OwnMoves DEF Inv
  <2>3. Foremost(t)'
    <3>1. \A u \in Turns : u > t => ~Sent(u)'
      BY <2>1, OwnMoves DEF Inv, Alone, Foremost
    <3>2. (turn[t].session = session)' /\ mount' = mount
      BY <2>1 DEF Alone, Foremost, Moves, Others
    <3>3. /\ turn'[t].pc \in {"follow", "final"} => lastQuery'[mount'] = t
          /\ turn'[t].pc = "ensure" => turn'[t].asked = t
      BY <2>1, <3>2
    <3> QED BY <3>1, <3>2, <3>3 DEF Foremost
  <2>4. isProcessing'
    BY <2>1 DEF Alone
  <2>5. mount' = 0 /\ conversation' # None => turn'[conversation'].session = session'
    BY <2>1 DEF Inv, Types, Alone, Foremost, Moves, Others
  <2> QED BY <2>2, <2>3, <2>4, <2>5 DEF Alone
<1>3. ASSUME stops = 0, ~spoiled, turn[t].mount # mount PROVE Alone'
  BY <1>3, ElsewhereMoves DEF Inv, Guarded
<1> QED BY <1>1, <1>2, <1>3 DEF Guarded, Others

\* ensureConversationId, or the end.
LEMMA Ensures ==
    ASSUME Inv, NEW t \in Turns, turn[t].pc = "follow", NEW known, NEW asked,
           Ensure(t, known, asked), Others, NamesOwn(t),
           UNCHANGED conversation \/ conversation' = t,
           asked \in Turns \cup {None}, Alone /\ Own(t) => asked \in {t, None}
    PROVE  Moves(t) /\ Types' /\ Guarded'
<1>1. Running(t) /\ Sent(t)
  BY DEF Running, Sent
<1>2. CASE known # None \/ asked = None
  <2>1. Finally(t)
    BY <1>2 DEF Ensure
  <2> QED BY <1>1, <2>1, Ends, OverMoves DEF Finally, Inv
<1>3. CASE ~(known # None \/ asked = None)
  <2> DEFINE r == [turn[t] EXCEPT !.asked = asked, !.pc = "ensure"]
  <2>1. turn' = [turn EXCEPT ![t] = r] /\ UNCHANGED isProcessing
    BY <1>3 DEF Ensure
  <2>2. /\ r \in AnyTurn /\ r.pc = "ensure" /\ r.asked = asked
        /\ r.session = turn[t].session /\ r.mount = turn[t].mount
    BY DEF Inv, Types, AnyTurn
  <2> HIDE DEF r
  <2>3. turn'[t] = r /\ Moves(t) /\ Running(t)'
    BY <1>1, <2>1, <2>2 DEF Moves, Inv, Types, Running
  <2> QED BY <1>1, <1>3, <2>1, <2>2, <2>3, GoesOn
<1> QED BY <1>2, <1>3

\* The order is kept by a turn that moves.
LEMMA OrderMoves ==
    ASSUME Inv, NEW t \in Turns, Moves(t), Others,
           UNCHANGED pending \/ (pending'.of = t /\ pending'.at \in Int)
    PROVE  Order'
<1>1. \A u : Sent(u)' <=> Sent(u)
  BY DEF Moves, Sent
<1>2. (pending # None => Sent(pending.of) /\ pending.at \in Int)'
  BY <1>1 DEF Inv, Order, Moves, Sent
<1>3. \A c \in Cards : poller'[c] # None => Sent(poller[c].of)'
  BY <1>1 DEF Inv, Order, Others, Sent
<1>4. \A v, u \in Turns : v < u /\ Sent(u)' => Sent(v)'
  BY <1>1 DEF Inv, Order
<1>5. \A u \in Turns : turn'[u].mount <= mount'
  BY DEF Inv, Types, Order, AnyTurn, Mounts, Moves, Others
<1> QED BY <1>2, <1>3, <1>4, <1>5 DEF Order

-----------------------------------------------------------------------------
(***************************************************************************)
(* Every step.                                                             *)
(***************************************************************************)
\* A step that touches none of this.
LEMMA Unmoved ==
    ASSUME Inv, UNCHANGED <<turn, poller, lastQuery, conversation, session, stops, clears, mount,
                            isProcessing, spoiled, pending>>
    PROVE  Inv'
BY DEF Inv, Types, Order, Guarded, Alone, Foremost, Sent, Own, Running

LEMMA SendStep == ASSUME Inv, Listed, NEW t \in Turns, sendMessage(t) PROVE Inv'
<1> DEFINE r == [Idle EXCEPT !.pc = "submit", !.session = session, !.mount = mount,
                             !.start = Start(messages), !.at = Start(messages)]
<1>0. /\ turn' = [turn EXCEPT ![t] = r] /\ isProcessing' = TRUE
      /\ UNCHANGED <<session, conversation, spoiled, lastQuery, stops, clears, mount, poller, pending>>
  BY DEF sendMessage, approval, presses
<1>i. Start(messages) \in Int /\ Idle \in AnyTurn
  BY LenIsNat, BoundsAssumption DEF Listed, Start, Idle, AnyTurn, Mounts
<1>1. r \in AnyTurn /\ r.pc = "submit" /\ r.session = session /\ r.mount = mount
  BY <1>i DEF Inv, Types, AnyTurn
<1> HIDE DEF r
<1>2. turn'[t] = r /\ turn' \in [Turns -> AnyTurn]
      /\ \A u \in Turns \ {t} : turn'[u] = turn[u]
  BY <1>0, <1>1 DEF Inv, Types
<1>3. \A u : Sent(u)' <=> Sent(u) \/ u = t
  BY <1>1, <1>2 DEF Sent
<1>4. \A u \in Turns : u < t => Sent(u)
  BY DEF sendMessage, Sent, Turns
<1>5. ~Sent(t) /\ \A u \in Turns : t < u => ~Sent(u)
  BY DEF sendMessage, Sent, Inv, Order
<1>6. Types'
  BY <1>0, <1>2 DEF Inv, Types
<1>m. \A u \in Turns : turn'[u].mount <= mount'
  BY <1>0, <1>1, <1>2 DEF Inv, Order, Types, Mounts
<1>7. Order'
  BY <1>0, <1>3, <1>4, <1>m DEF Inv, Order
<1>8. ASSUME stops = 0, ~spoiled PROVE Alone'
  <2>1. Alone /\ ~isProcessing
    BY <1>8 DEF Inv, Guarded, sendMessage
  <2>2. \A u \in Turns : Own(u)' <=> u = t
    BY <1>0, <1>1, <1>2, <2>1 DEF Alone, Own, Running
  <2>3. Foremost(t)'
    BY <1>0, <1>1, <1>2, <1>3, <1>5 DEF Foremost, Turns
  <2>4. mount' = 0 /\ conversation' # None => turn'[conversation'].session = session'
    BY <1>0, <1>1, <1>2, <2>1 DEF Inv, Types, Alone
  <2> QED BY <1>0, <2>2, <2>3, <2>4 DEF Alone
<1> QED BY <1>0, <1>6, <1>7, <1>8 DEF Inv, Guarded

\* Flags that are set leave the turns and the pollers what they are.
LEMMA FlagsSet ==
    ASSUME Inv, turn' = [t \in Turns |-> turn'[t]], poller' = StoppedPollers,
           \A t \in Turns : \E b \in BOOLEAN : turn'[t] = [turn[t] EXCEPT !.aborted = b]
    PROVE  /\ turn' \in [Turns -> AnyTurn]
           /\ \A t \in Turns : /\ turn'[t].pc = turn[t].pc /\ turn'[t].mount = turn[t].mount
                               /\ turn'[t].session = turn[t].session
           /\ poller' \in [Cards -> {None} \cup AnyPoller]
           /\ \A c \in Cards : /\ poller[c] = None => poller'[c] = None
                               /\ poller[c] # None => /\ poller'[c].of = poller[c].of
                                                      /\ poller'[c].at = poller[c].at
<1>1. ASSUME NEW t \in Turns
      PROVE  /\ turn'[t] \in AnyTurn /\ turn'[t].pc = turn[t].pc
             /\ turn'[t].mount = turn[t].mount /\ turn'[t].session = turn[t].session
  <2>1. PICK b \in BOOLEAN : turn'[t] = [turn[t] EXCEPT !.aborted = b]
    OBVIOUS
  <2> QED BY <2>1 DEF Inv, Types, AnyTurn
<1>2. ASSUME NEW c \in Cards
      PROVE  /\ poller'[c] \in {None} \cup AnyPoller
             /\ poller[c] = None => poller'[c] = None
             /\ poller[c] # None => poller'[c].of = poller[c].of /\ poller'[c].at = poller[c].at
  <2>1. poller[c] \in {None} \cup AnyPoller
    BY DEF Inv, Types
  <2>2. CASE PollerFlagged(c)
    <3>1. poller[c] \in AnyPoller /\ poller'[c] = [poller[c] EXCEPT !.stopped = TRUE]
      BY <2>1, <2>2 DEF StoppedPollers, PollerFlagged
    <3> QED BY <2>2, <3>1 DEF AnyPoller, PollerFlagged
  <2>3. CASE ~PollerFlagged(c)
    BY <2>1, <2>3 DEF StoppedPollers
  <2> QED BY <2>2, <2>3
<1>3. poller' = [c \in Cards |-> poller'[c]]
  BY DEF StoppedPollers
<1> QED BY <1>1, <1>2, <1>3

LEMMA StopStep == ASSUME Inv, cancelQuery PROVE Inv'
<1>1. /\ turn' = [t \in Turns |->
                    [turn[t] EXCEPT !.aborted = @ \/ /\ Running(t)
                                                     /\ Flagged(t) \/ (streaming /\ t = Latest)]]
      /\ poller' = StoppedPollers
      /\ stops' = stops + 1 /\ isProcessing' = FALSE
      /\ UNCHANGED <<session, conversation, lastQuery, pending, clears, mount>>
  BY DEF cancelQuery
<1>2. /\ turn' \in [Turns -> AnyTurn] /\ poller' \in [Cards -> {None} \cup AnyPoller]
      /\ \A t \in Turns : turn'[t].pc = turn[t].pc /\ turn'[t].mount = turn[t].mount
      /\ \A c \in Cards : /\ poller[c] = None => poller'[c] = None
                          /\ poller[c] # None => poller'[c].of = poller[c].of
  BY <1>1, FlagsSet
<1>s. stops' \in Nat
  BY <1>1 DEF Inv, Types
<1>3. Types'
  BY <1>1, <1>2, <1>s DEF Inv, Types
<1>4. \A t : Sent(t)' <=> Sent(t)
  BY <1>2 DEF Sent
<1>5. Order'
  BY <1>1, <1>2, <1>4 DEF Inv, Order
<1>6. stops' # 0
  BY <1>1 DEF Inv, Types
<1> QED BY <1>3, <1>5, <1>6 DEF Inv, Guarded

\* The bound on events bounds the mounts.
LEMMA MountBounded == ASSUME Types, WithinBound PROVE mount + 1 \in Mounts
<1>1. IsFiniteSet(Cards) /\ IsFiniteSet(Turns)
  BY FS_Interval, BoundsAssumption DEF Cards, Turns
<1>2. IsFiniteSet(Used) /\ IsFiniteSet(Deleted)
  BY <1>1, FS_Subset DEF Used, Deleted
<1>3. Cardinality(Used) \in Nat /\ Cardinality(Deleted) \in Nat
  BY <1>2, FS_CardinalityType
<1> QED BY <1>3, BoundsAssumption DEF WithinBound, Types, Mounts

\* The new hook has no turn.
LEMMA RemountStep == ASSUME Inv, remount PROVE Inv'
<1>1. /\ turn' = [t \in Turns |-> [turn[t] EXCEPT !.aborted = @ \/ (Running(t) /\ Flagged(t))]]
      /\ poller' = StoppedPollers
      /\ mount' = mount + 1 /\ isProcessing' = FALSE /\ pending' = None
      /\ UNCHANGED <<session, conversation, lastQuery, stops, clears, spoiled>>
  BY DEF remount, list
<1>2. /\ turn' \in [Turns -> AnyTurn] /\ poller' \in [Cards -> {None} \cup AnyPoller]
      /\ \A t \in Turns : turn'[t].pc = turn[t].pc /\ turn'[t].mount = turn[t].mount
      /\ \A c \in Cards : /\ poller[c] = None => poller'[c] = None
                          /\ poller[c] # None => poller'[c].of = poller[c].of
  BY <1>1, FlagsSet
<1>3. mount' \in Mounts
  BY <1>1, MountBounded DEF Inv, remount
<1>4. Types'
  BY <1>1, <1>2, <1>3 DEF Inv, Types
<1>5. \A t : Sent(t)' <=> Sent(t)
  BY <1>2 DEF Sent
<1>6. \A t \in Turns : turn'[t].mount < mount'
  BY <1>1, <1>2 DEF Inv, Order, Types, AnyTurn, Mounts
<1>7. Order'
  BY <1>1, <1>2, <1>4, <1>5, <1>6 DEF Inv, Order, Types, AnyTurn, Mounts
<1>8. Alone'
  <2>1. \A t \in Turns : ~Own(t)'
    BY <1>4, <1>6 DEF Own, Types, AnyTurn, Mounts
  <2>2. mount' # 0
    BY <1>1 DEF Inv, Types, Mounts
  <2> QED BY <1>1, <2>1, <2>2 DEF Alone
<1> QED BY <1>4, <1>7, <1>8 DEF Inv, Guarded

LEMMA ClearStep == ASSUME Inv, clearChat PROVE Inv'
<1>1. /\ session' = session + 1 /\ conversation' = None /\ ~isProcessing /\ clears' = clears + 1
      /\ UNCHANGED <<spoiled, isProcessing, turn, lastQuery, pending, poller, stops, mount>>
  BY DEF clearChat, approval
<1>2. Types' /\ Order'
  BY <1>1 DEF Inv, Types, Order, Sent
<1>3. Guarded'
  BY <1>1 DEF Inv, Guarded, Alone, Own, Running
<1> QED BY <1>2, <1>3 DEF Inv

\* A turn whose fields other than pc, session and hook change.
LEMMA FieldMoves ==
    ASSUME Inv, NEW t \in Turns, Sent(t), NEW r \in AnyTurn, turn' = [turn EXCEPT ![t] = r],
           r.pc # "idle", r.session = turn[t].session, r.mount = turn[t].mount
    PROVE  Moves(t) /\ turn'[t] = r
BY DEF Inv, Types, Moves

LEMMA FailStep == ASSUME Inv, NEW t \in Turns, Running(t), Fail(t) PROVE Inv'
<1>1. Sent(t) /\ Finally(t) /\ Others /\ UNCHANGED <<lastQuery, conversation, pending>>
  BY DEF Fail, Others, Running, Sent, approval, presses
<1> QED BY <1>1, Ends, OverMoves, OrderMoves, SameNames DEF Inv, Finally

LEMMA SubmittedStep == ASSUME Inv, NEW t \in Turns, Submitted(t) PROVE Inv'
<1>1. /\ Sent(t) /\ Running(t) /\ Others /\ UNCHANGED <<conversation, pending>>
      /\ lastQuery' = Named(t, t)
  BY DEF Submitted, Running, Sent, Others, list, approval, presses
<1>n. NamesOwn(t) /\ lastQuery'[turn[t].mount] = t
  BY <1>1, NamedOwn DEF Inv
<1>2. CASE Finally(t)
  BY <1>1, <1>n, <1>2, Ends, OverMoves, OrderMoves DEF Inv, Finally
<1>3. ASSUME NEW pc \in {"follow", "poll"}, turn' = [turn EXCEPT ![t] = [turn[t] EXCEPT !.pc = pc]],
             UNCHANGED isProcessing
      PROVE  Inv'
  <2> DEFINE r == [turn[t] EXCEPT !.pc = pc]
  <2>1. r \in AnyTurn /\ r.pc = pc /\ r.session = turn[t].session /\ r.mount = turn[t].mount
    BY DEF Inv, Types, AnyTurn
  <2> HIDE DEF r
  <2>2. Moves(t) /\ turn'[t] = r
    BY <1>1, <1>3, <2>1, FieldMoves DEF r
  <2>3. Running(t)' /\ (Own(t) => lastQuery'[mount] = t)
    BY <1>n, <2>1, <2>2 DEF Running, Own
  <2> QED BY <1>1, <1>n, <1>3, <2>1, <2>2, <2>3, GoesOn, OrderMoves DEF Inv
<1> QED BY <1>2, <1>3 DEF Submitted

\* A turn that reads its stream and goes on reading.
LEMMA ReadsOn ==
    ASSUME Inv, NEW t \in Turns, turn[t].pc = "follow", NEW r \in AnyTurn,
           turn' = [turn EXCEPT ![t] = r], r.pc \in {"follow", "final"},
           r.session = turn[t].session, r.mount = turn[t].mount,
           Others, UNCHANGED <<lastQuery, isProcessing>>,
           UNCHANGED conversation \/ conversation' = t,
           UNCHANGED pending \/ (pending'.of = t /\ pending'.at \in Int)
    PROVE  Inv'
<1>1. Sent(t) /\ Running(t) /\ NamesOwn(t)
  BY SameNames DEF Sent, Running, Inv
<1>2. Moves(t) /\ turn'[t] = r
  BY <1>1, FieldMoves
<1>3. Running(t)'
  BY <1>2 DEF Running
<1>4. Alone /\ Own(t) => lastQuery'[mount] = t
  BY DEF Alone, Foremost
<1> QED BY <1>1, <1>2, <1>3, <1>4, GoesOn, OrderMoves DEF Inv

LEMMA AgentStep == ASSUME Inv, NEW t \in Turns, AgentChunk(t) PROVE Inv'
<1> DEFINE r == [turn[t] EXCEPT !.agent = TRUE, !.at = @ + 1]
<1>1. /\ Others /\ turn[t].pc = "follow"
      /\ UNCHANGED <<conversation, pending, lastQuery, isProcessing>>
      /\ turn' = [turn EXCEPT ![t] = r]
  BY DEF AgentChunk, Following, Others, list, approval, presses
<1>f. turn[t] \in AnyTurn /\ turn[t].at + 1 \in Int
  BY DEF Inv, Types, AnyTurn
<1>2. r \in AnyTurn /\ r.pc = "follow" /\ r.session = turn[t].session /\ r.mount = turn[t].mount
  BY <1>1, <1>f DEF AnyTurn
<1> HIDE DEF r
<1> QED BY <1>1, <1>2, ReadsOn

LEMMA ApprovalStep == ASSUME Inv, NEW t \in Turns, ApprovalChunk(t) PROVE Inv'
<1> DEFINE r == [turn[t] EXCEPT !.approving = TRUE]
<1>1. /\ Others /\ turn[t].pc = "follow"
      /\ UNCHANGED <<conversation, lastQuery, isProcessing>>
      /\ turn' = [turn EXCEPT ![t] = r]
      /\ UNCHANGED pending \/ pending' = [of |-> t, at |-> turn[t].at - 1]
  BY DEF ApprovalChunk, Following, Others, presses
<1>f. turn[t] \in AnyTurn /\ turn[t].at - 1 \in Int
  BY DEF Inv, Types, AnyTurn
<1>2. r \in AnyTurn /\ r.pc = "follow" /\ r.session = turn[t].session /\ r.mount = turn[t].mount
  BY <1>1, <1>f DEF AnyTurn
<1> HIDE DEF r
<1>3. UNCHANGED pending \/ (pending'.of = t /\ pending'.at \in Int)
  BY <1>1, <1>f
<1> QED BY <1>1, <1>2, <1>3, ReadsOn

LEMMA FinalStep == ASSUME Inv, NEW t \in Turns, FinalChunk(t) PROVE Inv'
<1> DEFINE r == [turn[t] EXCEPT !.pc = "final"]
<1>1. /\ Others /\ turn[t].pc = "follow" /\ conversation' = t
      /\ UNCHANGED <<pending, lastQuery, isProcessing>>
      /\ turn' = [turn EXCEPT ![t] = r]
  BY DEF FinalChunk, Following, Others, approval, presses
<1>2. r \in AnyTurn /\ r.pc = "final" /\ r.session = turn[t].session /\ r.mount = turn[t].mount
  BY DEF Inv, Types, AnyTurn
<1> HIDE DEF r
<1> QED BY <1>1, <1>2, ReadsOn

\* The two ways a stream ends that are followed by ensureConversationId.
LEMMA StreamStep ==
    ASSUME Inv, NEW t \in Turns, NEW known, NEW asked \in Turns \cup {None},
           turn[t].pc = "follow", Ensure(t, known, asked), Others, UNCHANGED <<conversation, pending>>,
           \/ lastQuery' = Named(t, asked) /\ asked \in {t, None}
           \/ UNCHANGED lastQuery /\ asked = LastQuery(t)
    PROVE  Inv'
<1>1. NamesOwn(t)
  BY NamedOwn, SameNames DEF Inv
<1>2. Alone /\ Own(t) => asked \in {t, None}
  BY DEF Alone, Foremost, LastQuery, Own
<1> QED BY <1>1, <1>2, Ensures, OrderMoves DEF Inv

\* A turn that ends leaves the approvals alone.
LEMMA EndStep ==
    ASSUME Inv, NEW t \in Turns, Running(t), Finally(t), Others, UNCHANGED <<lastQuery, pending>>,
           \/ UNCHANGED conversation \/ conversation' = t
           \/ turn[t].pc = "ensure" /\ conversation' = turn[t].asked
    PROVE  Inv'
<1>1. Sent(t) /\ NamesOwn(t)
  BY SameNames DEF Sent, Running, Inv
<1> QED BY <1>1, Ends, OverMoves, OrderMoves DEF Inv, Finally

LEMMA ErrorStep == ASSUME Inv, NEW t \in Turns, ErrorChunk(t) PROVE Inv'
<1>1. turn[t].pc = "follow" /\ Others /\ UNCHANGED pending /\ Running(t)
  BY DEF ErrorChunk, Following, Others, approval, presses, Running
<1>2. CASE /\ \E name \in {t, None}, known \in Known(t) :
                lastQuery' = Named(t, name) /\ Ensure(t, known, name)
           /\ UNCHANGED conversation
  BY <1>1, <1>2, StreamStep
<1>3. CASE conversation' = t /\ Finally(t) /\ UNCHANGED lastQuery
  BY <1>1, <1>3, EndStep
<1> QED BY <1>2, <1>3 DEF ErrorChunk

LEMMA StreamEndsStep == ASSUME Inv, NEW t \in Turns, StreamEnds(t) PROVE Inv'
<1>1. /\ turn[t].pc = "follow" /\ Others /\ UNCHANGED <<conversation, lastQuery, pending>>
      /\ \E known : Ensure(t, known, LastQuery(t))
  BY DEF StreamEnds, Following, Others, list, approval, presses
<1>2. LastQuery(t) \in Turns \cup {None}
  BY DEF Inv, Types, Names, AnyTurn, LastQuery
<1> QED BY <1>1, <1>2, StreamStep

LEMMA PollStep ==
    ASSUME Inv, NEW t \in Turns,
           PollReply(t) \/ Wake(t) \/ StreamAborted(t) \/ Ensured(t) \/ Complete(t)
    PROVE  Inv'
<1>1. /\ Sent(t) /\ Running(t) /\ Others /\ UNCHANGED <<pending, lastQuery>>
      /\ \/ UNCHANGED conversation \/ conversation' = t
         \/ turn[t].pc = "ensure" /\ conversation' = turn[t].asked
  BY DEF PollReply, Wake, StreamAborted, Ensured, Complete, Reading, Running, Sent, Others, list,
     approval, presses
<1>2. CASE Finally(t)
  BY <1>1, <1>2, EndStep
<1>3. ASSUME NEW pc \in {"sleep", "poll"}, turn' = [turn EXCEPT ![t] = [turn[t] EXCEPT !.pc = pc]],
             UNCHANGED isProcessing, UNCHANGED conversation
      PROVE  Inv'
  <2> DEFINE r == [turn[t] EXCEPT !.pc = pc]
  <2>1. r \in AnyTurn /\ r.pc = pc /\ r.session = turn[t].session /\ r.mount = turn[t].mount
    BY DEF Inv, Types, AnyTurn
  <2> HIDE DEF r
  <2>2. Moves(t) /\ turn'[t] = r
    BY <1>1, <1>3, <2>1, FieldMoves DEF r
  <2>3. Running(t)' /\ NamesOwn(t)
    BY <1>1, <2>1, <2>2, SameNames DEF Running, Inv
  <2> QED BY <1>1, <1>3, <2>1, <2>2, <2>3, GoesOn, OrderMoves DEF Inv
<1> QED BY <1>2, <1>3 DEF PollReply, Wake, StreamAborted, Ensured, Complete, list

\* The user decides on a card, or its time runs out.
LEMMA DecideStep == ASSUME Inv, NEW c \in Cards, Decide(c) \/ Expire(c) PROVE Inv'
<1>1. UNCHANGED <<turn, lastQuery, conversation, session, stops, clears, mount, isProcessing,
                  spoiled, pending>>
  BY DEF Decide, Expire, pollAfterApproval, list, presses
<1>2. CASE UNCHANGED poller
  BY <1>1, <1>2, Unmoved
<1>3. CASE /\ pending # None
           /\ poller' = [poller EXCEPT ![c] = [of |-> pending.of, at |-> pending.at,
                                               mount |-> mount, stopped |-> FALSE]]
  <2>1. Sent(pending.of) /\ pending.at \in Int
    BY <1>3 DEF Inv, Order
  <2>2. Types'
    BY <1>1, <1>3, <2>1 DEF Inv, Types, AnyPoller, Sent
  <2>3. Order'
    BY <1>1, <1>3, <2>1 DEF Inv, Types, Order, Sent
  <2>4. Guarded'
    BY <1>1 DEF Inv, Guarded, Alone, Foremost, Sent, Own, Running
  <2> QED BY <2>2, <2>3, <2>4 DEF Inv
<1> QED BY <1>2, <1>3 DEF Decide, Expire, pollAfterApproval

\* A poller ends.  When nothing strayed no turn of the mounted hook runs.
LEMMA EndedStep ==
    ASSUME Inv, NEW c \in Cards, poller[c] # None, Ended(c),
           UNCHANGED pending \/ pending' = [of |-> poller[c].of, at |-> -1]
    PROVE  Inv'
<1>1. /\ poller' = [poller EXCEPT ![c] = None]
      /\ isProcessing' = (isProcessing /\ ~(poller[c].mount = mount))
      /\ spoiled' = (spoiled \/ Strays(poller[c]))
      /\ UNCHANGED <<session, conversation, turn, lastQuery, stops, clears, mount>>
  BY DEF Ended, Mounted, presses
<1>2. Sent(poller[c].of)
  BY DEF Inv, Order
<1>b. isProcessing' \in BOOLEAN
  BY <1>1
<1>3. Types'
  BY <1>1, <1>b DEF Inv, Types
<1>4. (pending # None => Sent(pending.of) /\ pending.at \in Int)'
  BY <1>1, <1>2 DEF Inv, Order, Sent
<1>5. Order'
  BY <1>1, <1>4 DEF Inv, Types, Order, Sent
<1>6. ASSUME stops' = 0, ~spoiled' PROVE Alone'
  <2>1. Alone /\ ~Strays(poller[c])
    BY <1>1, <1>6 DEF Inv, Guarded
  <2>2. \A t \in Turns : ~Own(t)
    BY <1>2, <2>1 DEF Alone, Strays, Foremost, Sent, Own, Running, Turns
  <2>3. \A t \in Turns : ~Own(t)'
    BY <1>1, <2>2 DEF Own, Running
  <2>4. ~isProcessing'
    BY <1>1, <2>1, <2>2 DEF Alone
  <2> QED BY <1>1, <2>1, <2>3, <2>4 DEF Alone
<1> QED BY <1>3, <1>5, <1>6 DEF Inv, Guarded

LEMMA PollerMoves == ASSUME Inv, NEW c \in Cards, PollerStep(c) PROVE Inv'
<1>1. CASE PollerStops(c)
  <2>1. /\ poller' = [poller EXCEPT ![c] = None]
        /\ UNCHANGED <<turn, lastQuery, conversation, session, stops, clears, mount, isProcessing,
                       spoiled, pending>>
    BY <1>1 DEF PollerStops, list, presses
  <2>2. Types' /\ Order'
    BY <2>1 DEF Inv, Types, Order, Sent
  <2>3. Guarded'
    BY <2>1 DEF Inv, Guarded, Alone, Foremost, Sent, Own, Running
  <2> QED BY <2>2, <2>3 DEF Inv
<1>2. CASE ~PollerStops(c)
  BY <1>2, EndedStep DEF PollerStep, CascadeReply, applyTerminalResult, PollerFails,
     PollerTimesOut
<1> QED BY <1>1, <1>2

\* No step makes anything but a sequence of the list.
LEMMA ListedStep == ASSUME Inv, Listed, [Next]_vars PROVE Listed'
<1>u. UNCHANGED messages => Listed'
  BY DEF Listed
<1>a. ASSUME NEW m, messages' = Append(messages, m) PROVE Listed'
  BY <1>a, AppendIsSeq DEF Listed
<1>e. IsSeq(<<>>)
  BY EmptySeq DEF IsSeq
<1>0. CASE UNCHANGED vars
  BY <1>0, <1>u DEF vars, list
<1>1. CASE cancelQuery
  BY <1>1, <1>a DEF cancelQuery
<1>2. CASE clearChat \/ remount
  BY <1>2, <1>e, <1>u DEF clearChat, remount, list, Listed
<1>3. ASSUME NEW t \in Turns, sendMessage(t) PROVE Listed'
  <2>1. IsSeq(<<Said("user", t), Reply>>) /\ IsSeq(<<Said("user", t)>>)
    <3> DEFINE S == {Said("user", t), Reply}
    <3>1. <<Said("user", t), Reply>> \in Seq(S) /\ <<Said("user", t)>> \in Seq(S)
      OBVIOUS
    <3> QED BY <3>1 DEF IsSeq
  <2> QED BY <1>3, <2>1, ConcatIsSeq DEF sendMessage, Listed
<1>4. ASSUME NEW t \in Turns, TurnStep(t) \/ Chunk(t) PROVE Listed'
  <2>t. turn[t].at \in Int /\ turn[t].at + 1 \in Int /\ turn[t].start - 1 \in Int
    BY DEF Inv, Types, AnyTurn
  <2>1. CASE Fail(t)
    BY <2>1, <1>a DEF Fail
  <2>2. CASE AgentChunk(t)
    BY <2>2, <2>t, AppendIsSeq, PlacedIsSeq DEF AgentChunk, Listed
  <2>3. CASE ApprovalChunk(t)
    BY <2>3, <2>t, PlacedIsSeq DEF ApprovalChunk, Listed
  <2>4. CASE Complete(t)
    BY <2>4, <2>t, SliceIsSeq, AppendIsSeq DEF Complete, Listed
  <2>5. CASE Chunk(t) \/ FinalChunk(t) \/ ErrorChunk(t)
    BY <2>5, <2>t, PlacedIsSeq DEF Chunk, FinalChunk, ErrorChunk, Listed
  <2>6. CASE PollReply(t)
    BY <2>6, <1>u, <1>a DEF PollReply
  <2>7. CASE Submitted(t) \/ StreamEnds(t) \/ StreamAborted(t) \/ Ensured(t) \/ Wake(t)
    BY <2>7, <1>u DEF Submitted, StreamEnds, StreamAborted, Ensured, Wake, list
  <2> QED BY <1>4, <2>1, <2>2, <2>3, <2>4, <2>5, <2>6, <2>7 DEF TurnStep, SubmitFails,
       StreamBreaks, PollFails
<1>5. ASSUME NEW t \in Turns,
             PhasePolled(t) \/ QueryEnds(t) \/ QueryDeleted(t) \/ AsksAgain(t) \/ Resumes(t)
      PROVE  Listed'
  BY <1>5, <1>u DEF PhasePolled, QueryEnds, QueryDeleted, AsksAgain, Resumes, Becomes, list
<1>6. ASSUME NEW c \in Cards, Decide(c) \/ Expire(c) \/ PollerStops(c) PROVE Listed'
  BY <1>6, <1>u DEF Decide, Expire, pollAfterApproval, PollerStops, list
<1>7. ASSUME NEW c \in Cards, CascadeReply(c) \/ PollerFails(c) \/ PollerTimesOut(c)
      PROVE  Listed'
  BY <1>7, <1>a DEF CascadeReply, PollerFails, PollerTimesOut
<1>8. ASSUME NEW c \in Cards, applyTerminalResult(c) PROVE Listed'
  <2>1. poller[c].at \in Int
    BY <1>8 DEF applyTerminalResult, Inv, Types, AnyPoller
  <2> QED BY <1>8, <2>1, <1>u, <1>a, SliceIsSeq, AppendIsSeq DEF applyTerminalResult, Terminal,
             Listed
<1> QED BY <1>0, <1>1, <1>2, <1>3, <1>4, <1>5, <1>6, <1>7, <1>8 DEF Next, PollerStep

-----------------------------------------------------------------------------
(***************************************************************************)
(* Where the messages of the user are.  Nothing but sendMessage adds one,  *)
(* so a step of another function keeps them when it appends, writes where  *)
(* none is, or cuts the list off behind the last.                          *)
(***************************************************************************)
Has(ms, i, t) == i \in DOMAIN ms /\ ms[i] = Said("user", t)

FromUser(m) == \E t \in Turns : m = Said("user", t)

LEMMA NoneIsNoMessage == ~FromUser(None)
BY NoneAssumption DEF FromUser, Said, Message

LEMMA OthersAreNot == ~FromUser(Reply) /\ \A c : ~FromUser(Said("approval", c))
<1>1. \A t, c : /\ Said("approval", c).kind # Said("user", t).kind
               /\ Reply.kind # Said("user", t).kind
  BY DEF Said, Reply
<1> QED BY <1>1 DEF FromUser

LEMMA AppendHas ==
    ASSUME NEW ms, IsSeq(ms), NEW m, ~FromUser(m), NEW i, NEW t \in Turns
    PROVE  Has(Append(ms, m), i, t) <=> Has(ms, i, t)
<1>1. PICK S : ms \in Seq(S)
  BY DEF IsSeq
<1>2. ms \in Seq(S \cup {m})
  BY <1>1, SeqDef
<1>3. /\ DOMAIN Append(ms, m) = 1 .. Len(ms) + 1 /\ DOMAIN ms = 1 .. Len(ms)
      /\ Append(ms, m)[Len(ms) + 1] = m /\ Len(ms) \in Nat
      /\ \A j \in 1 .. Len(ms) : Append(ms, m)[j] = ms[j]
  <2>1. Append(ms, m) \in Seq(S \cup {m}) /\ Len(Append(ms, m)) = Len(ms) + 1
    BY <1>2, AppendProperties
  <2>2. DOMAIN Append(ms, m) = 1 .. Len(Append(ms, m)) /\ DOMAIN ms = 1 .. Len(ms)
        /\ Len(ms) \in Nat
    BY <1>2, <2>1, LenProperties
  <2> QED BY <1>2, <2>1, <2>2, AppendProperties
<1>4. CASE i = Len(ms) + 1
  BY <1>3, <1>4 DEF Has, FromUser
<1>5. CASE i # Len(ms) + 1
  <2>1. i \in 1 .. Len(ms) + 1 <=> i \in 1 .. Len(ms)
    BY <1>3, <1>5
  <2> QED BY <1>3, <2>1 DEF Has
<1> QED BY <1>4, <1>5

LEMMA PlacedHas ==
    ASSUME NEW ms, IsSeq(ms), NEW n \in Nat \ {0}, NEW m, ~FromUser(m),
           \A t \in Turns : ~Has(ms, n, t), NEW i, NEW t \in Turns
    PROVE  Has(Placed(ms, n, m), i, t) <=> Has(ms, i, t)
<1> DEFINE k == IF n > Len(ms) THEN n ELSE Len(ms)
<1>1. Len(ms) \in Nat /\ DOMAIN ms = 1 .. Len(ms)
  BY LenIsNat
<1>2. DOMAIN Placed(ms, n, m) = 1 .. k
  BY DEF Placed
<1>3. \A j \in 1 .. k : Placed(ms, n, m)[j] = IF j = n THEN m
                                              ELSE IF j <= Len(ms) THEN ms[j] ELSE None
  BY DEF Placed
<1>4. 1 .. Len(ms) \subseteq 1 .. k
  BY <1>1
<1>5. CASE i = n
  BY <1>2, <1>3, <1>5 DEF Has, FromUser
<1>6. CASE i # n /\ i \in 1 .. Len(ms)
  <2>1. Placed(ms, n, m)[i] = ms[i]
    BY <1>1, <1>3, <1>4, <1>6
  <2> QED BY <1>1, <1>2, <1>4, <1>6, <2>1 DEF Has
<1>7. CASE i # n /\ i \notin 1 .. Len(ms)
  <2>1. i \in 1 .. k => Placed(ms, n, m)[i] = None
    BY <1>1, <1>3, <1>7
  <2> QED BY <1>1, <1>2, <1>7, <2>1, NoneIsNoMessage DEF Has, FromUser
<1> QED BY <1>5, <1>6, <1>7

LEMMA SliceHas ==
    ASSUME NEW ms, IsSeq(ms), NEW n \in Nat,
           \A i : \A t \in Turns : Has(ms, i, t) => i <= n, NEW i, NEW t \in Turns
    PROVE  Has(Slice(ms, n), i, t) <=> Has(ms, i, t)
<1> DEFINE k == IF n < Len(ms) THEN n ELSE Len(ms)
<1>1. Len(ms) \in Nat /\ DOMAIN ms = 1 .. Len(ms)
  BY LenIsNat
<1>2. PICK S : ms \in Seq(S)
  BY DEF IsSeq
<1>3. k \in 0 .. Len(ms)
  BY <1>1
<1>4. Slice(ms, n) = SubSeq(ms, 1, k)
  BY DEF Slice
<1> HIDE DEF k
<1>5. /\ Len(SubSeq(ms, 1, k)) = k /\ SubSeq(ms, 1, k) \in Seq(S)
      /\ \A j \in 1 .. k : SubSeq(ms, 1, k)[j] = ms[j]
  BY <1>1, <1>2, <1>3, SubSeqProperties
<1>6. DOMAIN SubSeq(ms, 1, k) = 1 .. k
  BY <1>5, LenProperties
<1>7. Has(ms, i, t) => i \in 1 .. k
  BY <1>1 DEF Has, k
<1>8. 1 .. k \subseteq 1 .. Len(ms)
  BY <1>1, <1>3
<1> QED BY <1>1, <1>4, <1>5, <1>6, <1>7, <1>8 DEF Has

\* The message of the user, and in a stream a placeholder for the answer.
LEMMA SentHas ==
    ASSUME NEW ms, IsSeq(ms), NEW t \in Turns, NEW b, NEW i, NEW u \in Turns
    PROVE  Has(ms \o IF b THEN <<Said("user", t), Reply>> ELSE <<Said("user", t)>>,
               i, u)
             <=> Has(ms, i, u) \/ (i = Len(ms) + 1 /\ u = t)
<1>1. PICK S : ms \in Seq(S)
  BY DEF IsSeq
<1> DEFINE T == S \cup {Said("user", t), Reply}
           new == IF b THEN <<Said("user", t), Reply>> ELSE <<Said("user", t)>>
<1> SUFFICES Has(ms \o new, i, u) <=> Has(ms, i, u) \/ (i = Len(ms) + 1 /\ u = t)
  OBVIOUS
<1>2. ms \in Seq(T)
  BY <1>1, SeqDef
<1>3. new \in Seq(T) /\ Len(new) \in 1 .. 2 /\ new[1] = Said("user", t)
      /\ (Len(new) = 2 => new[2] = Reply)
  <2>1. {Said("user", t), Reply} \subseteq T
    OBVIOUS
  <2> HIDE DEF T
  <2>2. CASE b
    <3>1. new = <<Said("user", t), Reply>>
      BY <2>2
    <3> HIDE DEF new
    <3> QED BY <2>1, <3>1
  <2>3. CASE ~b
    <3>1. new = <<Said("user", t)>>
      BY <2>3
    <3> HIDE DEF new
    <3> QED BY <2>1, <3>1
  <2> QED BY <2>2, <2>3
<1> HIDE DEF new
<1>4. /\ ms \o new \in Seq(T) /\ Len(ms \o new) = Len(ms) + Len(new)
      /\ \A j \in 1 .. Len(ms) + Len(new) :
           (ms \o new)[j] = IF j <= Len(ms) THEN ms[j] ELSE new[j - Len(ms)]
  BY <1>2, <1>3, ConcatProperties
<1>5. /\ DOMAIN (ms \o new) = 1 .. Len(ms) + Len(new) /\ DOMAIN ms = 1 .. Len(ms)
      /\ Len(ms) \in Nat
  BY <1>2, <1>4, LenProperties
<1>6. CASE i \in 1 .. Len(ms)
  <2>1. i \in 1 .. Len(ms) + Len(new) /\ i <= Len(ms) /\ i # Len(ms) + 1
    BY <1>3, <1>5, <1>6
  <2>2. (ms \o new)[i] = ms[i]
    BY <1>4, <2>1
  <2> QED BY <1>5, <1>6, <2>1, <2>2 DEF Has
<1>7. CASE i = Len(ms) + 1
  <2>1. (ms \o new)[i] = Said("user", t) /\ i \in DOMAIN (ms \o new) /\ i \notin DOMAIN ms
    BY <1>3, <1>4, <1>5, <1>7
  <2> QED BY <1>7, <2>1 DEF Has, Said
<1>8. CASE i = Len(ms) + 2
  <2>1. i \in DOMAIN (ms \o new) => (ms \o new)[i] = Reply
    BY <1>3, <1>4, <1>5, <1>8
  <2>2. ~FromUser(Reply)
    BY OthersAreNot
  <2> QED BY <1>5, <1>8, <2>1, <2>2 DEF Has, FromUser
<1>9. CASE i \notin 1 .. Len(ms) + 2
  BY <1>3, <1>5, <1>9 DEF Has
<1> QED BY <1>5, <1>6, <1>7, <1>8, <1>9
-----------------------------------------------------------------------------
(***************************************************************************)
(* The messages of the user are kept.  A turn at work is the newest, and   *)
(* all that the user said stands before its answer; the place noted for an *)
(* approval is behind all that was said when it was noted.                 *)
(***************************************************************************)
Newest(t) == \A u \in Turns : u > t => ~Sent(u)

\* All that the user said is in the first n places.
Within(n) == n \in Nat /\ \A i : \A t \in Turns : Has(messages, i, t) => i <= n

AtWork(t) == Running(t) /\ ~turn[t].aborted

Apart(t) == /\ Newest(t) /\ Within(turn[t].start - 1)
            /\ 2 <= turn[t].start /\ turn[t].start <= turn[t].at

\* x is a note of where the answer after an approval goes.
Behind(x) == x.at = -1 \/ ~Newest(x.of) \/ Within(x.at)

Clean == ~spoiled /\ ~overlapped

Told == /\ \A t \in Turns : t \in sent <=> \E i : Has(messages, i, t)
        /\ \A i, j : \A t, u \in Turns :
              Has(messages, i, t) /\ Has(messages, j, u) => (i < j <=> t < u)

Kept == Clean =>
          /\ Told
          /\ \A t \in Turns : t \in sent => Sent(t)
          /\ \A t \in Turns : AtWork(t) => Apart(t)
          /\ pending # None => Behind(pending)
          /\ \A c \in Cards : poller[c] # None => Behind(poller[c])

SameUsers == \A i : \A t \in Turns : Has(messages', i, t) <=> Has(messages, i, t)

\* No turn is sent, no turn starts to work, and the places only go up.
Steady == /\ \A u : Sent(u)' <=> Sent(u)
          /\ \A u \in Turns : AtWork(u)' => /\ AtWork(u) /\ turn'[u].start = turn[u].start
                                            /\ turn'[u].at \in {turn[u].at, turn[u].at + 1}

\* Where the notes of approvals come from.
Noted == /\ pending' # None => UNCHANGED pending \/ pending'.at = -1 \/ Within(pending'.at)
         /\ \A c \in Cards : poller'[c] # None =>
              \/ /\ poller[c] # None
                 /\ poller'[c].of = poller[c].of /\ poller'[c].at = poller[c].at
              \/ /\ pending # None
                 /\ poller'[c].of = pending.of /\ poller'[c].at = pending.at

LEMMA KeptSame ==
    ASSUME Inv, Kept, Steady, UNCHANGED sent, Clean' => Clean /\ SameUsers /\ Noted
    PROVE  Kept'
<1> SUFFICES ASSUME Clean'
             PROVE  /\ Told'
                    /\ \A t \in Turns : t \in sent' => Sent(t)'
                    /\ \A t \in Turns : AtWork(t)' => Apart(t)'
                    /\ pending' # None => Behind(pending)'
                    /\ \A c \in Cards : poller'[c] # None => Behind(poller[c])'
  BY DEF Kept
<1>1. Clean /\ SameUsers /\ Noted
  OBVIOUS
<1>2. Told' /\ \A t \in Turns : t \in sent' => Sent(t)'
  BY <1>1 DEF Kept, Told, SameUsers, Steady
<1>3. \A n : Within(n) => Within(n)'
  BY <1>1 DEF Within, SameUsers
<1>4. \A t : Newest(t)' <=> Newest(t)
  BY DEF Newest, Steady
<1>5. ASSUME NEW t \in Turns, AtWork(t)' PROVE Apart(t)'
  <2>1. /\ Apart(t) /\ turn'[t].start = turn[t].start
        /\ turn'[t].at \in {turn[t].at, turn[t].at + 1}
    BY <1>1, <1>5 DEF Steady, Kept
  <2>2. turn[t].at \in Int /\ turn[t].start \in Int
    BY DEF Inv, Types, AnyTurn
  <2>3. 2 <= turn'[t].start /\ turn'[t].start <= turn'[t].at
    BY <2>1, <2>2 DEF Apart
  <2>4. (Newest(t) /\ Within(turn[t].start - 1))'
    <3>1. Within(turn'[t].start - 1)
      BY <2>1 DEF Apart
    <3>2. Within(turn[t].start - 1)'
      BY <1>1, <3>1 DEF Within, SameUsers
    <3> QED BY <1>4, <2>1, <3>2 DEF Apart
  <2> QED BY <2>3, <2>4 DEF Apart
<1>6. ASSUME pending' # None PROVE Behind(pending)'
  <2>1. CASE UNCHANGED pending
    <3>1. Behind(pending)
      BY <1>1, <1>6, <2>1 DEF Kept
    <3>2. Within(pending.at) => Within(pending.at)'
      BY <1>1, <2>1 DEF Within, SameUsers
    <3> QED BY <1>4, <2>1, <3>1, <3>2 DEF Behind
  <2>2. CASE Within(pending'.at)
    <3>1. Within(pending.at)'
      BY <1>1, <2>2 DEF Within, SameUsers
    <3> QED BY <3>1 DEF Behind
  <2> QED BY <1>1, <1>6, <2>1, <2>2 DEF Noted, Behind
<1>7. ASSUME NEW c \in Cards, poller'[c] # None PROVE Behind(poller[c])'
  <2>1. PICK x : Behind(x) /\ poller'[c].of = x.of /\ poller'[c].at = x.at
    BY <1>1, <1>7 DEF Noted, Kept
  <2>2. Within(x.at) => Within(poller[c].at)'
    BY <1>1, <2>1 DEF Within, SameUsers
  <2> QED BY <1>4, <2>1, <2>2 DEF Behind
<1> QED BY <1>2, <1>5, <1>6, <1>7

-----------------------------------------------------------------------------
(***************************************************************************)
(* What a step does to the list, and to the turns.                         *)
(***************************************************************************)
LEMMA SameUnchanged == ASSUME UNCHANGED messages PROVE SameUsers
BY DEF SameUsers

LEMMA SameAppend ==
    ASSUME Listed, NEW m, ~FromUser(m), messages' = Append(messages, m) PROVE SameUsers
BY AppendHas DEF Listed, SameUsers

\* A turn at work writes its answer behind all that the user said.
LEMMA SamePlaced ==
    ASSUME Listed, NEW n \in Nat \ {0}, NEW k \in Int, k < n, Within(k), NEW m, ~FromUser(m),
           messages' = Placed(messages, n, m)
    PROVE  SameUsers
<1>1. \A t \in Turns : ~Has(messages, n, t)
  BY DEF Within
<1> QED BY <1>1, PlacedHas DEF Listed, SameUsers

\* The list is cut off behind the place noted and the answer is appended.
LEMMA SameCut ==
    ASSUME Listed, NEW n \in Nat, Within(n), NEW m, ~FromUser(m),
           messages' = Append(Slice(messages, n), m)
    PROVE  SameUsers
<1>1. IsSeq(Slice(messages, n))
  BY SliceIsSeq DEF Listed
<1>2. \A i : \A t \in Turns : Has(Slice(messages, n), i, t) <=> Has(messages, i, t)
  BY SliceHas DEF Listed, Within
<1> QED BY <1>1, <1>2, AppendHas DEF SameUsers

LEMMA SteadyUnchanged == ASSUME Inv, UNCHANGED turn PROVE Steady
BY DEF Inv, Types, AnyTurn, Steady, Sent, AtWork, Running

LEMMA SteadyOver ==
    ASSUME Inv, NEW t \in Turns, Running(t), turn' = [turn EXCEPT ![t] = Over(t)]
    PROVE  Steady
<1>1. Moves(t) /\ ~Running(t)'
  BY OverMoves DEF Inv, Running, Sent
<1> QED BY <1>1 DEF Inv, Types, AnyTurn, Steady, Moves, Sent, AtWork, Running

LEMMA SteadyField ==
    ASSUME Inv, NEW t \in Turns, Running(t), NEW r, turn' = [turn EXCEPT ![t] = r],
           r.pc # "idle", r.start = turn[t].start, r.at \in {turn[t].at, turn[t].at + 1},
           r.aborted = turn[t].aborted
    PROVE  Steady
<1>1. turn'[t] = r /\ \A u \in Turns \ {t} : turn'[u] = turn[u]
  BY DEF Inv, Types
<1>2. \A u : Sent(u)' <=> Sent(u)
  BY <1>1 DEF Sent, Running
<1>3. ASSUME NEW u \in Turns, AtWork(u)'
      PROVE  /\ AtWork(u) /\ turn'[u].start = turn[u].start
             /\ turn'[u].at \in {turn[u].at, turn[u].at + 1}
  <2>1. CASE u = t
    BY <1>1, <1>3, <2>1 DEF AtWork
  <2>2. CASE u # t
    BY <1>1, <1>3, <2>2 DEF AtWork, Running
  <2> QED BY <2>1, <2>2
<1> QED BY <1>2, <1>3 DEF Steady

LEMMA SteadyPc ==
    ASSUME Inv, NEW t \in Turns, Running(t), NEW pc \in {"follow", "final", "poll", "sleep"},
           turn' = [turn EXCEPT ![t] = [turn[t] EXCEPT !.pc = pc]]
    PROVE  Steady
<1> DEFINE r == [turn[t] EXCEPT !.pc = pc]
<1>1. r.pc = pc /\ r.start = turn[t].start /\ r.at = turn[t].at /\ r.aborted = turn[t].aborted
  BY DEF Inv, Types, AnyTurn
<1> HIDE DEF r
<1> QED BY <1>1, SteadyField DEF r

LEMMA SteadyEnsure ==
    ASSUME Inv, NEW t \in Turns, Running(t), NEW known, NEW asked, Ensure(t, known, asked)
    PROVE  Steady
<1>1. CASE Finally(t)
  BY <1>1, SteadyOver DEF Finally
<1>2. CASE ~Finally(t)
  <2> DEFINE r == [turn[t] EXCEPT !.asked = asked, !.pc = "ensure"]
  <2>1. turn' = [turn EXCEPT ![t] = r]
    BY <1>2 DEF Ensure
  <2>2. r.pc = "ensure" /\ r.start = turn[t].start /\ r.at = turn[t].at
        /\ r.aborted = turn[t].aborted
    BY DEF Inv, Types, AnyTurn
  <2> HIDE DEF r
  <2> QED BY <2>1, <2>2, SteadyField
<1> QED BY <1>1, <1>2

LEMMA NotedUnchanged == ASSUME UNCHANGED <<pending, poller>> PROVE Noted
BY DEF Noted

-----------------------------------------------------------------------------
(***************************************************************************)
(* Every step keeps the messages.                                          *)
(***************************************************************************)
LEMMA KeptSend == ASSUME Inv, Listed, Kept, NEW t \in Turns, sendMessage(t) PROVE Kept'
<1> SUFFICES ASSUME Clean' PROVE Kept'
  BY DEF Kept
<1> DEFINE r == [Idle EXCEPT !.pc = "submit", !.session = session, !.mount = mount,
                             !.start = Start(messages), !.at = Start(messages)]
<1>1. /\ turn' = [turn EXCEPT ![t] = r] /\ sent' = sent \cup {t}
      /\ messages' = messages \o IF streaming THEN <<Said("user", t), Reply>>
                                 ELSE <<Said("user", t)>>
      /\ overlapped' = (overlapped \/ \E u \in Turns : Running(u) /\ ~turn[u].aborted)
      /\ UNCHANGED <<spoiled, pending, poller>>
  BY DEF sendMessage, approval
<1>2. Clean /\ \A u \in Turns : ~AtWork(u)
  BY <1>1 DEF Clean, AtWork
<1>3. r.pc = "submit" /\ r.start = Len(messages) + 2 /\ r.at = Len(messages) + 2
  BY DEF Idle, Start
<1> HIDE DEF r
<1>4. turn'[t] = r /\ \A u \in Turns \ {t} : turn'[u] = turn[u]
  BY <1>1 DEF Inv, Types
<1>5. \A u : Sent(u)' <=> Sent(u) \/ u = t
  BY <1>3, <1>4 DEF Sent
<1>6. ~Sent(t) /\ \A u \in Turns : Sent(u) => u < t
  <2>1. ~Sent(t) /\ \A u \in Turns : u > t => ~Sent(u)
    BY DEF sendMessage, Sent, Inv, Order
  <2> QED BY <2>1 DEF Turns, Sent
<1>7. \A i : \A u \in Turns : Has(messages', i, u) <=> Has(messages, i, u)
                                                    \/ (i = Len(messages) + 1 /\ u = t)
  BY <1>1, SentHas DEF Listed
<1>8. Len(messages) \in Nat /\ \A i : \A u \in Turns : Has(messages, i, u) => i \in 1 .. Len(messages)
  BY LenIsNat DEF Listed, Has
<1>9. /\ \A u \in Turns : u \in sent' <=> \E i : Has(messages', i, u)
      /\ \A u \in Turns : u \in sent' => Sent(u)'
  <2>1. ASSUME NEW u \in Turns PROVE u \in sent' <=> \E i : Has(messages', i, u)
    <3>1. CASE u = t
      BY <1>1, <1>7, <3>1
    <3>2. CASE u # t
      <4>1. u \in sent' <=> u \in sent
        BY <1>1, <3>2
      <4>2. u \in sent <=> \E i : Has(messages, i, u)
        BY <1>2 DEF Kept, Told
      <4>3. ASSUME NEW i PROVE Has(messages', i, u) <=> Has(messages, i, u)
        BY <1>7, <3>2, Zenon
      <4> QED BY <4>1, <4>2, <4>3
    <3> QED BY <3>1, <3>2
  <2>2. \A u \in Turns : u \in sent' => Sent(u)'
    BY <1>1, <1>2, <1>5 DEF Kept
  <2> QED BY <2>1, <2>2
<1>10. ASSUME NEW i, NEW j, NEW u \in Turns, NEW v \in Turns,
              Has(messages', i, u), Has(messages', j, v)
       PROVE  i < j <=> u < v
  <2>1. \A w \in Turns : \A k : Has(messages, k, w) => w < t /\ k < Len(messages) + 1
    BY <1>2, <1>6, <1>8 DEF Kept, Told
  <2>2. CASE Has(messages, i, u) /\ Has(messages, j, v)
    BY <1>2, <2>2 DEF Kept, Told
  <2>3. CASE ~(Has(messages, i, u) /\ Has(messages, j, v))
    BY <1>7, <1>8, <1>10, <2>1, <2>3 DEF Turns
  <2> QED BY <2>2, <2>3
<1>11. ASSUME NEW u \in Turns, AtWork(u)' PROVE Apart(u)'
  <2>1. u = t
    BY <1>2, <1>4, <1>11 DEF AtWork, Running
  <2>2. Newest(t)'
    BY <1>5, <1>6 DEF Newest, Turns
  <2>3. turn'[t].start = Len(messages) + 2 /\ turn'[t].at = Len(messages) + 2
    BY <1>3, <1>4
  <2>4. \A i : \A w \in Turns : Has(messages', i, w) => i <= turn'[t].start - 1
    BY <1>7, <1>8, <2>3
  <2> QED BY <1>8, <2>1, <2>2, <2>3, <2>4 DEF Apart, Within
<1>12. \A u \in Turns : Sent(u) => ~Newest(u)'
  BY <1>5, <1>6 DEF Newest
<1>13. /\ pending' # None => Behind(pending)'
       /\ \A c \in Cards : poller'[c] # None => Behind(poller[c])'
  BY <1>1, <1>12 DEF Inv, Order, Behind, Sent
<1> QED BY <1>9, <1>10, <1>11, <1>13 DEF Kept, Told

\* Flags that are set stop turns and start none.
LEMMA KeptFlags ==
    ASSUME Inv, Kept, SameUsers, turn' = [t \in Turns |-> turn'[t]], poller' = StoppedPollers,
           \A t \in Turns : \E b \in BOOLEAN : turn'[t] = [turn[t] EXCEPT !.aborted = @ \/ b],
           UNCHANGED <<sent, overlapped, spoiled>>, pending' = pending \/ pending' = None
    PROVE  Kept'
<1>1. ASSUME NEW t \in Turns
      PROVE  /\ turn'[t].pc = turn[t].pc /\ turn'[t].start = turn[t].start
             /\ turn'[t].at = turn[t].at
             /\ turn[t].aborted => turn'[t].aborted
  BY DEF Inv, Types, AnyTurn
<1>2. Steady
  BY <1>1 DEF Steady, Sent, AtWork, Running
<1>3. \A c \in Cards : /\ poller[c] = None => poller'[c] = None
                       /\ poller[c] # None => /\ poller'[c].of = poller[c].of
                                              /\ poller'[c].at = poller[c].at
  <2>1. \A t \in Turns : \E b \in BOOLEAN : turn'[t] = [turn[t] EXCEPT !.aborted = b]
    <3> SUFFICES ASSUME NEW t \in Turns
                 PROVE  \E b \in BOOLEAN : turn'[t] = [turn[t] EXCEPT !.aborted = b]
      OBVIOUS
    <3>1. PICK b \in BOOLEAN : turn'[t] = [turn[t] EXCEPT !.aborted = @ \/ b]
      OBVIOUS
    <3>2. (turn[t].aborted \/ b) \in BOOLEAN
      OBVIOUS
    <3> QED BY <3>1, <3>2
  <2> QED BY <2>1, FlagsSet
<1>4. Noted
  <2>1. pending' # None => UNCHANGED pending
    OBVIOUS
  <2>2. ASSUME NEW c \in Cards, poller'[c] # None
        PROVE  poller[c] # None /\ poller'[c].of = poller[c].of /\ poller'[c].at = poller[c].at
    BY <1>3, <2>2
  <2> QED BY <2>1, <2>2 DEF Noted
<1> QED BY <1>2, <1>4, KeptSame DEF Clean

LEMMA KeptStop == ASSUME Inv, Listed, Kept, cancelQuery PROVE Kept'
<1>1. /\ messages' = Append(messages, Reply)
      /\ turn' = [t \in Turns |->
                    [turn[t] EXCEPT !.aborted = @ \/ /\ Running(t)
                                                     /\ Flagged(t) \/ (streaming /\ t = Latest)]]
      /\ poller' = StoppedPollers
      /\ UNCHANGED <<sent, overlapped, spoiled, pending>>
  BY DEF cancelQuery
<1>2. SameUsers
  BY <1>1, SameAppend, OthersAreNot
<1> QED BY <1>1, <1>2, KeptFlags

LEMMA KeptRemount == ASSUME Inv, Kept, remount PROVE Kept'
<1>1. /\ turn' = [t \in Turns |-> [turn[t] EXCEPT !.aborted = @ \/ (Running(t) /\ Flagged(t))]]
      /\ poller' = StoppedPollers /\ pending' = None
      /\ UNCHANGED <<messages, sent, overlapped, spoiled>>
  BY DEF remount, list
<1> QED BY <1>1, SameUnchanged, KeptFlags

LEMMA KeptClear == ASSUME Inv, Kept, clearChat PROVE Kept'
<1> SUFFICES ASSUME Clean' PROVE Kept'
  BY DEF Kept
<1>1. /\ messages' = <<>> /\ sent' = {}
      /\ UNCHANGED <<overlapped, spoiled, turn, pending, poller>>
  BY DEF clearChat, approval
<1>2. \A i : \A t \in Turns : ~Has(messages', i, t)
  BY <1>1 DEF Has
<1>3. Clean
  BY <1>1 DEF Clean
<1>4. (\A n \in Nat : Within(n))'
  BY <1>2 DEF Within
<1>5. \A t \in Turns : AtWork(t)' => Apart(t)'
  BY <1>1, <1>3, <1>4 DEF Kept, AtWork, Running, Apart, Newest, Sent, Within
<1>6. Told'
  BY <1>1, <1>2 DEF Told
<1>7. ASSUME NEW x, Behind(x) PROVE Behind(x)'
  BY <1>1, <1>4, <1>7 DEF Behind, Newest, Sent, Within
<1> QED BY <1>1, <1>3, <1>5, <1>6, <1>7 DEF Kept

\* A turn at work knows what stands before its answer.
LEMMA WorkerApart ==
    ASSUME Inv, Kept, Clean, NEW t \in Turns, Reading(t), ~turn[t].aborted
    PROVE  /\ turn[t].start - 1 \in Nat /\ Within(turn[t].start - 1)
           /\ turn[t].at \in Nat \ {0} /\ turn[t].at + 1 \in Nat \ {0}
           /\ turn[t].start - 1 < turn[t].at /\ turn[t].start - 1 < turn[t].at + 1
<1>1. AtWork(t)
  BY DEF Reading, AtWork, Running
<1>2. Apart(t)
  BY <1>1 DEF Kept
<1>3. turn[t].start \in Int /\ turn[t].at \in Int
  BY DEF Inv, Types, AnyTurn
<1> QED BY <1>1, <1>2, <1>3 DEF Apart

LEMMA KeptFail == ASSUME Inv, Listed, Kept, NEW t \in Turns, Running(t), Fail(t) PROVE Kept'
<1>1. SameUsers
  BY SameAppend, OthersAreNot DEF Fail
<1>2. Steady
  BY SteadyOver DEF Fail, Finally
<1> QED BY <1>1, <1>2, NotedUnchanged, KeptSame DEF Fail, Clean, approval

LEMMA KeptAgent == ASSUME Inv, Listed, Kept, NEW t \in Turns, AgentChunk(t) PROVE Kept'
<1> DEFINE r == [turn[t] EXCEPT !.agent = TRUE, !.at = @ + 1]
           ms == Append(messages, Reply)
<1>1. /\ Reading(t) /\ ~turn[t].aborted /\ turn' = [turn EXCEPT ![t] = r]
      /\ messages' = Placed(ms, turn[t].at + 1, Reply)
      /\ UNCHANGED <<sent, overlapped, spoiled, pending, poller>>
  BY DEF AgentChunk, Following, Reading, approval
<1>2. /\ r.pc = turn[t].pc /\ r.start = turn[t].start /\ r.at = turn[t].at + 1
      /\ r.aborted = turn[t].aborted
  BY DEF Inv, Types, AnyTurn
<1> HIDE DEF r
<1>3. Steady
  BY <1>1, <1>2, SteadyField DEF Reading, Running
<1>4. ASSUME Clean PROVE SameUsers
  <2>1. IsSeq(ms) /\ \A i : \A u \in Turns : Has(ms, i, u) <=> Has(messages, i, u)
    BY AppendIsSeq, AppendHas, OthersAreNot DEF Listed
  <2> HIDE DEF ms
  <2>2. \A u \in Turns : ~Has(ms, turn[t].at + 1, u)
    BY <1>1, <1>4, <2>1, WorkerApart DEF Within
  <2> QED BY <1>1, <1>4, <2>1, <2>2, PlacedHas, OthersAreNot, WorkerApart DEF SameUsers
<1> QED BY <1>1, <1>3, <1>4, NotedUnchanged, KeptSame DEF Clean

LEMMA KeptApproval == ASSUME Inv, Listed, Kept, NEW t \in Turns, ApprovalChunk(t) PROVE Kept'
<1> DEFINE r == [turn[t] EXCEPT !.approving = TRUE]
<1>1. /\ Reading(t) /\ ~turn[t].aborted /\ turn' = [turn EXCEPT ![t] = r]
      /\ \E c : messages' = Placed(messages, turn[t].at, Said("approval", c))
      /\ UNCHANGED pending \/ pending' = [of |-> t, at |-> turn[t].at - 1]
      /\ UNCHANGED <<sent, overlapped, spoiled, poller>>
  BY DEF ApprovalChunk, Following, Reading
<1>2. /\ r.pc = turn[t].pc /\ r.start = turn[t].start /\ r.at = turn[t].at
      /\ r.aborted = turn[t].aborted
  BY DEF Inv, Types, AnyTurn
<1> HIDE DEF r
<1>3. Steady
  BY <1>1, <1>2, SteadyField DEF Reading, Running
<1>4. ASSUME Clean PROVE SameUsers /\ Noted
  <2>1. SameUsers
    BY <1>1, <1>4, WorkerApart, SamePlaced, OthersAreNot
  <2>2. CASE pending' = [of |-> t, at |-> turn[t].at - 1]
    <3>1. /\ turn[t].start \in Int /\ turn[t].at \in Int
          /\ turn[t].start - 1 < turn[t].at /\ Within(turn[t].start - 1)
      BY <1>1, <1>4, WorkerApart DEF Inv, Types, AnyTurn
    <3>2. \A i : \A u \in Turns : Has(messages, i, u) => i \in Int
      BY LenIsNat DEF Listed, Has
    <3>3. Within(pending'.at)
      BY <2>2, <3>1, <3>2 DEF Within
    <3> QED BY <1>1, <2>1, <3>3 DEF Noted
  <2>3. CASE UNCHANGED pending
    BY <1>1, <2>1, <2>3, NotedUnchanged
  <2> QED BY <1>1, <2>2, <2>3
<1> QED BY <1>1, <1>3, <1>4, KeptSame DEF Clean

LEMMA KeptStream ==
    ASSUME Inv, Listed, Kept, NEW t \in Turns,
           Chunk(t) \/ FinalChunk(t) \/ Complete(t) \/ ErrorChunk(t) \/ StreamEnds(t)
    PROVE  Kept'
<1>1. /\ Reading(t) /\ ~turn[t].aborted /\ Running(t)
      /\ \/ messages' = Append(Slice(messages, turn[t].start - 1), Reply)
         \/ messages' = Placed(messages, turn[t].at, Reply)
         \/ UNCHANGED messages
      /\ UNCHANGED <<sent, overlapped, spoiled, pending, poller>>
  BY DEF Chunk, FinalChunk, Complete, ErrorChunk, StreamEnds, Following, Reading, Running, list,
     approval
<1>2. Steady
  <2>1. CASE \E known, asked : Ensure(t, known, asked)
    BY <1>1, <2>1, SteadyEnsure
  <2>2. CASE Finally(t)
    BY <1>1, <2>2, SteadyOver DEF Finally
  <2>3. CASE Chunk(t)
    BY <2>3, SteadyUnchanged DEF Chunk
  <2>4. CASE FinalChunk(t)
    BY <1>1, <2>4, SteadyPc DEF FinalChunk
  <2> QED BY <2>1, <2>2, <2>3, <2>4 DEF Complete, ErrorChunk, StreamEnds
<1>3. ASSUME Clean PROVE SameUsers
  BY <1>1, <1>3, WorkerApart, SameCut, SamePlaced, SameUnchanged, OthersAreNot
<1> QED BY <1>1, <1>2, <1>3, NotedUnchanged, KeptSame DEF Clean

LEMMA KeptPoll ==
    ASSUME Inv, Listed, Kept, NEW t \in Turns,
           Submitted(t) \/ PollReply(t) \/ Wake(t) \/ StreamAborted(t) \/ Ensured(t)
    PROVE  Kept'
<1>1. /\ Running(t)
      /\ UNCHANGED messages \/ messages' = Append(messages, Reply)
      /\ UNCHANGED <<sent, overlapped, spoiled, pending, poller>>
  BY DEF Submitted, PollReply, Wake, StreamAborted, Ensured, Reading, Running, list, approval
<1>2. SameUsers
  BY <1>1, SameUnchanged, SameAppend, OthersAreNot
<1>3. \/ Finally(t)
      \/ \E pc \in {"follow", "poll", "sleep"} :
            turn' = [turn EXCEPT ![t] = [turn[t] EXCEPT !.pc = pc]]
  BY DEF Submitted, PollReply, Wake, StreamAborted, Ensured
<1>4. Steady
  BY <1>1, <1>3, SteadyOver, SteadyPc DEF Finally
<1> QED BY <1>1, <1>2, <1>4, NotedUnchanged, KeptSame DEF Clean

LEMMA KeptDecide ==
    ASSUME Inv, Kept, NEW c \in Cards, Decide(c) \/ Expire(c) PROVE Kept'
<1>1. /\ \/ UNCHANGED poller
         \/ /\ pending # None
            /\ poller' = [poller EXCEPT ![c] = [of |-> pending.of, at |-> pending.at,
                                                mount |-> mount, stopped |-> FALSE]]
      /\ UNCHANGED <<messages, turn, sent, overlapped, spoiled, pending>>
  BY DEF Decide, Expire, pollAfterApproval, list
<1>2. Noted
  BY <1>1 DEF Noted, Inv, Types
<1> QED BY <1>1, <1>2, SameUnchanged, SteadyUnchanged, KeptSame DEF Clean

\* The end of an approval cuts the list off at the place noted; a note that an
\* own turn has overtaken, or that has no place, makes the end a stray one.
LEMMA KeptEnded ==
    ASSUME Inv, Listed, Kept, NEW c \in Cards,
           CascadeReply(c) \/ applyTerminalResult(c) \/ PollerFails(c) \/ PollerTimesOut(c)
    PROVE  Kept'
<1> DEFINE p == poller[c]
<1>1. /\ p # None /\ poller' = [poller EXCEPT ![c] = None]
      /\ spoiled' = (spoiled \/ Strays(p))
      /\ UNCHANGED <<turn, sent, overlapped>>
      /\ UNCHANGED pending \/ pending'.at = -1
      /\ \/ messages' = Append(Slice(messages, p.at), Reply)
         \/ UNCHANGED messages
         \/ \E m : ~FromUser(m) /\ messages' = Append(messages, m)
  BY OthersAreNot
     DEF CascadeReply, applyTerminalResult, PollerFails, PollerTimesOut, Ended, Terminal
<1>2. Noted
  BY <1>1 DEF Noted, Inv, Types
<1>3. ASSUME Clean' PROVE Clean /\ SameUsers
  <2>1. Clean /\ ~Strays(p)
    BY <1>1, <1>3 DEF Clean
  <2>2. Within(p.at) /\ p.at \in Nat
    <3>1. Behind(p)
      BY <1>1, <2>1 DEF Kept
    <3> QED BY <1>1, <2>1, <3>1 DEF Behind, Newest, Sent, Strays, Within
  <2>3. CASE messages' = Append(Slice(messages, p.at), Reply)
    BY <2>1, <2>2, <2>3, SameCut, OthersAreNot
  <2>4. CASE UNCHANGED messages
    BY <2>1, <2>4, SameUnchanged
  <2>5. CASE \E m : ~FromUser(m) /\ messages' = Append(messages, m)
    BY <2>1, <2>5, SameAppend
  <2> QED BY <1>1, <2>3, <2>4, <2>5
<1> QED BY <1>1, <1>2, <1>3, SteadyUnchanged, KeptSame

LEMMA KeptUnmoved ==
    ASSUME Inv, Kept, UNCHANGED <<messages, turn, sent, overlapped, spoiled, pending>>,
           \/ UNCHANGED poller
           \/ \E c \in Cards : poller' = [poller EXCEPT ![c] = None]
    PROVE  Kept'
<1>1. Noted
  BY DEF Noted, Inv, Types
<1> QED BY <1>1, SameUnchanged, SteadyUnchanged, KeptSame DEF Clean

LEMMA KeptInit == ASSUME Init PROVE Kept
<1>1. /\ messages = <<>> /\ sent = {} /\ turn = [t \in Turns |-> Idle]
      /\ pending = None /\ poller = [c \in Cards |-> None]
  BY DEF Init
<1>2. \A i : \A t \in Turns : ~Has(messages, i, t)
  BY <1>1 DEF Has
<1>3. \A t \in Turns : ~AtWork(t)
  BY <1>1 DEF AtWork, Running, Idle
<1> QED BY <1>1, <1>2, <1>3 DEF Kept, Told

LEMMA KeptStep == ASSUME Inv, Listed, Kept, [Next]_vars PROVE Kept'
<1>0. CASE UNCHANGED vars
  BY <1>0, KeptUnmoved DEF vars, list, approval
<1>1. CASE cancelQuery \/ clearChat \/ remount
  BY <1>1, KeptStop, KeptClear, KeptRemount
<1>2. ASSUME NEW t \in Turns, sendMessage(t) PROVE Kept'
  BY <1>2, KeptSend
<1>3. ASSUME NEW t \in Turns, TurnStep(t) \/ Chunk(t) PROVE Kept'
  <2>1. CASE SubmitFails(t) \/ StreamBreaks(t) \/ PollFails(t)
    BY <2>1, KeptFail DEF SubmitFails, StreamBreaks, PollFails, Reading, Running
  <2> QED BY <1>3, <2>1, KeptAgent, KeptApproval, KeptStream, KeptPoll DEF TurnStep
<1>4. ASSUME NEW t \in Turns,
             PhasePolled(t) \/ QueryEnds(t) \/ QueryDeleted(t) \/ AsksAgain(t) \/ Resumes(t)
      PROVE  Kept'
  BY <1>4, KeptUnmoved DEF PhasePolled, QueryEnds, QueryDeleted, AsksAgain, Resumes, Becomes, list, approval
<1>5. ASSUME NEW c \in Cards, Decide(c) \/ Expire(c) \/ PollerStep(c) PROVE Kept'
  <2>1. CASE PollerStops(c)
    BY <2>1, KeptUnmoved DEF PollerStops, list
  <2> QED BY <1>5, <2>1, KeptDecide, KeptEnded DEF PollerStep
<1> QED BY <1>0, <1>1, <1>2, <1>3, <1>4, <1>5 DEF Next

-----------------------------------------------------------------------------
(***************************************************************************)
(* The theorem.                                                            *)
(***************************************************************************)
LEMMA InvInit == ASSUME Init PROVE Inv
<1>1. /\ turn = [t \in Turns |-> Idle] /\ poller = [c \in Cards |-> None]
      /\ lastQuery = [m \in 0 .. MaxEvents |-> None] /\ conversation = None /\ session = 0
      /\ stops = 0 /\ clears = 0 /\ mount = 0
      /\ isProcessing = FALSE /\ pending = None
  BY DEF Init
<1>2. Idle \in AnyTurn /\ Idle.pc = "idle" /\ Idle.mount = 0
  BY BoundsAssumption DEF Idle, AnyTurn, Mounts
<1>3. Types
  <2>1. lastQuery \in Names
    BY <1>1 DEF Names, Mounts
  <2>2. isProcessing \in BOOLEAN
    BY <1>1
  <2>3. mount \in Mounts
    BY <1>1, BoundsAssumption DEF Mounts
  <2> QED BY <1>1, <1>2, <2>1, <2>2, <2>3 DEF Types
<1>4. Order
  BY <1>1, <1>2 DEF Order, Sent
<1>5. Guarded
  BY <1>1, <1>2 DEF Guarded, Alone, Own, Running
<1> QED BY <1>3, <1>4, <1>5 DEF Inv

LEMMA InvStep == ASSUME Inv, Listed, [Next]_vars PROVE Inv'
<1>0. CASE UNCHANGED vars
  BY <1>0, Unmoved DEF vars, list, approval, presses
<1>1. CASE cancelQuery \/ clearChat \/ remount
  BY <1>1, StopStep, ClearStep, RemountStep
<1>2. ASSUME NEW t \in Turns, sendMessage(t) PROVE Inv'
  BY <1>2, SendStep
<1>3. ASSUME NEW t \in Turns, TurnStep(t) PROVE Inv'
  <2>1. CASE SubmitFails(t) \/ StreamBreaks(t) \/ PollFails(t)
    BY <2>1, FailStep DEF SubmitFails, StreamBreaks, PollFails, Reading, Running
  <2> QED BY <1>3, <2>1, SubmittedStep, AgentStep, ApprovalStep, FinalStep, ErrorStep,
             StreamEndsStep, PollStep DEF TurnStep
<1>4. ASSUME NEW t \in Turns,
             \/ Chunk(t) \/ PhasePolled(t) \/ QueryEnds(t) \/ QueryDeleted(t) \/ AsksAgain(t)
             \/ Resumes(t)
      PROVE  Inv'
  BY <1>4, Unmoved DEF Chunk, PhasePolled, QueryEnds, QueryDeleted, AsksAgain, Resumes, Becomes,
     list, approval, presses
<1>5. ASSUME NEW c \in Cards, Decide(c) \/ Expire(c) \/ PollerStep(c) PROVE Inv'
  BY <1>5, DecideStep, PollerMoves
<1> QED BY <1>0, <1>1, <1>2, <1>3, <1>4, <1>5 DEF Next

\* isProcessing, which several functions reset without asking who set it, is TRUE
\* exactly while a turn of sendMessage of the mounted hook runs, as long as the stop
\* button is not pressed and no poller of an approval ends beside another turn; and
\* until the hook is mounted again no turn gives its conversationId to a chat begun
\* after it.  What turns that a remount left behind do is covered, and disturbs
\* neither.
THEOREM ProcessingCorrect == Spec => []ProcessingProtects
<1>1. Inv /\ Listed => ProcessingProtects
  BY DEF Inv, Guarded, Alone, Own, Mounted, ProcessingProtects
<1>2. Init => Inv /\ Listed
  BY InvInit, EmptySeq DEF Init, Listed, IsSeq
<1>3. Inv /\ Listed /\ [Next]_vars => (Inv /\ Listed)'
  BY InvStep, ListedStep
<1> QED BY <1>1, <1>2, <1>3, PTL DEF Spec

\* The functions that write into the list at places noted before they waited,
\* slice(0, turnStartIndex) and slice(0, messageIndex) among them, lose no message
\* of the user and leave their order alone, unless the end of an approval strays
\* or a turn is sent beside another one.
THEOREM MessagesCorrect == Spec => []UserMessagesKept
<1>1. Inv /\ Listed /\ Kept => UserMessagesKept
  BY DEF Kept, Clean, Told, Has, UserMessagesKept
<1>2. Init => Inv /\ Listed /\ Kept
  BY InvInit, KeptInit, EmptySeq DEF Init, Listed, IsSeq
<1>3. Inv /\ Listed /\ Kept /\ [Next]_vars => (Inv /\ Listed /\ Kept)'
  BY InvStep, ListedStep, KeptStep
<1> QED BY <1>1, <1>2, <1>3, PTL DEF Spec

=============================================================================
