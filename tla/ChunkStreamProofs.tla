-------------------------- MODULE ChunkStreamProofs --------------------------
(***************************************************************************)
(* Theorems about ChunkStream, for any number of clients and completions   *)
(* and every bound on the stream.                                          *)
(***************************************************************************)
EXTENDS ChunkStream, SequenceTheorems, TLAPS

-----------------------------------------------------------------------------
(***************************************************************************)
(* The invariant.  Types is TypeOK without the program counters of the     *)
(* completions.                                                            *)
(***************************************************************************)
Types == /\ backend \in {"memory", "redis"}
         /\ log \in Seq(Kind) /\ Len(log) <= MaxEntries
         /\ reader \in [Readers -> Reader]

Contiguous(S) == \A i, j \in S : i .. j \subseteq S

\* What the loop of a subscription has buffered, up to the last entry it read.
Buffered(r) == /\ \A p \in r.buffer : /\ p[2] = p[1] + r.base /\ p[1] <= r.last
                                      /\ \A k \in p[1] .. r.last : <<k, k + r.base>> \in r.buffer
               /\ r.phase = "fetched" =>
                     \A k \in r.replay + 1 .. r.last : <<k, k + r.base>> \in r.buffer

\* What a client of a subscription that reads has been sent.
Sent(r) == IF r.from THEN 1 .. r.last \subseteq r.sent
           ELSE r.sent = {} \/ (r.last \in r.sent /\ r.sent \subseteq 1 .. r.last)

\* The loop reads, or an error has ended it.
Began(r) == r.sub \in {"reading", "broken"}

\* Over Redis, with n entries in the stream.
OverRedis(r, n) ==
    /\ r.last <= n /\ r.replay <= n
    /\ r.phase \in {"off", "replaying", "fetched"} => r.sent = {}
    /\ r.phase \in {"replaying", "fetched"} => r.from
    /\ r.sub = "none" => r.ended # "no" \/ r.phase \in {"off", "gone"}
    /\ r.ended # "no" => r.sub = "none"
    /\ r.sub \in {"tail", "length"} => r.buffer = {} /\ r.sent = {} /\ r.phase # "fetched"
                                       /\ (r.phase = "live" => ~r.from)
    /\ r.sub = "tail" => r.last = 0
    /\ Began(r) /\ r.phase \in {"replaying", "fetched"} => Buffered(r)
    /\ Began(r) /\ r.phase = "live" => Sent(r)
    /\ r.phase = "off" => r.sub = "none"

\* In memory, with n entries in the stream.
InMemory(r, n) ==
    /\ r.phase \in {"off", "live", "gone"} /\ r.sub \in {"none", "reading"}
    /\ ~r.twice /\ r.sent \subseteq 1 .. n
    /\ ~r.from => r.sent \subseteq r.start + 1 .. n
    /\ r.sub = "reading" => /\ r.phase = "live" /\ r.ended = "no" /\ r.watched
                            /\ r.start <= n
                            /\ r.sent = (IF r.from THEN 1 ELSE r.start + 1) .. n
    /\ r.ended = "done" => Completed(n) # {}
    /\ r.from /\ r.ended = "done" => BeforeCompletion(n) \subseteq r.sent

Whole(r) == Contiguous(r.sent) /\ (r.from /\ r.sent # {} => 1 \in r.sent)

ReaderOK(r) == /\ Whole(r)
               /\ backend = "redis" => OverRedis(r, Len(log))
               /\ backend = "memory" => InMemory(r, Len(log))

Inv == Types /\ \A r \in Readers : ReaderOK(reader[r])

-----------------------------------------------------------------------------
(***************************************************************************)
(* The response of one client.                                             *)
(***************************************************************************)
\* An ended response.
LEMMA Ended ==
    ASSUME NEW r \in Reader, NEW how \in {"done", "error", "timeout"}
    PROVE  LET e == End(r, how)
           IN  /\ e \in Reader /\ e.sub = "none"
               /\ e.ended = (IF r.ended = "no" THEN how ELSE r.ended)
               /\ e.phase = r.phase /\ e.from = r.from /\ e.last = r.last /\ e.base = r.base
               /\ e.replay = r.replay /\ e.buffer = r.buffer /\ e.sent = r.sent
               /\ e.twice = r.twice /\ e.start = r.start /\ e.watched = r.watched
<1>1. (r.timer /\ ~r.watched) \in BOOLEAN
  OBVIOUS
<1> QED BY <1>1, ZenonT(40) DEF End, Reader

\* An entry that is not the completion, delivered to a client that gets it at once.
LEMMA DeliveredLive ==
    ASSUME NEW r \in Reader, NEW i \in Index, NEW o, log'[i] # "complete",
           r.phase = "live", r.ended = "no", r.sub = "reading"
    PROVE  LET d == Deliver(r, i, o)
           IN  /\ d \in Reader /\ d.sent = r.sent \cup {i}
               /\ d.twice = (r.twice \/ i \in r.sent)
               /\ d.phase = "live" /\ d.from = r.from /\ d.last = r.last /\ d.base = r.base
               /\ d.replay = r.replay /\ d.buffer = r.buffer /\ d.start = r.start
               /\ d.watched = r.watched
               /\ \/ d.sub = "reading" /\ d.ended = "no"
                  \/ d.sub = "none" /\ d.ended = "error"
<1> DEFINE s == [r EXCEPT !.timer = FALSE]
           w == Write(s, i)
<1>1. s \in Reader /\ s.ended = "no" /\ s.sub = "reading" /\ s.phase = "live"
      /\ s.sent = r.sent /\ s.twice = r.twice /\ s.from = r.from /\ s.last = r.last
      /\ s.base = r.base /\ s.replay = r.replay /\ s.buffer = r.buffer /\ s.start = r.start
      /\ s.watched = r.watched
  BY DEF Reader
<1>2. Deliver(r, i, o) = writeLiveChunk(s, i)
  BY DEF Deliver
<1> HIDE DEF s
<1>3. w = [s EXCEPT !.sent = s.sent \cup {i}, !.twice = s.twice \/ i \in s.sent]
  BY <1>1 DEF Write
<1>t. s.sent \cup {i} \in SUBSET Index /\ (s.twice \/ i \in s.sent) \in BOOLEAN
  BY <1>1 DEF Reader
<1>4. w \in Reader /\ w.ended = "no" /\ w.sub = "reading" /\ w.phase = "live"
      /\ w.sent = r.sent \cup {i} /\ w.twice = (r.twice \/ i \in r.sent) /\ w.from = r.from
      /\ w.last = r.last
      /\ w.base = r.base /\ w.replay = r.replay /\ w.buffer = r.buffer /\ w.start = r.start
      /\ w.watched = r.watched
  BY <1>1, <1>3, <1>t, ZenonT(40) DEF Reader
<1>5. Deliver(r, i, o) = IF log'[i] = "error" THEN End(w, "error") ELSE w
  BY <1>2 DEF writeLiveChunk
<1> HIDE DEF w
<1> QED BY <1>4, <1>5, Ended

\* One that is buffered until the replay is out.
LEMMA DeliveredLater ==
    ASSUME NEW r \in Reader, NEW i \in Index, NEW o \in 1 .. 2 * MaxEntries,
           log'[i] # "complete", r.phase # "live"
    PROVE  LET d == Deliver(r, i, o)
           IN  /\ d \in Reader /\ d.buffer = r.buffer \cup {<<i, o>>}
               /\ d.sent = r.sent /\ d.twice = r.twice
               /\ d.phase = r.phase /\ d.from = r.from /\ d.last = r.last /\ d.base = r.base
               /\ d.replay = r.replay /\ d.start = r.start /\ d.watched = r.watched
               /\ d.sub = r.sub /\ d.ended = r.ended
<1> DEFINE b == r.buffer \cup {<<i, o>>}
<1>1. b \in SUBSET (Index \X (1 .. 2 * MaxEntries))
  BY DEF Reader
<1>2. Deliver(r, i, o) = [[r EXCEPT !.timer = FALSE] EXCEPT !.buffer = b]
  BY DEF Deliver, Reader
<1> HIDE DEF b
<1>3. [[r EXCEPT !.timer = FALSE] EXCEPT !.buffer = b]
         = [r EXCEPT !.timer = FALSE, !.buffer = b]
  BY DEF Reader
<1> QED BY <1>1, <1>2, <1>3 DEF Reader, b

-----------------------------------------------------------------------------
(***************************************************************************)
(* The stream in memory.                                                   *)
(***************************************************************************)
LEMMA CompletedGrows ==
    ASSUME Types, NEW kind \in Kind, appendItem(kind), NEW n \in Nat, n = Len(log)
    PROVE  /\ log' \in Seq(Kind) /\ Len(log') = n + 1 /\ n + 1 <= MaxEntries
           /\ log'[n + 1] = kind /\ \A i \in 1 .. n : log'[i] = log[i]
<1>1. log' = Append(log, kind) /\ Len(log) < MaxEntries /\ log \in Seq(Kind)
  BY DEF Types, appendItem
<1>2. /\ log' \in Seq(Kind) /\ Len(log') = n + 1 /\ log'[n + 1] = kind
      /\ \A i \in 1 .. n : log'[i] = log[i]
  BY <1>1, AppendProperties
<1> QED BY <1>1, <1>2, MaxEntriesAssumption

\* A client whose subscription is over is not concerned.
LEMMA MemoryRests ==
    ASSUME Types, NEW kind \in Kind, appendItem(kind), NEW r \in Reader,
           InMemory(r, Len(log)), r.sub # "reading"
    PROVE  InMemory(r, Len(log))'
<1>n. PICK n \in Nat : n = Len(log)
  BY LenProperties DEF Types
<1>1. Len(log') = n + 1 /\ \A i \in 1 .. n : log'[i] = log[i]
  BY <1>n, CompletedGrows
<1>2. Completed(n) \subseteq Completed(n + 1)'
  BY <1>n, <1>1 DEF Completed
<1>3. ASSUME r.ended = "done" PROVE BeforeCompletion(n + 1)' \subseteq BeforeCompletion(n)
  <2>1. PICK j \in 1 .. n : j \in Completed(n)
    BY <1>n, <1>3 DEF InMemory, Completed
  <2> QED BY <1>n, <1>2, <2>1 DEF BeforeCompletion
<1>4. 1 .. n \subseteq 1 .. n + 1 /\ \A s \in Nat : s + 1 .. n \subseteq s + 1 .. n + 1
  BY <1>n
<1>5. r.start \in Nat
  BY DEF Reader, Position
<1> QED BY <1>1, <1>2, <1>3, <1>4, <1>5, <1>n DEF InMemory

\* A client whose subscription reads gets the new entry at once.
LEMMA MemoryDelivers ==
    ASSUME Types, NEW kind \in Kind, appendItem(kind), NEW r \in Reader, Whole(r),
           InMemory(r, Len(log)), r.sub = "reading",
           NEW d, d = Deliver(r, Len(log'), Len(log'))
    PROVE  d \in Reader /\ Whole(d) /\ InMemory(d, Len(log))'
<1>n. PICK n \in Nat : n = Len(log)
  BY LenProperties DEF Types
<1>1. /\ Len(log') = n + 1 /\ n + 1 \in Index
      /\ log'[n + 1] = kind /\ \A i \in 1 .. n : log'[i] = log[i]
  BY <1>n, CompletedGrows, SMTT(30) DEF Index
<1>2. r.phase = "live" /\ r.ended = "no" /\ r.start \in 0 .. n
      /\ r.sent = (IF r.from THEN 1 ELSE r.start + 1) .. n
  BY <1>n DEF InMemory, Reader, Position
<1>3. CASE kind = "complete"
  <2>1. d = End(r, "done")
    BY <1>1, <1>3 DEF Deliver
  <2>2. d \in Reader /\ d.sub = "none" /\ d.ended = "done" /\ d.phase = r.phase
        /\ d.from = r.from /\ d.sent = r.sent /\ d.twice = r.twice /\ d.start = r.start
    BY <1>2, <2>1, Ended
  <2>3. n + 1 \in Completed(n + 1)'
    BY <1>1, <1>3 DEF Completed
  <2>4. BeforeCompletion(n + 1)' \subseteq 1 .. n
    BY <2>3 DEF BeforeCompletion
  <2>5. Whole(d)
    BY <2>2 DEF Whole
  <2>6. r.sent \subseteq 1 .. n + 1 /\ (~r.from => r.sent \subseteq r.start + 1 .. n + 1)
    BY <1>2
  <2>7. d.from => BeforeCompletion(n + 1)' \subseteq d.sent
    BY <1>2, <2>2, <2>4
  <2> QED BY <1>1, <1>2, <1>n, <2>2, <2>3, <2>5, <2>6, <2>7 DEF InMemory
<1>4. CASE kind # "complete"
  <2>0. d = Deliver(r, n + 1, n + 1) /\ log'[n + 1] # "complete" /\ r.sub = "reading"
    BY <1>1, <1>4
  <2>1. /\ d \in Reader /\ d.sent = r.sent \cup {n + 1}
        /\ d.twice = (r.twice \/ n + 1 \in r.sent)
        /\ d.phase = "live" /\ d.from = r.from /\ d.start = r.start /\ d.watched = r.watched
        /\ (d.sub = "reading" /\ d.ended = "no") \/ (d.sub = "none" /\ d.ended = "error")
    BY <1>1, <1>2, <2>0, DeliveredLive
  <2>2. d.sent = (IF d.from THEN 1 ELSE d.start + 1) .. n + 1
    BY <1>2, <2>1
  <2>3. ~d.twice
    <3>1. n + 1 \notin r.sent
      BY <1>2
    <3> QED BY <2>1, <3>1 DEF InMemory
  <2>4. Whole(d)
    BY <1>2, <2>1, <2>2 DEF Whole, Contiguous
  <2>5. d.watched /\ d.start \in 0 .. n + 1
    BY <1>2, <2>1 DEF InMemory
  <2> QED BY <1>1, <2>1, <2>2, <2>3, <2>4, <2>5 DEF InMemory
<1> QED BY <1>3, <1>4

\* Every append, whoever makes it.
LEMMA AppendStep == ASSUME Inv, NEW kind \in Kind, appendItem(kind) PROVE Inv'
<1>n. PICK n \in Nat : n = Len(log)
  BY LenProperties DEF Inv, Types
<1>1. log' \in Seq(Kind) /\ Len(log') = n + 1 /\ n + 1 <= MaxEntries
  BY <1>n, CompletedGrows DEF Inv
<1>2. UNCHANGED backend
  BY DEF appendItem
<1>3. CASE backend = "memory"
  <2>1. reader' = [r \in Readers |-> IF reader[r].sub = "reading"
                                     THEN Deliver(reader[r], Len(log'), Len(log'))
                                     ELSE reader[r]]
    BY <1>3 DEF appendItem
  <2>2. ASSUME NEW r \in Readers
        PROVE  reader'[r] \in Reader /\ Whole(reader'[r]) /\ InMemory(reader[r], Len(log))'
    <3>1. reader[r] \in Reader /\ Whole(reader[r]) /\ InMemory(reader[r], Len(log))
      BY <1>3 DEF Inv, Types, ReaderOK
    <3>2. CASE reader[r].sub = "reading"
      <4>1. PICK d : d = Deliver(reader[r], Len(log'), Len(log'))
        OBVIOUS
      <4>2. d \in Reader /\ Whole(d) /\ InMemory(d, Len(log))'
        BY <3>1, <3>2, <4>1, MemoryDelivers DEF Inv
      <4>3. reader'[r] = d
        BY <2>1, <3>2, <4>1
      <4> QED BY <4>2, <4>3 DEF InMemory
    <3>3. CASE reader[r].sub # "reading"
      <4>1. PICK d \in Reader : d = reader[r]
        BY <3>1
      <4>2. InMemory(d, Len(log))'
        BY <3>1, <3>3, <4>1, MemoryRests DEF Inv
      <4>3. reader'[r] = d
        BY <2>1, <3>3, <4>1
      <4> QED BY <3>1, <4>1, <4>2, <4>3 DEF InMemory
    <3> QED BY <3>2, <3>3
  <2>3. reader' \in [Readers -> Reader]
    BY <2>1, <2>2
  <2> QED BY <1>1, <1>2, <1>3, <2>2, <2>3 DEF Inv, Types, ReaderOK, Whole
<1>4. CASE backend = "redis"
  <2>1. UNCHANGED reader
    BY <1>4 DEF appendItem
  <2>2. ASSUME NEW r \in Readers PROVE OverRedis(reader'[r], n + 1)
    <3>1. reader[r] \in Reader /\ OverRedis(reader[r], n)
      BY <1>4, <1>n DEF Inv, Types, ReaderOK
    <3>2. reader[r].last \in Nat /\ reader[r].replay \in Nat
      BY <3>1, MaxEntriesAssumption DEF Reader, Position
    <3>3. reader[r].last <= n + 1 /\ reader[r].replay <= n + 1
      BY <3>1, <3>2 DEF OverRedis
    <3> QED BY <2>1, <3>1, <3>3 DEF OverRedis
  <2> QED BY <1>1, <1>2, <1>4, <2>1, <2>2 DEF Inv, Types, ReaderOK, Whole
<1> QED BY <1>3, <1>4 DEF Inv, Types

-----------------------------------------------------------------------------
(***************************************************************************)
(* The steps of one client.                                                *)
(***************************************************************************)
LEMMA OneReader ==
    ASSUME Inv, NEW r \in Readers, NEW e \in Reader, reader' = [reader EXCEPT ![r] = e],
           UNCHANGED <<backend, log>>, ReaderOK(e)
    PROVE  Inv'
<1>1. \A q \in Readers : reader'[q] = IF q = r THEN e ELSE reader[q]
  BY DEF Inv, Types
<1>2. \A q \in Readers : ReaderOK(reader'[q])
  BY <1>1 DEF Inv
<1>3. Types'
  BY DEF Inv, Types
<1> QED BY <1>2, <1>3 DEF Inv, ReaderOK, Whole, OverRedis, InMemory, Completed,
           BeforeCompletion

\* The replay written to a response that has not ended.
LEMMA Replays ==
    ASSUME NEW r \in Reader, r.ended = "no"
    PROVE  LET d == Replayed(r)
           IN  /\ d \in Reader /\ d.sent = BeforeCompletion(r.replay)
               /\ d.phase = r.phase /\ d.from = r.from /\ d.last = r.last /\ d.base = r.base
               /\ d.replay = r.replay /\ d.buffer = r.buffer /\ d.twice = r.twice
               /\ d.start = r.start /\ d.watched = r.watched
               /\ Completed(r.replay) = {} => d.sub = r.sub /\ d.ended = "no"
               /\ Completed(r.replay) # {} => d.sub = "none" /\ d.ended = "done"
<1> DEFINE s == [r EXCEPT !.sent = BeforeCompletion(r.replay)]
<1>1. BeforeCompletion(r.replay) \in SUBSET Index
  BY MaxEntriesAssumption DEF BeforeCompletion, Reader, Position, Index
<1>2. s \in Reader /\ s.sent = BeforeCompletion(r.replay)
      /\ s.phase = r.phase /\ s.from = r.from /\ s.last = r.last /\ s.base = r.base
      /\ s.replay = r.replay /\ s.buffer = r.buffer /\ s.twice = r.twice
      /\ s.start = r.start /\ s.watched = r.watched /\ s.sub = r.sub /\ s.ended = "no"
  BY <1>1 DEF Reader
<1>3. Replayed(r) = IF Completed(r.replay) # {} THEN End(s, "done") ELSE s
  BY DEF Replayed
<1> HIDE DEF s
<1> QED BY <1>2, <1>3, Ended

\* It is a piece of the stream that begins with its first entry.
LEMMA ReplayIsWhole ==
    ASSUME NEW n \in Nat
    PROVE  /\ Contiguous(BeforeCompletion(n))
           /\ BeforeCompletion(n) # {} => 1 \in BeforeCompletion(n)
           /\ Completed(n) = {} => BeforeCompletion(n) = 1 .. n
           /\ BeforeCompletion(n) \subseteq 1 .. n
BY DEF BeforeCompletion, Completed, Contiguous

LEMMA ComeStep ==
    ASSUME Inv, NEW r \in Readers, NEW from \in BOOLEAN, NEW waits \in BOOLEAN,
           handleQueryStream(r, from, waits)
    PROVE  Inv'
<1>n. PICK n \in Nat : n = Len(log) /\ n <= MaxEntries
  BY LenProperties DEF Inv, Types
<1>0. 0 \in Position /\ n \in Position /\ MaxEntries \in Nat
  BY <1>n, MaxEntriesAssumption DEF Position
<1>1. Off \in Reader
  BY <1>0 DEF Off, Reader
<1> DEFINE came == [Off EXCEPT !.phase = IF from THEN "replaying" ELSE "live",
                               !.from = from, !.timer = waits, !.start = Len(log),
                               !.watched = ~from]
<1>2. /\ came \in Reader /\ came.phase = (IF from THEN "replaying" ELSE "live")
      /\ came.from = from /\ came.start = n /\ came.sub = "none" /\ came.last = 0
      /\ came.base = 0 /\ came.replay = 0 /\ came.buffer = {} /\ came.sent = {}
      /\ came.twice = FALSE /\ came.ended = "no"
  BY <1>n, <1>0, <1>1 DEF Off, Reader
<1>u. UNCHANGED <<backend, log>>
  BY DEF handleQueryStream
<1>3. CASE backend = "redis"
  <2> DEFINE e == [came EXCEPT !.sub = "tail"]
  <2>1. reader' = [reader EXCEPT ![r] = e]
    BY <1>3 DEF handleQueryStream
  <2> HIDE DEF came
  <2>2. e \in Reader /\ e.phase = came.phase /\ e.from = from /\ e.sub = "tail" /\ e.last = 0
        /\ e.replay = 0 /\ e.buffer = {} /\ e.sent = {} /\ e.ended = "no"
    BY <1>2 DEF Reader
  <2> HIDE DEF e
  <2>3. ReaderOK(e)
    BY <1>n, <1>2, <1>3, <2>2 DEF ReaderOK, Whole, Contiguous, OverRedis, Began
  <2> QED BY <1>u, <2>1, <2>2, <2>3, OneReader
<1>4. CASE backend = "memory"
  <2> DEFINE a == [came EXCEPT !.sub = "reading", !.phase = "live",
                               !.replay = IF from THEN Len(log) ELSE 0]
             d == Replayed(a)
             e == [d EXCEPT !.watched = d.ended = "no"]
  <2>1. reader' = [reader EXCEPT ![r] = e]
    BY <1>4 DEF handleQueryStream
  <2> HIDE DEF came
  <2>2. /\ a \in Reader /\ a.phase = "live" /\ a.from = from /\ a.sub = "reading"
        /\ a.replay = (IF from THEN n ELSE 0) /\ a.start = n
        /\ a.ended = "no" /\ a.twice = FALSE
    BY <1>n, <1>0, <1>2 DEF Reader
  <2> HIDE DEF a
  <2>3. /\ d \in Reader /\ d.sent = BeforeCompletion(a.replay) /\ d.phase = "live"
        /\ d.from = from /\ d.start = n /\ d.twice = FALSE
        /\ Completed(a.replay) = {} => d.sub = "reading" /\ d.ended = "no"
        /\ Completed(a.replay) # {} => d.sub = "none" /\ d.ended = "done"
    BY <2>2, Replays
  <2> HIDE DEF d
  <2>4. (d.ended = "no") \in BOOLEAN
    OBVIOUS
  <2>5. /\ e \in Reader /\ e.sent = d.sent /\ e.phase = "live" /\ e.from = from
        /\ e.start = n /\ e.twice = FALSE /\ e.sub = d.sub /\ e.ended = d.ended
        /\ e.watched = (d.ended = "no")
    BY <2>3, <2>4 DEF Reader
  <2> HIDE DEF e
  <2>6. Whole(e)
    BY <1>0, <2>2, <2>3, <2>5, ReplayIsWhole DEF Whole
  <2>7. InMemory(e, n)
    <3>1. CASE from
      <4>1. e.sent = BeforeCompletion(n) /\ e.sent \subseteq 1 .. n
        BY <3>1, <2>2, <2>3, <2>5, ReplayIsWhole
      <4>2. CASE Completed(n) = {}
        <5>1. e.sent = 1 .. n /\ e.sub = "reading" /\ e.ended = "no"
          BY <3>1, <4>1, <4>2, <2>2, <2>3, <2>5, ReplayIsWhole
        <5>2. e.watched = TRUE /\ e.phase = "live" /\ e.twice = FALSE /\ e.start = n
              /\ e.from = TRUE
          BY <3>1, <2>5, <5>1
        <5> QED BY <5>1, <5>2 DEF InMemory
      <4>3. CASE Completed(n) # {}
        <5>1. e.sub = "none"
          BY <3>1, <4>3, <2>2, <2>3, <2>5
        <5> QED BY <3>1, <4>1, <4>3, <2>5, <5>1 DEF InMemory
      <4> QED BY <4>2, <4>3
    <3>2. CASE ~from
      <4>1. Completed(0) = {} /\ BeforeCompletion(0) = {}
        BY DEF Completed, BeforeCompletion
      <4>2. e.sent = {} /\ e.sub = "reading" /\ e.ended = "no"
        BY <3>2, <4>1, <2>2, <2>3, <2>5
      <4>3. n + 1 .. n = {}
        OBVIOUS
      <4>4. e.watched = TRUE /\ e.phase = "live" /\ e.twice = FALSE /\ e.start = n
            /\ e.from = FALSE
        BY <3>2, <2>5, <4>2
      <4> QED BY <4>2, <4>3, <4>4 DEF InMemory
    <3> QED BY <3>1, <3>2
  <2>8. ReaderOK(e)
    BY <1>n, <1>4, <2>6, <2>7 DEF ReaderOK
  <2> QED BY <1>u, <2>1, <2>5, <2>8, OneReader
<1> QED BY <1>3, <1>4 DEF Inv, Types

LEMMA TailStep == ASSUME Inv, NEW r \in Readers, ReadTail(r) \/ ReadLength(r) PROVE Inv'
<1>n. PICK n \in Nat : n = Len(log) /\ n \in Position
  BY LenProperties DEF Inv, Types, Position
<1>c. PICK c \in Reader : c = reader[r]
  BY DEF Inv, Types
<1>1. ReaderOK(c) /\ c.sub \in {"tail", "length"} /\ UNCHANGED <<backend, log>>
  BY <1>c DEF Inv, ReadTail, ReadLength
<1>2. backend = "redis"
  BY <1>1 DEF Inv, Types, ReaderOK, InMemory
<1>3. CASE ReadTail(r)
  <2> DEFINE e == [c EXCEPT !.sub = "length", !.last = n]
  <2>1. reader' = [reader EXCEPT ![r] = e]
    BY <1>n, <1>c, <1>3 DEF ReadTail, Inv, Types
  <2>2. e \in Reader /\ e.sub = "length" /\ e.last = n /\ e.phase = c.phase /\ e.from = c.from
        /\ e.replay = c.replay /\ e.buffer = c.buffer /\ e.sent = c.sent /\ e.ended = c.ended
    BY <1>n DEF Reader
  <2> HIDE DEF e
  <2>3. ReaderOK(e)
    BY <1>n, <1>1, <1>2, <2>2 DEF ReaderOK, OverRedis, Began, Whole
  <2> QED BY <1>1, <2>1, <2>2, <2>3, OneReader
<1>4. CASE ReadLength(r)
  <2> DEFINE e == [c EXCEPT !.sub = "reading", !.base = n - c.last]
  <2>0. n - c.last \in Position
    BY <1>n, <1>1, <1>2, MaxEntriesAssumption DEF ReaderOK, OverRedis, Reader, Position
  <2>1. reader' = [reader EXCEPT ![r] = e]
    BY <1>n, <1>c, <1>4 DEF ReadLength, Base, Inv, Types
  <2>2. e \in Reader /\ e.sub = "reading" /\ e.last = c.last /\ e.phase = c.phase
        /\ e.from = c.from /\ e.base = n - c.last
        /\ e.replay = c.replay /\ e.buffer = c.buffer /\ e.sent = c.sent /\ e.ended = c.ended
    BY <2>0 DEF Reader
  <2> HIDE DEF e
  <2>3. ReaderOK(e)
    BY <1>n, <1>1, <1>2, <2>2 DEF ReaderOK, OverRedis, Whole, Buffered, Sent, Began
  <2> QED BY <1>1, <2>1, <2>2, <2>3, OneReader
<1> QED BY <1>3, <1>4

LEMMA FetchStep == ASSUME Inv, NEW r \in Readers, getByQuery(r) PROVE Inv'
<1>n. PICK n \in Nat : n = Len(log) /\ n \in Position
  BY LenProperties DEF Inv, Types, Position
<1>c. PICK c \in Reader : c = reader[r]
  BY DEF Inv, Types
<1>1. /\ ReaderOK(c) /\ c.sub \notin {"tail", "length"} /\ c.phase = "replaying"
      /\ UNCHANGED <<backend, log>>
  BY <1>c DEF Inv, getByQuery
<1>2. backend = "redis"
  BY <1>1 DEF Inv, Types, ReaderOK, InMemory
<1> DEFINE e == [c EXCEPT !.phase = "fetched", !.replay = n]
<1>3. reader' = [reader EXCEPT ![r] = e]
  BY <1>n, <1>c DEF getByQuery, Inv, Types
<1>4. e \in Reader /\ e.sub = c.sub /\ e.last = c.last /\ e.phase = "fetched"
      /\ e.from = c.from /\ e.base = c.base
      /\ e.replay = n /\ e.buffer = c.buffer /\ e.sent = c.sent /\ e.ended = c.ended
  BY <1>n DEF Reader
<1> HIDE DEF e
<1>5. c.last \in Nat /\ c.last <= n
  BY <1>n, <1>1, <1>2, MaxEntriesAssumption DEF ReaderOK, OverRedis, Reader, Position
<1>6. ReaderOK(e)
  BY <1>n, <1>1, <1>2, <1>4, <1>5 DEF ReaderOK, OverRedis, Began, Whole, Buffered
<1> QED BY <1>1, <1>3, <1>4, <1>6, OneReader

\* The loop dies: what it has read stays read.
LEMMA ReadFailsStep == ASSUME Inv, NEW r \in Readers, XReadFails(r) PROVE Inv'
<1>n. PICK n \in Nat : n = Len(log)
  BY LenProperties DEF Inv, Types
<1>c. PICK c \in Reader : c = reader[r]
  BY DEF Inv, Types
<1>1. /\ ReaderOK(c) /\ c.sub \in {"tail", "length", "reading"} /\ c.phase # "gone"
      /\ UNCHANGED <<backend, log>> /\ backend = "redis"
  BY <1>c DEF Inv, XReadFails
<1> DEFINE e == [c EXCEPT !.sub = "broken"]
<1>2. reader' = [reader EXCEPT ![r] = e]
  BY <1>c DEF XReadFails, Inv, Types
<1>3. /\ e \in Reader /\ e.sub = "broken" /\ e.phase = c.phase /\ e.from = c.from
      /\ e.last = c.last /\ e.base = c.base /\ e.replay = c.replay /\ e.buffer = c.buffer
      /\ e.sent = c.sent /\ e.ended = c.ended
  BY DEF Reader
<1> HIDE DEF e
<1>4. e.phase \in {"replaying", "fetched"} => Buffered(e)
  BY <1>n, <1>1, <1>3 DEF ReaderOK, OverRedis, Began, Buffered
<1>5. e.phase = "live" => Sent(e)
  BY <1>n, <1>1, <1>3 DEF ReaderOK, OverRedis, Began, Sent
<1>6. ReaderOK(e)
  BY <1>n, <1>1, <1>3, <1>4, <1>5 DEF ReaderOK, OverRedis, Whole, Began
<1> QED BY <1>1, <1>2, <1>3, <1>6, OneReader

LEMMA ReadStep == ASSUME Inv, NEW r \in Readers, XRead(r) PROVE Inv'
<1>n. PICK n \in Nat : n = Len(log) /\ n <= MaxEntries
  BY LenProperties DEF Inv, Types
<1>c. PICK c \in Reader : c = reader[r]
  BY DEF Inv, Types
<1>1. /\ ReaderOK(c) /\ c.sub = "reading" /\ c.phase # "gone" /\ c.last < n
      /\ UNCHANGED <<backend, log>> /\ backend = "redis"
  BY <1>n, <1>c DEF Inv, XRead
<1>2. /\ OverRedis(c, n) /\ Whole(c) /\ c.ended = "no" /\ c.phase \in {"live", "replaying", "fetched"}
  BY <1>n, <1>1 DEF ReaderOK, OverRedis, Began, Reader
<1>3. PICK i \in Index : i = c.last + 1 /\ i <= n /\ i \in Position
  BY <1>n, <1>1, MaxEntriesAssumption DEF Reader, Position, Index
<1>4. PICK o \in 1 .. 2 * MaxEntries : o = i + c.base
  BY <1>3, MaxEntriesAssumption DEF Reader, Position, Index
<1>a. PICK a : a = [c EXCEPT !.last = i]
  OBVIOUS
<1>5. /\ a \in Reader /\ a.last = i /\ a.sub = "reading" /\ a.ended = "no" /\ a.phase = c.phase
      /\ a.from = c.from /\ a.base = c.base /\ a.replay = c.replay /\ a.buffer = c.buffer
      /\ a.sent = c.sent
  BY <1>a, <1>1, <1>2, <1>3 DEF Reader
<1>d. PICK d : d = Deliver(a, i, o)
  OBVIOUS
<1>6. reader' = [reader EXCEPT ![r] = d]
  BY <1>c, <1>3, <1>4, <1>a, <1>d DEF XRead, Inv, Types
<1>7. CASE log'[i] = "complete"
  <2>1. d = End(a, "done")
    BY <1>7, <1>d DEF Deliver
  <2>2. d \in Reader /\ d.sub = "none" /\ d.ended = "done" /\ d.phase = c.phase /\ d.last = i
        /\ d.from = c.from /\ d.replay = c.replay /\ d.sent = c.sent
    BY <1>5, <2>1, Ended
  <2>3. ReaderOK(d)
    BY <1>n, <1>1, <1>2, <1>3, <2>2 DEF ReaderOK, OverRedis, Began, Whole
  <2> QED BY <1>1, <1>6, <2>2, <2>3, OneReader
<1>8. CASE log'[i] # "complete" /\ c.phase = "live"
  <2>1. /\ d \in Reader /\ d.sent = c.sent \cup {i} /\ d.phase = "live" /\ d.from = c.from
        /\ d.last = i /\ d.replay = c.replay
        /\ (d.sub = "reading" /\ d.ended = "no") \/ (d.sub = "none" /\ d.ended = "error")
    BY <1>5, <1>8, <1>d, DeliveredLive
  <2>2. Sent(c) /\ c.last \in Nat /\ c.sent \subseteq Nat
    BY <1>1, <1>2, <1>8, MaxEntriesAssumption DEF OverRedis, Began, Reader, Position, Index
  <2>3. Sent(d) /\ Whole(d)
    <3>1. CASE c.from
      <4>1. 1 .. i \subseteq d.sent
        BY <1>3, <2>1, <2>2, <3>1 DEF Sent
      <4>2. 1 \in d.sent
        BY <1>3, <2>2, <4>1
      <4>3. \A j \in d.sent : 1 .. j \subseteq d.sent
        <5>1. ASSUME NEW j \in c.sent PROVE 1 .. j \subseteq d.sent
          BY <1>2, <2>1, <3>1 DEF Whole, Contiguous
        <5> QED BY <2>1, <4>1, <5>1
      <4>4. Contiguous(d.sent)
        <5> SUFFICES ASSUME NEW x \in d.sent, NEW y \in d.sent PROVE x .. y \subseteq d.sent
          BY DEF Contiguous
        <5>1. x \in Nat /\ x >= 1 /\ y \in Nat
          BY <2>1, MaxEntriesAssumption DEF Reader, Index
        <5>2. x .. y \subseteq 1 .. y
          BY <5>1
        <5>3. 1 .. y \subseteq d.sent
          BY <4>3
        <5> QED BY <5>2, <5>3
      <4> QED BY <2>1, <3>1, <4>1, <4>2, <4>4 DEF Sent, Whole
    <3>2. CASE ~c.from
      <4>1. c.sent = {} \/ (c.last \in c.sent /\ c.sent \subseteq 1 .. c.last)
        BY <2>2, <3>2 DEF Sent
      <4>2. i \in d.sent /\ d.sent \subseteq 1 .. i
        BY <1>3, <2>1, <2>2, <4>1
      <4>3. Contiguous(d.sent)
        <5>1. ASSUME NEW j \in c.sent PROVE j .. i \subseteq d.sent
          BY <1>2, <1>3, <2>1, <2>2, <4>1 DEF Whole, Contiguous
        <5>2. ASSUME NEW j \in c.sent PROVE i .. j = {}
          BY <1>3, <2>2, <4>1
        <5>3. i .. i = {i}
          OBVIOUS
        <5> QED BY <1>2, <2>1, <5>1, <5>2, <5>3 DEF Whole, Contiguous
      <4> QED BY <2>1, <3>2, <4>2, <4>3 DEF Sent, Whole
    <3> QED BY <3>1, <3>2
  <2>4. ReaderOK(d)
    BY <1>n, <1>1, <1>2, <1>3, <2>1, <2>3 DEF ReaderOK, OverRedis, Began
  <2> QED BY <1>1, <1>6, <2>1, <2>4, OneReader
<1>9. CASE log'[i] # "complete" /\ c.phase # "live"
  <2>1. /\ d \in Reader /\ d.buffer = c.buffer \cup {<<i, o>>} /\ d.sent = c.sent
        /\ d.phase = c.phase /\ d.from = c.from /\ d.last = i /\ d.base = c.base
        /\ d.replay = c.replay /\ d.sub = "reading" /\ d.ended = "no"
    BY <1>5, <1>9, <1>d, DeliveredLater
  <2>2. Buffered(c) /\ c.last \in Nat /\ c.base \in Nat /\ c.replay \in Nat
        /\ \A p \in c.buffer : p[1] \in Nat
    BY <1>1, <1>2, <1>9, MaxEntriesAssumption DEF OverRedis, Began, Reader, Position, Index
  <2>3. \A p \in d.buffer : p[2] = p[1] + d.base /\ p[1] <= d.last
    BY <1>3, <1>4, <2>1, <2>2 DEF Buffered
  <2>4. ASSUME NEW p \in d.buffer, NEW k \in p[1] .. d.last PROVE <<k, k + d.base>> \in d.buffer
    <3>1. CASE k = i
      BY <1>4, <2>1, <3>1
    <3>2. CASE k # i
      <4>1. p \in c.buffer
        BY <1>3, <2>1, <2>4, <3>2
      <4>2. k \in p[1] .. c.last
        BY <1>3, <2>1, <2>2, <2>4, <3>2, <4>1
      <4> QED BY <2>1, <2>2, <4>1, <4>2 DEF Buffered
    <3> QED BY <3>1, <3>2
  <2>5. ASSUME d.phase = "fetched", NEW k \in d.replay + 1 .. d.last
        PROVE  <<k, k + d.base>> \in d.buffer
    <3>1. CASE k = i
      BY <1>4, <2>1, <3>1
    <3>2. CASE k # i
      <4>1. k \in c.replay + 1 .. c.last
        BY <1>3, <2>1, <2>2, <2>5, <3>2
      <4> QED BY <2>1, <2>2, <2>5, <4>1 DEF Buffered
    <3> QED BY <3>1, <3>2
  <2>6. Buffered(d)
    BY <2>3, <2>4, <2>5 DEF Buffered
  <2>7. ReaderOK(d)
    BY <1>n, <1>1, <1>2, <1>3, <1>9, <2>1, <2>6 DEF ReaderOK, OverRedis, Began, Whole
  <2> QED BY <1>1, <1>6, <2>1, <2>7, OneReader
<1> QED BY <1>7, <1>8, <1>9

\* The end of a response, by its timer or by the client.
LEMMA TimeoutStep == ASSUME Inv, NEW r \in Readers, onQueryTimeout(r) PROVE Inv'
<1>n. PICK n \in Nat : n = Len(log)
  BY LenProperties DEF Inv, Types
<1>c. PICK c \in Reader : c = reader[r] /\ ReaderOK(c) /\ c.timer
  BY DEF Inv, Types, onQueryTimeout
<1>a. PICK a : a = [c EXCEPT !.timer = FALSE]
  OBVIOUS
<1>1. /\ a \in Reader /\ a.ended = c.ended /\ a.phase = c.phase
      /\ a.from = c.from /\ a.last = c.last /\ a.base = c.base /\ a.replay = c.replay
      /\ a.buffer = c.buffer /\ a.sent = c.sent /\ a.twice = c.twice /\ a.start = c.start
  BY <1>a DEF Reader
<1>d. PICK d : d = End(a, "timeout")
  OBVIOUS
<1>2. reader' = [reader EXCEPT ![r] = d] /\ UNCHANGED <<backend, log>>
  BY <1>c, <1>a, <1>d DEF onQueryTimeout, Inv, Types
<1>3. /\ d \in Reader /\ d.sub = "none" /\ d.phase = c.phase
      /\ d.ended = (IF c.ended = "no" THEN "timeout" ELSE c.ended)
      /\ d.from = c.from /\ d.last = c.last /\ d.base = c.base /\ d.replay = c.replay
      /\ d.buffer = c.buffer /\ d.sent = c.sent /\ d.twice = c.twice /\ d.start = c.start
  BY <1>1, <1>d, Ended
<1>4. Whole(d)
  BY <1>c, <1>3 DEF ReaderOK, Whole
<1>5. OverRedis(c, n) => OverRedis(d, n)
  BY <1>3 DEF OverRedis, Began
<1>6. InMemory(c, n) => InMemory(d, n)
  BY <1>3 DEF InMemory
<1>7. ReaderOK(d)
  BY <1>n, <1>c, <1>4, <1>5, <1>6 DEF ReaderOK
<1> QED BY <1>2, <1>3, <1>7, OneReader

LEMMA CloseStep == ASSUME Inv, NEW r \in Readers, onStreamClose(r) PROVE Inv'
<1>n. PICK n \in Nat : n = Len(log)
  BY LenProperties DEF Inv, Types
<1>c. PICK c \in Reader : c = reader[r] /\ ReaderOK(c)
  BY DEF Inv, Types
<1>d. PICK d : d = [c EXCEPT !.phase = "gone", !.sub = IF c.watched THEN "none" ELSE c.sub,
                             !.timer = c.timer /\ ~c.watched]
  OBVIOUS
<1>1. reader' = [reader EXCEPT ![r] = d] /\ UNCHANGED <<backend, log>>
  BY <1>c, <1>d DEF onStreamClose, Inv, Types
<1>2. (c.timer /\ ~c.watched) \in BOOLEAN
  OBVIOUS
<1>3. /\ d \in Reader /\ d.sub = (IF c.watched THEN "none" ELSE c.sub) /\ d.phase = "gone"
      /\ d.ended = c.ended /\ d.watched = c.watched
      /\ d.from = c.from /\ d.last = c.last /\ d.base = c.base /\ d.replay = c.replay
      /\ d.buffer = c.buffer /\ d.sent = c.sent /\ d.twice = c.twice /\ d.start = c.start
  BY <1>d, <1>2, ZenonT(40) DEF Reader
<1>4. Whole(d)
  BY <1>c, <1>3 DEF ReaderOK, Whole
<1>5. OverRedis(c, n) => OverRedis(d, n)
  BY <1>3 DEF OverRedis, Began
<1>6. InMemory(c, n) => InMemory(d, n)
  BY <1>3 DEF InMemory
<1>7. ReaderOK(d)
  BY <1>n, <1>c, <1>4, <1>5, <1>6 DEF ReaderOK
<1> QED BY <1>1, <1>3, <1>7, OneReader

\* Whatever catching up does to a response that has ended, it sends nothing.
LEMMA CatchUpLate ==
    ASSUME NEW r \in Reader, r.ended # "no", r.sub = "none", NEW s, s = Replayed(r)
    PROVE  /\ s \in Reader /\ s.sub = "none" /\ s.ended # "no" /\ s.sent = r.sent
           /\ s.from = r.from /\ s.last = r.last /\ s.replay = r.replay
           /\ Flushed(s) \in Reader /\ Flushed(s).sub = "none" /\ Flushed(s).ended # "no"
           /\ Flushed(s).sent = r.sent /\ Flushed(s).from = r.from
           /\ Flushed(s).last = r.last /\ Flushed(s).replay = r.replay
<1>1. s = IF Completed(r.replay) # {} THEN End(r, "done") ELSE r
  BY DEF Replayed
<1>2. /\ s \in Reader /\ s.sub = "none" /\ s.ended # "no" /\ s.sent = r.sent
      /\ s.from = r.from /\ s.last = r.last /\ s.replay = r.replay
  BY <1>1, Ended
<1>3. Flushed(s) = s \/ Flushed(s) = End(s, "error")
  BY <1>2 DEF Flushed
<1> QED BY <1>2, <1>3, Ended

\* The buffer written behind a replay of k entries that had no completion.
LEMMA Flushes ==
    ASSUME NEW s \in Reader, Buffered(s), s.phase = "fetched", s.ended = "no",
           Began(s), s.sent = 1 .. s.replay, NEW f, f = Flushed(s)
    PROVE  /\ f \in Reader /\ Contiguous(f.sent) /\ (f.sent # {} => 1 \in f.sent)
           /\ f.from = s.from /\ f.last = s.last /\ f.replay = s.replay
           /\ \/ f.sub = "none" /\ f.ended = "error"
              \/ f.sub = s.sub /\ f.ended = "no" /\ 1 .. f.last \subseteq f.sent
<1>0. s.last \in Nat /\ s.replay \in Nat /\ s.base \in Nat /\ s.last <= MaxEntries
      /\ s.replay <= MaxEntries /\ MaxEntries \in Nat
  BY MaxEntriesAssumption DEF Reader, Position
<1>1. \A k \in Index : k \in s.replay + 1 .. s.last => k \in Unseen(s)
  <2> SUFFICES ASSUME NEW k \in Index, k \in s.replay + 1 .. s.last PROVE k \in Unseen(s)
    OBVIOUS
  <2>1. <<k, k + s.base>> \in s.buffer
    BY DEF Buffered
  <2>2. k + s.base \in 1 .. 2 * MaxEntries /\ k + s.base > s.replay
    BY <1>0, <2>1 DEF Reader, Index
  <2> QED BY <2>1, <2>2 DEF Unseen
<1>2. ASSUME NEW i \in Flushable(s) PROVE 1 .. i \subseteq s.sent \cup Flushable(s)
  <2>1. i \in Unseen(s) /\ i \in Index
    BY <1>2 DEF Flushable, Unseen
  <2>2. PICK o \in 1 .. 2 * MaxEntries : <<i, o>> \in s.buffer
    BY <2>1 DEF Unseen
  <2>3. ASSUME NEW k \in 1 .. i, k > s.replay PROVE k \in Flushable(s)
    <3>1. i <= s.last
      BY <2>2 DEF Buffered
    <3>2. k \in Unseen(s)
      BY <1>0, <1>1, <2>1, <2>3, <3>1 DEF Index
    <3>3. \A j \in Unseen(s) : j < k => log[j] # "error"
      BY <1>2, <2>1, <2>3 DEF Flushable, Unseen, Index
    <3> QED BY <3>2, <3>3 DEF Flushable
  <2> QED BY <1>0, <2>1, <2>3 DEF Index
<1>3. PICK g : g = s.sent \cup Flushable(s)
  OBVIOUS
<1>4. g \in SUBSET Index
  BY <1>0, <1>3 DEF Flushable, Unseen, Index
<1>5. \A j \in g : 1 .. j \subseteq g
  BY <1>0, <1>2, <1>3
<1>6. Contiguous(g) /\ (g # {} => 1 \in g)
  <2>1. \A x, y \in g : x .. y \subseteq 1 .. y /\ 1 \in 1 .. y
    BY <1>4, <1>0 DEF Index
  <2> QED BY <1>5, <2>1 DEF Contiguous
<1>7. PICK t : t = [s EXCEPT !.sent = g, !.twice = s.twice \/ Flushable(s) \cap s.sent # {}]
  OBVIOUS
<1>8. (s.twice \/ Flushable(s) \cap s.sent # {}) \in BOOLEAN
  BY DEF Reader
<1>9. /\ t \in Reader /\ t.sent = g /\ t.from = s.from /\ t.last = s.last
      /\ t.replay = s.replay /\ t.sub = s.sub /\ t.ended = "no"
  BY <1>4, <1>7, <1>8 DEF Reader
<1>10. f = IF \E i \in Unseen(s) : log[i] = "error" THEN End(t, "error") ELSE t
  BY <1>3, <1>7 DEF Flushed
<1>11. CASE \E i \in Unseen(s) : log[i] = "error"
  BY <1>6, <1>9, <1>10, <1>11, Ended
<1>12. CASE ~ \E i \in Unseen(s) : log[i] = "error"
  <2>1. \A k \in s.replay + 1 .. s.last : k \in Flushable(s)
    BY <1>0, <1>1, <1>12 DEF Flushable, Index
  <2>2. 1 .. s.last \subseteq g
    BY <1>0, <1>3, <2>1
  <2> QED BY <1>6, <1>9, <1>10, <1>12, <2>2
<1> QED BY <1>11, <1>12

LEMMA CatchUpStep == ASSUME Inv, NEW r \in Readers, CatchUp(r) PROVE Inv'
<1>n. PICK n \in Nat : n = Len(log) /\ n <= MaxEntries
  BY LenProperties DEF Inv, Types
<1>c. PICK c \in Reader : c = reader[r]
  BY DEF Inv, Types
<1>1. /\ ReaderOK(c) /\ c.phase = "fetched" /\ UNCHANGED <<backend, log>>
  BY <1>c DEF Inv, CatchUp
<1>2. backend = "redis"
  BY <1>1 DEF Inv, Types, ReaderOK, InMemory
<1>3. OverRedis(c, n) /\ c.sent = {} /\ c.from
  BY <1>n, <1>1, <1>2 DEF ReaderOK, OverRedis, Began
<1>s. PICK s : s = Replayed(c)
  OBVIOUS
<1>f. PICK full : full = IF Completed(s.replay) = {} THEN Flushed(s) ELSE s
  OBVIOUS
<1>w. PICK w \in BOOLEAN : w = (/\ Completed(s.replay) = {}
                                /\ \A i \in Unseen(s) : log[i] # "error")
  OBVIOUS
<1>e. PICK e : e = [full EXCEPT !.phase = "live", !.buffer = {}, !.watched = w]
  OBVIOUS
<1>4. reader' = [reader EXCEPT ![r] = e]
  BY <1>c, <1>s, <1>f, <1>w, <1>e DEF CatchUp
<1>5. /\ full \in Reader /\ Whole(full) /\ full.last = c.last
      /\ full.replay = c.replay /\ full.from
      /\ \/ full.sub = "none" /\ full.ended # "no"
         \/ Began(full) /\ full.ended = "no" /\ 1 .. full.last \subseteq full.sent
  <2>1. CASE c.ended # "no"
    <3>1. c.sub = "none"
      BY <1>3, <2>1 DEF OverRedis, Began
    <3>2. /\ full \in Reader /\ full.sub = "none" /\ full.ended # "no" /\ full.sent = {}
          /\ full.from /\ full.last = c.last /\ full.replay = c.replay
      BY <1>3, <1>s, <1>f, <2>1, <3>1, CatchUpLate
    <3> QED BY <3>2 DEF Whole, Contiguous
  <2>2. CASE c.ended = "no"
    <3>1. /\ s \in Reader /\ s.sent = BeforeCompletion(c.replay) /\ s.phase = "fetched"
          /\ s.from = c.from /\ s.last = c.last /\ s.base = c.base /\ s.replay = c.replay
          /\ s.buffer = c.buffer
          /\ Completed(c.replay) = {} => s.sub = c.sub /\ s.ended = "no"
          /\ Completed(c.replay) # {} => s.sub = "none" /\ s.ended = "done"
      BY <1>1, <1>s, <2>2, Replays
    <3>2. c.replay \in Nat
      BY MaxEntriesAssumption DEF Reader, Position
    <3>3. CASE Completed(c.replay) # {}
      BY <1>3, <1>f, <3>1, <3>2, <3>3, ReplayIsWhole DEF Whole
    <3>4. CASE Completed(c.replay) = {}
      <4>1. Began(c) /\ Buffered(c)
        BY <1>1, <1>3, <2>2 DEF OverRedis, Reader, Began
      <4>2. Buffered(s)
        BY <1>1, <3>1, <4>1 DEF Buffered
      <4>3. s.sent = 1 .. s.replay /\ Began(s) /\ s.ended = "no" /\ full = Flushed(s)
        BY <1>f, <3>1, <3>2, <3>4, <4>1, ReplayIsWhole DEF Began
      <4>4. /\ full \in Reader /\ Contiguous(full.sent) /\ (full.sent # {} => 1 \in full.sent)
            /\ full.from = s.from /\ full.last = s.last /\ full.replay = s.replay
            /\ \/ full.sub = "none" /\ full.ended = "error"
               \/ full.sub = s.sub /\ full.ended = "no" /\ 1 .. full.last \subseteq full.sent
        BY <3>1, <4>2, <4>3, Flushes
      <4> QED BY <1>3, <3>1, <4>3, <4>4 DEF Whole, Began
    <3> QED BY <3>3, <3>4
  <2> QED BY <2>1, <2>2
<1>6. /\ e \in Reader /\ e.phase = "live" /\ e.buffer = {} /\ e.sent = full.sent
      /\ e.last = c.last /\ e.replay = c.replay /\ e.from = full.from /\ e.sub = full.sub
      /\ e.ended = full.ended
  BY <1>5, <1>e DEF Reader
<1>7. ReaderOK(e)
  BY <1>n, <1>1, <1>2, <1>3, <1>5, <1>6 DEF ReaderOK, OverRedis, Began, Whole, Sent
<1> QED BY <1>1, <1>4, <1>6, <1>7, OneReader

-----------------------------------------------------------------------------
(***************************************************************************)
(* The theorems.                                                           *)
(***************************************************************************)
LEMMA InvInit == ASSUME Init PROVE Inv
<1>1. Off \in Reader
  BY MaxEntriesAssumption DEF Off, Reader, Position
<1>2. log = <<>> /\ Len(log) = 0 /\ log \in Seq(Kind)
  BY EmptySeq DEF Init
<1>3. Types
  BY <1>1, <1>2, MaxEntriesAssumption DEF Types, Init
<1>4. Whole(Off) /\ OverRedis(Off, 0) /\ InMemory(Off, 0)
  BY DEF Off, Whole, Contiguous, OverRedis, Began, InMemory
<1> QED BY <1>2, <1>3, <1>4 DEF Inv, Init, ReaderOK

LEMMA InvStep == ASSUME Inv, [Next]_vars PROVE Inv'
<1>u. UNCHANGED <<backend, log, reader>> => Inv'
  BY DEF Inv, Types, ReaderOK, Whole, OverRedis, InMemory, Completed, BeforeCompletion
<1>0. CASE UNCHANGED vars
  BY <1>0, <1>u DEF vars
<1>1. ASSUME NEW kind \in Kind, addChunk(kind) PROVE Inv'
  BY <1>1, AppendStep DEF addChunk
<1>2. ASSUME NEW c \in Completers, CheckExists(c) \/ CheckComplete(c) \/ completeQuery(c)
      PROVE  Inv'
  <2>1. "complete" \in Kind
    BY DEF Kind
  <2> QED BY <1>2, <1>u, <2>1, AppendStep DEF CheckExists, CheckComplete, completeQuery
<1>3. ASSUME NEW r \in Readers, Step(r) \/ XReadFails(r) PROVE Inv'
  BY <1>3, TailStep, ReadStep, ReadFailsStep, FetchStep, CatchUpStep DEF Step
<1> QED BY <1>0, <1>1, <1>2, <1>3, ComeStep, TimeoutStep, CloseStep DEF Next

LEMMA InvInductive == Spec => []Inv
BY InvInit, InvStep, PTL DEF Spec

\* What a client has been sent has no holes: over Redis too, where the replay and
\* the subscription are commands of two connections and the buffer is filtered by
\* a number that the loop computes.
THEOREM GapFreeCorrect == Spec => []GapFree
<1>1. Inv => GapFree
  BY DEF Inv, ReaderOK, Whole, Contiguous, GapFree
<1> QED BY <1>1, InvInductive, PTL

\* In memory the subscription and the replay see the same array: a client gets
\* each entry once, none from before it came unless it asked for them, and [DONE]
\* only after everything before the completion.
THEOREM MemoryCorrect == Spec => []MemoryExact
<1>1. Inv => MemoryExact
  <2> SUFFICES ASSUME Inv, backend = "memory", NEW r \in Readers
               PROVE  /\ ~reader[r].twice
                      /\ reader[r].from \/ \A i \in reader[r].sent : i > reader[r].start
                      /\ reader[r].from /\ reader[r].ended = "done" => All(r)
    BY DEF MemoryExact
  <2>1. InMemory(reader[r], Len(log)) /\ reader[r] \in Reader
    BY DEF Inv, Types, ReaderOK
  <2>2. reader[r].start \in Nat /\ Len(log) \in Nat
    BY <2>1, LenProperties, MaxEntriesAssumption DEF Inv, Types, Reader, Position
  <2> QED BY <2>1, <2>2 DEF InMemory, All
<1> QED BY <1>1, InvInductive, PTL
=============================================================================
