-------------------------- MODULE BrokerStreamProofs --------------------------
(***************************************************************************)
(* Theorems about BrokerStream, for any owners, page size and byte budget  *)
(* and every value of the bounds.                                          *)
(***************************************************************************)
EXTENDS BrokerStream, FiniteSetTheorems, WellFoundedInduction, TLAPS

-----------------------------------------------------------------------------
(* Least and greatest numbers *)

LEMMA Least ==
    ASSUME NEW T, T \subseteq Nat, T # {}
    PROVE  \E m \in T : \A n \in T : m <= n
<1>1. PICK m \in T : \A n \in T : <<n, m>> \notin OpToRel(<, Nat)
  BY NatLessThanWellFounded, WFMin
<1>2. \A n \in T : n < m => <<n, m>> \in OpToRel(<, Nat)
  BY DEF OpToRel
<1>3. \A n \in T : ~ (n < m)
  BY <1>1, <1>2
<1>4. m \in Nat /\ \A n \in T : n \in Nat
  OBVIOUS
<1> QED BY <1>3, <1>4

\* A nonempty set of items has a last one, and LastSeq is its number.
LEMMA LastSeqIsLast ==
    ASSUME NEW S \in SUBSET Item, S # {}
    PROVE  /\ \E i \in S : i.seq = LastSeq(S)
           /\ \A i \in S : i.seq <= LastSeq(S)
<1> DEFINE left == {MaxItems - i.seq : i \in S}
<1>1. left \subseteq Nat /\ left # {}
  BY ConstantsAssumption DEF Item, Id
<1>2. PICK m \in left : \A n \in left : m <= n
  BY <1>1, Least
<1>3. PICK last \in S : m = MaxItems - last.seq
  BY <1>2
<1>4. \A i \in S : i.seq <= last.seq
  <2> SUFFICES ASSUME NEW i \in S PROVE i.seq <= last.seq
    OBVIOUS
  <2>1. MaxItems - last.seq <= MaxItems - i.seq
    BY <1>2, <1>3
  <2> QED BY <2>1, ConstantsAssumption DEF Item, Id
<1>5. \E n \in {i.seq : i \in S} : \A i \in S : i.seq <= n
  BY <1>4
<1>6. LastSeq(S) \in {i.seq : i \in S} /\ \A i \in S : i.seq <= LastSeq(S)
  BY <1>5 DEF LastSeq
<1> QED BY <1>6

\* A page is empty only when nothing is left to list.
LEMMA PageNotEmpty ==
    ASSUME TypeOK, NEW c, After(c) # {}
    PROVE  Page(c) # {}
<1>1. After(c) \subseteq Item
  BY DEF After, Live, TypeOK
<1> DEFINE numbers == {i.seq : i \in After(c)}
<1>2. numbers \subseteq Nat /\ numbers # {}
  BY <1>1, ConstantsAssumption DEF Item, Id
<1>7. PICK m \in numbers : \A n \in numbers : m <= n
  BY <1>2, Least
<1>3. PICK i \in After(c) : \A j \in After(c) : i.seq <= j.seq
  BY <1>7
<1>4. \A j \in After(c) : ~ (j.seq < i.seq)
  BY <1>1, <1>3, ConstantsAssumption DEF Item, Id
<1>5. {j \in After(c) : j.seq < i.seq} = {}
  BY <1>4
<1>6. Cardinality({j \in After(c) : j.seq < i.seq}) < Limit
  BY <1>5, FS_EmptySet, ConstantsAssumption
<1> QED BY <1>6 DEF Page

-----------------------------------------------------------------------------
(* The inductive invariant *)

\* What a flush in progress has yet to write: the snapshot under way, the array
\* that is written next, and the last of the two.
WrittenItems == IF writing = None THEN {} ELSE writing.items
PendingItems == IF pending = None THEN {} ELSE Content
NewestItems == IF pending = None THEN WrittenItems ELSE PendingItems

\* Nothing is left in memory of a process that is down, nor anything to resolve
\* when no flush is in progress.
Rest ==
    /\ process = "down" => items = {} /\ writing = None
    /\ writing = None => pending = None /\ saving = {} /\ deleting = {}

\* An array the stream had at some time, when n items had been appended: numbers
\* and ids name one item each.
Good(s, n) ==
    /\ \A i, j \in s : i.seq = j.seq \/ i.id = j.id => i = j
    /\ \A i \in s : i.id <= n /\ i.seq <= n

Numbering ==
    /\ Good(items, issued) /\ Good(disk.items, issued)
    /\ Good(WrittenItems, issued) /\ Good(PendingItems, issued)
    /\ \A i \in items : i.seq < next
    /\ next <= issued + 1 /\ disk.next <= issued + 1
    /\ writing # None => writing.next <= issued + 1
    /\ pending # None => pending.next <= issued + 1

\* What is promised: a process that could not load its file knows nothing of what
\* was promised before.
Promised == durable \ unread

Durability ==
    /\ Promised \subseteq IdsOf(disk.items)
    /\ process # "down" => Promised \subseteq IdsOf(items) /\ saving \subseteq IdsOf(items)
    /\ writing # None => Promised \subseteq IdsOf(WrittenItems) /\ saving \subseteq IdsOf(NewestItems)
    /\ pending # None => Promised \subseteq IdsOf(PendingItems)

Deletion ==
    /\ \A n \in deleted \cup deleting : n <= issued
    /\ \A n \in deleted : /\ n \notin IdsOf(items) /\ n \notin IdsOf(disk.items)
                          /\ n \notin IdsOf(WrittenItems) /\ n \notin IdsOf(PendingItems)
    /\ \A n \in deleting : n \notin IdsOf(items) /\ n \notin IdsOf(NewestItems)

Inv == TypeOK /\ Rest /\ Numbering /\ Durability /\ Deletion

-----------------------------------------------------------------------------
(* Lemmas about the parts of the store *)

LEMMA ArrayTypes ==
    ASSUME TypeOK
    PROVE  /\ WrittenItems \in SUBSET Item /\ PendingItems \in SUBSET Item
           /\ NewestItems \in SUBSET Item
<1>1. WrittenItems \in SUBSET Item
  BY DEF TypeOK, WrittenItems, Snapshot
<1>2. PendingItems \in SUBSET Item
  BY DEF TypeOK, PendingItems, Content, Reference
<1> QED BY <1>1, <1>2 DEF NewestItems

\* save() starts a write of the array, or leaves a reference to it.
LEMMA SaveStep ==
    ASSUME TypeOK, Rest, NEW n \in Number, Save(items', n), items' \in SUBSET Item
    PROVE  /\ writing' \in Snapshot /\ pending' \in Reference \cup {None}
           /\ NewestItems' = items'
           /\ \/ /\ writing = None
                 /\ WrittenItems' = items' /\ PendingItems' = {}
                 /\ writing'.next = n /\ pending' = None
              \/ /\ writing # None
                 /\ WrittenItems' = WrittenItems /\ PendingItems' = items'
                 /\ writing' = writing /\ pending' # None /\ pending'.next = n
<1>1. CASE writing = None
  <2>1. pending = None
    BY <1>1 DEF Rest
  <2>2. writing' = [items |-> items', next |-> n] /\ pending' = None
    BY <1>1, <2>1 DEF Save
  <2>3. writing' \in Snapshot
    BY <2>2 DEF Snapshot
  <2>4. writing' # None
    BY <2>3, NoneAssumption
  <2> QED BY <1>1, <2>2, <2>3, <2>4 DEF NewestItems, WrittenItems, PendingItems
<1>2. CASE writing # None
  <2>1. pending' = [live |-> TRUE, items |-> {}, next |-> n] /\ writing' = writing
    BY <1>2 DEF Save
  <2>2. pending' \in Reference
    BY <2>1 DEF Reference
  <2>3. pending' # None
    BY <2>2, NoneAssumption
  <2>4. Content' = items'
    BY <2>1 DEF Content
  <2>5. writing' \in Snapshot
    BY <1>2, <2>1 DEF TypeOK
  <2> QED
    BY <1>2, <2>1, <2>2, <2>3, <2>4, <2>5 DEF NewestItems, WrittenItems, PendingItems
<1> QED BY <1>1, <1>2

\* When a write is over the flush ends, or goes on with the array left behind.
LEMMA FlushedStep ==
    ASSUME TypeOK, writing # None, NEW good \in BOOLEAN, Flushed(good), items' = items
    PROVE  /\ writing' \in Snapshot \cup {None} /\ pending' = None
           /\ PendingItems' = {} /\ WrittenItems' = PendingItems
           /\ NewestItems' = PendingItems
           /\ pending # None => writing' # None /\ writing'.next = pending.next
<1>1. CASE pending = None
  BY <1>1 DEF Flushed, WrittenItems, PendingItems, NewestItems
<1>2. CASE pending # None
  <2>1. writing' = [items |-> Content, next |-> pending.next] /\ pending' = None
    BY <1>2 DEF Flushed
  <2>2. Content \in SUBSET Item /\ pending.next \in Number
    BY <1>2 DEF TypeOK, Reference, Content
  <2>3. writing' \in Snapshot
    BY <2>1, <2>2 DEF Snapshot
  <2>4. writing' # None
    BY <2>3, NoneAssumption
  <2> QED
    BY <1>2, <2>1, <2>3, <2>4 DEF WrittenItems, PendingItems, NewestItems
<1> QED BY <1>1, <1>2

LEMMA GoodPart ==
    ASSUME NEW n \in Nat, NEW m \in Nat, n <= m,
           NEW s \in SUBSET Item, Good(s, n), NEW p \in SUBSET s
    PROVE  Good(p, m)
<1>1. \A i \in p : i.id \in Nat /\ i.seq \in Nat
  BY ConstantsAssumption DEF Item, Id
<1> QED BY <1>1 DEF Good

LEMMA IdsOfUnion ==
    ASSUME NEW s, NEW x
    PROVE  IdsOf(s \cup {x}) = IdsOf(s) \cup {x.id}
BY DEF IdsOf

LEMMA GoodEmpty == ASSUME NEW n PROVE Good({}, n)
BY DEF Good

LEMMA Bounds == TypeOK => issued \in Nat /\ next \in Nat /\ disk.next \in Nat
BY ConstantsAssumption DEF TypeOK, Snapshot, Number

-----------------------------------------------------------------------------
(***************************************************************************)
(* The steps that end in a save: what they must establish of the array and *)
(* of the histories for the invariant to hold afterwards.                  *)
(***************************************************************************)
LEMMA SavePreserves ==
    ASSUME Inv,
           NEW n \in Number, items' \in SUBSET Item, next' = n, Save(items', n),
           disk' = disk, process' # "down", issued' \in Nat, issued <= issued',
           Good(items', issued'), \A i \in items' : i.seq < n, n <= issued' + 1,
           Promised' \subseteq IdsOf(items'),
           \/ Promised' \subseteq Promised
           \/ writing = None /\ Promised' \subseteq IdsOf(disk.items),
           saving' \subseteq IdsOf(items'),
           deleted' = deleted, \A d \in deleted : d \notin IdsOf(items'),
           \A d \in deleting' : d \in Nat /\ d <= issued' /\ d \notin IdsOf(items')
    PROVE  Rest' /\ Numbering' /\ Durability' /\ Deletion'
<1> USE DEF Inv
<1>1. /\ writing' \in Snapshot /\ pending' \in Reference \cup {None}
      /\ NewestItems' = items'
      /\ \/ /\ writing = None
            /\ WrittenItems' = items' /\ PendingItems' = {}
            /\ writing'.next = n /\ pending' = None
         \/ /\ writing # None
            /\ WrittenItems' = WrittenItems /\ PendingItems' = items'
            /\ writing' = writing /\ pending' # None /\ pending'.next = n
  BY SaveStep
<1>2. writing' # None
  BY <1>1, NoneAssumption
<1>3. Rest'
  BY <1>2 DEF Rest
<1>4. /\ issued \in Nat /\ disk.items \in SUBSET Item /\ WrittenItems \in SUBSET Item
      /\ disk.next \in Nat /\ (writing # None => writing.next \in Nat)
  BY Bounds, ArrayTypes, ConstantsAssumption DEF TypeOK, Snapshot, Number
<1>5. Good(disk.items, issued') /\ Good(WrittenItems, issued')
  BY <1>4, GoodPart DEF Numbering
<1>6. Numbering'
  <2>1. Good(WrittenItems', issued') /\ Good(PendingItems', issued')
    BY <1>1, <1>5, GoodEmpty
  <2>2. n \in Nat /\ disk.next <= issued' + 1
    BY <1>4, ConstantsAssumption DEF Numbering, Number
  <2>3. writing'.next <= issued' + 1
    BY <1>1, <1>4 DEF Numbering
  <2>4. pending' # None => pending'.next <= issued' + 1
    BY <1>1
  <2> QED BY <1>5, <2>1, <2>2, <2>3, <2>4 DEF Numbering
<1>7. Durability'
  <2>1. Promised' \subseteq IdsOf(disk.items)
    BY DEF Durability
  <2>2. Promised' \subseteq IdsOf(WrittenItems')
    BY <1>1 DEF Durability
  <2>3. pending' # None => Promised' \subseteq IdsOf(PendingItems')
    BY <1>1
  <2> QED BY <1>1, <2>1, <2>2, <2>3 DEF Durability, IdsOf
<1>8. Deletion'
  <2>1. \A d \in deleted' \cup deleting' : d <= issued'
    <3>1. \A d \in deleted : d \in Nat /\ d <= issued
      BY ConstantsAssumption DEF Deletion, TypeOK, Id
    <3> QED BY <3>1, <1>4
  <2>2. \A d \in deleted : d \notin IdsOf(disk.items) /\ d \notin IdsOf(WrittenItems')
    BY <1>1 DEF Deletion
  <2>3. \A d \in deleted : d \notin IdsOf(PendingItems')
    BY <1>1 DEF Deletion, IdsOf
  <2> QED BY <1>1, <2>1, <2>2, <2>3 DEF Deletion, IdsOf
<1> QED BY <1>3, <1>6, <1>7, <1>8

\* append() gives the item a number and an id that no other has.
LEMMA NewIsGood ==
    ASSUME Inv, NEW o \in Owners, issued < MaxItems
    PROVE  /\ New(o) \in Item /\ next + 1 \in Number /\ issued + 1 \in 1 .. MaxItems
           /\ Good(items \cup {New(o)}, issued + 1)
           /\ \A i \in items \cup {New(o)} : i.seq < next + 1
           /\ next + 1 <= issued + 2
<1>1. issued \in Nat /\ next \in Number /\ next <= issued + 1 /\ items \subseteq Item
  BY ConstantsAssumption DEF Inv, TypeOK, Numbering
<1>2. New(o) \in Item
  BY <1>1, ConstantsAssumption DEF New, Item, Id, Number
<1>3. \A i \in items : i.seq < next /\ i.id <= issued /\ i.seq <= issued
  BY DEF Inv, Numbering, Good
<1>4. \A i \in items : i.seq \in Nat /\ i.id \in Nat
  BY <1>1, ConstantsAssumption DEF Item, Id
<1>5. New(o).id = issued + 1 /\ New(o).seq = next
  BY DEF New
<1>6. \A i, j \in items : i.seq = j.seq \/ i.id = j.id => i = j
  BY DEF Inv, Numbering, Good
<1>7. \A i, j \in items \cup {New(o)} : i.seq = j.seq \/ i.id = j.id => i = j
  BY <1>1, <1>3, <1>4, <1>5, <1>6, ConstantsAssumption DEF Number
<1>8. \A i \in items \cup {New(o)} :
        i.id <= issued + 1 /\ i.seq <= issued + 1 /\ i.seq < next + 1
  BY <1>1, <1>3, <1>4, <1>5, ConstantsAssumption DEF Number
<1> QED
  BY <1>1, <1>2, <1>7, <1>8, ConstantsAssumption DEF Good, Number

LEMMA PostItemPreserves ==
    ASSUME Inv, NEW o \in Owners, PostItem(o)
    PROVE  Inv'
<1> USE DEF Inv
<1>1. /\ items' = items \cup {New(o)} /\ next' = next + 1 /\ issued' = issued + 1
      /\ issued < MaxItems /\ process' = process /\ process # "down"
      /\ saving' = saving \cup {issued + 1} /\ disk' = disk
      /\ durable' = durable /\ unread' = unread
      /\ deleting' = deleting /\ deleted' = deleted /\ Save(items', next')
      /\ UNCHANGED <<expired, reader, bounds>>
  BY DEF PostItem, Running
<1>2. /\ New(o) \in Item /\ next' \in Number /\ issued' \in 1 .. MaxItems
      /\ Good(items', issued') /\ \A i \in items' : i.seq < next'
      /\ next' <= issued' + 1 /\ issued \in Nat
  BY <1>1, NewIsGood, Bounds
<1>3. items' \in SUBSET Item
  BY <1>1, <1>2 DEF TypeOK
<1>4. IdsOf(items') = IdsOf(items) \cup {issued + 1}
  <2>1. New(o).id = issued + 1
    BY DEF New
  <2> QED BY <1>1, <2>1, IdsOfUnion
<1>5. Promised' \subseteq IdsOf(items') /\ Promised' \subseteq Promised
      /\ saving' \subseteq IdsOf(items')
  BY <1>1, <1>4 DEF Durability, Promised
<1>6. \A d \in deleted \cup deleting : d \in Nat /\ d <= issued /\ d \notin IdsOf(items)
  BY ConstantsAssumption DEF Deletion, TypeOK, Id
<1>7. \A d \in deleted \cup deleting : d <= issued' /\ d \notin IdsOf(items')
  <2>1. \A d \in deleted \cup deleting : d <= issued + 1 /\ d # issued + 1
    BY <1>2, <1>6
  <2> QED BY <1>1, <1>4, <1>6, <2>1
<1>8. issued' \in Nat /\ issued <= issued'
  BY <1>1, <1>2
<1>9. Rest' /\ Numbering' /\ Durability' /\ Deletion'
  BY <1>1, <1>2, <1>3, <1>5, <1>6, <1>7, <1>8, SavePreserves
<1>10. writing' \in Snapshot /\ pending' \in Reference \cup {None}
  BY <1>1, <1>2, <1>3, SaveStep
<1>11. saving' \subseteq Id
  BY <1>1, <1>2 DEF TypeOK, Id
<1>12. TypeOK'
  BY <1>1, <1>2, <1>3, <1>10, <1>11, ConstantsAssumption DEF TypeOK, bounds
<1> QED BY <1>9, <1>12

LEMMA DeleteItemsPreserves ==
    ASSUME Inv, NEW gone \in SUBSET items, NEW n \in Number, DeleteItems(gone, n),
           n = next \/ (n = 1 /\ gone = items)
    PROVE  Inv'
<1> USE DEF Inv
<1>1. /\ items' = items \ gone /\ next' = n /\ issued' = issued /\ disk' = disk
      /\ process' = process /\ process # "down" /\ Save(items', next')
      /\ saving' = saving \ IdsOf(gone) /\ durable' = durable \ IdsOf(gone)
      /\ deleting' = deleting \cup IdsOf(gone) /\ deleted' = deleted
      /\ deletes < MaxDeletes /\ deletes' = deletes + 1
      /\ UNCHANGED <<expired, reader, unread, crashes, errors>>
  BY DEF DeleteItems, Running
<1>2. items \in SUBSET Item /\ items' \in SUBSET Item /\ issued \in Nat
  BY <1>1, Bounds DEF TypeOK
<1>3. Good(items', issued')
  BY <1>1, <1>2, GoodPart DEF Numbering
<1>4. (\A i \in items' : i.seq < n) /\ n <= issued' + 1
  BY <1>1, <1>2 DEF Numbering
<1>5. IdsOf(items) \ IdsOf(gone) \subseteq IdsOf(items') /\ IdsOf(items') \subseteq IdsOf(items)
  BY <1>1 DEF IdsOf
<1>6. IdsOf(gone) \cap IdsOf(items') = {}
  BY <1>1 DEF IdsOf, Numbering, Good
<1>7. Promised' \subseteq IdsOf(items') /\ Promised' \subseteq Promised
      /\ saving' \subseteq IdsOf(items')
  BY <1>1, <1>5 DEF Durability, Promised
<1>8. \A d \in IdsOf(gone) : d \in Id /\ d <= issued
  BY <1>2 DEF IdsOf, Numbering, Good, Item
<1>9. \A d \in deleting' : d \in Id /\ d <= issued' /\ d \notin IdsOf(items')
  BY <1>1, <1>5, <1>6, <1>8 DEF Deletion, TypeOK
<1>10. \A d \in deleting' : d \in Nat /\ d <= issued' /\ d \notin IdsOf(items')
  BY <1>9, ConstantsAssumption DEF Id
<1>11. \A d \in deleted : d \notin IdsOf(items')
  BY <1>5 DEF Deletion
<1>15. issued' \in Nat /\ issued <= issued'
  BY <1>1, <1>2
<1>12. Rest' /\ Numbering' /\ Durability' /\ Deletion'
  BY <1>15, <1>1, <1>2, <1>3, <1>4, <1>7, <1>10, <1>11, SavePreserves
<1>13. writing' \in Snapshot /\ pending' \in Reference \cup {None}
  BY <1>1, <1>2, SaveStep
<1>14. TypeOK'
  BY <1>1, <1>2, <1>9, <1>13, ConstantsAssumption DEF TypeOK
<1> QED BY <1>12, <1>14

LEMMA GracefulShutdownPreserves ==
    ASSUME Inv, GracefulShutdown
    PROVE  Inv'
<1> USE DEF Inv
<1>1. /\ items' = items /\ next' = next /\ issued' = issued /\ disk' = disk
      /\ process = "up" /\ process' = "stopping" /\ Save(items', next')
      /\ saving' = saving \cup IdsOf(items) /\ durable' = durable /\ unread' = unread
      /\ deleting' = deleting /\ deleted' = deleted
      /\ UNCHANGED <<expired, reader, bounds>>
  BY DEF GracefulShutdown, memory
<1>2. items' \in SUBSET Item /\ next' \in Number /\ issued' \in Nat
  BY <1>1, Bounds DEF TypeOK
<1>3. Good(items', issued') /\ (\A i \in items' : i.seq < next') /\ next' <= issued' + 1
  BY <1>1 DEF Numbering
<1>4. Promised' \subseteq IdsOf(items') /\ Promised' \subseteq Promised
      /\ saving' \subseteq IdsOf(items')
  BY <1>1 DEF Durability, Promised
<1>5. \A d \in deleting' : d \in Nat /\ d <= issued' /\ d \notin IdsOf(items')
  BY <1>1, ConstantsAssumption DEF Deletion, TypeOK, Id
<1>6. \A d \in deleted : d \notin IdsOf(items')
  BY <1>1 DEF Deletion
<1>7. Rest' /\ Numbering' /\ Durability' /\ Deletion'
  BY <1>1, <1>2, <1>3, <1>4, <1>5, <1>6, SavePreserves
<1>8. writing' \in Snapshot /\ pending' \in Reference \cup {None}
  BY <1>1, <1>2, SaveStep
<1>9. saving' \subseteq Id
  BY <1>1 DEF TypeOK, IdsOf, Item
<1>10. TypeOK'
  BY <1>1, <1>2, <1>8, <1>9 DEF TypeOK, bounds
<1> QED BY <1>7, <1>10

-----------------------------------------------------------------------------
(* The other steps *)

LEMMA AppendPreserves ==
    ASSUME Inv, NEW o \in Owners, Append(o)
    PROVE  Inv'
<1> USE DEF Inv
<1>1. /\ items' = items \cup {New(o)} /\ next' = next + 1 /\ issued' = issued + 1
      /\ issued < MaxItems /\ process' = process /\ process # "down"
      /\ writing' = writing /\ pending' = pending /\ disk' = disk
      /\ UNCHANGED <<saving, durable, unread, deleting, deleted, expired, reader, bounds>>
  BY DEF Append, Running, store
<1>n. issued \in Nat /\ next \in Nat
  BY Bounds
<1>2. /\ New(o) \in Item /\ next' \in Number /\ issued' \in 1 .. MaxItems
      /\ Good(items', issued') /\ \A i \in items' : i.seq < next'
      /\ next' <= issued' + 1 /\ issued \in Nat
  <2>1. /\ New(o) \in Item /\ next + 1 \in Number /\ issued + 1 \in 1 .. MaxItems
        /\ Good(items \cup {New(o)}, issued + 1)
        /\ \A i \in items \cup {New(o)} : i.seq < next + 1
        /\ next + 1 <= issued + 2
    BY <1>1, NewIsGood
  <2> QED BY <1>1, <1>n, <2>1
<1>3. items' \in SUBSET Item
  BY <1>1, <1>2 DEF TypeOK
<1>4. IdsOf(items') = IdsOf(items) \cup {issued + 1}
  <2>1. New(o).id = issued + 1
    BY DEF New
  <2> QED BY <1>1, <2>1, IdsOfUnion
<1>5. /\ WrittenItems' = WrittenItems
      /\ \/ PendingItems' = PendingItems
         \/ PendingItems = items /\ PendingItems' = items' /\ pending # None
  BY <1>1 DEF WrittenItems, PendingItems, Content
<1>6. NewestItems' = IF pending = None THEN WrittenItems ELSE PendingItems'
  BY <1>1, <1>5 DEF NewestItems
<1>7. \A d \in deleted \cup deleting : d <= issued' /\ d # issued + 1
  BY <1>1, <1>2, ConstantsAssumption DEF Deletion, TypeOK, Id
<1>8. TypeOK'
  BY <1>1, <1>2, <1>3, ConstantsAssumption DEF TypeOK, bounds
<1>9. Rest'
  BY <1>1 DEF Rest
<1>10. Numbering'
  <2>1. /\ disk.items \in SUBSET Item /\ WrittenItems \in SUBSET Item
        /\ PendingItems \in SUBSET Item /\ issued' \in Nat /\ issued <= issued'
    BY <1>1, <1>2, ArrayTypes DEF TypeOK, Snapshot
  <2>2. /\ Good(disk.items, issued') /\ Good(WrittenItems, issued')
        /\ Good(PendingItems, issued')
    BY <1>2, <2>1, GoodPart DEF Numbering
  <2>3. Good(PendingItems', issued')
    BY <1>2, <1>5, <2>2
  <2>4. /\ disk.next \in Nat /\ (writing # None => writing.next \in Nat)
        /\ (pending # None => pending.next \in Nat)
    BY ConstantsAssumption DEF TypeOK, Snapshot, Reference, Number
  <2>5. /\ disk.next <= issued' + 1
        /\ writing # None => writing.next <= issued' + 1
        /\ pending # None => pending.next <= issued' + 1
    BY <1>1, <1>2, <2>4 DEF Numbering
  <2> QED BY <1>1, <1>2, <1>5, <2>2, <2>3, <2>5 DEF Numbering
<1>11. Durability'
  <2>1. IdsOf(PendingItems) \subseteq IdsOf(PendingItems')
    BY <1>4, <1>5
  <2>2. IdsOf(NewestItems) \subseteq IdsOf(NewestItems')
    BY <1>6, <2>1 DEF NewestItems
  <2>3. IdsOf(items) \subseteq IdsOf(items') /\ IdsOf(WrittenItems') = IdsOf(WrittenItems)
    BY <1>4, <1>5
  <2>0. Promised' = Promised
    BY <1>1 DEF Promised
  <2>4. /\ Promised' \subseteq IdsOf(disk.items)'
        /\ Promised' \subseteq IdsOf(items') /\ saving' \subseteq IdsOf(items')
    BY <1>1, <2>0, <2>3 DEF Durability
  <2>5. writing' # None => Promised' \subseteq IdsOf(WrittenItems') /\ saving' \subseteq IdsOf(NewestItems')
    BY <1>1, <2>0, <2>2, <2>3 DEF Durability
  <2>6. pending' # None => Promised' \subseteq IdsOf(PendingItems')
    BY <1>1, <2>0, <2>1 DEF Durability
  <2>7. /\ IdsOf(items)' = IdsOf(items') /\ IdsOf(WrittenItems)' = IdsOf(WrittenItems')
        /\ IdsOf(PendingItems)' = IdsOf(PendingItems') /\ IdsOf(NewestItems)' = IdsOf(NewestItems')
    BY DEF IdsOf
  <2> QED BY <2>4, <2>5, <2>6, <2>7 DEF Durability
<1>12. Deletion'
  <2>1. \A d \in deleted : d \notin IdsOf(PendingItems')
    BY <1>4, <1>5, <1>7 DEF Deletion
  <2>2. \A d \in deleting : d \notin IdsOf(NewestItems')
    <3>1. CASE pending = None
      BY <1>6, <3>1 DEF Deletion, NewestItems
    <3>2. CASE pending # None
      BY <1>4, <1>5, <1>6, <1>7, <3>2 DEF Deletion, NewestItems
    <3> QED BY <3>1, <3>2
  <2>3. \A d \in deleted \cup deleting : d \notin IdsOf(items')
    BY <1>4, <1>7 DEF Deletion
  <2>4. \A d \in deleted : d \notin IdsOf(disk.items)' /\ d \notin IdsOf(WrittenItems')
    BY <1>1, <1>5 DEF Deletion
  <2>5. /\ IdsOf(items)' = IdsOf(items') /\ IdsOf(WrittenItems)' = IdsOf(WrittenItems')
        /\ IdsOf(PendingItems)' = IdsOf(PendingItems') /\ IdsOf(NewestItems)' = IdsOf(NewestItems')
    BY DEF IdsOf
  <2> QED BY <1>1, <1>7, <2>1, <2>2, <2>3, <2>4, <2>5 DEF Deletion
<1> QED BY <1>8, <1>9, <1>10, <1>11, <1>12

\* The cursor is the number of an item that was listed.
LEMMA ReadPagePreserves ==
    ASSUME Inv, ReadPage
    PROVE  Inv'
<1> USE DEF Inv
<1> DEFINE c == IF reader.on THEN reader.cursor ELSE 0
           owed == IF reader.on THEN reader.owed \cap IdsOf(Live) ELSE IdsOf(Live)
<1>1. /\ reader' = [on |-> HasMore(c), cursor |-> IF HasMore(c) THEN NextCursor(c) ELSE 0,
                    owed |-> owed \ IdsOf(Page(c))]
      /\ UNCHANGED <<process, memory, store, expired, history, bounds>>
  BY DEF ReadPage, Paginate
<1>2. HasMore(c) => NextCursor(c) \in 0 .. MaxItems
  <2> SUFFICES ASSUME HasMore(c) PROVE NextCursor(c) \in 0 .. MaxItems
    OBVIOUS
  <2>1. After(c) # {}
    BY DEF HasMore, Page
  <2>2. Page(c) # {}
    BY <2>1, PageNotEmpty
  <2>4. Page(c) \in SUBSET Item
    BY DEF Page, After, Live, TypeOK
  <2>3. PICK i \in Page(c) : i.seq = LastSeq(Page(c))
    BY <2>2, <2>4, LastSeqIsLast
  <2> QED BY <2>4, <2>3, ConstantsAssumption DEF NextCursor, Item, Id
<1>3. IdsOf(Live) \subseteq Id
  BY DEF Live, IdsOf, TypeOK, Item
<1>4. owed \subseteq Id
  BY <1>3
<1>5. HasMore(c) \in BOOLEAN /\ 0 \in 0 .. MaxItems
  BY ConstantsAssumption DEF HasMore
<1>6. reader' \in [on : BOOLEAN, cursor : 0 .. MaxItems, owed : SUBSET Id]
  BY <1>1, <1>2, <1>4, <1>5
<1>7. TypeOK'
  BY <1>1, <1>6 DEF TypeOK, memory, store, history, bounds
<1>8. Rest' /\ Numbering' /\ Durability' /\ Deletion'
  BY <1>1 DEF memory, store, history, Rest, Numbering, Durability, Promised, Deletion, Good,
              NewestItems, WrittenItems, PendingItems, Content, IdsOf
<1> QED BY <1>7, <1>8

LEMMA ExpirePreserves ==
    ASSUME Inv, NEW n \in Id, Expire(n)
    PROVE  Inv'
<1> USE DEF Inv
<1>1. expired' = expired \cup {n} /\ UNCHANGED <<process, memory, store, reader, history, bounds>>
  BY DEF Expire
<1>2. TypeOK'
  BY <1>1 DEF TypeOK, memory, store, history, bounds
<1>3. Rest' /\ Numbering' /\ Durability' /\ Deletion'
  BY <1>1 DEF memory, store, history, Rest, Numbering, Durability, Promised, Deletion, Good,
              NewestItems, WrittenItems, PendingItems, Content, IdsOf
<1> QED BY <1>2, <1>3

\* A reference sees the items shifted out of the array, not those left out of
\* the new one.
LEMMA MaintainPreserves ==
    ASSUME Inv, Maintain
    PROVE  Inv'
<1> USE DEF Inv
<1>1. /\ items' \subseteq items /\ next' = next /\ issued' = issued
      /\ process' = process /\ process # "down"
      /\ writing' = writing /\ disk' = disk
      /\ pending' = (IF Live # items THEN Detached ELSE pending)
      /\ saving' = saving \cap IdsOf(items') /\ durable' = durable \cap IdsOf(items')
      /\ UNCHANGED <<unread, deleting, deleted, expired, reader, bounds>>
  BY DEF Maintain, Running, Bounded, Live
<1>2. items \in SUBSET Item /\ items' \in SUBSET Item /\ issued \in Nat
  BY <1>1, Bounds DEF TypeOK
<1>3. /\ pending' \in Reference \cup {None} /\ (pending' = None <=> pending = None)
      /\ pending # None => pending'.next = pending.next
      /\ PendingItems' = PendingItems \/ (PendingItems = items /\ PendingItems' = items')
  <2>1. CASE pending' = pending
    BY <2>1 DEF TypeOK, PendingItems, Content
  <2>2. CASE pending' # pending
    <3>1. pending \in Reference /\ pending.live
          /\ pending' = [pending EXCEPT !.live = FALSE, !.items = items]
      BY <1>1, <2>2 DEF Detached, TypeOK
    <3>2. pending' \in Reference /\ pending'.next = pending.next
          /\ ~ pending'.live /\ pending'.items = items
      BY <1>2, <3>1 DEF Reference
    <3>3. pending' # None /\ pending # None
      BY <3>1, <3>2, NoneAssumption
    <3> QED BY <3>1, <3>2, <3>3 DEF PendingItems, Content
  <2> QED BY <2>1, <2>2
<1>4. WrittenItems' = WrittenItems
  BY <1>1 DEF WrittenItems
<1>5. NewestItems' = IF pending = None THEN WrittenItems ELSE PendingItems'
  BY <1>3, <1>4 DEF NewestItems
<1>6. IdsOf(items') \subseteq IdsOf(items)
  BY <1>1 DEF IdsOf
<1>7. TypeOK'
  BY <1>1, <1>2, <1>3 DEF TypeOK, bounds
<1>8. Rest'
  BY <1>1, <1>3 DEF Rest
<1>9. Numbering'
  <2>1. Good(items', issued)
    BY <1>1, <1>2, GoodPart DEF Numbering
  <2>2. Good(PendingItems', issued)
    BY <1>3, <2>1 DEF Numbering
  <2> QED BY <1>1, <1>3, <1>4, <2>1, <2>2 DEF Numbering
<1>10. Durability'
  <2>0. Promised' = Promised \cap IdsOf(items')
    BY <1>1 DEF Promised
  <2>1. pending # None => Promised' \subseteq IdsOf(PendingItems')
    BY <2>0, <1>3 DEF Durability
  <2>2. writing # None => saving' \subseteq IdsOf(NewestItems')
    BY <1>1, <1>3, <1>5 DEF Durability, NewestItems
  <2>3. writing # None => Promised' \subseteq IdsOf(WrittenItems')
    BY <2>0, <1>4 DEF Durability
  <2>4. /\ IdsOf(items)' = IdsOf(items') /\ IdsOf(WrittenItems)' = IdsOf(WrittenItems')
        /\ IdsOf(PendingItems)' = IdsOf(PendingItems') /\ IdsOf(NewestItems)' = IdsOf(NewestItems')
    BY DEF IdsOf
  <2> QED BY <1>1, <1>3, <2>0, <2>1, <2>2, <2>3, <2>4 DEF Durability
<1>11. Deletion'
  <2>1. \A d \in deleted : d \notin IdsOf(PendingItems')
    BY <1>3, <1>6 DEF Deletion
  <2>2. \A d \in deleting : d \notin IdsOf(NewestItems')
    BY <1>3, <1>5, <1>6 DEF Deletion, NewestItems
  <2>3. \A d \in deleted \cup deleting : d \notin IdsOf(items')
    BY <1>6 DEF Deletion
  <2>4. /\ IdsOf(items)' = IdsOf(items') /\ IdsOf(WrittenItems)' = IdsOf(WrittenItems')
        /\ IdsOf(PendingItems)' = IdsOf(PendingItems') /\ IdsOf(NewestItems)' = IdsOf(NewestItems')
    BY DEF IdsOf
  <2> QED BY <1>1, <1>4, <2>1, <2>2, <2>3, <2>4 DEF Deletion
<1> QED BY <1>7, <1>8, <1>9, <1>10, <1>11

\* The number after the last record is larger than any that was loaded.
LEMMA StartPreserves ==
    ASSUME Inv, Start
    PROVE  Inv'
<1> USE DEF Inv
<1> DEFINE kept == Bounded(disk.items)
           live == IF HasTtl THEN {i \in kept : i.id \notin expired} ELSE kept
<1>1. /\ process = "down" /\ process' = "loading"
      /\ items' = Bounded(live) /\ next' = Loaded(disk).next /\ Save(items', next')
      /\ durable' = durable \cap IdsOf(items') /\ unread' = {}
      /\ UNCHANGED <<disk, expired, reader, issued, saving, deleting, deleted, bounds>>
  BY DEF Start, Loaded
<1>2. /\ kept \subseteq disk.items /\ items' \subseteq kept
      /\ disk.items \in SUBSET Item /\ kept \in SUBSET Item
      /\ issued \in Nat /\ issued <= MaxItems /\ disk.next \in Number
  BY <1>1, ConstantsAssumption DEF Bounded, TypeOK, Snapshot
<1>3. saving = {} /\ deleting = {} /\ writing = None
  BY <1>1 DEF Rest
<1>4. /\ next' \in Number /\ next' <= issued + 1
      /\ \A i \in kept : i.seq < next'
  <2>1. next' = IF kept # {} /\ LastSeq(kept) >= disk.next
                THEN LastSeq(kept) + 1 ELSE disk.next
    BY <1>1 DEF Loaded
  <2>2. CASE kept = {}
    BY <1>2, <2>1, <2>2 DEF Numbering
  <2>3. CASE kept # {}
    <3>1. /\ \E i \in kept : i.seq = LastSeq(kept)
          /\ \A i \in kept : i.seq <= LastSeq(kept)
      BY <1>2, <2>3, LastSeqIsLast
    <3>2. \A i \in kept : i.seq \in Nat /\ i.seq <= issued
      BY <1>2, ConstantsAssumption DEF Numbering, Good, Item, Id
    <3>3. LastSeq(kept) \in Nat /\ LastSeq(kept) <= issued
      BY <3>1, <3>2
    <3>4. disk.next \in Nat /\ disk.next <= issued + 1
      BY <1>2 DEF Numbering, Number
    <3>5. CASE LastSeq(kept) >= disk.next
      <4>1. next' = LastSeq(kept) + 1
        BY <2>1, <2>3, <3>5
      <4>2. next' \in Number /\ next' <= issued + 1
        BY <1>2, <3>3, <4>1, ConstantsAssumption DEF Number
      <4> QED BY <3>1, <3>2, <3>3, <4>1, <4>2
    <3>6. CASE ~ (LastSeq(kept) >= disk.next)
      <4>1. next' = disk.next
        BY <2>1, <3>6
      <4> QED BY <1>2, <3>1, <3>2, <3>3, <3>4, <3>6, <4>1
    <3> QED BY <3>5, <3>6
  <2> QED BY <2>2, <2>3
<1>5. items' \in SUBSET Item /\ Good(items', issued')
  <2>1. items' \in SUBSET disk.items /\ issued' = issued /\ Good(disk.items, issued)
    BY <1>1, <1>2 DEF Numbering
  <2>2. Good(items', issued)
    BY <1>2, <2>1, GoodPart
  <2> QED BY <1>2, <2>1, <2>2
<1>6. \A i \in items' : i.seq < next'
  BY <1>2, <1>4
<1>7. Promised' \subseteq IdsOf(items') /\ Promised' \subseteq IdsOf(disk.items)
  <2>1. IdsOf(items') \subseteq IdsOf(disk.items)
    BY <1>2 DEF IdsOf
  <2> QED BY <1>1, <2>1 DEF Promised
<1>8. \A d \in deleted : d \notin IdsOf(items')
  <2>1. IdsOf(items') \subseteq IdsOf(disk.items)
    BY <1>2 DEF IdsOf
  <2> QED BY <2>1 DEF Deletion
<1>9. /\ saving' \subseteq IdsOf(items') /\ issued' \in Nat /\ issued <= issued'
      /\ \A d \in deleting' : d \in Nat /\ d <= issued' /\ d \notin IdsOf(items')
  BY <1>1, <1>2, <1>3
<1>10. Rest' /\ Numbering' /\ Durability' /\ Deletion'
  BY <1>1, <1>3, <1>4, <1>5, <1>6, <1>7, <1>8, <1>9, SavePreserves
<1>11. writing' \in Snapshot /\ pending' \in Reference \cup {None}
  BY <1>1, <1>4, <1>5, SaveStep
<1>12. TypeOK'
  BY <1>1, <1>4, <1>5, <1>7, <1>11 DEF TypeOK, bounds
<1> QED BY <1>10, <1>12

\* A stream that starts without its file has nothing, and promises nothing of it.
LEMMA LoadFailsPreserves ==
    ASSUME Inv, LoadFails
    PROVE  Inv'
<1> USE DEF Inv
<1>1. /\ process = "down" /\ process' = "up" /\ unread' = durable
      /\ errors' \in 0 .. MaxErrors
      /\ UNCHANGED <<items, next, writing, pending, disk, expired, reader, issued, saving,
                     durable, deleting, deleted, deletes, crashes>>
  BY ConstantsAssumption DEF LoadFails, memory, store, TypeOK
<1>2. TypeOK'
  BY <1>1 DEF TypeOK
<1>3. writing = None /\ pending = None /\ saving = {} /\ Rest'
  BY <1>1 DEF Rest
<1>4. Promised' = {}
  BY <1>1 DEF Promised
<1>5. Durability'
  BY <1>1, <1>3, <1>4 DEF Durability
<1>6. Numbering' /\ Deletion'
  BY <1>1 DEF Numbering, Deletion, Good, NewestItems, WrittenItems, PendingItems, Content, IdsOf
<1> QED BY <1>2, <1>3, <1>5, <1>6

LEMMA GonePreserves ==
    ASSUME Inv, Gone, deletes' = deletes, errors' = errors, crashes' \in 0 .. MaxCrashes
    PROVE  Inv'
<1> USE DEF Inv
<1>1. /\ process' = "down" /\ items' = {} /\ next' = 1
      /\ writing' = None /\ pending' = None /\ saving' = {} /\ deleting' = {}
      /\ UNCHANGED <<disk, expired, reader, issued, durable, unread, deleted>>
  BY DEF Gone
<1>2. WrittenItems' = {} /\ PendingItems' = {} /\ NewestItems' = {}
  BY <1>1 DEF WrittenItems, PendingItems, NewestItems
<1>3. 1 \in Number
  BY ConstantsAssumption DEF Number
<1>4. TypeOK'
  BY <1>1, <1>3 DEF TypeOK
<1>5. Rest' /\ Durability'
  BY <1>1 DEF Rest, Durability, Promised, IdsOf
<1>6. Numbering'
  BY <1>1, <1>2, Bounds, GoodEmpty DEF Numbering
<1>7. Deletion'
  <2>1. IdsOf({}) = {}
    BY DEF IdsOf
  <2> QED BY <1>1, <1>2, <2>1 DEF Deletion, IdsOf
<1> QED BY <1>4, <1>5, <1>6, <1>7

\* The write that ends, well or not, and what the flush goes on with.
LEMMA WritePreserves ==
    ASSUME Inv, writing # None, NEW good \in BOOLEAN, Flushed(good),
           disk' = (IF good THEN writing ELSE disk),
           UNCHANGED <<memory, expired, reader, issued, unread>>,
           deletes' = deletes, crashes' = crashes, errors' \in 0 .. MaxErrors
    PROVE  Inv'
<1> USE DEF Inv
<1>1. items' = items /\ next' = next /\ expired' = expired /\ reader' = reader /\ issued' = issued
  BY DEF memory
<1>2. /\ writing' \in Snapshot \cup {None} /\ pending' = None
      /\ PendingItems' = {} /\ WrittenItems' = PendingItems
      /\ NewestItems' = PendingItems
      /\ pending # None => writing' # None /\ writing'.next = pending.next
  BY <1>1, FlushedStep
<1>3. process # "down"
  BY DEF Rest
<1>4. /\ process' # "down"
      /\ process' \in {"down", "loading", "up", "stopping", "stopped"}
      /\ pending = None =>
            /\ writing' = None /\ saving' = {} /\ deleting' = {}
            /\ durable' = (IF good THEN durable \cup saving ELSE durable)
            /\ deleted' = (IF good THEN deleted \cup deleting ELSE deleted)
      /\ pending # None =>
            UNCHANGED <<process, saving, deleting, durable, deleted>>
  BY <1>3 DEF Flushed, Resolve, TypeOK
<1>5. /\ writing \in Snapshot /\ disk' \in Snapshot /\ disk'.next <= issued + 1
      /\ disk'.items = (IF good THEN WrittenItems ELSE disk.items)
      /\ Good(disk'.items, issued)
  BY DEF TypeOK, Numbering, WrittenItems
<1>6. TypeOK'
  BY <1>1, <1>2, <1>4, <1>5 DEF TypeOK
<1>7. Rest'
  BY <1>2, <1>4 DEF Rest
<1>8. Numbering'
  BY <1>1, <1>2, <1>4, <1>5, GoodEmpty DEF Numbering
<1>9. /\ IdsOf(items)' = IdsOf(items) /\ IdsOf(WrittenItems)' = IdsOf(PendingItems)
      /\ IdsOf(NewestItems)' = IdsOf(PendingItems) /\ IdsOf(PendingItems)' = IdsOf({})
      /\ IdsOf(disk.items)' = IdsOf(IF good THEN WrittenItems ELSE disk.items)
  BY <1>1, <1>2, <1>5 DEF IdsOf
<1>10. Durability'
  <2>1. CASE pending = None
    <3>0. Promised' \subseteq IF good THEN Promised \cup saving ELSE Promised
      BY <1>4, <2>1 DEF Promised
    <3>1. Promised' \subseteq IdsOf(IF good THEN WrittenItems ELSE disk.items)
      BY <2>1, <3>0 DEF Durability, NewestItems
    <3>2. Promised' \subseteq IdsOf(items) /\ saving' \subseteq IdsOf(items)
      BY <1>3, <1>4, <2>1, <3>0 DEF Durability
    <3> QED BY <1>2, <1>4, <1>9, <2>1, <3>1, <3>2 DEF Durability
  <2>2. CASE pending # None
    <3>1. Promised' = Promised
      BY <1>4, <2>2 DEF Promised
    <3> QED BY <1>2, <1>3, <1>4, <1>9, <2>2, <3>1 DEF Durability, NewestItems
  <2> QED BY <2>1, <2>2
<1>11. Deletion'
  <2>1. IdsOf({}) = {}
    BY DEF IdsOf
  <2>2. CASE pending = None
    <3>1. PendingItems = {} /\ NewestItems = WrittenItems
      BY <2>2 DEF PendingItems, NewestItems
    <3>2. \A d \in deleted' : d \in deleted \/ (good /\ d \in deleting)
      BY <1>4, <2>2
    <3>3. \A d \in deleted' : d <= issued /\ d \notin IdsOf(items) /\ d \notin IdsOf(disk.items)'
      BY <1>9, <3>1, <3>2 DEF Deletion
    <3> QED BY <1>1, <1>4, <1>9, <2>1, <2>2, <3>1, <3>3 DEF Deletion
  <2>3. CASE pending # None
    BY <1>1, <1>4, <1>9, <2>1, <2>3 DEF Deletion, NewestItems
  <2> QED BY <2>2, <2>3
<1> QED BY <1>6, <1>7, <1>8, <1>10, <1>11

LEMMA InitInv == Init => Inv
<1> SUFFICES ASSUME Init PROVE Inv
  OBVIOUS
<1> USE DEF Init
<1>1. Empty \in Snapshot /\ 1 \in Number
  BY ConstantsAssumption DEF Empty, Snapshot, Number
<1>2. TypeOK
  BY <1>1, ConstantsAssumption DEF TypeOK
<1>3. WrittenItems = {} /\ PendingItems = {} /\ disk.items = {} /\ disk.next = 1
  BY DEF WrittenItems, PendingItems, Empty
<1>4. Numbering
  BY <1>3, GoodEmpty DEF Numbering
<1> QED BY <1>2, <1>3, <1>4 DEF Inv, Rest, Durability, Promised, Deletion

LEMMA StepInv == Inv /\ [Next]_vars => Inv'
<1> SUFFICES ASSUME Inv, [Next]_vars PROVE Inv'
  OBVIOUS
<1>1. CASE WriteSnapshot
  <2>1. errors' \in 0 .. MaxErrors /\ deletes' = deletes /\ crashes' = crashes
    BY <1>1 DEF WriteSnapshot, bounds, Inv, TypeOK
  <2> QED BY <1>1, <2>1, WritePreserves DEF WriteSnapshot
<1>2. CASE WriteFails
  <2>1. errors' \in 0 .. MaxErrors
    BY <1>2, ConstantsAssumption DEF WriteFails, Inv, TypeOK
  <2> QED BY <1>2, <2>1, WritePreserves DEF WriteFails
<1>3. ASSUME NEW o \in Owners, Append(o) PROVE Inv'
  BY <1>3, AppendPreserves
<1>4. ASSUME NEW o \in Owners, PostItem(o) PROVE Inv'
  BY <1>4, PostItemPreserves
<1>5. next \in Number /\ 1 \in Number
  BY ConstantsAssumption DEF Inv, TypeOK, Number
<1>6. ASSUME NEW o \in Owners, DeleteQuery(o) PROVE Inv'
  <2> DEFINE gone == {i \in items : i.owner = o}
  <2>1. gone \in SUBSET items /\ DeleteItems(gone, next)
    BY <1>6 DEF DeleteQuery
  <2> HIDE DEF gone
  <2> QED BY <1>5, <2>1, DeleteItemsPreserves
<1>7. CASE Purge
  BY <1>5, <1>7, DeleteItemsPreserves DEF Purge
<1>8. CASE ReadPage
  BY <1>8, ReadPagePreserves
<1>9. ASSUME NEW n \in Id, Expire(n) PROVE Inv'
  BY <1>9, ExpirePreserves
<1>10. CASE Maintain
  BY <1>10, MaintainPreserves
<1>11. CASE Start
  BY <1>11, StartPreserves
<1>12. CASE GracefulShutdown
  BY <1>12, GracefulShutdownPreserves
<1>16. CASE LoadFails
  BY <1>16, LoadFailsPreserves
<1>13. CASE Exit
  BY <1>13, GonePreserves DEF Exit, bounds, Inv, TypeOK
<1>14. CASE Crash
  <2>1. crashes' \in 0 .. MaxCrashes
    BY <1>14, ConstantsAssumption DEF Crash, Inv, TypeOK
  <2> QED BY <1>14, <2>1, GonePreserves DEF Crash
<1>15. CASE UNCHANGED vars
  BY <1>15 DEF vars, memory, store, history, bounds, Inv, TypeOK, Rest, Numbering, Durability, Promised,
               Deletion, Good, NewestItems, WrittenItems, PendingItems, Content, IdsOf
<1> QED
  BY <1>1, <1>2, <1>3, <1>4, <1>6, <1>7, <1>8, <1>9, <1>10, <1>11, <1>12, <1>13, <1>14, <1>15, <1>16
  DEF Next

-----------------------------------------------------------------------------
(***************************************************************************)
(* Listings.  What the client is owed lies after its cursor wherever the   *)
(* item is kept, so that a restart from the file does not put an item it   *)
(* is owed behind the cursor: an id names the same item in every copy.     *)
(***************************************************************************)
Known == items \cup disk.items \cup WrittenItems \cup PendingItems

Listing ==
    /\ \A i, j \in Known : i.id = j.id => i = j
    /\ \A n \in reader.owed : n <= issued
    /\ ~ reader.on => reader.owed = {}
    /\ reader.on => \A i \in Known : i.id \in reader.owed => i.seq > reader.cursor

LEMMA KnownIssued ==
    ASSUME Inv
    PROVE  Known \in SUBSET Item /\ \A i \in Known : i.id \in Nat /\ i.id <= issued
<1>1. Known \in SUBSET Item
  BY ArrayTypes DEF Inv, TypeOK, Snapshot, Known
<1>2. \A i \in Known : i.id <= issued
  BY DEF Inv, Numbering, Good, Known
<1> QED BY <1>1, <1>2, ConstantsAssumption DEF Item, Id

\* A step that makes no item known but a new one.
LEMMA ListingKept ==
    ASSUME Inv, Listing, reader' = reader, issued' = issued, Known' \subseteq Known
    PROVE  Listing'
BY DEF Listing

LEMMA ListingGrows ==
    ASSUME Inv, Listing, NEW o \in Owners, reader' = reader, issued' = issued + 1,
           Known' \subseteq Known \cup {New(o)}
    PROVE  Listing'
<1>1. /\ New(o).id = issued + 1 /\ issued \in Nat
      /\ \A i \in Known : i.id \in Nat /\ i.id <= issued
  BY KnownIssued, Bounds DEF New, Inv
<1>2. \A n \in reader.owed : n \in Nat /\ n <= issued
  BY ConstantsAssumption DEF Inv, TypeOK, Listing, Id
<1>3. \A i, j \in Known : i.id = j.id => i = j
  BY DEF Listing
<1>4. \A i, j \in Known' : i.id = j.id => i = j
  BY <1>1, <1>3
<1>5. \A n \in reader.owed : n <= issued + 1 /\ n # issued + 1
  BY <1>1, <1>2
<1>6. \A i \in Known' : i.id \in reader.owed => i \in Known
  BY <1>1, <1>5
<1> QED BY <1>4, <1>5, <1>6 DEF Listing

\* After a save nothing is known that was not known or is in the array.
LEMMA SaveKnown ==
    ASSUME Inv, NEW n \in Number, items' \in SUBSET Item, Save(items', n), disk' = disk
    PROVE  Known' \subseteq Known \cup items'
BY SaveStep DEF Inv, Known

LEMMA FiniteItems ==
    ASSUME Inv
    PROVE  IsFiniteSet(items)
<1> DEFINE f == [i \in items |-> i.id]
<1>1. \A i \in items : i.id \in Id
  BY DEF Inv, TypeOK, Item
<1>2. \A i, j \in items : i.id = j.id => i = j
  BY DEF Inv, Numbering, Good
<1>3. f \in Injection(items, Id)
  BY <1>1, <1>2 DEF Injection, IsInjective
<1>4. IsFiniteSet(Id)
  BY FS_Interval, ConstantsAssumption DEF Id
<1> QED BY <1>3, <1>4, FS_Injection

\* A page has every item after the cursor up to its last one.
LEMMA PageIsPrefix ==
    ASSUME Inv, NEW c, NEW i \in After(c), Page(c) # {}, i.seq <= LastSeq(Page(c))
    PROVE  i \in Page(c)
<1>1. After(c) \subseteq items /\ After(c) \subseteq Item /\ Page(c) \in SUBSET Item
      /\ Page(c) \subseteq After(c)
  BY DEF After, Live, Page, Inv, TypeOK
<1>2. PICK p \in Page(c) : p.seq = LastSeq(Page(c))
  BY <1>1, LastSeqIsLast
<1>3. CASE i = p
  BY <1>2, <1>3
<1>4. CASE i # p
  <2>1. i.seq \in Nat /\ p.seq \in Nat /\ \A j \in After(c) : j.seq \in Nat
    BY <1>1, ConstantsAssumption DEF Item, Id
  <2>2. i.seq # p.seq
    BY <1>1, <1>4 DEF Inv, Numbering, Good
  <2>3. i.seq < p.seq
    BY <1>2, <2>1, <2>2
  <2> DEFINE below(k) == {j \in After(c) : j.seq < k.seq}
  <2>4. below(i) \subseteq below(p)
    BY <2>1, <2>3
  <2>5. below(p) \subseteq items
    BY <1>1
  <2>6. IsFiniteSet(below(p))
    BY <2>5, FiniteItems, FS_Subset
  <2>7. Cardinality(below(i)) <= Cardinality(below(p))
    BY <2>4, <2>6, FS_Subset
  <2>8. Cardinality(below(i)) \in Nat /\ Cardinality(below(p)) \in Nat
    BY <2>4, <2>6, FS_Subset, FS_CardinalityType
  <2>9. Cardinality(below(p)) < Limit
    BY DEF Page
  <2>10. Cardinality(below(i)) < Limit
    BY <2>7, <2>8, <2>9, ConstantsAssumption
  <2> QED BY <2>10 DEF Page
<1> QED BY <1>3, <1>4

LEMMA ReadPageListing ==
    ASSUME Inv, Listing, ReadPage
    PROVE  Listing'
<1> DEFINE c == IF reader.on THEN reader.cursor ELSE 0
           owed == IF reader.on THEN reader.owed \cap IdsOf(Live) ELSE IdsOf(Live)
<1>1. /\ reader' = [on |-> HasMore(c), cursor |-> IF HasMore(c) THEN NextCursor(c) ELSE 0,
                    owed |-> owed \ IdsOf(Page(c))]
      /\ UNCHANGED <<process, memory, store, expired, history, bounds>>
  BY DEF ReadPage, Paginate
<1>2. issued' = issued /\ Known' = Known
  BY <1>1 DEF memory, store, history, Known, WrittenItems, PendingItems, Content
<1>3. \A i, j \in Known : i.id = j.id => i = j
  BY DEF Listing
<1>4. Live \subseteq items /\ items \subseteq Known
  BY DEF Live, Known
<1>5. \A i \in Live : i.id \in owed => i.seq > c
  <2> SUFFICES ASSUME NEW i \in Live, i.id \in owed PROVE i.seq > c
    OBVIOUS
  <2>1. i.seq \in 1 .. MaxItems
    BY <1>4 DEF Inv, TypeOK, Item, Id
  <2>2. CASE reader.on
    BY <1>4, <2>2 DEF Listing
  <2>3. CASE ~ reader.on
    BY <2>1, <2>3, ConstantsAssumption
  <2> QED BY <2>2, <2>3
<1>6. \A n \in owed : \E i \in Live : i.id = n
  BY DEF IdsOf
<1>7. \A n \in owed : n <= issued
  BY <1>4, <1>6, KnownIssued
<1>8. \A i \in Known : i.id \in owed => i \in After(c)
  BY <1>3, <1>4, <1>5, <1>6 DEF After
<1>9. CASE HasMore(c)
  <2>1. Page(c) # {}
    BY <1>9, PageNotEmpty DEF HasMore, Page, Inv
  <2>2. LastSeq(Page(c)) \in Nat
    <3>1. Page(c) \in SUBSET Item
      BY DEF Page, After, Live, Inv, TypeOK
    <3>2. PICK p \in Page(c) : p.seq = LastSeq(Page(c))
      BY <2>1, <3>1, LastSeqIsLast
    <3> QED BY <3>1, <3>2, ConstantsAssumption DEF Item, Id
  <2>3. ASSUME NEW i \in Known, i.id \in owed \ IdsOf(Page(c))
        PROVE  i.seq > LastSeq(Page(c))
    <3>1. i \in After(c) /\ i \notin Page(c)
      BY <1>8, <2>3 DEF IdsOf
    <3>2. ~ (i.seq <= LastSeq(Page(c)))
      BY <2>1, <3>1, PageIsPrefix
    <3>3. i.seq \in Nat
      BY <2>3, KnownIssued, ConstantsAssumption DEF Item, Id
    <3> QED BY <2>2, <3>2, <3>3
  <2>4. /\ reader'.on /\ reader'.cursor = LastSeq(Page(c))
        /\ reader'.owed = owed \ IdsOf(Page(c))
    BY <1>1, <1>9 DEF NextCursor
  <2> QED BY <1>2, <1>3, <1>7, <2>3, <2>4 DEF Listing
<1>10. CASE ~ HasMore(c)
  <2>1. Page(c) = After(c)
    BY <1>10 DEF HasMore
  <2>2. owed \ IdsOf(Page(c)) = {}
    <3> HIDE DEF c, owed
    <3> SUFFICES ASSUME NEW n \in owed PROVE n \in IdsOf(Page(c))
      OBVIOUS
    <3>1. PICK i \in Live : i.id = n
      BY <1>6
    <3>2. i \in Page(c)
      BY <1>4, <1>8, <2>1, <3>1
    <3> QED BY <3>1, <3>2 DEF IdsOf
  <2>3. reader'.owed = {} /\ ~ reader'.on
    BY <1>1, <1>10, <2>2
  <2> QED BY <1>2, <1>3, <2>3 DEF Listing
<1> QED BY <1>9, <1>10

LEMMA StepListing == Inv /\ Listing /\ [Next]_vars => Listing'
<1> SUFFICES ASSUME Inv, Listing, [Next]_vars PROVE Listing'
  OBVIOUS
<1>1. ASSUME writing # None, NEW good \in BOOLEAN, Flushed(good), memory' = memory,
             reader' = reader, issued' = issued, disk' \in {disk, writing}
      PROVE  Listing'
  <2>1. items' = items
    BY <1>1 DEF memory
  <2>2. PendingItems' = {} /\ WrittenItems' = PendingItems
    BY <1>1, <2>1, FlushedStep DEF Inv
  <2>3. disk'.items \subseteq Known
    BY <1>1 DEF Known, WrittenItems
  <2>4. Known' \subseteq Known
    BY <2>1, <2>2, <2>3 DEF Known
  <2> QED BY <1>1, <2>4, ListingKept
<1>2. CASE WriteSnapshot
  BY <1>1, <1>2 DEF WriteSnapshot
<1>3. CASE WriteFails
  BY <1>1, <1>3 DEF WriteFails
<1>4. ASSUME NEW o \in Owners, Append(o) PROVE Listing'
  <2>1. /\ items' = items \cup {New(o)} /\ issued' = issued + 1 /\ reader' = reader
        /\ writing' = writing /\ pending' = pending /\ disk' = disk
    BY <1>4 DEF Append, store
  <2>2. Known' \subseteq Known \cup {New(o)}
    BY <2>1 DEF Known, WrittenItems, PendingItems, Content
  <2> QED BY <2>1, <2>2, ListingGrows
<1>5. ASSUME NEW o \in Owners, PostItem(o) PROVE Listing'
  <2>1. /\ items' = items \cup {New(o)} /\ issued' = issued + 1 /\ reader' = reader
        /\ next' = next + 1 /\ issued < MaxItems /\ Save(items', next') /\ disk' = disk
    BY <1>5 DEF PostItem
  <2>2. next' \in Number /\ items' \in SUBSET Item
    BY <2>1, NewIsGood DEF Inv, TypeOK
  <2>3. Known' \subseteq Known \cup items'
    BY <2>1, <2>2, SaveKnown
  <2>4. Known' \subseteq Known \cup {New(o)}
    BY <2>1, <2>3 DEF Known
  <2> QED BY <2>1, <2>4, ListingGrows
<1>6. ASSUME items' \subseteq items \/ items' \subseteq disk.items, next' \in Number,
             Save(items', next'), disk' = disk, reader' = reader, issued' = issued
      PROVE  Listing'
  <2>1. items' \in SUBSET Item
    BY <1>6 DEF Inv, TypeOK, Snapshot
  <2>2. Known' \subseteq Known \cup items'
    BY <1>6, <2>1, SaveKnown
  <2>3. items' \subseteq Known
    BY <1>6 DEF Known
  <2> QED BY <1>6, <2>2, <2>3, ListingKept
<1>7. next \in Number /\ 1 \in Number
  BY ConstantsAssumption DEF Inv, TypeOK, Number
<1>8. ASSUME NEW o \in Owners, DeleteQuery(o) PROVE Listing'
  BY <1>6, <1>7, <1>8 DEF DeleteQuery, DeleteItems
<1>9. CASE Purge
  BY <1>6, <1>7, <1>9 DEF Purge, DeleteItems
<1>10. CASE ReadPage
  BY <1>10, ReadPageListing
<1>11. ASSUME NEW n \in Id, Expire(n) PROVE Listing'
  <2>1. UNCHANGED <<memory, store, reader, issued>>
    BY <1>11 DEF Expire, history
  <2>2. Known' = Known
    BY <2>1 DEF Known, WrittenItems, PendingItems, Content, memory, store
  <2> QED BY <2>1, <2>2, ListingKept
<1>12. CASE Maintain
  <2>1. /\ items' \subseteq items /\ writing' = writing /\ disk' = disk
        /\ pending' = (IF Live # items THEN Detached ELSE pending)
        /\ reader' = reader /\ issued' = issued
    BY <1>12 DEF Maintain, Bounded, Live
  <2>2. PendingItems' \subseteq items \cup PendingItems
    <3>1. CASE pending' = pending
      BY <2>1, <3>1 DEF PendingItems, Content
    <3>2. CASE pending' # pending
      <4>1. pending \in Reference /\ pending' = [pending EXCEPT !.live = FALSE, !.items = items]
        BY <2>1, <3>2 DEF Detached, Inv, TypeOK
      <4>2. ~ pending'.live /\ pending'.items = items
        BY <4>1 DEF Reference
      <4> QED BY <4>2 DEF PendingItems, Content
    <3> QED BY <3>1, <3>2
  <2>3. Known' \subseteq Known
    BY <2>1, <2>2 DEF Known, WrittenItems
  <2> QED BY <2>1, <2>3, ListingKept
<1>13. CASE Start
  <2>1. Inv'
    BY <1>13, StartPreserves
  <2>2. next' \in Number
    BY <2>1 DEF Inv, TypeOK
  <2>3. items' \subseteq disk.items
    BY <1>13 DEF Start, Loaded, Bounded
  <2> QED BY <1>6, <1>13, <2>2, <2>3 DEF Start
<1>14. CASE GracefulShutdown
  BY <1>6, <1>7, <1>14 DEF GracefulShutdown, memory
<1>19. CASE LoadFails
  <2>1. UNCHANGED <<memory, store, reader, issued>>
    BY <1>19 DEF LoadFails
  <2>2. Known' = Known
    BY <2>1 DEF Known, WrittenItems, PendingItems, Content, memory, store
  <2> QED BY <2>1, <2>2, ListingKept
<1>15. ASSUME Gone PROVE Listing'
  <2>1. /\ items' = {} /\ writing' = None /\ pending' = None
        /\ disk' = disk /\ reader' = reader /\ issued' = issued
    BY <1>15 DEF Gone
  <2>2. Known' \subseteq Known
    BY <2>1 DEF Known, WrittenItems, PendingItems
  <2> QED BY <2>1, <2>2, ListingKept
<1>16. CASE Exit
  BY <1>15, <1>16 DEF Exit
<1>17. CASE Crash
  BY <1>15, <1>17 DEF Crash
<1>18. CASE UNCHANGED vars
  <2>1. UNCHANGED <<memory, store, reader, issued>>
    BY <1>18 DEF vars, history
  <2>2. Known' = Known
    BY <2>1 DEF Known, WrittenItems, PendingItems, Content, memory, store
  <2> QED BY <2>1, <2>2, ListingKept
<1> QED
  BY <1>2, <1>3, <1>4, <1>5, <1>8, <1>9, <1>10, <1>11, <1>12, <1>13, <1>14, <1>16, <1>17, <1>18, <1>19
  DEF Next

LEMMA InitListing == Init => Listing
BY DEF Init, Empty, Listing, Known, WrittenItems, PendingItems

-----------------------------------------------------------------------------
(* The properties of the runs *)

LEMMA InvListingCorrect == Spec => [](Inv /\ Listing)
<1>1. Init => Inv /\ Listing
  BY InitInv, InitListing
<1>2. (Inv /\ Listing) /\ [Next]_vars => (Inv /\ Listing)'
  BY StepInv, StepListing
<1> QED BY <1>1, <1>2, PTL DEF Spec

\* Every variable keeps its type; for the reader, a page is empty only when
\* nothing is left to list, so the next cursor is the number of an item.
THEOREM TypeCorrect == Spec => []TypeOK
<1>1. Inv => TypeOK
  BY DEF Inv
<1> QED BY <1>1, InvListingCorrect, PTL

\* A sequence number names one item in memory and in the file, through restarts
\* from snapshots taken while items were appended, and through a purge.
THEOREM NumbersCorrect == Spec => []NumbersUnique
<1>1. Inv => NumbersUnique
  BY DEF Inv, Numbering, Good, NumbersUnique, Unique
<1> QED BY <1>1, InvListingCorrect, PTL

\* What a save promised is in the file from the moment it resolved, when no write
\* of the flush that resolved it failed, and stays there until it is removed or the
\* file cannot be loaded; what is promised after such a start is kept again.
THEOREM DurableCorrect == Spec => []DurableOnDisk
<1>1. Inv => DurableOnDisk
  BY DEF Inv, Durability, Promised, DurableOnDisk
<1> QED BY <1>1, InvListingCorrect, PTL

\* A deletion that was answered is final, also across a crash: no snapshot still
\* to be written holds what it removed.
THEOREM DeletedCorrect == Spec => []DeletedStayDeleted
<1>1. Inv => DeletedStayDeleted
  BY DEF Inv, Deletion, DeletedStayDeleted
<1> QED BY <1>1, InvListingCorrect, PTL

\* Paging by nextCursor misses no item that was listed all the time, whatever is
\* appended, deleted, purged, expired, evicted or restarted between two pages.
THEOREM ListingCorrect == Spec => []ListingComplete
<1>1. Listing => ListingComplete
  BY DEF Listing, ListingComplete
<1> QED BY <1>1, InvListingCorrect, PTL

===============================================================================
