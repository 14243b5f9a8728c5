---------------------------- MODULE BrokerStream ----------------------------
(***************************************************************************)
(* A stream of the broker (messages, events, chunks, spans) in its default *)
(* form: an array in memory and, when a path is set, a snapshot file.      *)
(*                                                                         *)
(* Node runs one callback at a time, so a request is one action up to its  *)
(* first await on I/O; what interleaves is the write of the file with      *)
(* everything else.  A save that comes while a write is in progress is     *)
(* coalesced: it leaves a reference to the array, read when the write is   *)
(* over, by which time the array may have been replaced.                   *)
(***************************************************************************)
EXTENDS Integers, FiniteSets

CONSTANTS
    Owners,          \* queries the items belong to
    HasTtl,          \* the stream has a default time to live
    MaxBytes,        \* byte budget; an item counts as one
    Limit,           \* page size of a listing
    MaxItems,        \* bound: items appended
    MaxExpired,      \* bound: items whose time runs out
    MaxDeletes,      \* bound: deletions requested
    MaxCrashes,      \* bound: crashes and restarts of the process
    MaxErrors,       \* bound: reads and writes of the file that fail
    None

ASSUME ConstantsAssumption ==
    /\ HasTtl \in BOOLEAN
    /\ MaxBytes \in Nat \ {0} /\ Limit \in Nat \ {0}
    /\ MaxItems \in Nat /\ MaxExpired \in Nat /\ MaxDeletes \in Nat
    /\ MaxCrashes \in Nat /\ MaxErrors \in Nat

VARIABLES
    process,   \* "down", "loading", "up", "stopping" (SIGTERM), "stopped"
    items,     \* this.items: ordered by sequenceNumber, hence a set
    next,      \* this.nextSequence
    writing,   \* the snapshot being written, None when not flushing
    pending,   \* this.pending of the store
    disk,      \* the file
    expired,   \* ids of the items whose time has run out
    reader,    \* a client that lists the stream page by page
    issued,    \* history: number of items ever appended
    saving,    \* history: ids whose save has not resolved
    durable,   \* history: ids whose save was resolved by a write that succeeded;
               \* both without those deleted, expired or evicted since
    unread,    \* history: the ids that were durable when the file could not be loaded
    deleting,  \* history: ids whose deletion has not resolved
    deleted,   \* history: ids whose deletion was resolved by a good write
    deletes, crashes, errors

store == <<writing, pending, disk>>
memory == <<items, next>>
history == <<issued, saving, durable, unread, deleting, deleted>>
bounds == <<deletes, crashes, errors>>
vars == <<process, memory, store, expired, reader, history, bounds>>

Id == 1 .. MaxItems
Number == 1 .. MaxItems + 1
Item == [id : Id, seq : Id, owner : Owners]
Snapshot == [items : SUBSET Item, next : Number]
\* What save() leaves behind: the array itself ("live") or, once the stream has
\* replaced it, the old array with its last content.
Reference == [live : BOOLEAN, items : SUBSET Item, next : Number]

ASSUME NoneAssumption == None \notin Snapshot /\ None \notin Reference

IdsOf(s) == {i.id : i \in s}
Running == process \in {"up", "stopping", "stopped"}

TypeOK ==
    /\ process \in {"down", "loading", "up", "stopping", "stopped"}
    /\ items \in SUBSET Item /\ next \in Number
    /\ writing \in Snapshot \cup {None}
    /\ pending \in Reference \cup {None}
    /\ disk \in Snapshot
    /\ expired \subseteq Id
    /\ reader \in [on : BOOLEAN, cursor : 0 .. MaxItems, owed : SUBSET Id]
    /\ issued \in 0 .. MaxItems
    /\ \A h \in {saving, durable, unread, deleting, deleted} : h \subseteq Id
    /\ deletes \in 0 .. MaxDeletes /\ crashes \in 0 .. MaxCrashes
    /\ errors \in 0 .. MaxErrors

Empty == [items |-> {}, next |-> 1]

Init ==
    /\ process = "up"
    /\ items = {} /\ next = 1
    /\ writing = None /\ pending = None /\ disk = Empty
    /\ expired = {}
    /\ reader = [on |-> FALSE, cursor |-> 0, owed |-> {}]
    /\ issued = 0
    /\ saving = {} /\ durable = {} /\ unread = {}
    /\ deleting = {} /\ deleted = {}
    /\ deletes = 0 /\ crashes = 0 /\ errors = 0

-----------------------------------------------------------------------------
(* JsonFileStore *)

\* The array a reference stands for now.
Content == IF pending.live THEN items ELSE pending.items

\* this.items gets a new array: a reference keeps the old one.
Detached ==
    IF pending # None /\ pending.live
    THEN [pending EXCEPT !.live = FALSE, !.items = items]
    ELSE pending

Save_KeepsOlder(array, n) ==
    IF writing = None
    THEN /\ writing' = [items |-> array, next |-> n]
         /\ UNCHANGED pending
    ELSE /\ pending' = IF pending = None THEN [live |-> TRUE, items |-> {}, next |-> n]
                       ELSE Detached
         /\ UNCHANGED writing

\* save(): the first one is written at once, one that comes during a write
\* leaves a reference to the array for the loop of flush().
Save(array, n) ==
    IF writing = None
    THEN /\ writing' = [items |-> array, next |-> n]
         /\ UNCHANGED pending
    ELSE /\ pending' = [live |-> TRUE, items |-> {}, next |-> n]
         /\ UNCHANGED writing

\* The promise of every save since the flush began resolves, whatever became of
\* the writes.
Resolve(good) ==
    /\ durable' = IF good THEN durable \cup saving ELSE durable
    /\ deleted' = IF good THEN deleted \cup deleting ELSE deleted
    /\ saving' = {} /\ deleting' = {}
    /\ process' = CASE process = "loading" -> "up"
                    [] process = "stopping" -> "stopped"
                    [] OTHER -> process

Flushed_Once(good) ==
    /\ writing' = None
    /\ Resolve(good)
    /\ pending' = None

\* The loop of flush() after a write: another one if a save came meanwhile.
Flushed(good) ==
    IF pending = None
    THEN /\ writing' = None
         /\ Resolve(good)
         /\ UNCHANGED pending
    ELSE /\ writing' = [items |-> Content, next |-> pending.next]
         /\ pending' = None
         /\ UNCHANGED <<process, durable, deleted, saving, deleting>>

\* writeSnapshot(): a temporary file, then a rename.
WriteSnapshot ==
    /\ writing # None
    /\ disk' = writing
    /\ Flushed(TRUE)
    /\ UNCHANGED <<memory, expired, reader, issued, unread, bounds>>

\* An error is logged and the flush goes on as if the write had succeeded.
WriteFails ==
    /\ writing # None
    /\ errors < MaxErrors
    /\ errors' = errors + 1
    /\ Flushed(FALSE)
    /\ UNCHANGED <<memory, disk, expired, reader, issued, unread, deletes, crashes>>

-----------------------------------------------------------------------------
(* InMemoryStream: requests *)

\* append(): stamp and push; nothing is written.
New_PreIncrement(o) == [id |-> issued + 1, seq |-> next + 1, owner |-> o]
New(o) == [id |-> issued + 1, seq |-> next, owner |-> o]

Append(o) ==
    /\ Running /\ issued < MaxItems
    /\ items' = items \cup {New(o)}
    /\ next' = next + 1
    /\ issued' = issued + 1
    /\ UNCHANGED <<process, store, expired, reader, saving, durable, unread, deleting,
                   deleted, bounds>>

\* POST /messages, POST /events: append, then save, then answer.
PostItem(o) ==
    /\ Running /\ issued < MaxItems
    /\ items' = items \cup {New(o)}
    /\ next' = next + 1
    /\ issued' = issued + 1
    /\ saving' = saving \cup {issued + 1}
    /\ Save(items', next')
    /\ UNCHANGED <<process, disk, expired, reader, durable, unread, deleting, deleted, bounds>>

\* delete(predicate), delete(): a new array; a purge also restarts the numbers.
DeleteItems(gone, n) ==
    /\ Running /\ deletes < MaxDeletes
    /\ deletes' = deletes + 1
    /\ items' = items \ gone
    /\ next' = n
    /\ saving' = saving \ IdsOf(gone) /\ durable' = durable \ IdsOf(gone)
    /\ deleting' = deleting \cup IdsOf(gone)
    /\ Save(items', next')
    /\ UNCHANGED <<process, disk, expired, reader, issued, unread, deleted, crashes, errors>>

DeleteQuery(o) == DeleteItems({i \in items : i.owner = o}, next)
Purge == DeleteItems(items, 1)

\* A page of a listing: live items after the cursor, oldest first.
Live == IF HasTtl THEN {i \in items : i.id \notin expired} ELSE items
After(c) == {i \in Live : i.seq > c}
Page(c) == {i \in After(c) : Cardinality({j \in After(c) : j.seq < i.seq}) < Limit}
HasMore(c) == Page(c) # After(c)
LastSeq(s) == CHOOSE n \in {i.seq : i \in s} : \A i \in s : i.seq <= n
NextCursor_Following(c) == LastSeq(Page(c)) + 1

NextCursor(c) == LastSeq(Page(c))

\* The client asks for the first page, then for the page of each nextCursor.
Paginate(c) ==
    LET owed == IF reader.on THEN reader.owed \cap IdsOf(Live) ELSE IdsOf(Live)
    IN reader' = [on |-> HasMore(c),
                  cursor |-> IF HasMore(c) THEN NextCursor(c) ELSE 0,
                  owed |-> owed \ IdsOf(Page(c))]

ReadPage ==
    /\ Running
    /\ Paginate(IF reader.on THEN reader.cursor ELSE 0)
    /\ UNCHANGED <<process, memory, store, expired, history, bounds>>

-----------------------------------------------------------------------------
(* InMemoryStream: maintenance, start and stop *)

Expire(n) ==
    /\ HasTtl
    /\ n \in 1 .. issued /\ n \notin expired
    /\ Cardinality(expired) < MaxExpired
    /\ expired' = expired \cup {n}
    /\ UNCHANGED <<process, memory, store, reader, history, bounds>>

\* The byte budget drops the oldest, never the last one.
Bounded(s) ==
    {i \in s : \/ Cardinality({j \in s : j.seq >= i.seq}) <= MaxBytes
               \/ \A j \in s : j.seq <= i.seq}

\* Expired items are left out by a new array, those over the budget shifted out
\* of the array in place, so a reference to it sees that.
Maintain ==
    LET kept == Live
    IN /\ Running
       /\ items' = Bounded(kept)
       /\ items' # items
       /\ pending' = IF kept # items THEN Detached ELSE pending
       /\ saving' = saving \cap IdsOf(items') /\ durable' = durable \cap IdsOf(items')
       /\ UNCHANGED <<process, next, writing, disk, expired, reader, issued, unread,
                      deleting, deleted, bounds>>

Loaded_HeaderOnly(file) == [items |-> Bounded(file.items), next |-> file.next]

\* loadBounded(): the newest records within the budget; the next number is the
\* header's or the one after the last record, if that is larger.
Loaded(file) ==
    LET kept == Bounded(file.items)
    IN [items |-> kept,
        next |-> IF kept # {} /\ LastSeq(kept) >= file.next
                 THEN LastSeq(kept) + 1 ELSE file.next]

\* init(): load, maintain, save; requests are served when the save is over.
Start ==
    LET loaded == Loaded(disk)
        live == IF HasTtl THEN {i \in loaded.items : i.id \notin expired} ELSE loaded.items
    IN /\ process = "down"
       /\ process' = "loading"
       /\ items' = Bounded(live)
       /\ next' = loaded.next
       /\ durable' = durable \cap IdsOf(items') /\ unread' = {}
       /\ Save(items', next')
       /\ UNCHANGED <<disk, expired, reader, issued, saving, deleting, deleted,
                      bounds>>

\* A file that cannot be read or parsed is logged and taken for none: the stream
\* starts empty, numbered from 1, and nothing is saved yet.
LoadFails ==
    /\ process = "down"
    /\ errors < MaxErrors
    /\ errors' = errors + 1
    /\ process' = "up"
    /\ unread' = durable
    /\ UNCHANGED <<memory, store, expired, reader, issued, saving, durable, deleting,
                   deleted, deletes, crashes>>

\* SIGTERM: the streams are saved while requests are still served; then no
\* connection is accepted and the process ends when those left are answered.
GracefulShutdown ==
    /\ process = "up"
    /\ process' = "stopping"
    /\ saving' = saving \cup IdsOf(items)
    /\ Save(items, next)
    /\ UNCHANGED <<memory, disk, expired, reader, issued, durable, unread, deleting, deleted,
                   bounds>>

\* What is only in memory is gone, and requests in progress get no answer.
Gone ==
    /\ process' = "down"
    /\ items' = {} /\ next' = 1
    /\ writing' = None /\ pending' = None
    /\ saving' = {} /\ deleting' = {}
    /\ UNCHANGED <<disk, expired, reader, issued, durable, unread, deleted>>

Exit ==
    /\ process = "stopped" /\ writing = None
    /\ Gone
    /\ UNCHANGED bounds

Crash ==
    /\ process # "down" /\ crashes < MaxCrashes
    /\ crashes' = crashes + 1
    /\ Gone
    /\ UNCHANGED <<deletes, errors>>

-----------------------------------------------------------------------------
Next ==
    \/ WriteSnapshot \/ WriteFails
    \/ \E o \in Owners : Append(o) \/ PostItem(o) \/ DeleteQuery(o)
    \/ Purge
    \/ ReadPage
    \/ \E n \in Id : Expire(n)
    \/ Maintain
    \/ Start \/ LoadFails \/ GracefulShutdown \/ Exit \/ Crash

Spec == Init /\ [][Next]_vars

-----------------------------------------------------------------------------
Unique(s) == \A i, j \in s : i.seq = j.seq => i = j

\* A sequence number names one item, in memory and in the file, although items
\* are loaded from snapshots that were taken while others were appended.
NumbersUnique == Unique(items) /\ Unique(disk.items)

\* "the resolved promise guarantees it (or a newer state) reached disk" for the
\* saves resolved by a write that succeeded: a crash loses no such item, unless
\* it was deleted, has expired or was evicted.  What the file had when it could
\* not be loaded is not promised any more: the process does not know of it and
\* its next save overwrites it.
DurableOnDisk == durable \subseteq IdsOf(disk.items) \cup unread

\* A deletion that was answered is not undone by a restart.
DeletedStayDeleted == deleted \cap (IdsOf(disk.items) \cup IdsOf(items)) = {}

\* A listing, page after page over a stream that changes under it, a restart
\* included, returns every item that was there all the time.
ListingComplete == reader.on \/ reader.owed = {}
=============================================================================
