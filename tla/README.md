# Ark: a TLA+ verification project

Ark runs agents on Kubernetes. A user creates a `Query`; a controller dispatches
it to an execution engine over the Agent-to-Agent (A2A) protocol and writes the
result into the object's status. An engine may stop to ask a human for approval,
in which case an `A2ATask` object carries the question and its answer. This
directory models three parts of the program: the controllers of `Query` and
`A2ATask`, the broker that stores and streams what agents say, and the chat of the
dashboard that follows a query. They are checked with TLC on small instances, and
the central safety properties are proved for all instances with TLAPS.

## The system

| Part | State it keeps | Operations | Interacts with | What is hard | What makes it correct |
|---|---|---|---|---|---|
| Query controller (`ark/internal/controller/query_controller.go`) | the semaphore, the map `operations`, one goroutine per execution | `Reconcile`, `executeQueryAsync`, the finalizer | API server through a cache, engine (A2A call), A2ATasks, broker | reconcile, goroutine and user write the same object; the cache is stale; crashes | bounded executions, no lost permit, results not overwritten, every query settles |
| A2ATask controller (`a2atask_controller.go`) | a poll-failure count in an annotation, requeue timers | `Reconcile`: TTL, approval timeout, decision, polling | API server, remote agent, user | it runs only when woken; it races the creator of the task | never forgotten, one final answer, mirrors the agent |
| A2A client (`ark/internal/a2a`) | none | `HandleA2ATaskResponse`, conversions | both controllers, executor | retries on conflict | status is written once, with the newest version |
| Completions executor (`ark/executors/completions`) | per-call state, conversation memory | `ProcessMessage`, approval request, resumption, tools, teams | Query status, A2ATask, memory service, MCP servers | a resumed round repeats what a crash interrupted | a tool runs only when approved; team strategies terminate |
| SDK executors (`lib/ark-sdk`) | none | `update_query_phase` | Query status | patches without a version | the controller's phase wins in the end |
| PostgreSQL storage (`ark/internal/storage/postgresql`) | rows with versions, relist cursor, watchers | CRUD, relist, fan-out, WAL consumption | API server | versions are visible out of order, slow watchers | every watcher sees the last version of every object |
| API server (`ark/internal/apiserver`) | none of its own | REST storage, status subresource | storage | optimistic concurrency | a stale write is refused |
| MCP client (`ark/internal/mcp`) | client pool, tokens | `CallTool` with retry, token request | MCP servers | a retry of what was done | the budget bounds the retries |
| Other controllers (Agent, Team, Model, Memory, MCPServer, A2AServer, ExecutionEngine, Tool) | none | derive conditions | each other's objects | order of creation | conditions follow the dependencies |
| Broker, in-memory streams (`services/ark-broker`, `brokers/stream`, `brokers/persistence`) | an array per stream, a snapshot file | append, save, paginate, delete, purge, expire, evict, load | executor, controller, dashboard | saves coalesce while the array is replaced; crashes | a number names one item, an answered save is on disk, a deletion stays, a listing is complete |
| Broker, live tail (`http/sse.ts`, Postgres streams) | a buffer per client | subscribe, replay, flush, emit | several replicas, one database | rows become visible out of order; replay and emission overlap | nothing skipped, nothing sent twice |
| Broker, chunk streams (`http/routes/stream`, `redis-chunk-stream.ts`) | entries of a query, a read loop and a timer per client | post, complete, replay, follow | executor, dashboard, Redis | subscription and replay are several commands | no hole, an end for every client |
| Broker, sessions (`brokers/sessions`) | a header per session, a row per query | apply an event or message, delete, expire, list, watch | events of the controller, replicas, dashboard | events out of order, concurrent transactions, notifications after the commit | the latest terminal event decides, the header agrees with the rows, watchers are told |
| Dashboard chat (`use-chat-session.ts`) | the list of messages, refs, one function per turn and pollers | send, stop, new chat, decide, leave the tab and come back | Ark API, stream, approvals | asynchronous functions over one list, which outlive the hook that started them | no message of the user is lost, the input comes back |
| Eventing, telemetry | 64 events in flight | emit | broker | the limit | best effort |
| Other front ends (`services/ark-api`, the rest of the dashboard, CLI) | none | REST, UI | API server | nothing beyond I/O | |

`PROJECT.json` lists each part with what is modelled of it, and under `hazards`
the places in the code that a test hardly reaches.

## The modules

| Module | What it is |
|---|---|
| `QueryController` | the Query reconciler, its goroutines, the informer cache, the semaphore |
| `ExecutionPool` | abstract: what `MaxConcurrentQueries` promises |
| `QueryControllerProofs` | the theorems about `QueryController` |
| `QueryOutcomeProofs` | those that follow an object through the cache to the goroutines started for it |
| `MCQueryController` | instances of it for TLC |
| `A2ATask` | the A2ATask reconciler and the creator of the task |
| `ApprovalTask` | abstract: what the Query reconciler relies on of an approval |
| `A2ATaskProofs` | the theorems about `A2ATask` |
| `MCA2ATask` | instances of `A2ATask` for TLC |
| `BrokerStream`, `BrokerStreamProofs`, `MCBrokerStream` | a stream of the broker in memory with its file; theorems; an instance |
| `LiveTail`, `LiveTailProofs`, `MCLiveTail` | `watch=true` over the Postgres streams; theorems; instances |
| `ChunkStream`, `ChunkStreamProofs`, `MCChunkStream` | the chunks of a query, in memory and over Redis; theorems; an instance |
| `SessionAggregate` | the pure functions of the session projection |
| `SessionStore` | abstract: every event, message and deletion takes effect at once |
| `Sessions`, `SessionsProofs`, `MCSessions` | the Postgres storage of sessions, statement by statement, and its watchers; theorems; an instance |
| `ChatSession`, `ChatSessionProofs`, `MCChatSession` | the chat of the dashboard; theorem; an instance |

The groups do not share variables. They meet where one relies on what another shows:
`A2ATask` implements `ApprovalTask`, and the environment of `QueryController` may do to a
task whatever `ApprovalTask` allows (`TasksUnrestricted`); `ChatSession` has a server that
ends its queries, which is `QueriesSettle`.

### QueryController

The state is the server's copy of each Query (`server`), the informer's copy
(`cache`), the reconcile in progress for each query (`rec`: a program counter, the
object in hand and what it is about to write), the goroutines (`gor`), and the
controller's memory: the map `operations` and the number `sem` of permits taken.
`tasks` are the A2ATasks of a query, `engines` the calls in flight whose engine may
patch the phase. An action is one access to shared state, so that all
interleavings between a read and the write that depends on it are explored:

* `InformerSync` brings the cache up to date at any time, so any read may be stale.
  The informer is one lagging snapshot: a state between the cached and the current
  one can be seen only if it was synchronized when it was current.
* A reconcile starts at any time (`fetchQuery`) and then takes the branch the code
  takes: `DeleteExpired` and `RefetchDeleted` (TTL), `AddFinalizer`, `finalize`,
  `deleteBrokerData`, `RemoveFinalizer`, `InitConditions`, `InterruptQuery` (cancel,
  or timeout before execution), `TerminalPhase`, `StillWaiting`,
  `handleApprovedTask`, `handleResumableDenial`, `handleFailedTask`,
  `stampRoundAnchor`, `InFlight`, `CapacityReached`, `TryAcquire`, `Spawn`.
  Reconciles of one query are serialized, as the work queue does.
* An update carries the version read. For the reconciler the version is compared by
  value (the object in hand against the server's); that is sound because every
  action of the reconciler writes a function of the object itself. For a goroutine
  the check of its context and its update are two actions, and `fresh` says whose
  version is still the server's.
* `mutateStatus` is the reconciler's write, `CheckContext` and `StatusUpdate` the
  goroutine's; retries on conflict are repetitions of them.
* `executeQueryAsync`, `sendQueryA2A`, `handleQueryDispatch`, `HandleA2ATaskResponse`,
  `markQueryErroredAfterPanic`, `DeleteOperation` and `Release` are the goroutine;
  `Release` is separate from `DeleteOperation` because another reconcile may run in
  between.
* `ReconcileFails`, `StatusUpdateFails` and `Crash` are the faults.

Contents (responses, tokens, conversation, events, spans) are left out; of a response
only its phase and its task matter. `SettleTask` and `DiscardTask` are the A2ATask
reconciler: it answers a task, and deletes it at the TTL that counts from its creation,
answered or not. `ShortLived` are the tasks whose TTL may run out.

### A2ATask

One task, for tasks do not interact. `server` and `cache` are its copies, `synced` says
that the informer has the server's version, `fresh` who of reconciler and creator
holds it. `queued` and `timer` are the work queue and a pending `RequeueAfter`; the
reconciler runs only if `queued`, and only `InformerSync` (through
`a2aTaskUpdatePredicate`), `RequeueAfter`, an error or a restart queue a task. `rec` is
the reconcile, whose branches are actions of their own; `creator` the call of
`HandleA2ATaskResponse` with its attempts. `clock` has the deadlines that have
passed. A task with `request.remote` mirrors a remote agent, one without asks
for an approval.

`pollTaskStatus` is three actions: the answer is fetched (`UpdateA2ATaskStatus`), the
failure count may be reset with an `Update` (`ResetFailureCount`), and the status is
written. The response of that `Update` is decoded into the object in hand, so it
brings back the stored status (`ResetResponse`). The length of the backoff and the
number in the annotation are abstracted to the flag `failing`.

### BrokerStream

A stream of `InMemoryStream` is the set `items` (numbers order it) and `next`, the next
number. Node runs one callback at a time, so a request is one action up to its first
await on I/O: `PostItem` (append and save), `Append` (without a save), `DeleteQuery`,
`Purge`, `ReadPage`, `Maintain` (expiry and the byte budget). What interleaves is the
file. `writing` is the snapshot `JsonFileStore.flush` is writing and `pending` the save
that came meanwhile. The code keeps a reference to the array there, and it is written
as it is by then; a deletion or an expiry installs a *new* array, while an append or
an eviction changes the array in place. A `Reference` says which of the two it is, and
`Detached` is the moment it stops being the stream's own array. `WriteSnapshot` and
`WriteFails` end a write; `Resolve` answers all requests that waited. `Start` loads the file
as `loadBounded` does and saves it again, `LoadFails` is a file that cannot be read or parsed,
after which the stream starts empty; `GracefulShutdown`, `Exit` and `Crash` end the process.
`saving`, `durable`, `deleting` and `deleted` are history: what has been promised. `unread` is
what was in a file that could not be loaded.

### LiveTail

A row of the Postgres streams has its number when the INSERT runs (`Insert`), is visible
from the `Commit`, and is given to the subscribers of its replica when the response is
back (`Emit`). A client subscribes first (`streamSSE`), then the replay is read
(`filterBy`), then written together with the buffer (`CatchUp`); rows emitted before
that are buffered, rows after it are written at once (`Receive`). A replay that fails closes the
subscription (`ReplayFails`). A client that comes
back resumes after the greatest number it knows. `Crash` of a replica leaves its rows
committed and never emitted.

### ChunkStream

`log` is the sequence of entries of one query, `backend` where it is. A client is the
record `reader[r]`: the replay, the subscription, the timer of wait-for-query, and
whether its close handlers are registered (`watched`). In memory
`handleQueryStream` is one action; over Redis the subscription is `ReadTail`, `ReadLength`
and `XRead`, and the replay `getByQuery` and `CatchUp`, in any order the two connections
allow. `base` is the ordinal the loop adds, read by a second command after `last`, with an
append possibly in between. A command of the loop may fail at any point (`XReadFails`), which
ends the loop. A completion is delivered by `Deliver` (live), by `Replayed` or not at all.

### SessionAggregate, SessionStore, Sessions

`SessionAggregate` has the functions of `session-aggregate.ts`: what an event or a
message makes of a row, and rows of a header. A row has three watermarks: `seen`, the
last event applied; `decided`, the last that decided the phase; `told`, the last
message. `SessionStore` applies calls at once. With sequence 0 (`undefined` in the code)
it is the in-memory storage.

`Sessions` is the Postgres storage. A request is `PostEvent`, `PostMessage`, `DeleteQuery`
or `delete`, and then one action per statement: the unlocked probe, the INSERT of the
header (`InsertHeader`), `lockHeader` or `lockHeaderOrRecreate` with the SELECT of the row
(`LockForEvent`, `LockForMessage`, `LockForDelete`), the upsert with the header's refresh
and the commit (`WriteEvent`, `WriteMessage`, `WriteDelete`), and `pg_notify` on another
connection (`Notify`). SELECT and upsert are not merged: `old` is what was read, and the
row at the upsert is the one in the table. `Fail` is a crash or a refused
statement anywhere in between. The time of an activity is a rank within the session.

A watcher subscribes, reads all sessions (`getAll`), and starts a read of a session whenever it
is told of it. Such a read is two steps, `getSession` and `Show`, any number are in flight, and
they end in any order. A commit in between makes what a read holds old (`Overtaken`), which
also stands for a read torn between its two SELECTs. `last` are the sessions whose newest state
was the last one shown, `seen` those whose newest state was shown at all, and `mixed` those of
which two reads overlapped.

### ChatSession

The state of the mounted hook is one variable each. `turn[t]` is a run of `sendMessage` with its place
in the code between two awaits, `poller[c]` a run of `pollAfterApproval`, `phasePolls` the
pollers of `streamQueryStatus`. Refs that one function sets and another reads
(`lastQueryName`, `pendingApprovalQueryRef`, `stopPollingRef`) are variables, since any
function may have overwritten them meanwhile. `messages` holds who said what, not the
text, and one `Reply` for all that the hook writes; indices are the ones the code computes
(`Placed`, `Slice`), also when they are -1 or past the end. The final chunk of a stream
(`FinalChunk`) and its end (`Complete`) are two steps, since the executor sends the former before the
controller writes the phase.

The panel is in a tab: `remount` unmounts the hook and mounts another. The list stays (it is an atom),
`isProcessing` and the refs of the new hook start afresh, and the functions of the old one run on
with its refs. `mount` numbers the hooks, each turn and poller has the number of its own, and
`lastQuery` is the one ref an old hook's function still reads after it was set again. The query on
the server is external; it may be deleted at any time (`QueryDeleted`).

## The runs

The passing runs take every action of every module. `MaxFaults` and the other bounds on
crashes, refused writes and expiries are 1: one fault reaches each error path from each
state, and a second one in a row repeats the first. `MaxErrors` of `BrokerStream` is 2, for a
load that fails and a write that fails after it.

| Run | Instance | Shows |
|---|---|---|
| `qc_cancel` | 1 query, 2 goroutines, cancel, phase patches, 1 fault | `OneGoroutine`, `CanceledStands`; under fairness `QueriesSettle`, `CancelHonoured` |
| `qc_approval` | 1 query, 2 rounds of approval, cap 1, the first task may be collected at any moment, 1 fault | `TypeOK`, `AwaitedTaskCreated`; under fairness `ApprovalsResume` |
| `qc_deadlines` | 1 query, 2 goroutines, 1 permit, timeout, TTL, deletion, 1 fault | `TrackedIsLive`, `SemaphoreExact`, `TerminalIsCompleted`, `TimeoutSparesTerminal`, and `PoolSpec`: the controller implements `ExecutionPool`; under fairness `DeletionCompletes` |
| `a2a_life` | approvals and remote tasks, all deadlines, 2 edits, 1 fault; the agent goes through input-required and completed | `TypeOK`, `NoLostWakeup`, `DecisionApplied`, `ApprovalSpec` (an approval implements `ApprovalTask`); under fairness `TasksEnd`, `MirrorsAgent` |
| `broker_stream` | 2 owners, 3 items, budget 2, page 1; one expiry, deletion, crash, two failed writes or loads | `TypeOK`, `NumbersUnique`, `DurableOnDisk`, `DeletedStayDeleted`, `ListingComplete` |
| `live_tail` | 2 replicas, 1 client, 3 rows, 2 connections, 1 crash, failing replays | `TypeOK`, `NoneSkipped`, `RepeatsAreLate` |
| `chunk_stream` | both backends, 1 client, 2 completers, 3 entries, failing reads | `GapFree`, `MemoryExact`; under fairness `StreamsEnd` |
| `sessions` | 1 session, 2 queries, 3 requests, numbers to 2, 1 watcher with its reads in flight, 1 fault | `TypeOK`, `LatestPhaseDecides`, `HeaderAgrees`, `WatchersTold`, and `StoreSpec`: the storage implements `SessionStore` |
| `chat_session` | both modes, 2 turns, 2 events (cards, stops, new chats, remounts, deleted queries), 1 approval round | `UserMessagesKept`, `ProcessingProtects`; under fairness `Responsive`, `PollersStop` |

Why the bounds are enough:

* Two goroutines are enough for every hazard of one query (an old and a new one), and in
  `qc_deadlines` they compete for one permit: the one whose budget ran out still holds it
  when the next reconcile asks. A query sees the others only through the number of permits,
  so a second query adds states and no case; `SemaphoreCorrect`, `PoolCorrect` and
  `CompletedCorrect` hold for any number of queries, goroutines and faults.
* A second goroutine at work for a query needs a second approval round or a timeout;
  `qc_cancel` has neither, and there `OneGoroutine` holds. `CascadeCap` needs three
  rounds to fail (one approved, one denied uncounted, one denied).
* A task goes through one phase that has its own condition and one that is terminal. Two
  edits let a user take a decision back.
* Three items with a budget of two and pages of one make eviction, a listing of several pages
  and a deletion between two pages meet; one write in progress and one pending save are
  all the file store ever has.
* Three rows are enough for one to be overtaken while the others are in the replay and in
  the buffer; a second connection is one that resumes. Clients do not interact, so one is enough.
* Three entries let an entry be appended between any two of the commands of a client, one
  be there before, and the completion follow. Two completers race for it.
* Three requests are two writers of one row and a third that purges or deletes under them.
  Sessions share no row and are coupled only by a deletion over several owners, which the
  theorems cover; the run has one session.
* Two turns are an old one and the new one; two events a card with its cascade, a stop and
  a new chat, a remount and the new chat begun beside the turn left behind, or a deletion and a stop.
* One of the two tasks of `qc_approval` can be collected, so a query waits on a task that is gone
  in the first round and goes on to a second one otherwise; the second is like the first.

Deadlock is checked for the Query controller and for `Sessions`, where something is always
possible. It is not checked where the system really may stop: a task that has ended is
never looked at again, and the streams and the chat are at rest when nobody appends,
reads or types.

### Where the code departs from what it says

Three runs expect a violation.

| Run | Property | What happens |
|---|---|---|
| `qc_second_goroutine` | `OneGoroutine` | with approvals, the deferred function of the first round removes the entry of the resumed one; the next reconcile starts a second goroutine |
| `qc_cascades` | `CascadeCap` | a reconcile that read the query before its goroutine ended starts another one beside the pending question; the new question is written between the reset of the counter and the round anchor, so an approval of the first resumes the agent from a denial of the second that nobody counted |
| `live_tail_lost` | `NothingLost` | a row whose INSERT commits after a later one is behind the cursor of every client by the time it is visible: dropped from the buffer, and never replayed |

Met while modelling, without a run, in the controllers:

* The phase `canceled` is written before the call in flight ends (`query.mdx` says once it
  acknowledges).
* A reconcile that reads the cache between the two writes of a denial counts it twice
  (`query_controller.go:1432`).
* Terminal phases of a Query are not stable, since a stale read after `operations.Delete`
  dispatches it again; with two queries, one permit and no timeout such a dispatch can
  starve the other query, which `spec.timeout` then ends.
* `spec.ttl` of an A2ATask counts from its creation, not its completion (`a2atask.mdx`).
* The reset of the failure count discards the answer just fetched; an agent that fails
  every other poll is never mirrored.
* An approval decision that waits to be read loses against a timeout noticed later.
* A query whose A2ATask is collected at its TTL before its answer was read finds no task and waits
  until a user cancels or deletes it (`query_controller.go:365`). `ApprovalsResume` promises
  something of answers that are still there, and nothing of this query.
* A task created as completed keeps `Completed=False` for ever.

In the broker:

* Over Redis, a completion that arrives live during the replay ends the response before
  the replay is written (`MemoryExact` is about memory for this reason).
* Close handlers of a chunk stream are registered last; a client that leaves before leaks
  its subscription and its timer.
* A message takes an expired session back without telling the watchers (`revived`).
* An event is stored before it is applied to its session; if applying it fails, the
  request fails and the session never learns of it (`events/index.ts:94`).
* `POST /sessions` has no sequence number, so its events bypass the watermarks.
* A snapshot that cannot be read is taken for none: the stream starts empty and its next save
  overwrites the file (`json-file-store.ts:74`). `DurableOnDisk` excludes what such a start left
  unread.
* A failed `XREAD` ends the loop of a client for good (`redis-chunk-stream.ts:168`). Its response stays
  open and, unless its replay had the completion, nobody tells it that the stream is over;
  `StreamsEnd` excludes it as `Orphaned`.
* The reads that answer notifications are not ordered (`sessions/handlers.ts:23`): when two of one session
  overlap, the older state may be the last one shown. `WatchersTold` promises then only that
  the newest one was shown.
* A replay that fails leaves the response of a live tail open without a subscription
  (`http/sse.ts:155`); the client learns of nothing more until it connects again.

In the chat:

* Stop pressed before the POST of a query has returned cancels the query of the
  previous turn (`use-chat-session.ts:1106`).
* A cascading approval notes the index -1, so the answer replaces the last message of the
  list (`:1134`).
* The `finally` of a stopped turn resets `isProcessing` under the next one (`:1053`).
* Leaving the tab and coming back resets `isProcessing` while the turn runs on (`:287`): a second
  turn can be sent beside it, and a new chat can get the conversation of the old one.
* For a deleted query `getQueryResult` answers `unknown` and not terminal (`chat.ts:294`): the turn that
  polls for it processes until stop is pressed, and the poller of its phase never ends.
* `getQueryResult` turns a failed request into an error of the query (`chat.ts`).

The properties of the chat name these cases: by `stops`, `spoiled` and `overlapped`, by speaking of the
mounted hook and of the time before the first remount, and by `Forsaken` and `Deleted`. Each is defined
by the event itself, not by its effect.

## Fairness

`QueryController`: the work queue keeps reconciling a query, because every path that
waits asks for a requeue and every write causes an event; goroutines run; the
informer catches up; time passes; an engine whose caller has gone stops. Faults are
finitely many. Users and approvers owe nothing: `QueriesSettle` counts a query that
waits for input as settled. Nor has a task to be collected, or to outlive its answer.

`A2ATask`: weak fairness of informer, timer, creator and reconciler says that the
runtime does what it was asked, and *not* that a task is reconciled again and again:
that it is queued has to follow from the model. Strong fairness of
`UpdateA2ATaskStatus` says that an agent that is polled for ever answers now and then.

`ChunkStream`: weak fairness of the steps of each client says that a command of Redis answers or
fails; `XReadFails` may come instead of any answer and is not bounded. Nothing is assumed of
executors, completers and the timer: a stream need end only once a completion is in it.

`ChatSession`: for each turn, a request of the hook is answered or fails, a sleep ends, and a stream
does not send chunks for ever: the other side closes it or it breaks. The last is an assumption
on server and network, for the dashboard has no timeout of its own; `Responsive` in streaming mode
rests on it. The server ends its queries (`QueriesSettle`) and its approvals have a
timeout, except that a query may be deleted first. The user owes nothing.

`BrokerStream`, `LiveTail` and `Sessions` state safety only: a write that fails for good, a client
that never reads and a replica that is down are all allowed.

## What is proved

For every value of the constants that satisfies the named assumptions:

| Module | Theorem | Statement |
|---|---|---|
| `QueryControllerProofs` | `TypeCorrect`, `SemaphoreCorrect`, `TrackedCorrect`, `CompletedCorrect`, `AwaitedCorrect` | `Spec => []P` for `TypeOK`, `SemaphoreExact`, `TrackedIsLive`, `TerminalIsCompleted`, `AwaitedTaskCreated` |
| | `TimeoutCorrect` | `Spec => TimeoutSparesTerminal` |
| | `PoolCorrect` | `Spec => PoolSpec`, the refinement of `ExecutionPool` |
| `QueryOutcomeProofs` | `CanceledCorrect` | `Spec => CanceledStands` |
| | `OneGoroutineCorrect` | `Spec => []OneGoroutine` when `MaxTasks = 0` and `MayTimeOut = {}` |
| | `TasksUnrestricted` | when `ShortLived = 1 .. MaxTasks`, each step that `ApprovalTask` allows a task that was created is a step of `Next` |
| `A2ATaskProofs` | `TypeCorrect`, `WakeupCorrect` | `Spec => []P` for `TypeOK`, `NoLostWakeup` |
| | `DecisionCorrect` | `Spec => DecisionApplied` |
| | `ApprovalCorrect` | `Spec => ApprovalSpec`, the refinement of `ApprovalTask` |
| `BrokerStreamProofs` | `TypeCorrect`, `NumbersCorrect`, `DurableCorrect`, `DeletedCorrect`, `ListingCorrect` | `Spec => []P` for each property of the run |
| `LiveTailProofs` | `TypeCorrect`, `NoneSkippedCorrect`, `RepeatsCorrect` | `Spec => []P` for each property of the run |
| `ChunkStreamProofs` | `GapFreeCorrect`, `MemoryCorrect` | `Spec => []P` for `GapFree`, `MemoryExact` |
| `SessionsProofs` | `TypeCorrect`, `PhaseCorrect`, `HeaderCorrect`, `WatchCorrect` | `Spec => []P` for `TypeOK`, `LatestPhaseDecides`, `HeaderAgrees`, `WatchersTold` |
| | `StoreCorrect`, `StoreImplemented` | `Spec => StoreSpec` and `Spec => Store!Spec`, the refinement of `SessionStore` |
| `ChatSessionProofs` | `ProcessingCorrect`, `MessagesCorrect` | `Spec => []P` for `ProcessingProtects`, `UserMessagesKept` |

Each module has one inductive invariant; `QueryOutcomeProofs` adds to that of
`QueryControllerProofs`.

**QueryController** (`QueriesAssumption`, `WorkersAssumption`, `DistinctAssumption`,
`BoundsAssumption`): `Inv` is `Types /\ Permits /\ TrackedIsLive /\ TerminalIsCompleted /\ FreshOK`
with `AsksOK /\ Awaits`.
`Types` adds to `TypeOK` what a program counter implies: a reconcile or goroutine that
writes has something to write, and a live goroutine has a query. `Permits` is
`SemaphoreExact` with `sem` a natural number; each step is classified once, in
`PermitStep`, as keeping, taking, handing over, returning or dropping permits, and
exactness and the refinement both follow from that. `FreshOK` says that a goroutine whose
update would succeed is about to update, and that if it writes a timeout the query
has not ended: it looked, and nothing has been written since. `AsksOK` says that a
goroutine about to write input-required carries a response that names a task that was
created, and `Awaits` that a query which waits names one: no reconcile writes that
phase, and every other write replaces the phase or keeps phase and task. So a task the query does
not find has been collected; that it is still there cannot be shown, for it need not be.

`QueryOutcomeProofs` calls an object *barred* when a user has cancelled or deleted it or it is gone:
no path of the handler starts or resumes an execution from such an object, and the server knows
before the cache and the cache before the reconcile. `Course` keeps that order for each query and
adds that a query whose phase is canceled is closed (`Shut`): cache and hand are barred, no
reconcile is between acquiring and starting, and operations has no entry. So whoever interrupts a
goroutine does it before the phase is written, and that write takes the goroutine's version away:
`Overtaken`, from which `CanceledStands` follows. `OneGoroutine` needs `AllOwned` too: a goroutine
short of its last step is tracked, or it was interrupted, its query is closed and no entry of a
later one exists for its deferred function to delete. An approval or a timeout interrupts an
operation of a query that stays open, which is why the theorem excludes both and
`qc_second_goroutine` exists. The two controllers meet in `ApprovalTask`: the A2ATask reconciler
does nothing to an approval that `ApprovalTask` does not allow (`ApprovalCorrect`), and whatever
that allows a task that was created, its collection included, the model of the queries allows too
(`TasksUnrestricted`). So the theorems about queries hold over every behaviour of the tasks, none is
assumed away.

**A2ATask**: `Inv` is `TypeOK` with `FreshOK` (who holds the server's version has its
content in hand), `RecOK` and `CreatorOK` (what the places in the code imply), `ApprovalOK` and
`WakeOK`, which says for each state of the task what will wake it: a queued key, the
reconcile, the timer, or a version the informer has yet to see and the event filter will
let through. `StatusMove` classifies what a step does to the status; the
application of decisions and the refinement follow from it.

**BrokerStream** (`ConstantsAssumption`, `NoneAssumption`): `TypeOK` with four parts. `Rest`:
nothing is left in memory of a process that is down, and nothing to resolve when no flush runs.
`Numbering`: in each array the stream has or will write (in memory, in the snapshot being written,
behind the pending reference, in the file), numbers and ids name one item each, and the stream's own
numbers are below the next one. `Durability`: what was promised, and was not unread at a start, is
in the file *and* in everything that will replace the file, and what is being saved is in the newest
of these. What was promised before a failed load and what is promised after it are kept apart by
`unread`: the former may still be in the file, and nothing is claimed of it. `Deletion`: what was
deleted is in none of them. That the pending save is followed to the array it stands for, live or
replaced, is what makes the last two inductive. `Listing`, proved on top of it, bounds the items a
paging client is owed by its cursor.

**LiveTail** (`ConstantsAssumption`, `NoneAssumption`): `RowsInv` (rows beyond the last number are free,
a committed row has a replica that will emit it) and, for each client, `Tail`: until it has caught up, what
it was given is in its buffer; from then on it has been sent its replay and whatever it was
given beyond the greatest number of the replay, and nothing else. What it was given was emitted,
and a row is emitted once. A tail whose replay failed is given nothing any more (`DeafTail`).

**ChunkStream** (`MaxEntriesAssumption`): `Types` and, for each client, three parts. `Whole`: what it
was sent has no holes. `OverRedis`: what the buffer and the loop's `last` and `base` imply;
everything between the replay and the last entry read is buffered, and once live, a client of the
beginning has `1 .. last` and any other was sent a piece that ends at `last`. `InMemory`: a
subscription that reads has been sent everything from its start up to the length of the array,
and a client of the beginning that got `[DONE]` everything before the completion.

**Sessions** (`MaxSeqAssumption`, `QueriesAssumption`, `NoneAssumption`, `BoundsAssumption`,
`RequestsAssumption`): `RowOK` says that no event applied to a row is above its watermarks, and that
the phase watermark is an applied terminal event whose decision the phase still shows; `HeaderOK` is
`HeaderAgrees` with types; `RequestOK` that a request about to write holds the header of its session
and has read what is there. The last is why the upsert, which combines the row it has read with the
row that is there, is one atomic call. `WatcherOK` relates a watcher, its reads in flight and the
announcements still to come: the newest state of each listed session was the last one shown, or
a read that holds or will hold it is in flight, or it is about to be announced; and while its reads have not
overlapped, a read that holds an older state is followed by an announcement. A new activity is later
than all before it: that needs that the finite set of times has a greatest element, which
`BoundedSet` proves by well-founded induction on its size.

**ChatSession** (`BoundsAssumption`, `NoneAssumption`): `Inv == Types /\ Order /\ Guarded`. `Order`:
turns are sent in order, and cards and pollers belong to turns that were sent. `Guarded`: until a
stop or a stray approval, a running turn of the mounted hook (`Own`) is the latest one, belongs to
this session and asks for its own query (`Foremost`), whatever the turns of hooks before it do; the
conversation is that of a turn of this session only before the first remount. `Listed`, proved
beside it, keeps the messages a sequence through every slice with an index that may be -1 or past
the end.

`UserMessagesKept` needs `Kept`, which relates the list to the places noted in it. `Told`: the list
holds what the user said in this chat and nothing else of theirs, in order. `Apart`: a turn at work
is the newest, and everything the user said stands before `turnStartIndex`, which is not behind the
place it writes at. `Behind`, for the reference of the open approval and for each poller: everything
the user said stands before the place noted, or a newer turn was sent, or there is no place; an
approval that ends in one of the last two cases is a stray one. No function but `sendMessage` adds a
message of the user, so each other step is shown to leave `SameUsers` (the same ones at the same
places) and no note behind that was not one before. A turn whose stop was pressed is not at work: it
appends, or gives up, and the reader it aborted writes nothing more.

Only model-checked: everything under fairness, `Responsive` and `PollersStop` of `ChatSession` among
it. Liveness and ENABLED are out of the prover's reach. Every invariant and every action property of a
passing run that reads no fairness is a theorem, with `OneGoroutine` under the hypotheses stated above.

## Not modelled

* **PostgreSQL watch of the API server** (relist, lookback window, fan-out). The window is a number
  of versions (`relistLookbackRVs`, 500): a row that commits after so many later versions were seen
  is lost, and nothing but the size of that constant protects it. The race behind it is the one
  `live_tail_lost` shows. The controllers assume what they need: versions, refused stale writes,
  watchers that catch up.
* **Completions executor, teams, model providers, MCP client.** Sequential calls over data from
  models and servers; their effect on a query is the environment of `QueryController`. A tool that
  runs twice when a round is dispatched twice follows from `qc_second_goroutine`.
* **Other controllers.** They derive conditions from other objects and keep nothing between two
  reconciles.
* **Traces, OTLP, metrics, event emitter.** Streams as in `BrokerStream`, formats and counters.
  Events are best effort: `Sessions` covers their loss and their order.
* **The rest of the dashboard, the CLI, Ark API, SDK, charts.** Most of the repository's TypeScript:
  forms, lists, views, generators and generated clients over the Kubernetes API, without a protocol
  of their own. What they share of concurrency with a server is the chat, which is modelled.
* **Within modelled parts**: contents of messages, token counts, filters, sorting and search,
  heartbeats, parsing, the length of the poll backoff, the all-queries chunk stream, the expiry of
  Redis keys, the migration of legacy files, the loading of an old conversation.
