---------------------------- MODULE QueryController ----------------------------
(***************************************************************************)
(* The Query reconciler of the Ark controller                              *)
(* (ark/internal/controller/query_controller.go).                          *)
(*                                                                         *)
(* A Query is an object of the Kubernetes API server.  The reconciler      *)
(* reads it through the informer cache, which lags behind the server, and  *)
(* writes it with optimistic concurrency: an update carries the version    *)
(* that was read and is refused if the server has a newer one.  Reconciles *)
(* of one query are serialized by the work queue, those of different       *)
(* queries are not.  The work of a query is done by a goroutine that the   *)
(* reconciler starts; several may be alive for one query.  In memory the   *)
(* controller keeps a counting semaphore (MaxConcurrentQueries) and the    *)
(* map `operations' from a query to the cancel function of the goroutine   *)
(* it last started.                                                        *)
(*                                                                         *)
(* One action is one access to shared state (server, cache, semaphore,     *)
(* operations, a goroutine's context); whatever the code computes between  *)
(* two accesses is part of the action before it.                           *)
(***************************************************************************)
EXTENDS Naturals, FiniteSets

CONSTANTS
    Queries,              \* the Query objects
    Workers,              \* identities for execution goroutines (a bound on those alive at once)
    None,                 \* neither a query nor a worker
    MaxConcurrentQueries, \* capacity of the semaphore; 0 means there is none
    MaxApprovalCascades,  \* 3 in the code
    MaxTasks,             \* bound: approvals one query may ask for
    MaxFaults,            \* bound: crashes and refused writes, over all queries
    Cancellable,          \* queries whose spec.cancel a user may set
    Deletable,            \* queries a user may delete
    WithTTL,              \* queries with spec.ttl
    MayTimeOut,           \* queries whose spec.timeout may run out
    ShortLived,           \* tasks whose TTL may run out, of those a query asks for
    Provisioned           \* queries whose engine reports the provisioning phase

ASSUME QueriesAssumption == IsFiniteSet(Queries)
ASSUME WorkersAssumption == IsFiniteSet(Workers)
ASSUME DistinctAssumption == /\ Workers \cap Queries = {}
                             /\ None \notin Workers \cup Queries
ASSUME BoundsAssumption == /\ MaxConcurrentQueries \in Nat
                           /\ MaxApprovalCascades \in Nat
                           /\ MaxTasks \in Nat
                           /\ MaxFaults \in Nat

VARIABLES
    server,     \* [Queries -> Object], the API server's copy
    cache,      \* [Queries -> Object], the informer's copy
    rec,        \* [Queries -> Reconcile], the reconcile in progress for each query
    gor,        \* [Workers -> Goroutine]
    operations, \* [Queries -> Workers \cup {None}]
    sem,        \* permits taken from the semaphore
    fresh,      \* workers about to update the version that is still the server's
    tasks,      \* [Queries -> [1..MaxTasks -> TaskPhase]], the A2ATasks of each query
    engines,    \* queries for which an execution engine is at work
    graceOver,  \* queries deleted longer than messageCleanupGracePeriod ago
    resumed,    \* history: denied tasks the agent was resumed from since the last approval
    faults

memory == <<operations, sem>>
world == <<tasks, engines, graceOver, resumed, faults>>
vars == <<server, cache, rec, gor, operations, sem, fresh, tasks, engines,
          graceOver, resumed, faults>>

-----------------------------------------------------------------------------
(***************************************************************************)
(* The Query object.                                                       *)
(***************************************************************************)
Phase == {"", "queued", "running", "provisioning", "input-required",
          "done", "error", "canceled"}

isTerminalPhase(p) == p \in {"done", "error", "canceled"}

isPreExecutionPhase(p) == p \in {"", "provisioning", "queued"}

Resp == {"nil", "input-required", "done", "error"}

TaskId == 0 .. MaxTasks  \* 0: the response carries no A2A task

\* completed is the QueryCompleted condition, resp the phase of status.response
\* ("nil" when there is none), task status.response.a2a.taskId, cascades the
\* approval-cascade annotation and overdue says that remainingBudget is spent.
Object == [exists : BOOLEAN, phase : Phase, completed : {"absent", "False", "True"},
           cancel : BOOLEAN, deleting : BOOLEAN, finalizer : BOOLEAN,
           resp : Resp, task : TaskId,
           cascades : 0 .. MaxApprovalCascades, overdue : BOOLEAN]

Created == [exists |-> TRUE, phase |-> "", completed |-> "absent",
            cancel |-> FALSE, deleting |-> FALSE, finalizer |-> FALSE,
            resp |-> "nil", task |-> 0, cascades |-> 0, overdue |-> FALSE]

Gone == [Created EXCEPT !.exists = FALSE]

\* Mutant: an error leaves the condition as it was.
setConditionForPhase_SkipsError(phase, completed) ==
    CASE phase \in {"done", "canceled"}   -> "True"
      [] phase \in {"running", "queued"}  -> "False"
      [] OTHER                            -> completed

\* What the condition QueryCompleted becomes with a phase.
setConditionForPhase(phase, completed) ==
    CASE isTerminalPhase(phase)           -> "True"
      [] phase \in {"running", "queued"}  -> "False"
      [] OTHER                            -> completed

\* The object that updateStatus(want) writes over o: the response held in
\* memory is put back when there is one, then phase and condition are set.
\* The want "timeout" is failQueryOnTimeout, which keeps the A2A metadata.
Written(o, want, resp, task) ==
    IF want = "timeout"
    THEN [o EXCEPT !.phase = "error", !.completed = "True", !.resp = "error"]
    ELSE [o EXCEPT !.phase = want,
                   !.completed = setConditionForPhase(want, o.completed),
                   !.resp = IF resp = "nil" THEN o.resp ELSE resp,
                   !.task = IF resp = "nil" THEN o.task ELSE task]

\* Mutant: a timeout is written over any phase.
Declined_NeverOnTerminal(o, want) == ~o.exists

\* mutateStatus writes nothing: the mutator declined, or the query is gone.
Declined(o, want) == \/ ~o.exists
                     \/ want = "timeout" /\ isTerminalPhase(o.phase)

-----------------------------------------------------------------------------
(***************************************************************************)
(* Reconciles and goroutines.                                              *)
(***************************************************************************)
Want == Phase \cup {"timeout", None}

RecPC == {"idle", "fetched", "deleted", "refetched", "cleanup", "unfinalize",
          "resume", "write", "acquired", "spawn"}

Reconcile == [pc : RecPC, obj : Object, want : Want]

IdleReconcile == [pc |-> "idle", obj |-> Gone, want |-> None]

GorPC == {"idle", "start", "dispatch", "executing", "write", "update",
          "finish", "release"}

Goroutine == [pc : GorPC, query : Queries \cup {None}, cancelled : BOOLEAN,
              want : Want, resp : Resp, task : TaskId]

IdleGoroutine == [pc |-> "idle", query |-> None, cancelled |-> FALSE,
                  want |-> None, resp |-> "nil", task |-> 0]

TaskPhase == {"absent", "input-required", "completed", "denied", "failed", "gone"}

TypeOK ==
    /\ server \in [Queries -> Object]
    /\ cache \in [Queries -> Object]
    /\ rec \in [Queries -> Reconcile]
    /\ gor \in [Workers -> Goroutine]
    /\ operations \in [Queries -> Workers \cup {None}]
    /\ sem \in Nat
    /\ fresh \subseteq Workers
    /\ tasks \in [Queries -> [1 .. MaxTasks -> TaskPhase]]
    /\ engines \subseteq Queries
    /\ graceOver \subseteq Queries
    /\ resumed \in [Queries -> SUBSET (1 .. MaxTasks)]
    /\ faults \in 0 .. MaxFaults

Init ==
    /\ server = [q \in Queries |-> Created]
    /\ cache = [q \in Queries |-> Created]
    /\ rec = [q \in Queries |-> IdleReconcile]
    /\ gor = [w \in Workers |-> IdleGoroutine]
    /\ operations = [q \in Queries |-> None]
    /\ sem = 0
    /\ fresh = {}
    /\ tasks = [q \in Queries |-> [t \in 1 .. MaxTasks |-> "absent"]]
    /\ engines = {}
    /\ graceOver = {}
    /\ resumed = [q \in Queries |-> {}]
    /\ faults = 0

-----------------------------------------------------------------------------
(***************************************************************************)
(* Access to the API server.                                               *)
(***************************************************************************)

\* The server stores a new version of q; every version read so far is old.
Put(q, o) == /\ server' = [server EXCEPT ![q] = o]
             /\ fresh' = {w \in fresh : gor[w].query # q}

Fault == faults < MaxFaults /\ faults' = faults + 1

\* The informer receives the server's version.
InformerSync(q) ==
    /\ cache[q] # server[q]
    /\ cache' = [cache EXCEPT ![q] = server[q]]
    /\ UNCHANGED <<server, rec, gor, fresh, memory, world>>

-----------------------------------------------------------------------------
(***************************************************************************)
(* The users, the clock, the approver and the engines.                     *)
(***************************************************************************)
SetCancel(q) ==
    /\ q \in Cancellable /\ server[q].exists /\ ~server[q].cancel
    /\ Put(q, [server[q] EXCEPT !.cancel = TRUE])
    /\ UNCHANGED <<cache, rec, gor, memory, world>>

\* Deleting an object with a finalizer only marks it.
DeleteObject(q) ==
    Put(q, IF server[q].finalizer THEN [server[q] EXCEPT !.deleting = TRUE] ELSE Gone)

DeleteQuery(q) ==
    /\ q \in Deletable /\ server[q].exists /\ ~server[q].deleting
    /\ DeleteObject(q)
    /\ UNCHANGED <<cache, rec, gor, memory, world>>

GraceElapses(q) ==
    /\ server[q].deleting /\ q \notin graceOver
    /\ graceOver' = graceOver \cup {q}
    /\ UNCHANGED <<server, cache, rec, gor, fresh, tasks, engines, resumed, faults, memory>>

\* remainingBudget drops to zero.  The copy in the cache may carry an older
\* round anchor than the server's, and so may run out first.
BudgetElapses(q) ==
    /\ q \in MayTimeOut /\ server[q].exists /\ ~server[q].overdue
    /\ cache' = [cache EXCEPT ![q].overdue = cache[q].exists]
    /\ \/ server' = [server EXCEPT ![q].overdue = TRUE]
       \/ cache[q] # server[q] /\ ~cache[q].overdue /\ UNCHANGED server
    /\ UNCHANGED <<rec, gor, fresh, memory, world>>

\* The A2ATask reconciler settles an approval (see A2ATask.tla).
SettleTask(q, t) ==
    /\ tasks[q][t] = "input-required"
    /\ \E d \in {"completed", "denied", "failed"} :
           tasks' = [tasks EXCEPT ![q][t] = d]
    /\ UNCHANGED <<server, cache, rec, gor, fresh, engines, graceOver, resumed, faults, memory>>

\* It deletes the task at its TTL, which counts from the creation: answered or
\* not, read by the query or not.
DiscardTask(q, t) ==
    /\ t \in ShortLived /\ tasks[q][t] \notin {"absent", "gone"}
    /\ tasks' = [tasks EXCEPT ![q][t] = "gone"]
    /\ UNCHANGED <<server, cache, rec, gor, fresh, engines, graceOver, resumed, faults, memory>>

\* An engine patches the phase, with a merge patch that checks no version.
update_query_phase(q) ==
    /\ q \in engines \cap Provisioned /\ server[q].exists
    /\ \E p \in {"provisioning", "running"} :
           Put(q, [server[q] EXCEPT !.phase = p, !.completed = "False"])
    /\ UNCHANGED <<cache, rec, gor, memory, world>>

\* An engine whose caller has gone away stops.
EngineStops(q) ==
    /\ q \in engines
    /\ ~ \E w \in Workers : gor[w].query = q /\ gor[w].pc = "executing"
    /\ engines' = engines \ {q}
    /\ UNCHANGED <<server, cache, rec, gor, fresh, tasks, graceOver, resumed, faults, memory>>

-----------------------------------------------------------------------------
(***************************************************************************)
(* Reconcile.  It may start at any time: on a watch event, on a requeue,   *)
(* on an event of one of the query's A2ATasks, on a resync.                *)
(***************************************************************************)
Goto(q, pc) == rec' = [rec EXCEPT ![q].pc = pc]
Return(q) == rec' = [rec EXCEPT ![q] = IdleReconcile]

\* Go on without the object in hand.
Advance(q, pc) == rec' = [rec EXCEPT ![q] = [IdleReconcile EXCEPT !.pc = pc]]

\* Go on to write `want'; of the object in hand only the response survives the
\* refetch (savedQueryStatus).
GotoWrite(q, pc, want, o) ==
    rec' = [rec EXCEPT ![q] = [pc |-> pc, want |-> want,
                               obj |-> [Gone EXCEPT !.resp = o.resp, !.task = o.task]]]

fetchQuery(q) ==
    /\ rec[q].pc = "idle"
    /\ rec' = [rec EXCEPT ![q] = [pc |-> "fetched", obj |-> cache[q], want |-> None]]
    /\ UNCHANGED <<server, cache, gor, fresh, memory, world>>

\* TTL garbage collection deletes the object and reads it again.
DeleteExpired(q) ==
    /\ rec[q].pc = "fetched" /\ q \in WithTTL
    /\ rec[q].obj.exists /\ isTerminalPhase(rec[q].obj.phase) /\ ~rec[q].obj.deleting
    /\ IF server[q].exists
       THEN DeleteObject(q) /\ Advance(q, "deleted")
       ELSE UNCHANGED <<server, fresh>> /\ Return(q)
    /\ UNCHANGED <<cache, gor, memory, world>>

RefetchDeleted(q) ==
    /\ rec[q].pc = "deleted"
    /\ rec' = [rec EXCEPT ![q].pc = "refetched", ![q].obj = cache[q]]
    /\ UNCHANGED <<server, cache, gor, fresh, memory, world>>

\* The object is in hand, the next thing the handler looks at is the finalizer.
InHand(q) == rec[q].pc \in {"fetched", "refetched"}

NotFound(q) ==
    /\ InHand(q) /\ ~rec[q].obj.exists
    /\ Return(q)
    /\ UNCHANGED <<server, cache, gor, fresh, memory, world>>

\* Update and Status().Update of the object in hand: refused when it is old.
UpdateFetched(q, o) ==
    /\ IF rec[q].obj = server[q] THEN Put(q, o) ELSE UNCHANGED <<server, fresh>>
    /\ Return(q)
    /\ UNCHANGED <<cache, gor, memory, world>>

AddFinalizer(q) ==
    /\ InHand(q) /\ rec[q].obj.exists
    /\ ~rec[q].obj.deleting /\ ~rec[q].obj.finalizer
    /\ UpdateFetched(q, [server[q] EXCEPT !.finalizer = TRUE])

\* Mutant: the entry stays in the map.
WithoutOperation_Kept(q) == operations

WithoutOperation(q) == [operations EXCEPT ![q] = None]

\* Cancel the goroutine of the tracked operation and forget the operation.
CancelOperation(q) ==
    /\ gor' = IF operations[q] = None THEN gor
              ELSE [gor EXCEPT ![operations[q]].cancelled = TRUE]
    /\ operations' = WithoutOperation(q)

finalize(q) ==
    /\ InHand(q) /\ rec[q].obj.exists /\ rec[q].obj.deleting
    /\ IF rec[q].obj.finalizer
       THEN CancelOperation(q) /\ Goto(q, "cleanup")
       ELSE UNCHANGED <<gor, operations>> /\ Return(q)
    /\ UNCHANGED <<server, cache, sem, fresh, world>>

\* Mutant: the grace period never ends.
GraceLeft_Always(q) == TRUE

GraceLeft(q) == q \notin graceOver

\* The broker's messages, events and session are deleted.  On failure the
\* handler comes back later, until the grace period is over.
deleteBrokerData(q) ==
    /\ rec[q].pc = "cleanup"
    /\ \/ Goto(q, "unfinalize")
       \/ GraceLeft(q) /\ Return(q)
    /\ UNCHANGED <<server, cache, gor, fresh, memory, world>>

\* The server removes an object marked for deletion with its last finalizer.
RemoveFinalizer(q) ==
    /\ rec[q].pc = "unfinalize"
    /\ UpdateFetched(q, Gone)

\* handleQueryExecution is reached with the finalizer set and not deleting.
Executable(q) == /\ InHand(q) /\ rec[q].obj.exists
                 /\ ~rec[q].obj.deleting /\ rec[q].obj.finalizer
                 /\ rec[q].obj.completed # "absent"

InitConditions(q) ==
    /\ InHand(q) /\ rec[q].obj.exists /\ ~rec[q].obj.deleting /\ rec[q].obj.finalizer
    /\ rec[q].obj.completed = "absent"
    /\ UpdateFetched(q, [server[q] EXCEPT !.completed = "False"])

\* Mutant: only a query that has not ended is canceled.
MustCancel_UnlessTerminal(o) == o.cancel /\ ~isTerminalPhase(o.phase)

MustCancel(o) == o.cancel /\ o.phase # "canceled"
MustTimeOut(o) == ~MustCancel(o) /\ isPreExecutionPhase(o.phase) /\ o.overdue

\* spec.cancel, and a budget spent before execution: both interrupt the
\* tracked goroutine, then write the phase.
InterruptQuery(q) ==
    /\ Executable(q)
    /\ \/ MustCancel(rec[q].obj) /\ GotoWrite(q, "write", "canceled", rec[q].obj)
       \/ MustTimeOut(rec[q].obj) /\ GotoWrite(q, "write", "timeout", rec[q].obj)
    /\ CancelOperation(q)
    /\ UNCHANGED <<server, cache, sem, fresh, world>>

Dispatching(q) == /\ Executable(q)
                  /\ ~MustCancel(rec[q].obj) /\ ~MustTimeOut(rec[q].obj)

\* A terminal query waits for its TTL.
TerminalPhase(q) ==
    /\ Dispatching(q) /\ isTerminalPhase(rec[q].obj.phase)
    /\ Return(q)
    /\ UNCHANGED <<server, cache, gor, fresh, memory, world>>

-----------------------------------------------------------------------------
(***************************************************************************)
(* handleInputRequiredPhase: the query waits for the A2ATask its response  *)
(* names, and resumes or fails with it.                                    *)
(***************************************************************************)
AwaitedTask(q) == IF rec[q].obj.task = 0 THEN "absent" ELSE tasks[q][rec[q].obj.task]

AwaitingInput(q) == Dispatching(q) /\ rec[q].obj.phase = "input-required"

\* Mutant: a denied task is taken for one that is still open.
StillOpen_Denied(phase) == phase \in {"absent", "input-required", "denied", "gone"}

\* A task that is not found is waited for like an open one.
StillOpen(phase) == phase \in {"absent", "input-required", "gone"}

StillWaiting(q) ==
    /\ AwaitingInput(q) /\ StillOpen(AwaitedTask(q))
    /\ Return(q)
    /\ UNCHANGED <<server, cache, gor, fresh, memory, world>>

\* An approval resets the cascade counter; a failure to do so is only logged.
handleApprovedTask(q) ==
    /\ AwaitingInput(q) /\ AwaitedTask(q) = "completed"
    /\ \/ rec[q].obj.cascades = 0 /\ UNCHANGED <<server, fresh, faults>>
       \/ /\ rec[q].obj.cascades > 0 /\ cache[q] = server[q]
          /\ Put(q, [server[q] EXCEPT !.cascades = 0]) /\ UNCHANGED faults
       \/ rec[q].obj.cascades > 0 /\ Fault /\ UNCHANGED <<server, fresh>>
    /\ Advance(q, "resume")
    /\ UNCHANGED <<cache, gor, tasks, engines, graceOver, resumed, memory>>

\* Mutant: the denial is resumed however many there were.
UnderCap_Always(count) == TRUE

UnderCap(count) == count < MaxApprovalCascades

IncrementedCount(count) == count + 1

\* A denial resumes the agent too, at most MaxApprovalCascades times in a row.
\* The counter is written as one more than the value in hand.
handleResumableDenial(q) ==
    /\ AwaitingInput(q) /\ AwaitedTask(q) = "denied"
    /\ UnderCap(rec[q].obj.cascades)
    /\ cache[q] = server[q]
    /\ IF server[q].exists
       THEN Put(q, [server[q] EXCEPT !.cascades = IncrementedCount(rec[q].obj.cascades)])
       ELSE UNCHANGED <<server, fresh>>
    /\ Advance(q, "resume")
    /\ UNCHANGED <<cache, gor, memory, world>>

\* A failed task, and a denial beyond the cap, end the query in error.  The
\* error replaces the response, A2A metadata included; a failed task without
\* an error text leaves the response alone.
handleFailedTask(q) ==
    /\ AwaitingInput(q)
    /\ LET replaced == [rec[q].obj EXCEPT !.resp = "error", !.task = 0]
       IN \E o \in {replaced} \cup (IF AwaitedTask(q) = "failed" THEN {rec[q].obj} ELSE {}) :
              GotoWrite(q, "write", "error", o)
    /\ \/ AwaitedTask(q) = "failed"
       \/ AwaitedTask(q) = "denied" /\ ~UnderCap(rec[q].obj.cascades)
    /\ UNCHANGED <<server, cache, gor, fresh, memory, world>>

\* stampRoundAnchor patches the server's object, which the patch returns, and
\* gives the new round a whole budget; then the old operation is interrupted.
stampRoundAnchor(q) ==
    /\ rec[q].pc = "resume"
    /\ IF server[q].exists
       THEN LET stamped == [server[q] EXCEPT !.overdue = FALSE]
            IN /\ Put(q, stamped)
               /\ GotoWrite(q, "write", "running", stamped)
               /\ CancelOperation(q)
       ELSE /\ Return(q)
            /\ UNCHANGED <<server, gor, operations, fresh>>
    /\ UNCHANGED <<cache, sem, world>>

-----------------------------------------------------------------------------
(***************************************************************************)
(* handleRunningPhase: start a goroutine unless one is tracked or the      *)
(* semaphore is exhausted.                                                 *)
(***************************************************************************)
Startable(q) == /\ Dispatching(q)
                /\ rec[q].obj.phase \in {"", "queued", "running", "provisioning"}

Enforced == MaxConcurrentQueries > 0  \* r.sem is not nil

\* Mutant: the semaphore is taken without a check.
HasCapacity_Always == TRUE

HasCapacity == Enforced => sem < MaxConcurrentQueries

\* Mutant: the operations map is not consulted.
Tracked_Never(q) == FALSE

Tracked(q) == operations[q] # None

InFlight(q) ==
    /\ Startable(q) /\ Tracked(q)
    /\ Return(q)
    /\ UNCHANGED <<server, cache, gor, fresh, memory, world>>

CapacityReached(q) ==
    /\ Startable(q) /\ ~Tracked(q)
    /\ ~HasCapacity
    /\ IF rec[q].obj.phase = "queued" THEN Return(q)
       ELSE GotoWrite(q, "write", "queued", rec[q].obj)
    /\ UNCHANGED <<server, cache, gor, fresh, memory, world>>

TryAcquire(q) ==
    /\ Startable(q) /\ ~Tracked(q)
    /\ HasCapacity
    /\ sem' = IF Enforced THEN sem + 1 ELSE sem
    /\ IF rec[q].obj.phase = "running" THEN Advance(q, "spawn")
       ELSE GotoWrite(q, "acquired", "running", rec[q].obj)
    /\ UNCHANGED <<server, cache, gor, operations, fresh, world>>

\* The denials in a row once the agent is resumed from task t.
Resumption(q, t) == IF t # 0 /\ tasks[q][t] = "denied" THEN resumed[q] \cup {t} ELSE {}

\* One round of mutateStatus for the reconcile, whose context lives as long
\* as the process: it succeeds only if the cache holds the server's version,
\* is retried otherwise, and gives up in ReconcileFails.
mutateStatus(q) ==
    /\ rec[q].pc \in {"write", "acquired"}
    /\ \/ Declined(cache[q], rec[q].want) /\ UNCHANGED <<server, fresh>>
       \/ /\ ~Declined(cache[q], rec[q].want) /\ cache[q] = server[q]
          /\ Put(q, Written(server[q], rec[q].want, rec[q].obj.resp, rec[q].obj.task))
    /\ IF rec[q].pc = "acquired" THEN Advance(q, "spawn") ELSE Return(q)
    /\ resumed' = IF rec[q].pc = "write" /\ rec[q].want = "running"
                  THEN [resumed EXCEPT ![q] = Resumption(q, rec[q].obj.task)]
                  ELSE resumed
    /\ UNCHANGED <<cache, gor, tasks, engines, graceOver, faults, memory>>

Spawn(q) ==
    /\ rec[q].pc = "spawn"
    /\ \E w \in Workers :
        /\ gor[w].pc = "idle"
        /\ gor' = [gor EXCEPT ![w] = [IdleGoroutine EXCEPT !.pc = "start", !.query = q]]
        /\ operations' = [operations EXCEPT ![q] = w]
    /\ Return(q)
    /\ UNCHANGED <<server, cache, sem, fresh, world>>

\* A call to the API server fails for good: the reconcile returns an error.
ReconcileFails(q) ==
    /\ rec[q].pc \in {"fetched", "deleted", "refetched", "unfinalize", "resume",
                      "write", "acquired"}
    /\ Fault
    /\ sem' = IF rec[q].pc = "acquired" /\ Enforced THEN sem - 1 ELSE sem
    /\ Return(q)
    /\ UNCHANGED <<server, cache, gor, operations, fresh, tasks, engines, graceOver, resumed>>

-----------------------------------------------------------------------------
(***************************************************************************)
(* executeQueryAsync: the goroutine.  It never looks at the phase again.   *)
(***************************************************************************)
\* Worker w is about to write `want' with the given response.
ToWrite(w, want, resp, task) ==
    gor' = [gor EXCEPT ![w] = [@ EXCEPT !.pc = "write", !.want = want,
                                        !.resp = resp, !.task = task]]

Step(w, pc) == gor' = [gor EXCEPT ![w].pc = pc]

\* Only the deferred function is left to run.
Finish(w, pc) == gor' = [gor EXCEPT ![w] = [IdleGoroutine EXCEPT !.pc = pc,
                                   !.query = gor[w].query, !.cancelled = gor[w].cancelled]]

\* Read the query again.  If that fails, or the client or the target cannot be
\* resolved, the query ends in error with the response it has.
executeQueryAsync(w) ==
    /\ gor[w].pc = "start"
    /\ LET o == cache[gor[w].query]
       IN \/ /\ o.exists
             /\ gor' = [gor EXCEPT ![w] = [@ EXCEPT !.pc = "dispatch", !.resp = o.resp,
                                                    !.task = o.task]]
          \/ ToWrite(w, "error", o.resp, o.task)
    /\ UNCHANGED <<server, cache, rec, fresh, memory, world>>

\* The A2A message is sent, an engine starts to work.
sendQueryA2A(w) ==
    /\ gor[w].pc = "dispatch"
    /\ Step(w, "executing")
    /\ engines' = engines \cup ({gor[w].query} \cap Provisioned)
    /\ UNCHANGED <<server, cache, rec, fresh, tasks, graceOver, resumed, faults, memory>>

\* The call returns: with an answer, an error, a spent timeout, or because the
\* context was cancelled.  Only the last two may leave the engine at work.
handleQueryDispatch(w) ==
    /\ gor[w].pc = "executing"
    /\ \/ ToWrite(w, "done", "done", 0) /\ engines' = engines \ {gor[w].query}
       \/ ToWrite(w, "error", "error", 0) /\ engines' = engines \ {gor[w].query}
       \/ /\ gor[w].query \in MayTimeOut
          /\ ToWrite(w, "timeout", "error", 0) /\ UNCHANGED engines
       \/ /\ gor[w].cancelled
          /\ ToWrite(w, "error", gor[w].resp, gor[w].task) /\ UNCHANGED engines
    /\ UNCHANGED <<server, cache, rec, fresh, tasks, graceOver, resumed, faults, memory>>

\* Mutant: the A2ATask is not created.
WithTask_None(q, t) == tasks

WithTask(q, t) == [tasks EXCEPT ![q][t] = "input-required"]

\* The call returns a task: the engine asks for approval, and the goroutine
\* creates the A2ATask before it writes the query.
HandleA2ATaskResponse(w) ==
    /\ gor[w].pc = "executing"
    /\ \E t \in 1 .. MaxTasks :
        /\ \A u \in 1 .. MaxTasks : tasks[gor[w].query][u] = "absent" <=> u >= t
        /\ tasks' = WithTask(gor[w].query, t)
        /\ ToWrite(w, "input-required", "input-required", t)
    /\ engines' = engines \ {gor[w].query}
    /\ UNCHANGED <<server, cache, rec, fresh, graceOver, resumed, faults, memory>>

\* The goroutine panics; its deferred function marks the query errored.
markQueryErroredAfterPanic(w) ==
    /\ gor[w].pc \in {"start", "dispatch", "executing"}
    /\ IF cache[gor[w].query].exists
       THEN ToWrite(w, "error", "error", cache[gor[w].query].task)
       ELSE Finish(w, "finish")
    /\ UNCHANGED <<server, cache, rec, fresh, memory, world>>

\* mutateStatus, first half: check the context, read the query, run the mutator.
CheckContext(w) ==
    /\ gor[w].pc = "write"
    /\ IF gor[w].cancelled \/ Declined(cache[gor[w].query], gor[w].want)
       THEN Finish(w, "finish") /\ UNCHANGED fresh
       ELSE /\ Step(w, "update")
            /\ fresh' = IF cache[gor[w].query] = server[gor[w].query]
                        THEN fresh \cup {w} ELSE fresh
    /\ UNCHANGED <<server, cache, rec, memory, world>>

\* Mutant: the update carries no resource version.
NoConflict_Blind(w) == server[gor[w].query].exists

NoConflict(w) == w \in fresh

\* mutateStatus, second half: Status().Update of what was read; a conflict
\* starts over.
StatusUpdate(w) ==
    /\ gor[w].pc = "update"
    /\ IF NoConflict(w)
       THEN /\ Put(gor[w].query, Written(server[gor[w].query], gor[w].want,
                                         gor[w].resp, gor[w].task))
            /\ Finish(w, "finish")
       ELSE Step(w, "write") /\ UNCHANGED <<server, fresh>>
    /\ UNCHANGED <<cache, rec, memory, world>>

\* The write fails for good; the error is logged and the goroutine ends.
StatusUpdateFails(w) ==
    /\ gor[w].pc = "update" /\ Fault
    /\ Finish(w, "finish")
    /\ fresh' = fresh \ {w}
    /\ UNCHANGED <<server, cache, rec, tasks, engines, graceOver, resumed, memory>>

\* finishExecuteQueryAsync: forget the query's operation, whichever goroutine
\* it belongs to, then give the permit back.
DeleteOperation(w) ==
    /\ gor[w].pc = "finish"
    /\ operations' = WithoutOperation(gor[w].query)
    /\ Step(w, "release")
    /\ UNCHANGED <<server, cache, rec, sem, fresh, world>>

\* Mutant: the permit is not given back.
ReleasedSem_Leaks == sem

ReleasedSem == IF Enforced THEN sem - 1 ELSE sem

Release(w) ==
    /\ gor[w].pc = "release"
    /\ sem' = ReleasedSem
    /\ gor' = [gor EXCEPT ![w] = IdleGoroutine]
    /\ UNCHANGED <<server, cache, rec, operations, fresh, world>>

\* The controller process dies and another one starts with an empty memory.
Crash ==
    /\ Fault
    /\ cache' = server
    /\ rec' = [q \in Queries |-> IdleReconcile]
    /\ gor' = [w \in Workers |-> IdleGoroutine]
    /\ operations' = [q \in Queries |-> None]
    /\ sem' = 0
    /\ fresh' = {}
    /\ UNCHANGED <<server, tasks, engines, graceOver, resumed>>

-----------------------------------------------------------------------------
EnvironmentStep(q) ==
    \/ SetCancel(q) \/ DeleteQuery(q) \/ GraceElapses(q) \/ BudgetElapses(q)
    \/ \E t \in 1 .. MaxTasks : SettleTask(q, t) \/ DiscardTask(q, t)
    \/ update_query_phase(q) \/ EngineStops(q)

ReconcileStep(q) ==
    \/ fetchQuery(q) \/ DeleteExpired(q) \/ RefetchDeleted(q) \/ NotFound(q)
    \/ AddFinalizer(q) \/ finalize(q) \/ deleteBrokerData(q) \/ RemoveFinalizer(q)
    \/ InitConditions(q) \/ InterruptQuery(q) \/ TerminalPhase(q)
    \/ StillWaiting(q) \/ handleApprovedTask(q) \/ handleResumableDenial(q)
    \/ handleFailedTask(q) \/ stampRoundAnchor(q)
    \/ InFlight(q) \/ CapacityReached(q) \/ TryAcquire(q) \/ mutateStatus(q)
    \/ Spawn(q)

GoroutineStep(w) ==
    \/ executeQueryAsync(w) \/ sendQueryA2A(w) \/ handleQueryDispatch(w)
    \/ HandleA2ATaskResponse(w) \/ markQueryErroredAfterPanic(w)
    \/ CheckContext(w) \/ StatusUpdate(w) \/ DeleteOperation(w) \/ Release(w)

FaultStep == \/ \E q \in Queries : ReconcileFails(q)
             \/ \E w \in Workers : StatusUpdateFails(w)
             \/ Crash

Next == \/ \E q \in Queries : InformerSync(q) \/ EnvironmentStep(q) \/ ReconcileStep(q)
        \/ \E w \in Workers : GoroutineStep(w)
        \/ FaultStep

Spec == Init /\ [][Next]_vars

\* The work queue keeps reconciling a query (watch events, and a requeue on
\* every path that waits), goroutines run, the informer catches up and the
\* clock advances.  Faults are finitely many.  Users and approvers are not fair.
Fairness ==
    /\ \A q \in Queries : /\ WF_vars(InformerSync(q))
                          /\ WF_vars(ReconcileStep(q))
                          /\ WF_vars(BudgetElapses(q))
                          /\ WF_vars(GraceElapses(q))
                          /\ WF_vars(EngineStops(q))
    /\ \A w \in Workers : WF_vars(GoroutineStep(w))

FairSpec == Spec /\ Fairness

-----------------------------------------------------------------------------
(***************************************************************************)
(* Properties.                                                             *)
(***************************************************************************)
Live(w) == gor[w].pc # "idle"

\* Those that hold a permit of the semaphore: the goroutines that have not
\* released it, and the reconciles between TryAcquire and the start of one.
PermitHolders == {w \in Workers : Live(w)}
                    \cup {q \in Queries : rec[q].pc \in {"acquired", "spawn"}}

\* No permit leaks and none is given back twice, on any path through errors,
\* cancellation, panics and restarts, so at most MaxConcurrentQueries
\* goroutines are alive.
SemaphoreExact ==
    Enforced => /\ sem = Cardinality(PermitHolders)
                /\ sem <= MaxConcurrentQueries

Pool == INSTANCE ExecutionPool WITH Holders <- Queries \cup Workers,
                                    Capacity <- MaxConcurrentQueries,
                                    held <- PermitHolders

\* The reconciler implements the bounded pool of executions that
\* MaxConcurrentQueries promises: every step takes, hands over or returns at
\* most one permit, and none is taken beyond the capacity.
PoolSpec == Pool!Spec

\* handleRunningPhase believes a query in flight because operations has an
\* entry for it.  The entry is never a phantom: it is that of a live goroutine
\* of the same query whose context is not cancelled.
TrackedIsLive ==
    \A q \in Queries : operations[q] # None =>
        /\ gor[operations[q]].query = q
        /\ ~gor[operations[q]].cancelled
        /\ gor[operations[q]].pc \notin {"idle", "release"}

\* At most one goroutine works for a query: a tracked one keeps
\* handleRunningPhase from starting a second ("Genuinely in-flight: don't spawn
\* a second goroutine").  A goroutine whose context is cancelled, or which has
\* only its deferred function left, does not count.
Working(w) == /\ gor[w].pc \notin {"idle", "finish", "release"}
              /\ ~gor[w].cancelled

OneGoroutine ==
    \A v, w \in Workers :
        Working(v) /\ Working(w) /\ gor[v].query = gor[w].query => v = w

\* A query waits for input only on a task that was created before: the task that
\* handleInputRequiredPhase does not find ("Task not found yet, wait") has been
\* collected, it is never one still to come.  A query whose task is collected
\* before the answer is read waits until a user cancels or deletes it.
AwaitedTaskCreated ==
    \A q \in Queries : server[q].phase = "input-required" =>
        server[q].task # 0 /\ tasks[q][server[q].task] # "absent"

\* ttlRemaining measures the TTL from the QueryCompleted condition, so every
\* terminal query has it, whoever wrote the phase last.
TerminalIsCompleted ==
    \A q \in Queries :
        isTerminalPhase(server[q].phase) => server[q].completed = "True"

\* The agent is resumed from at most MaxApprovalCascades denials in a row, as
\* the comment on maxApprovalCascades has it.
CascadeCap ==
    \A q \in Queries : Cardinality(resumed[q]) <= MaxApprovalCascades

\* A goroutine that was interrupted never overwrites the phase canceled: it
\* either notices its context or meets a version conflict.
CanceledStands ==
    [][\A w \in Workers :
         /\ gor[w].cancelled /\ gor[w].pc = "update"
         /\ server[gor[w].query].phase = "canceled"
         /\ gor'[w].pc = "finish"
         => server' = server]_vars

\* failQueryOnTimeout loses the race against whoever completed the query: the
\* step in which a timeout is written never touches a terminal phase.
TimeoutWrite(q) ==
    \/ rec[q].pc = "write" /\ rec[q].want = "timeout" /\ rec'[q].pc = "idle"
    \/ \E w \in Workers : /\ gor[w].query = q /\ gor[w].want = "timeout"
                          /\ gor[w].pc = "update" /\ gor'[w].pc = "finish"

TimeoutSparesTerminal ==
    [][\A q \in Queries :
         TimeoutWrite(q) /\ isTerminalPhase(server[q].phase)
         => server'[q] = server[q]]_vars

Settled(q) == \/ ~server[q].exists
              \/ isTerminalPhase(server[q].phase)
              \/ server[q].phase = "input-required"

\* Every query comes to an end, or to a question for an approver.
QueriesSettle == \A q \in Queries : []<>Settled(q)

\* A settled approval moves the query on, unless the task is collected before
\* the query has read the answer: no query is left alone with an answer.
AnswerUnread(q) ==
    /\ server[q].phase = "input-required"
    /\ \E t \in 1 .. MaxTasks : /\ server[q].task = t
                                /\ tasks[q][t] \in {"completed", "denied", "failed"}

ApprovalsResume == \A q \in Queries : []<>~AnswerUnread(q)

\* A cancelled query is canceled for good, or gone, in the end.
CancelHonoured ==
    \A q \in Queries :
        <>[](server[q].cancel => server[q].phase = "canceled" \/ ~server[q].exists)

\* A deleted query disappears, whatever the broker does.
DeletionCompletes ==
    \A q \in Queries : server[q].deleting ~> ~server[q].exists
=============================================================================
