------------------------ MODULE QueryControllerProofs ------------------------
(***************************************************************************)
(* Theorems about QueryController, for any number of queries and           *)
(* goroutines and every value of the bounds.                               *)
(***************************************************************************)
EXTENDS QueryController, FiniteSetTheorems, TLAPS

-----------------------------------------------------------------------------
(***************************************************************************)
(* Types, one part per group of variables.  A reconcile or a goroutine     *)
(* that is about to write knows what it writes, and a goroutine that is    *)
(* not idle works for a query: TypeOK alone is not inductive without that. *)
(* The type of sem follows from SemaphoreExact.                            *)
(***************************************************************************)
WritablePhase == Phase \cup {"timeout"}

TypeAPI == /\ server \in [Queries -> Object]
           /\ cache \in [Queries -> Object]
           /\ fresh \subseteq Workers

TypeRec == /\ rec \in [Queries -> Reconcile]
           /\ \A q \in Queries : rec[q].pc \in {"write", "acquired"} =>
                                    rec[q].want \in WritablePhase

TypeGor == /\ gor \in [Workers -> Goroutine]
           /\ \A w \in Workers : gor[w].pc # "idle" => gor[w].query \in Queries
           /\ \A w \in Workers : gor[w].pc \in {"write", "update"} =>
                                    gor[w].want \in WritablePhase

TypeRest == /\ operations \in [Queries -> Workers \cup {None}]
            /\ tasks \in [Queries -> [1 .. MaxTasks -> TaskPhase]]
            /\ engines \subseteq Queries
            /\ graceOver \subseteq Queries
            /\ resumed \in [Queries -> SUBSET (1 .. MaxTasks)]
            /\ faults \in 0 .. MaxFaults

Types == TypeAPI /\ TypeRec /\ TypeGor /\ TypeRest

\* The constant records belong to the sets they are meant for.
LEMMA ConstantTypes ==
    /\ Created \in Object /\ Gone \in Object
    /\ IdleReconcile \in Reconcile /\ IdleGoroutine \in Goroutine
<1>1. 0 \in TaskId /\ 0 \in 0 .. MaxApprovalCascades
  BY BoundsAssumption DEF TaskId
<1>2. Created \in Object
  BY <1>1 DEF Created, Object, Phase, Resp
<1>3. Gone \in Object
  BY <1>2 DEF Gone, Object
<1>4. IdleReconcile \in Reconcile
  BY <1>3 DEF IdleReconcile, Reconcile, RecPC, Want
<1>5. IdleGoroutine \in Goroutine
  BY <1>1 DEF IdleGoroutine, Goroutine, GorPC, Want, Resp
<1> QED BY <1>2, <1>3, <1>4, <1>5

\* updateStatus and failQueryOnTimeout turn an object into an object.
LEMMA WrittenType ==
    ASSUME NEW o \in Object, NEW want \in WritablePhase,
           NEW resp \in Resp, NEW task \in TaskId
    PROVE  Written(o, want, resp, task) \in Object
<1>1. setConditionForPhase(want, o.completed) \in {"absent", "False", "True"}
  BY DEF Object, setConditionForPhase
<1>2. CASE want = "timeout"
  BY <1>2 DEF Written, Object, Phase, Resp
<1>3. CASE want # "timeout"
  BY <1>1, <1>3 DEF Written, Object, WritablePhase
<1> QED BY <1>2, <1>3

\* A write to the API server.
LEMMA PutType ==
    ASSUME TypeAPI, NEW q \in Queries, NEW o \in Object, Put(q, o)
    PROVE  server' \in [Queries -> Object] /\ fresh' \subseteq Workers
BY DEF TypeAPI, Put

\* The moves of a reconcile.
LEMMA GotoType ==
    ASSUME TypeRec, NEW q \in Queries, NEW pc \in RecPC \ {"write", "acquired"},
           Goto(q, pc)
    PROVE  TypeRec'
BY DEF TypeRec, Goto, Reconcile

LEMMA ReturnType ==
    ASSUME TypeRec, NEW q \in Queries, Return(q)
    PROVE  TypeRec'
BY ConstantTypes DEF TypeRec, Return, IdleReconcile

LEMMA AdvanceType ==
    ASSUME TypeRec, NEW q \in Queries, NEW pc \in RecPC \ {"write", "acquired"},
           Advance(q, pc)
    PROVE  TypeRec'
<1>1. [IdleReconcile EXCEPT !.pc = pc] \in Reconcile
  BY ConstantTypes DEF Reconcile
<1>2. [IdleReconcile EXCEPT !.pc = pc].pc \notin {"write", "acquired"}
  BY DEF IdleReconcile
<1> QED BY <1>1, <1>2 DEF TypeRec, Advance

LEMMA GotoWriteType ==
    ASSUME TypeRec, NEW q \in Queries, NEW pc \in {"write", "acquired"},
           NEW want \in WritablePhase, NEW o \in Object, GotoWrite(q, pc, want, o)
    PROVE  TypeRec'
<1> DEFINE saved == [Gone EXCEPT !.resp = o.resp, !.task = o.task]
           r == [pc |-> pc, want |-> want, obj |-> saved]
<1>1. saved \in Object
  BY ConstantTypes DEF Object
<1>2. r \in Reconcile
  BY <1>1 DEF Reconcile, RecPC, Want, WritablePhase
<1>3. rec' = [rec EXCEPT ![q] = r]
  BY DEF GotoWrite
<1> QED BY <1>2, <1>3 DEF TypeRec

\* The moves of a goroutine.
LEMMA StepType ==
    ASSUME TypeGor, NEW w \in Workers, NEW pc \in GorPC, gor[w].pc # "idle",
           pc \in {"write", "update"} => gor[w].want \in WritablePhase, Step(w, pc)
    PROVE  TypeGor'
BY DEF TypeGor, Step, Goroutine

LEMMA ToWriteType ==
    ASSUME TypeGor, NEW w \in Workers, gor[w].pc # "idle", NEW want \in WritablePhase,
           NEW resp \in Resp, NEW task \in TaskId, ToWrite(w, want, resp, task)
    PROVE  TypeGor'
<1> DEFINE g == [gor[w] EXCEPT !.pc = "write", !.want = want,
                               !.resp = resp, !.task = task]
<1>1. want \in Want
  BY DEF Want, WritablePhase
<1>2. g \in Goroutine /\ g.pc = "write" /\ g.want = want /\ g.query \in Queries
  BY <1>1 DEF TypeGor, Goroutine, GorPC
<1>3. gor' = [gor EXCEPT ![w] = g]
  BY DEF ToWrite
<1> QED BY <1>2, <1>3 DEF TypeGor

LEMMA FinishType ==
    ASSUME TypeGor, NEW w \in Workers, gor[w].pc # "idle", Finish(w, "finish")
    PROVE  TypeGor'
<1> DEFINE g == [IdleGoroutine EXCEPT !.pc = "finish", !.query = gor[w].query,
                                      !.cancelled = gor[w].cancelled]
<1>1. g \in Goroutine
  BY ConstantTypes DEF TypeGor, Goroutine, GorPC
<1>2. g.pc = "finish" /\ g.query \in Queries
  BY DEF TypeGor, IdleGoroutine
<1>3. gor' = [gor EXCEPT ![w] = g]
  BY DEF Finish
<1> QED BY <1>1, <1>2, <1>3 DEF TypeGor

LEMMA CancelOperationType ==
    ASSUME TypeGor, TypeRest, NEW q \in Queries, CancelOperation(q)
    PROVE  TypeGor' /\ operations' \in [Queries -> Workers \cup {None}]
<1>1. operations' \in [Queries -> Workers \cup {None}]
  BY DEF TypeRest, CancelOperation, WithoutOperation
<1>2. CASE operations[q] = None
  BY <1>1, <1>2 DEF CancelOperation, TypeGor
<1>3. CASE operations[q] # None
  <2> DEFINE w == operations[q]
             g == [gor[w] EXCEPT !.cancelled = TRUE]
  <2>1. w \in Workers /\ gor' = [gor EXCEPT ![w] = g]
    BY <1>3 DEF CancelOperation, TypeRest
  <2>2. /\ g \in Goroutine /\ g.pc = gor[w].pc /\ g.query = gor[w].query
        /\ g.want = gor[w].want
    BY <2>1 DEF TypeGor, Goroutine
  <2> HIDE DEF g
  <2> QED BY <1>1, <2>1, <2>2 DEF TypeGor
<1> QED BY <1>2, <1>3

\* An object one of whose fields is changed.
LEMMA ObjectFields ==
    ASSUME NEW o \in Object
    PROVE  /\ \A b \in BOOLEAN : /\ [o EXCEPT !.cancel = b] \in Object
                                 /\ [o EXCEPT !.deleting = b] \in Object
                                 /\ [o EXCEPT !.finalizer = b] \in Object
                                 /\ [o EXCEPT !.overdue = b] \in Object
           /\ [o EXCEPT !.completed = "False"] \in Object
           /\ \A n \in 0 .. MaxApprovalCascades : [o EXCEPT !.cascades = n] \in Object
           /\ o.exists \in BOOLEAN
<1>1. ASSUME NEW b \in BOOLEAN PROVE [o EXCEPT !.cancel = b] \in Object
  BY DEF Object
<1>2. ASSUME NEW b \in BOOLEAN PROVE [o EXCEPT !.deleting = b] \in Object
  BY DEF Object
<1>3. ASSUME NEW b \in BOOLEAN PROVE [o EXCEPT !.finalizer = b] \in Object
  BY DEF Object
<1>4. ASSUME NEW b \in BOOLEAN PROVE [o EXCEPT !.overdue = b] \in Object
  BY DEF Object
<1>5. [o EXCEPT !.completed = "False"] \in Object
  BY DEF Object
<1>6. ASSUME NEW n \in 0 .. MaxApprovalCascades PROVE [o EXCEPT !.cascades = n] \in Object
  BY DEF Object
<1> QED BY <1>1, <1>2, <1>3, <1>4, <1>5, <1>6 DEF Object

-----------------------------------------------------------------------------
(***************************************************************************)
(* Each part of the types is preserved by every step.                      *)
(***************************************************************************)

\* What the API server and the cache hold stays an object.
LEMMA TypeAPIStep == ASSUME Types, [Next]_vars PROVE TypeAPI'
<1> USE DEF Types, world, memory
<1> DEFINE Goal == TypeAPI'
<1>o. ASSUME NEW q \in Queries PROVE server[q] \in Object /\ cache[q] \in Object
  BY DEF TypeAPI
<1>0. CASE UNCHANGED vars
  BY <1>0 DEF vars, TypeAPI
<1>1. ASSUME NEW q \in Queries, InformerSync(q) PROVE Goal
  BY <1>1 DEF InformerSync, TypeAPI
<1>2. ASSUME NEW q \in Queries, EnvironmentStep(q) PROVE Goal
  <2>1. CASE SetCancel(q)
    <3>1. [server[q] EXCEPT !.cancel = TRUE] \in Object
      BY <1>o, ObjectFields
    <3> QED BY <2>1, <3>1, PutType DEF SetCancel, TypeAPI
  <2>2. CASE DeleteQuery(q)
    <3>1. [server[q] EXCEPT !.deleting = TRUE] \in Object
      BY <1>o, ObjectFields
    <3> QED BY <2>2, <3>1, PutType, ConstantTypes DEF DeleteQuery, DeleteObject, TypeAPI
  <2>3. CASE BudgetElapses(q)
    <3>1. \A b \in BOOLEAN : /\ [cache[q] EXCEPT !.overdue = b] \in Object
                             /\ [server[q] EXCEPT !.overdue = b] \in Object
      BY <1>o, ObjectFields
    <3>2. cache[q].exists \in BOOLEAN
      BY <1>o, ObjectFields
    <3>3. cache' \in [Queries -> Object]
      BY <2>3, <3>1, <3>2 DEF BudgetElapses, TypeAPI
    <3>4. server' \in [Queries -> Object]
      BY <2>3, <3>1 DEF BudgetElapses, TypeAPI
    <3> QED BY <2>3, <3>3, <3>4 DEF BudgetElapses, TypeAPI
  <2>4. CASE update_query_phase(q)
    <3>0. {"provisioning", "running"} \subseteq Phase
      BY DEF Phase
    <3>1. ASSUME NEW p \in {"provisioning", "running"}
          PROVE  [server[q] EXCEPT !.phase = p, !.completed = "False"] \in Object
      BY <1>o, <3>0 DEF Object
    <3> QED BY <2>4, <3>1, PutType DEF update_query_phase, TypeAPI
  <2>5. CASE GraceElapses(q) \/ EngineStops(q) \/ \E t \in 1 .. MaxTasks : SettleTask(q, t) \/ DiscardTask(q, t)
    BY <2>5 DEF GraceElapses, EngineStops, SettleTask, DiscardTask, TypeAPI
  <2> QED BY <1>2, <2>1, <2>2, <2>3, <2>4, <2>5 DEF EnvironmentStep
<1>3. ASSUME NEW q \in Queries, ReconcileStep(q) PROVE Goal
  <2>1. CASE DeleteExpired(q)
    <3>1. [server[q] EXCEPT !.deleting = TRUE] \in Object
      BY <1>o, ObjectFields
    <3> QED BY <2>1, <3>1, PutType, ConstantTypes DEF DeleteExpired, DeleteObject, TypeAPI
  <2>2. CASE AddFinalizer(q)
    <3>1. [server[q] EXCEPT !.finalizer = TRUE] \in Object
      BY <1>o, ObjectFields
    <3> QED BY <2>2, <3>1, PutType DEF AddFinalizer, UpdateFetched, TypeAPI
  <2>3. CASE RemoveFinalizer(q)
    BY <2>3, PutType, ConstantTypes DEF RemoveFinalizer, UpdateFetched, TypeAPI
  <2>4. CASE InitConditions(q)
    <3>1. [server[q] EXCEPT !.completed = "False"] \in Object
      BY <1>o, ObjectFields
    <3> QED BY <2>4, <3>1, PutType DEF InitConditions, UpdateFetched, TypeAPI
  <2>5. CASE handleApprovedTask(q)
    <3>1. [server[q] EXCEPT !.cascades = 0] \in Object
      <4>1. 0 \in 0 .. MaxApprovalCascades
        BY BoundsAssumption
      <4> QED BY <1>o, <4>1, ObjectFields
    <3> QED BY <2>5, <3>1, PutType DEF handleApprovedTask, TypeAPI
  <2>6. CASE handleResumableDenial(q)
    <3>1. IncrementedCount(rec[q].obj.cascades) \in 0 .. MaxApprovalCascades
      BY <2>6, BoundsAssumption DEF handleResumableDenial, UnderCap, IncrementedCount,
         TypeRec, Reconcile, Object
    <3>2. [server[q] EXCEPT !.cascades = IncrementedCount(rec[q].obj.cascades)] \in Object
      BY <1>o, <3>1, ObjectFields
    <3> QED BY <2>6, <3>2, PutType DEF handleResumableDenial, TypeAPI
  <2>7. CASE stampRoundAnchor(q)
    <3>1. [server[q] EXCEPT !.overdue = FALSE] \in Object
      BY <1>o, ObjectFields
    <3> QED BY <2>7, <3>1, PutType DEF stampRoundAnchor, TypeAPI
  <2>8. CASE mutateStatus(q)
    <3>1. /\ rec[q].obj.resp \in Resp /\ rec[q].obj.task \in TaskId
          /\ rec[q].want \in WritablePhase
      BY <2>8 DEF mutateStatus, TypeRec, Reconcile, Object
    <3>2. Written(server[q], rec[q].want, rec[q].obj.resp, rec[q].obj.task) \in Object
      BY <3>1, WrittenType DEF TypeAPI
    <3> QED BY <2>8, <3>2, PutType DEF mutateStatus, TypeAPI
  <2>9. CASE \/ fetchQuery(q) \/ RefetchDeleted(q) \/ NotFound(q) \/ finalize(q)
             \/ deleteBrokerData(q) \/ InterruptQuery(q) \/ TerminalPhase(q)
             \/ StillWaiting(q) \/ handleFailedTask(q) \/ InFlight(q)
             \/ CapacityReached(q) \/ TryAcquire(q) \/ Spawn(q)
    BY <2>9 DEF fetchQuery, RefetchDeleted, NotFound, finalize, deleteBrokerData,
       InterruptQuery, TerminalPhase, StillWaiting, handleFailedTask, InFlight,
       CapacityReached, TryAcquire, Spawn, TypeAPI
  <2> QED BY <1>3, <2>1, <2>2, <2>3, <2>4, <2>5, <2>6, <2>7, <2>8, <2>9 DEF ReconcileStep
<1>4. ASSUME NEW w \in Workers, GoroutineStep(w) PROVE Goal
  <2>1. CASE StatusUpdate(w)
    <3>1. /\ gor[w].query \in Queries /\ gor[w].want \in WritablePhase
          /\ gor[w].resp \in Resp /\ gor[w].task \in TaskId
      BY <2>1 DEF StatusUpdate, TypeGor, Goroutine
    <3>2. Written(server[gor[w].query], gor[w].want, gor[w].resp, gor[w].task) \in Object
      BY <3>1, WrittenType DEF TypeAPI
    <3> QED BY <2>1, <3>1, <3>2, PutType DEF StatusUpdate, TypeAPI
  <2>2. CASE CheckContext(w)
    BY <2>2 DEF CheckContext, TypeAPI
  <2>3. CASE \/ executeQueryAsync(w) \/ sendQueryA2A(w) \/ handleQueryDispatch(w)
             \/ HandleA2ATaskResponse(w) \/ markQueryErroredAfterPanic(w)
             \/ DeleteOperation(w) \/ Release(w)
    BY <2>3 DEF executeQueryAsync, sendQueryA2A, handleQueryDispatch,
       HandleA2ATaskResponse, markQueryErroredAfterPanic, DeleteOperation, Release, TypeAPI
  <2> QED BY <1>4, <2>1, <2>2, <2>3 DEF GoroutineStep
<1>5. CASE FaultStep
  BY <1>5 DEF FaultStep, ReconcileFails, StatusUpdateFails, Crash, TypeAPI
<1> QED BY <1>0, <1>1, <1>2, <1>3, <1>4, <1>5 DEF Next

\* A reconcile keeps a well-formed object and knows what it is about to write.
LEMMA TypeRecStep == ASSUME Types, [Next]_vars PROVE TypeRec'
<1> USE DEF Types, world, memory
<1>0. CASE UNCHANGED vars
  BY <1>0 DEF vars, TypeRec
<1>1. ASSUME NEW q \in Queries, InformerSync(q) \/ EnvironmentStep(q) PROVE TypeRec'
  BY <1>1 DEF InformerSync, EnvironmentStep, SetCancel, DeleteQuery, GraceElapses,
     BudgetElapses, SettleTask, DiscardTask, update_query_phase, EngineStops, TypeRec
<1>2. ASSUME NEW q \in Queries, ReconcileStep(q) PROVE TypeRec'
  <2> DEFINE o == rec[q].obj
  <2>0. /\ o \in Object /\ server[q] \in Object /\ cache[q] \in Object
        /\ {"queued", "running", "canceled", "error", "timeout"} \subseteq WritablePhase
        /\ {"deleted", "cleanup", "unfinalize", "resume", "spawn"}
              \subseteq RecPC \ {"write", "acquired"}
    BY DEF TypeAPI, TypeRec, Reconcile, RecPC, WritablePhase, Phase
  <2>1. CASE fetchQuery(q)
    <3>1. [pc |-> "fetched", obj |-> cache[q], want |-> None] \in Reconcile
      BY <2>0 DEF Reconcile, RecPC, Want
    <3> QED BY <2>1, <3>1 DEF fetchQuery, TypeRec
  <2>2. CASE RefetchDeleted(q)
    BY <2>0, <2>2 DEF RefetchDeleted, TypeRec, Reconcile, RecPC
  <2>3. CASE DeleteExpired(q)
    BY <2>0, <2>3, AdvanceType, ReturnType DEF DeleteExpired
  <2>4. CASE NotFound(q) \/ TerminalPhase(q) \/ StillWaiting(q) \/ InFlight(q) \/ Spawn(q)
    BY <2>4, ReturnType DEF NotFound, TerminalPhase, StillWaiting, InFlight, Spawn
  <2>5. CASE AddFinalizer(q) \/ RemoveFinalizer(q) \/ InitConditions(q)
    BY <2>5, ReturnType DEF AddFinalizer, RemoveFinalizer, InitConditions, UpdateFetched
  <2>6. CASE finalize(q) \/ deleteBrokerData(q)
    BY <2>0, <2>6, GotoType, ReturnType DEF finalize, deleteBrokerData
  <2>7. CASE InterruptQuery(q)
    BY <2>0, <2>7, GotoWriteType DEF InterruptQuery
  <2>8. CASE handleApprovedTask(q) \/ handleResumableDenial(q)
    BY <2>0, <2>8, AdvanceType DEF handleApprovedTask, handleResumableDenial
  <2>9. CASE handleFailedTask(q)
    <3>1. [o EXCEPT !.resp = "error", !.task = 0] \in Object
      <4>1. "error" \in Resp /\ 0 \in TaskId
        BY BoundsAssumption DEF Resp, TaskId
      <4> QED BY <2>0, <4>1 DEF Object
    <3>2. PICK x \in Object : GotoWrite(q, "write", "error", x)
      BY <2>0, <2>9, <3>1 DEF handleFailedTask
    <3> QED BY <2>0, <3>2, GotoWriteType
  <2>10. CASE stampRoundAnchor(q)
    <3>1. [server[q] EXCEPT !.overdue = FALSE] \in Object
      BY <2>0 DEF Object
    <3> QED BY <2>0, <2>10, <3>1, GotoWriteType, ReturnType DEF stampRoundAnchor
  <2>11. CASE CapacityReached(q) \/ TryAcquire(q)
    BY <2>0, <2>11, GotoWriteType, ReturnType, AdvanceType DEF CapacityReached, TryAcquire
  <2>12. CASE mutateStatus(q)
    BY <2>0, <2>12, ReturnType, AdvanceType DEF mutateStatus
  <2> QED BY <1>2, <2>1, <2>2, <2>3, <2>4, <2>5, <2>6, <2>7, <2>8, <2>9, <2>10, <2>11,
             <2>12 DEF ReconcileStep
<1>3. ASSUME NEW w \in Workers, GoroutineStep(w) \/ StatusUpdateFails(w) PROVE TypeRec'
  BY <1>3 DEF GoroutineStep, executeQueryAsync, sendQueryA2A, handleQueryDispatch,
     HandleA2ATaskResponse, markQueryErroredAfterPanic, CheckContext, StatusUpdate,
     DeleteOperation, Release, StatusUpdateFails, TypeRec
<1>4. ASSUME NEW q \in Queries, ReconcileFails(q) PROVE TypeRec'
  BY <1>4, ReturnType DEF ReconcileFails
<1>5. CASE Crash
  BY <1>5, ConstantTypes DEF Crash, TypeRec, IdleReconcile
<1> QED BY <1>0, <1>1, <1>2, <1>3, <1>4, <1>5 DEF Next, FaultStep

\* A goroutine that is not idle works for a query, and knows what it is about
\* to write.
LEMMA TypeGorStep == ASSUME Types, [Next]_vars PROVE TypeGor'
<1> USE DEF Types, world, memory
<1>0. CASE UNCHANGED vars
  BY <1>0 DEF vars, TypeGor
<1>1. ASSUME NEW q \in Queries, InformerSync(q) \/ EnvironmentStep(q) PROVE TypeGor'
  BY <1>1 DEF InformerSync, EnvironmentStep, SetCancel, DeleteQuery, GraceElapses,
     BudgetElapses, SettleTask, DiscardTask, update_query_phase, EngineStops, TypeGor
<1>2. ASSUME NEW q \in Queries, ReconcileStep(q) PROVE TypeGor'
  <2>1. CASE finalize(q) \/ InterruptQuery(q) \/ stampRoundAnchor(q)
    <3>1. CASE CancelOperation(q)
      BY <3>1, CancelOperationType
    <3>2. CASE UNCHANGED gor
      BY <3>2 DEF TypeGor
    <3> QED BY <2>1, <3>1, <3>2 DEF finalize, InterruptQuery, stampRoundAnchor
  <2>2. CASE Spawn(q)
    <3> DEFINE g == [IdleGoroutine EXCEPT !.pc = "start", !.query = q]
    <3>1. g \in Goroutine
      BY ConstantTypes DEF Goroutine, GorPC
    <3>2. g.pc = "start" /\ g.query = q
      BY DEF IdleGoroutine
    <3>3. PICK w \in Workers : gor' = [gor EXCEPT ![w] = g]
      BY <2>2 DEF Spawn
    <3> QED BY <3>1, <3>2, <3>3 DEF TypeGor
  <2>3. CASE UNCHANGED gor
    BY <2>3 DEF TypeGor
  <2> QED BY <1>2, <2>1, <2>2, <2>3 DEF ReconcileStep, fetchQuery, DeleteExpired,
       RefetchDeleted, NotFound, AddFinalizer, UpdateFetched, deleteBrokerData,
       RemoveFinalizer, InitConditions, TerminalPhase, StillWaiting, handleApprovedTask,
       handleResumableDenial, handleFailedTask, InFlight, CapacityReached, TryAcquire,
       mutateStatus
<1>3. ASSUME NEW w \in Workers, GoroutineStep(w) \/ StatusUpdateFails(w) PROVE TypeGor'
  <2> USE DEF GorPC
  <2>01. /\ {"done", "error", "timeout", "input-required"} \subseteq WritablePhase
         /\ {"nil", "done", "error", "input-required"} \subseteq Resp
    BY DEF WritablePhase, Phase, Resp
  <2>02. 0 \in TaskId /\ \A t \in 1 .. MaxTasks : t \in TaskId
    BY BoundsAssumption DEF TaskId
  <2>03. /\ gor[w].resp \in Resp /\ gor[w].task \in TaskId
         /\ gor[w].pc # "idle" => gor[w].query \in Queries
    BY DEF TypeGor, Goroutine
  <2>1. CASE executeQueryAsync(w)
    <3> DEFINE o == cache[gor[w].query]
               g == [gor[w] EXCEPT !.pc = "dispatch", !.resp = o.resp, !.task = o.task]
    <3>1. o.resp \in Resp /\ o.task \in TaskId
      BY <2>01, <2>02, <2>03, <2>1 DEF executeQueryAsync, TypeAPI, Object
    <3>2. g \in Goroutine /\ g.pc = "dispatch" /\ g.query \in Queries
      BY <2>01, <2>02, <2>03, <2>1, <3>1 DEF executeQueryAsync, TypeGor, Goroutine
    <3>3. CASE gor' = [gor EXCEPT ![w] = g]
      BY <3>2, <3>3 DEF TypeGor
    <3>4. CASE ToWrite(w, "error", o.resp, o.task)
      BY <2>01, <2>02, <2>03, <2>1, <3>1, <3>4, ToWriteType DEF executeQueryAsync
    <3> QED BY <2>1, <3>3, <3>4 DEF executeQueryAsync
  <2>2. CASE sendQueryA2A(w) \/ DeleteOperation(w)
    BY <2>2, StepType DEF sendQueryA2A, DeleteOperation
  <2>3. CASE handleQueryDispatch(w)
    BY <2>01, <2>02, <2>03, <2>3, ToWriteType DEF handleQueryDispatch
  <2>4. CASE HandleA2ATaskResponse(w)
    BY <2>01, <2>02, <2>03, <2>4, ToWriteType DEF HandleA2ATaskResponse
  <2>5. CASE markQueryErroredAfterPanic(w)
    <3>1. cache[gor[w].query].task \in TaskId
      BY <2>01, <2>02, <2>03, <2>5 DEF markQueryErroredAfterPanic, TypeAPI, Object
    <3> QED BY <2>01, <2>02, <2>03, <2>5, <3>1, ToWriteType, FinishType DEF markQueryErroredAfterPanic
  <2>6. CASE CheckContext(w)
    <3>1. gor[w].want \in WritablePhase
      BY <2>6 DEF CheckContext, TypeGor
    <3> QED BY <2>6, <3>1, StepType, FinishType DEF CheckContext
  <2>7. CASE StatusUpdate(w) \/ StatusUpdateFails(w)
    <3>1. gor[w].want \in WritablePhase
      BY <2>7 DEF StatusUpdate, StatusUpdateFails, TypeGor
    <3> QED BY <2>7, <3>1, StepType, FinishType DEF StatusUpdate, StatusUpdateFails
  <2>8. CASE Release(w)
    BY <2>8, ConstantTypes DEF Release, TypeGor, IdleGoroutine
  <2> QED BY <1>3, <2>1, <2>2, <2>3, <2>4, <2>5, <2>6, <2>7, <2>8 DEF GoroutineStep
<1>4. ASSUME NEW q \in Queries, ReconcileFails(q) PROVE TypeGor'
  BY <1>4 DEF ReconcileFails, TypeGor
<1>5. CASE Crash
  BY <1>5, ConstantTypes DEF Crash, TypeGor, IdleGoroutine
<1> QED BY <1>0, <1>1, <1>2, <1>3, <1>4, <1>5 DEF Next, FaultStep

\* The controller's memory and the rest of the world.
LEMMA TypeRestStep == ASSUME Types, [Next]_vars PROVE TypeRest'
<1> USE DEF Types, world, memory
<1>0. CASE UNCHANGED vars
  BY <1>0 DEF vars, TypeRest
<1>f. Fault => faults' \in 0 .. MaxFaults
  BY BoundsAssumption DEF Fault, TypeRest
<1>1. ASSUME NEW q \in Queries, InformerSync(q) \/ EnvironmentStep(q) PROVE TypeRest'
  <2>1. CASE \E t \in 1 .. MaxTasks : SettleTask(q, t) \/ DiscardTask(q, t)
    <3> PICK t \in 1 .. MaxTasks : SettleTask(q, t) \/ DiscardTask(q, t)
      BY <2>1
    <3>1. CASE SettleTask(q, t)
      BY <3>1 DEF SettleTask, TypeRest, TaskPhase
    <3>2. CASE DiscardTask(q, t)
      BY <3>2 DEF DiscardTask, TypeRest, TaskPhase
    <3> QED BY <3>1, <3>2
  <2>2. CASE ~ \E t \in 1 .. MaxTasks : SettleTask(q, t) \/ DiscardTask(q, t)
    BY <1>1, <2>2 DEF InformerSync, EnvironmentStep, SetCancel, DeleteQuery, GraceElapses,
       BudgetElapses, update_query_phase, EngineStops, TypeRest
  <2> QED BY <2>1, <2>2
<1>2. ASSUME NEW q \in Queries, ReconcileStep(q) PROVE TypeRest'
  <2>1. CASE finalize(q) \/ InterruptQuery(q) \/ stampRoundAnchor(q)
    <3>1. operations' \in [Queries -> Workers \cup {None}]
      BY <2>1, CancelOperationType DEF finalize, InterruptQuery, stampRoundAnchor, TypeRest
    <3> QED BY <2>1, <3>1 DEF finalize, InterruptQuery, stampRoundAnchor, TypeRest
  <2>2. CASE Spawn(q)
    BY <2>2 DEF Spawn, TypeRest
  <2>3. CASE handleApprovedTask(q)
    BY <2>3, <1>f DEF handleApprovedTask, TypeRest
  <2>4. CASE mutateStatus(q)
    <3>1. rec[q].obj.task \in TaskId
      BY DEF TypeRec, Reconcile, Object
    <3>2. Resumption(q, rec[q].obj.task) \subseteq 1 .. MaxTasks
      BY <3>1, BoundsAssumption DEF Resumption, TypeRest, TaskId
    <3> QED BY <2>4, <3>2 DEF mutateStatus, TypeRest
  <2>5. CASE UNCHANGED <<operations, world>>
    BY <2>5 DEF TypeRest
  <2> QED BY <1>2, <2>1, <2>2, <2>3, <2>4, <2>5 DEF ReconcileStep, fetchQuery,
       DeleteExpired, RefetchDeleted, NotFound, AddFinalizer, UpdateFetched,
       deleteBrokerData, RemoveFinalizer, InitConditions, TerminalPhase, StillWaiting,
       handleResumableDenial, handleFailedTask, InFlight, CapacityReached, TryAcquire
<1>3. ASSUME NEW w \in Workers, GoroutineStep(w) PROVE TypeRest'
  <2>0. gor[w].pc # "idle" => gor[w].query \in Queries
    BY DEF TypeGor
  <2>1. CASE sendQueryA2A(w) \/ handleQueryDispatch(w)
    BY <2>0, <2>1 DEF sendQueryA2A, handleQueryDispatch, TypeRest
  <2>2. CASE HandleA2ATaskResponse(w)
    BY <2>0, <2>2 DEF HandleA2ATaskResponse, WithTask, TypeRest, TaskPhase
  <2>3. CASE DeleteOperation(w)
    BY <2>0, <2>3 DEF DeleteOperation, WithoutOperation, TypeRest
  <2>4. CASE UNCHANGED <<operations, world>>
    BY <2>4 DEF TypeRest
  <2> QED BY <1>3, <2>1, <2>2, <2>3, <2>4 DEF GoroutineStep, executeQueryAsync,
       markQueryErroredAfterPanic, CheckContext, StatusUpdate, Release
<1>4. CASE FaultStep
  BY <1>4, <1>f DEF FaultStep, ReconcileFails, StatusUpdateFails, Crash, TypeRest
<1> QED BY <1>0, <1>1, <1>2, <1>3, <1>4 DEF Next

\* Initially and after every step.
LEMMA TypesInit == ASSUME Init PROVE Types
<1>1. TypeAPI
  BY ConstantTypes DEF Init, TypeAPI
<1>2. TypeRec
  BY ConstantTypes DEF Init, TypeRec, IdleReconcile
<1>3. TypeGor
  BY ConstantTypes DEF Init, TypeGor, IdleGoroutine
<1>4. TypeRest
  BY BoundsAssumption DEF Init, TypeRest, TaskPhase
<1> QED BY <1>1, <1>2, <1>3, <1>4 DEF Types

LEMMA TypesStep == ASSUME Types, [Next]_vars PROVE Types'
BY TypeAPIStep, TypeRecStep, TypeGorStep, TypeRestStep DEF Types

-----------------------------------------------------------------------------
(***************************************************************************)
(* Where the moves lead: what the arguments below need of a step of a      *)
(* reconcile or of a goroutine.                                            *)
(***************************************************************************)
RecMove(q, pc) == \/ Goto(q, pc)
                  \/ Advance(q, pc)
                  \/ Return(q) /\ pc = "idle"
                  \/ \E want, o : GotoWrite(q, pc, want, o)

GorMove(w, pc) == \/ Step(w, pc)
                  \/ Finish(w, pc)
                  \/ pc = "write" /\ \E want, resp, task : ToWrite(w, want, resp, task)

LEMMA RecMoves ==
    ASSUME TypeRec, NEW q \in Queries, NEW pc, RecMove(q, pc)
    PROVE  /\ rec'[q].pc = pc
           /\ \A p \in Queries \ {q} : rec'[p] = rec[p]
<1>1. CASE Goto(q, pc)
  BY <1>1 DEF Goto, TypeRec, Reconcile
<1>2. CASE Advance(q, pc)
  BY <1>2 DEF Advance, TypeRec, IdleReconcile
<1>3. CASE Return(q) /\ pc = "idle"
  BY <1>3 DEF Return, TypeRec, IdleReconcile
<1>4. CASE \E want, o : GotoWrite(q, pc, want, o)
  BY <1>4 DEF GotoWrite, TypeRec
<1> QED BY <1>1, <1>2, <1>3, <1>4 DEF RecMove

LEMMA GorMoves ==
    ASSUME TypeGor, NEW w \in Workers, NEW pc, GorMove(w, pc)
    PROVE  /\ gor'[w].pc = pc
           /\ gor'[w].query = gor[w].query
           /\ gor'[w].cancelled = gor[w].cancelled
           /\ \A v \in Workers \ {w} : gor'[v] = gor[v]
<1>1. CASE Step(w, pc)
  BY <1>1 DEF TypeGor, Goroutine, Step
<1>2. CASE Finish(w, pc)
  BY <1>2 DEF TypeGor, Finish, IdleGoroutine
<1>3. CASE pc = "write" /\ \E want, resp, task : ToWrite(w, want, resp, task)
  BY <1>3 DEF TypeGor, Goroutine, ToWrite
<1> QED BY <1>1, <1>2, <1>3 DEF GorMove

\* Interrupting an operation changes no goroutine but in its context.
LEMMA CancelMoves ==
    ASSUME TypeGor, TypeRest, NEW q \in Queries, CancelOperation(q)
    PROVE  /\ \A w \in Workers : /\ gor'[w].pc = gor[w].pc
                                 /\ gor'[w].query = gor[w].query
                                 /\ gor'[w].want = gor[w].want
                                 /\ w # operations[q] => gor'[w] = gor[w]
           /\ operations' = [operations EXCEPT ![q] = None]
BY DEF TypeGor, TypeRest, Goroutine, CancelOperation, WithoutOperation

-----------------------------------------------------------------------------
(***************************************************************************)
(* The permits.  Every step leaves them alone, takes one, hands one from a *)
(* reconcile to its goroutine, returns one, or returns them all; the       *)
(* counter moves with them.                                                *)
(***************************************************************************)
Holding(q) == rec[q].pc \in {"acquired", "spawn"}

Keep == PermitHolders' = PermitHolders /\ sem' = sem

Take(q) == /\ q \notin PermitHolders /\ HasCapacity
           /\ PermitHolders' = PermitHolders \cup {q}
           /\ sem' = IF Enforced THEN sem + 1 ELSE sem

Hand(q, w) == /\ q \in PermitHolders /\ w \notin PermitHolders
              /\ PermitHolders' = (PermitHolders \ {q}) \cup {w}
              /\ sem' = sem

GiveBack(x) == /\ x \in PermitHolders
               /\ PermitHolders' = PermitHolders \ {x}
               /\ sem' = IF Enforced THEN sem - 1 ELSE sem

ReturnAll == PermitHolders' = {} /\ sem' = 0

PermitMove == \/ Keep
              \/ \E q \in Queries : Take(q)
              \/ \E q \in Queries, w \in Workers : Hand(q, w)
              \/ \E x \in Queries \cup Workers : GiveBack(x)
              \/ ReturnAll

\* Who holds a permit depends only on the program counters.
LEMMA KeepHolders ==
    ASSUME \A w \in Workers : Live(w)' <=> Live(w),
           \A q \in Queries : Holding(q)' <=> Holding(q), sem' = sem
    PROVE  Keep
BY DEF Keep, PermitHolders, Live, Holding

\* A step of one reconcile that neither holds a permit before nor after, or
\* both before and after.
LEMMA KeepRec ==
    ASSUME TypeRec, NEW q \in Queries, NEW pc, RecMove(q, pc),
           pc \in {"acquired", "spawn"} <=> Holding(q),
           \A w \in Workers : gor'[w].pc = gor[w].pc, sem' = sem
    PROVE  Keep
<1>1. \A p \in Queries : Holding(p)' <=> Holding(p)
  BY RecMoves DEF Holding
<1> QED BY <1>1, KeepHolders DEF Live

\* A step of one goroutine that stays alive.
LEMMA KeepGor ==
    ASSUME TypeGor, NEW w \in Workers, NEW pc, GorMove(w, pc), pc # "idle", gor[w].pc # "idle",
           UNCHANGED <<rec, sem>>
    PROVE  Keep
<1>1. \A v \in Workers : Live(v)' <=> Live(v)
  BY GorMoves DEF Live
<1> QED BY <1>1, KeepHolders DEF Holding

LEMMA PermitStep == ASSUME Types, [Next]_vars PROVE PermitMove
<1> USE DEF Types, world, memory
<1>u. UNCHANGED <<rec, gor, sem>> => Keep
  BY DEF Keep, PermitHolders, Live
<1>0. CASE UNCHANGED vars
  BY <1>0, <1>u DEF vars, PermitMove
<1>1. ASSUME NEW q \in Queries, InformerSync(q) \/ EnvironmentStep(q) PROVE PermitMove
  BY <1>1, <1>u DEF InformerSync, EnvironmentStep, SetCancel, DeleteQuery, GraceElapses,
     BudgetElapses, SettleTask, DiscardTask, update_query_phase, EngineStops, PermitMove
<1>2. ASSUME NEW q \in Queries, ReconcileStep(q) PROVE PermitMove
  <2>0. SUFFICES ASSUME ~ \E p \in Queries : Take(p),
                        ~ \E p \in Queries, w \in Workers : Hand(p, w)
                 PROVE  Keep
    BY DEF PermitMove
  <2> USE DEF Holding
  <2>1. CASE fetchQuery(q) \/ RefetchDeleted(q)
    <3>1. \A p \in Queries : Holding(p)' <=> Holding(p)
      BY <2>1 DEF fetchQuery, RefetchDeleted, TypeRec, Reconcile
    <3> QED BY <2>1, <3>1, KeepHolders DEF fetchQuery, RefetchDeleted, Live
  <2>2. CASE DeleteExpired(q) \/ deleteBrokerData(q)
    <3>1. ~Holding(q) /\ UNCHANGED <<gor, sem>>
      BY <2>2 DEF DeleteExpired, deleteBrokerData
    <3>2. RecMove(q, "deleted") \/ RecMove(q, "unfinalize") \/ RecMove(q, "idle")
      BY <2>2 DEF DeleteExpired, deleteBrokerData, RecMove
    <3> QED BY <3>1, <3>2, KeepRec
  <2>3. CASE \/ NotFound(q) \/ TerminalPhase(q) \/ StillWaiting(q) \/ InFlight(q)
             \/ AddFinalizer(q) \/ RemoveFinalizer(q) \/ InitConditions(q)
    <3>1. ~Holding(q)
      BY <2>3 DEF NotFound, TerminalPhase, StillWaiting, InFlight, AddFinalizer,
         RemoveFinalizer, InitConditions, Startable, AwaitingInput, Dispatching,
         Executable, InHand
    <3>2. Return(q) /\ UNCHANGED <<gor, sem>>
      BY <2>3 DEF NotFound, TerminalPhase, StillWaiting, InFlight, AddFinalizer,
         RemoveFinalizer, InitConditions, UpdateFetched
    <3> QED BY <3>1, <3>2, KeepRec DEF RecMove
  <2>4. CASE finalize(q) \/ InterruptQuery(q) \/ stampRoundAnchor(q)
    <3>1. ~Holding(q) /\ sem' = sem
      BY <2>4 DEF finalize, InterruptQuery, stampRoundAnchor, Executable, InHand
    <3>2. \A w \in Workers : gor'[w].pc = gor[w].pc
      BY <2>4, CancelMoves DEF finalize, InterruptQuery, stampRoundAnchor
    <3>3. RecMove(q, "cleanup") \/ RecMove(q, "idle") \/ RecMove(q, "write")
      BY <2>4 DEF finalize, InterruptQuery, stampRoundAnchor, RecMove
    <3> QED BY <3>1, <3>2, <3>3, KeepRec
  <2>5. CASE handleApprovedTask(q) \/ handleResumableDenial(q)
    <3>1. ~Holding(q)
      BY <2>5 DEF handleApprovedTask, handleResumableDenial, AwaitingInput, Dispatching,
         Executable, InHand
    <3>2. RecMove(q, "resume") /\ UNCHANGED <<gor, sem>>
      BY <2>5 DEF handleApprovedTask, handleResumableDenial, RecMove
    <3> QED BY <3>1, <3>2, KeepRec
  <2>6. CASE handleFailedTask(q) \/ CapacityReached(q)
    <3>1. ~Holding(q)
      BY <2>6 DEF handleFailedTask, CapacityReached, Startable, AwaitingInput, Dispatching,
         Executable, InHand
    <3>2. (RecMove(q, "idle") \/ RecMove(q, "write")) /\ UNCHANGED <<gor, sem>>
      BY <2>6 DEF handleFailedTask, CapacityReached, RecMove
    <3> QED BY <3>1, <3>2, KeepRec
  <2>7. CASE TryAcquire(q)
    <3>1. PICK pc \in {"acquired", "spawn"} :
             RecMove(q, pc)
      BY <2>7 DEF TryAcquire, RecMove
    <3>2. rec'[q].pc = pc /\ \A p \in Queries \ {q} : rec'[p] = rec[p]
      BY <3>1, RecMoves
    <3>3. ~Holding(q)
      BY <2>7 DEF TryAcquire, Startable, Dispatching, Executable, InHand
    <3>4. PermitHolders' = PermitHolders \cup {q} /\ q \notin PermitHolders
      BY <2>7, <3>1, <3>2, <3>3, DistinctAssumption DEF TryAcquire, PermitHolders, Live
    <3>5. Take(q)
      BY <2>7, <3>4 DEF TryAcquire, Take
    <3> QED BY <3>5, <2>0
  <2>8. CASE mutateStatus(q)
    <3>1. CASE rec[q].pc = "acquired"
      <4>1. RecMove(q, "spawn") /\ UNCHANGED <<gor, sem>>
        BY <2>8, <3>1 DEF mutateStatus, RecMove
      <4> QED BY <3>1, <4>1, KeepRec
    <3>2. CASE rec[q].pc = "write"
      <4>1. RecMove(q, "idle") /\ UNCHANGED <<gor, sem>>
        BY <2>8, <3>2 DEF mutateStatus, RecMove
      <4> QED BY <3>2, <4>1, KeepRec
    <3> QED BY <2>8, <3>1, <3>2 DEF mutateStatus
  <2>9. CASE Spawn(q)
    <3>1. PICK w \in Workers :
             /\ gor[w].pc = "idle"
             /\ gor' = [gor EXCEPT ![w] = [IdleGoroutine EXCEPT !.pc = "start", !.query = q]]
      BY <2>9 DEF Spawn
    <3>2. gor'[w].pc = "start" /\ \A v \in Workers \ {w} : gor'[v] = gor[v]
      BY <3>1 DEF TypeGor, IdleGoroutine
    <3>3. rec'[q].pc = "idle" /\ \A p \in Queries \ {q} : rec'[p] = rec[p]
      BY <2>9, RecMoves DEF Spawn, RecMove
    <3>4. Holding(q) /\ sem' = sem
      BY <2>9 DEF Spawn
    <3>5. /\ q \in PermitHolders /\ w \notin PermitHolders
          /\ PermitHolders' = (PermitHolders \ {q}) \cup {w}
      BY <3>1, <3>2, <3>3, <3>4, DistinctAssumption DEF PermitHolders, Live
    <3>6. Hand(q, w)
      BY <3>4, <3>5 DEF Hand
    <3> QED BY <3>6, <2>0
  <2> QED BY <1>2, <2>1, <2>2, <2>3, <2>4, <2>5, <2>6, <2>7, <2>8, <2>9 DEF ReconcileStep
<1>3. ASSUME NEW w \in Workers, GoroutineStep(w) \/ StatusUpdateFails(w) PROVE PermitMove
  <2>1. CASE executeQueryAsync(w)
    <3>1. \A v \in Workers : Live(v)' <=> Live(v)
      BY <2>1 DEF executeQueryAsync, ToWrite, TypeGor, Goroutine, Live
    <3> QED BY <2>1, <3>1, KeepHolders DEF executeQueryAsync, Holding, PermitMove
  <2>2. CASE \/ sendQueryA2A(w) \/ handleQueryDispatch(w) \/ HandleA2ATaskResponse(w)
             \/ markQueryErroredAfterPanic(w) \/ CheckContext(w) \/ StatusUpdate(w)
             \/ DeleteOperation(w) \/ StatusUpdateFails(w)
    <3>1. gor[w].pc # "idle" /\ UNCHANGED <<rec, sem>>
      BY <2>2 DEF sendQueryA2A, handleQueryDispatch, HandleA2ATaskResponse,
         markQueryErroredAfterPanic, CheckContext, StatusUpdate, DeleteOperation,
         StatusUpdateFails
    <3>2. \/ GorMove(w, "executing") \/ GorMove(w, "write") \/ GorMove(w, "update")
          \/ GorMove(w, "finish") \/ GorMove(w, "release")
      BY <2>2 DEF sendQueryA2A, handleQueryDispatch, HandleA2ATaskResponse,
         markQueryErroredAfterPanic, CheckContext, StatusUpdate, DeleteOperation,
         StatusUpdateFails, GorMove
    <3> QED BY <3>1, <3>2, KeepGor DEF PermitMove
  <2>3. CASE Release(w)
    <3>1. Live(w) /\ ~Live(w)' /\ \A v \in Workers \ {w} : gor'[v] = gor[v]
      BY <2>3 DEF Release, TypeGor, Live, IdleGoroutine
    <3>2. w \in PermitHolders /\ PermitHolders' = PermitHolders \ {w}
      BY <2>3, <3>1, DistinctAssumption DEF Release, PermitHolders, Live
    <3>3. GiveBack(w)
      BY <2>3, <3>2 DEF Release, ReleasedSem, GiveBack
    <3> QED BY <3>3 DEF PermitMove
  <2> QED BY <1>3, <2>1, <2>2, <2>3 DEF GoroutineStep
<1>4. ASSUME NEW q \in Queries, ReconcileFails(q) PROVE PermitMove
  <2>1. rec'[q].pc = "idle" /\ \A p \in Queries \ {q} : rec'[p] = rec[p]
    BY <1>4, RecMoves DEF ReconcileFails, RecMove
  <2>2. CASE rec[q].pc = "acquired"
    <3>1. q \in PermitHolders /\ PermitHolders' = PermitHolders \ {q}
      BY <1>4, <2>1, <2>2, DistinctAssumption DEF ReconcileFails, PermitHolders, Live
    <3>2. GiveBack(q)
      BY <1>4, <2>2, <3>1 DEF ReconcileFails, GiveBack
    <3> QED BY <3>2 DEF PermitMove
  <2>3. CASE rec[q].pc # "acquired"
    <3>1. ~Holding(q) /\ RecMove(q, "idle") /\ UNCHANGED <<gor, sem>>
      BY <1>4, <2>3 DEF ReconcileFails, Holding, RecMove
    <3> QED BY <3>1, KeepRec DEF PermitMove
  <2> QED BY <2>2, <2>3
<1>5. CASE Crash
  BY <1>5 DEF Crash, PermitMove, ReturnAll, PermitHolders, Live, IdleReconcile, IdleGoroutine
<1> QED BY <1>0, <1>1, <1>2, <1>3, <1>4, <1>5 DEF Next, FaultStep

\* The counter counts the permits; without a limit it does not move.
Permits == sem \in Nat /\ SemaphoreExact

LEMMA HoldersFinite == IsFiniteSet(PermitHolders)
<1>1. IsFiniteSet(Workers \cup Queries)
  BY WorkersAssumption, QueriesAssumption, FS_Union
<1>2. PermitHolders \in SUBSET (Workers \cup Queries)
  BY DEF PermitHolders
<1> QED BY <1>1, <1>2, FS_Subset

LEMMA PermitsInit == ASSUME Init PROVE Permits
<1>1. PermitHolders = {} /\ sem = 0
  BY DEF Init, PermitHolders, Live, IdleReconcile, IdleGoroutine
<1> QED BY <1>1, FS_EmptySet, BoundsAssumption DEF Permits, SemaphoreExact

LEMMA PermitsStep == ASSUME Permits, PermitMove PROVE Permits'
<1> USE HoldersFinite, BoundsAssumption
<1>0. Cardinality(PermitHolders) \in Nat
  BY FS_CardinalityType
<1>1. CASE Keep
  BY <1>1 DEF Keep, Permits, SemaphoreExact, Enforced
<1>2. ASSUME NEW q \in Queries, Take(q) PROVE Permits'
  <2>1. Cardinality(PermitHolders') = Cardinality(PermitHolders) + 1
    BY <1>2, FS_AddElement DEF Take
  <2> QED BY <1>0, <1>2, <2>1 DEF Take, HasCapacity, Permits, SemaphoreExact, Enforced
<1>3. ASSUME NEW q \in Queries, NEW w \in Workers, Hand(q, w) PROVE Permits'
  <2> DEFINE S == PermitHolders \ {q}
  <2>1. IsFiniteSet(S) /\ Cardinality(S) = Cardinality(PermitHolders) - 1 /\ w \notin S
    BY <1>3, FS_RemoveElement DEF Hand
  <2>2. Cardinality(S \cup {w}) = Cardinality(PermitHolders)
    <3> HIDE DEF S
    <3>1. Cardinality(S \cup {w}) = Cardinality(S) + 1
      BY <2>1, FS_AddElement
    <3> QED BY <1>0, <2>1, <3>1
  <2>3. Cardinality(PermitHolders') = Cardinality(PermitHolders)
    BY <1>3, <2>2 DEF Hand
  <2> QED BY <1>3, <2>3 DEF Hand, Permits, SemaphoreExact, Enforced
<1>4. ASSUME NEW x \in Queries \cup Workers, GiveBack(x) PROVE Permits'
  <2>1. Cardinality(PermitHolders') = Cardinality(PermitHolders) - 1
    BY <1>4, FS_RemoveElement DEF GiveBack
  <2>2. Cardinality(PermitHolders) # 0
    BY <1>4, FS_EmptySet DEF GiveBack
  <2> QED BY <1>0, <1>4, <2>1, <2>2 DEF GiveBack, Permits, SemaphoreExact, Enforced
<1>5. CASE ReturnAll
  BY <1>5, FS_EmptySet DEF ReturnAll, Permits, SemaphoreExact, Enforced
<1> QED BY <1>1, <1>2, <1>3, <1>4, <1>5 DEF PermitMove

-----------------------------------------------------------------------------
(***************************************************************************)
(* The operations map.                                                     *)
(***************************************************************************)
LEMMA TrackedInit == ASSUME Init PROVE TrackedIsLive
BY DEF Init, TrackedIsLive

\* A goroutine that moves on short of its last step stays tracked.
LEMMA TrackedMove ==
    ASSUME TypeGor, TrackedIsLive, NEW w \in Workers, NEW pc, GorMove(w, pc),
           pc \notin {"idle", "release"}, UNCHANGED operations,
           operations \in [Queries -> Workers \cup {None}]
    PROVE  TrackedIsLive'
BY GorMoves DEF TrackedIsLive

LEMMA ExecuteMoves ==
    ASSUME TypeGor, NEW w \in Workers, executeQueryAsync(w)
    PROVE  /\ gor'[w].pc \in {"dispatch", "write"} /\ gor'[w].query = gor[w].query
           /\ gor'[w].cancelled = gor[w].cancelled
           /\ \A v \in Workers \ {w} : gor'[v] = gor[v]
<1>1. CASE \E resp, task : ToWrite(w, "error", resp, task)
  <2>1. GorMove(w, "write")
    BY <1>1 DEF GorMove
  <2> QED BY <2>1, GorMoves
<1>2. ASSUME NEW resp, NEW task,
             gor' = [gor EXCEPT ![w] = [gor[w] EXCEPT !.pc = "dispatch", !.resp = resp,
                                                      !.task = task]]
      PROVE  /\ gor'[w].pc = "dispatch" /\ gor'[w].query = gor[w].query
             /\ gor'[w].cancelled = gor[w].cancelled
             /\ \A v \in Workers \ {w} : gor'[v] = gor[v]
  BY <1>2 DEF TypeGor, Goroutine
<1> QED BY <1>1, <1>2 DEF executeQueryAsync

\* A goroutine that goes on short of its last step.
LEMMA TrackedKept ==
    ASSUME TrackedIsLive, operations \in [Queries -> Workers \cup {None}],
           NEW w \in Workers, UNCHANGED operations,
           gor'[w].pc \notin {"idle", "release"}, gor'[w].query = gor[w].query,
           gor'[w].cancelled = gor[w].cancelled,
           \A v \in Workers \ {w} : gor'[v] = gor[v]
    PROVE  TrackedIsLive'
<1> SUFFICES ASSUME NEW q \in Queries, operations[q] # None
             PROVE  /\ gor'[operations[q]].query = q
                    /\ ~gor'[operations[q]].cancelled
                    /\ gor'[operations[q]].pc \notin {"idle", "release"}
  BY DEF TrackedIsLive
<1>1. operations[q] \in Workers
  OBVIOUS
<1>2. CASE operations[q] = w
  BY <1>2 DEF TrackedIsLive
<1>3. CASE operations[q] # w
  BY <1>1, <1>3 DEF TrackedIsLive
<1> QED BY <1>2, <1>3

LEMMA TrackedStep == ASSUME Types, TrackedIsLive, [Next]_vars PROVE TrackedIsLive'
<1> USE DEF Types, world, memory
<1>u. UNCHANGED <<gor, operations>> => TrackedIsLive'
  BY DEF TrackedIsLive
<1>t. operations \in [Queries -> Workers \cup {None}] /\ None \notin Workers
  BY DistinctAssumption DEF TypeRest
<1>0. CASE UNCHANGED vars
  BY <1>0, <1>u DEF vars
<1>1. ASSUME NEW q \in Queries, InformerSync(q) \/ EnvironmentStep(q) PROVE TrackedIsLive'
  BY <1>1, <1>u DEF InformerSync, EnvironmentStep, SetCancel, DeleteQuery, GraceElapses,
     BudgetElapses, SettleTask, DiscardTask, update_query_phase, EngineStops
<1>2. ASSUME NEW q \in Queries, ReconcileStep(q) PROVE TrackedIsLive'
  <2>1. CASE CancelOperation(q)
    <3>1. \A p \in Queries \ {q} : operations[p] # None => operations[p] # operations[q]
      BY DEF TrackedIsLive
    <3> QED BY <1>t, <2>1, <3>1, CancelMoves DEF TrackedIsLive
  <2>2. CASE Spawn(q)
    <3>1. PICK w \in Workers :
             /\ gor[w].pc = "idle"
             /\ gor' = [gor EXCEPT ![w] = [IdleGoroutine EXCEPT !.pc = "start", !.query = q]]
             /\ operations' = [operations EXCEPT ![q] = w]
      BY <2>2 DEF Spawn
    <3>2. /\ gor'[w].pc = "start" /\ gor'[w].query = q /\ ~gor'[w].cancelled
          /\ \A v \in Workers \ {w} : gor'[v] = gor[v]
      BY <3>1 DEF TypeGor, IdleGoroutine
    <3>3. \A p \in Queries : operations[p] # w
      BY <3>1, <1>t DEF TrackedIsLive
    <3> QED BY <1>t, <3>1, <3>2, <3>3 DEF TrackedIsLive
  <2>3. CASE UNCHANGED <<gor, operations>>
    BY <2>3, <1>u
  <2> QED BY <1>2, <2>1, <2>2, <2>3 DEF ReconcileStep, fetchQuery,
       DeleteExpired, RefetchDeleted, NotFound, AddFinalizer, UpdateFetched, finalize,
       deleteBrokerData, RemoveFinalizer, InitConditions, InterruptQuery, TerminalPhase,
       StillWaiting, handleApprovedTask, handleResumableDenial, handleFailedTask,
       stampRoundAnchor, InFlight, CapacityReached, TryAcquire, mutateStatus
<1>3. ASSUME NEW w \in Workers, GoroutineStep(w) \/ StatusUpdateFails(w)
      PROVE  TrackedIsLive'
  <2>1. CASE executeQueryAsync(w)
    <3>1. /\ gor'[w].pc \notin {"idle", "release"} /\ gor'[w].query = gor[w].query
          /\ gor'[w].cancelled = gor[w].cancelled
          /\ \A v \in Workers \ {w} : gor'[v] = gor[v]
      BY <2>1, ExecuteMoves
    <3>2. gor[w].pc = "start" /\ UNCHANGED operations
      BY <2>1 DEF executeQueryAsync
    <3> QED BY <1>t, <3>1, <3>2, TrackedKept
  <2>2. CASE \/ sendQueryA2A(w) \/ handleQueryDispatch(w) \/ HandleA2ATaskResponse(w)
             \/ markQueryErroredAfterPanic(w) \/ CheckContext(w) \/ StatusUpdate(w)
             \/ StatusUpdateFails(w)
    <3>1. UNCHANGED operations
      BY <2>2 DEF sendQueryA2A, handleQueryDispatch, HandleA2ATaskResponse,
         markQueryErroredAfterPanic, CheckContext, StatusUpdate, StatusUpdateFails
    <3>2. \/ GorMove(w, "executing") \/ GorMove(w, "write") \/ GorMove(w, "update")
          \/ GorMove(w, "finish")
      BY <2>2 DEF sendQueryA2A, handleQueryDispatch, HandleA2ATaskResponse,
         markQueryErroredAfterPanic, CheckContext, StatusUpdate, StatusUpdateFails, GorMove
    <3> QED BY <1>t, <3>1, <3>2, TrackedMove
  <2>3. CASE DeleteOperation(w)
    <3>1. GorMove(w, "release") /\ operations' = [operations EXCEPT ![gor[w].query] = None]
      BY <2>3 DEF DeleteOperation, GorMove, WithoutOperation
    <3> QED BY <1>t, <3>1, GorMoves DEF TrackedIsLive
  <2>4. CASE Release(w)
    <3>1. gor[w].pc = "release" /\ \A v \in Workers \ {w} : gor'[v] = gor[v]
      BY <2>4 DEF Release, TypeGor
    <3>2. \A q \in Queries : operations[q] # w
      BY <1>t, <3>1 DEF TrackedIsLive
    <3> QED BY <1>t, <2>4, <3>1, <3>2 DEF Release, TrackedIsLive
  <2> QED BY <1>3, <2>1, <2>2, <2>3, <2>4 DEF GoroutineStep
<1>4. ASSUME NEW q \in Queries, ReconcileFails(q) PROVE TrackedIsLive'
  BY <1>4, <1>u DEF ReconcileFails
<1>5. CASE Crash
  BY <1>5 DEF Crash, TrackedIsLive
<1> QED BY <1>0, <1>1, <1>2, <1>3, <1>4, <1>5 DEF Next, FaultStep

-----------------------------------------------------------------------------
(***************************************************************************)
(* The API server's object.                                                *)
(***************************************************************************)
\* updateStatus and failQueryOnTimeout complete what they end.
LEMMA WrittenCompleted ==
    ASSUME NEW o \in Object, NEW want \in WritablePhase, NEW resp, NEW task,
           isTerminalPhase(Written(o, want, resp, task).phase)
    PROVE  Written(o, want, resp, task).completed = "True"
<1>1. CASE want = "timeout"
  BY <1>1 DEF Written, Object
<1>2. CASE want # "timeout"
  <2>1. /\ Written(o, want, resp, task).phase = want
        /\ Written(o, want, resp, task).completed = setConditionForPhase(want, o.completed)
    BY <1>2 DEF Written, Object
  <2> QED BY <2>1 DEF setConditionForPhase, isTerminalPhase
<1> QED BY <1>1, <1>2

\* What a step may do to the query q on the server.
CompletedOrOpen(o) == isTerminalPhase(o.phase) => o.completed = "True"

LEMMA CompletedPut ==
    ASSUME TypeAPI, TerminalIsCompleted, NEW q \in Queries, NEW o, Put(q, o),
           CompletedOrOpen(o)
    PROVE  TerminalIsCompleted'
BY DEF TypeAPI, TerminalIsCompleted, Put, CompletedOrOpen

LEMMA CompletedStep ==
    ASSUME Types, TerminalIsCompleted, [Next]_vars PROVE TerminalIsCompleted'
<1> USE DEF Types, world, memory
<1>u. UNCHANGED server => TerminalIsCompleted'
  BY DEF TerminalIsCompleted
<1>g. CompletedOrOpen(Gone)
  BY DEF CompletedOrOpen, Gone, Created, isTerminalPhase
<1>o. ASSUME NEW q \in Queries
      PROVE  server[q] \in Object /\ CompletedOrOpen(server[q])
  BY DEF TypeAPI, TerminalIsCompleted, CompletedOrOpen
<1>0. CASE UNCHANGED vars
  BY <1>0, <1>u DEF vars
<1>1. ASSUME NEW q \in Queries, InformerSync(q) \/ EnvironmentStep(q)
      PROVE  TerminalIsCompleted'
  <2>1. CASE SetCancel(q)
    <3>1. CompletedOrOpen([server[q] EXCEPT !.cancel = TRUE])
      BY <1>o DEF CompletedOrOpen, Object
    <3> QED BY <2>1, <3>1, CompletedPut DEF SetCancel
  <2>2. CASE DeleteQuery(q)
    <3>1. CompletedOrOpen([server[q] EXCEPT !.deleting = TRUE])
      BY <1>o DEF CompletedOrOpen, Object
    <3> QED BY <2>2, <3>1, <1>g, CompletedPut DEF DeleteQuery, DeleteObject
  <2>3. CASE update_query_phase(q)
    <3>1. \A p \in {"provisioning", "running"} :
             CompletedOrOpen([server[q] EXCEPT !.phase = p, !.completed = "False"])
      BY <1>o DEF CompletedOrOpen, Object, isTerminalPhase
    <3> QED BY <2>3, <3>1, CompletedPut DEF update_query_phase
  <2>4. CASE BudgetElapses(q)
    BY <2>4 DEF BudgetElapses, TypeAPI, Object, TerminalIsCompleted
  <2> QED BY <1>1, <1>u, <2>1, <2>2, <2>3, <2>4 DEF InformerSync, EnvironmentStep,
       GraceElapses, SettleTask, DiscardTask, EngineStops
<1>2. ASSUME NEW q \in Queries, ReconcileStep(q) PROVE TerminalIsCompleted'
  <2>1. CASE DeleteExpired(q)
    <3>1. CompletedOrOpen([server[q] EXCEPT !.deleting = TRUE])
      BY <1>o DEF CompletedOrOpen, Object
    <3> QED BY <2>1, <3>1, <1>g, <1>u, CompletedPut DEF DeleteExpired, DeleteObject
  <2>2. CASE AddFinalizer(q)
    <3>1. CompletedOrOpen([server[q] EXCEPT !.finalizer = TRUE])
      BY <1>o DEF CompletedOrOpen, Object
    <3> QED BY <2>2, <3>1, <1>u, CompletedPut DEF AddFinalizer, UpdateFetched
  <2>3. CASE RemoveFinalizer(q)
    BY <2>3, <1>g, <1>u, CompletedPut DEF RemoveFinalizer, UpdateFetched
  <2>4. CASE InitConditions(q)
    <3>1. rec[q].obj = server[q] =>
             CompletedOrOpen([server[q] EXCEPT !.completed = "False"])
      BY <2>4, <1>o DEF InitConditions, CompletedOrOpen, Object
    <3> QED BY <2>4, <3>1, <1>u, CompletedPut DEF InitConditions, UpdateFetched
  <2>5. CASE handleApprovedTask(q)
    <3>1. CompletedOrOpen([server[q] EXCEPT !.cascades = 0])
      BY <1>o DEF CompletedOrOpen, Object
    <3> QED BY <2>5, <3>1, <1>u, CompletedPut DEF handleApprovedTask
  <2>6. CASE handleResumableDenial(q)
    <3>1. \A n : CompletedOrOpen([server[q] EXCEPT !.cascades = n])
      BY <1>o DEF CompletedOrOpen, Object
    <3> QED BY <2>6, <3>1, <1>u, CompletedPut DEF handleResumableDenial
  <2>7. CASE stampRoundAnchor(q)
    <3>1. CompletedOrOpen([server[q] EXCEPT !.overdue = FALSE])
      BY <1>o DEF CompletedOrOpen, Object
    <3> QED BY <2>7, <3>1, <1>u, CompletedPut DEF stampRoundAnchor
  <2>8. CASE mutateStatus(q)
    <3> DEFINE o == Written(server[q], rec[q].want, rec[q].obj.resp, rec[q].obj.task)
    <3>1. rec[q].want \in WritablePhase
      BY <2>8 DEF mutateStatus, TypeRec
    <3>2. CompletedOrOpen(o)
      BY <3>1, <1>o, WrittenCompleted DEF CompletedOrOpen
    <3> HIDE DEF o
    <3>3. Put(q, o) \/ UNCHANGED server
      BY <2>8 DEF mutateStatus, o
    <3> QED BY <3>2, <3>3, <1>u, CompletedPut
  <2> QED BY <1>2, <1>u, <2>1, <2>2, <2>3, <2>4, <2>5, <2>6, <2>7, <2>8 DEF ReconcileStep,
       fetchQuery, RefetchDeleted, NotFound, finalize, deleteBrokerData, InterruptQuery,
       TerminalPhase, StillWaiting, handleFailedTask, InFlight, CapacityReached,
       TryAcquire, Spawn
<1>3. ASSUME NEW w \in Workers, GoroutineStep(w) PROVE TerminalIsCompleted'
  <2>1. CASE StatusUpdate(w)
    <3> DEFINE q == gor[w].query
               o == Written(server[q], gor[w].want, gor[w].resp, gor[w].task)
    <3>1. q \in Queries /\ gor[w].want \in WritablePhase
      BY <2>1 DEF StatusUpdate, TypeGor
    <3>2. CompletedOrOpen(o)
      BY <3>1, <1>o, WrittenCompleted DEF CompletedOrOpen
    <3>3. Put(q, o) \/ UNCHANGED server
      BY <2>1 DEF StatusUpdate
    <3> HIDE DEF q, o
    <3> QED BY <3>1, <3>2, <3>3, <1>u, CompletedPut
  <2> QED BY <1>3, <1>u, <2>1 DEF GoroutineStep, executeQueryAsync, sendQueryA2A,
       handleQueryDispatch, HandleA2ATaskResponse, markQueryErroredAfterPanic,
       CheckContext, DeleteOperation, Release
<1>4. CASE FaultStep
  BY <1>4, <1>u DEF FaultStep, ReconcileFails, StatusUpdateFails, Crash
<1> QED BY <1>0, <1>1, <1>2, <1>3, <1>4 DEF Next

-----------------------------------------------------------------------------
(***************************************************************************)
(* Fresh goroutines: those whose update would succeed.  One that is about  *)
(* to write a timeout read a query that had not ended, and nothing has     *)
(* been written since.                                                     *)
(***************************************************************************)
FreshOK == \A w \in fresh :
              /\ gor[w].pc = "update"
              /\ gor[w].want = "timeout" => ~isTerminalPhase(server[gor[w].query].phase)

\* A step that leaves the goroutines that stay fresh, and what they read, alone.
LEMMA FreshKept ==
    ASSUME FreshOK, fresh' \subseteq fresh,
           \A w \in fresh' : /\ gor'[w].pc = gor[w].pc
                             /\ gor'[w].want = gor[w].want
                             /\ gor'[w].query = gor[w].query
                             /\ server'[gor[w].query].phase = server[gor[w].query].phase
    PROVE  FreshOK'
BY DEF FreshOK

\* A write to the server leaves no goroutine of that query fresh.
LEMMA FreshPut ==
    ASSUME Types, FreshOK, NEW q \in Queries, NEW o, Put(q, o),
           \A w \in Workers : /\ gor'[w].pc = gor[w].pc
                              /\ gor'[w].want = gor[w].want
                              /\ gor'[w].query = gor[w].query
    PROVE  FreshOK'
<1>1. \A w \in fresh' : /\ w \in Workers /\ w \in fresh
                         /\ gor[w].query \in Queries \ {q}
  BY DEF Types, TypeAPI, TypeGor, FreshOK, Put
<1>2. \A p \in Queries \ {q} : server'[p] = server[p]
  BY DEF Types, TypeAPI, Put
<1> QED BY <1>1, <1>2, FreshKept

LEMMA FreshStep == ASSUME Types, FreshOK, [Next]_vars PROVE FreshOK'
<1> USE DEF Types, world, memory
<1>w. fresh \subseteq Workers
  BY DEF TypeAPI
<1>q. \A w \in fresh : gor[w].query \in Queries
  BY <1>w DEF FreshOK, TypeGor
<1>u. UNCHANGED <<server, fresh, gor>> => FreshOK'
  BY DEF FreshOK
<1>0. CASE UNCHANGED vars
  BY <1>0, <1>u DEF vars
<1>1. ASSUME NEW q \in Queries, InformerSync(q) \/ EnvironmentStep(q) PROVE FreshOK'
  <2>1. CASE BudgetElapses(q)
    <3>1. \A p \in Queries : server'[p].phase = server[p].phase
      BY <2>1 DEF BudgetElapses, TypeAPI, Object
    <3> QED BY <1>q, <2>1, <3>1, FreshKept DEF BudgetElapses
  <2>2. CASE SetCancel(q) \/ DeleteQuery(q) \/ update_query_phase(q)
    <3>1. UNCHANGED gor /\ \E o : Put(q, o)
      BY <2>2 DEF SetCancel, DeleteQuery, DeleteObject, update_query_phase
    <3> QED BY <3>1, FreshPut
  <2> QED BY <1>1, <1>u, <2>1, <2>2 DEF InformerSync, EnvironmentStep, GraceElapses,
       SettleTask, DiscardTask, EngineStops
<1>2. ASSUME NEW q \in Queries, ReconcileStep(q) PROVE FreshOK'
  <2>1. CASE Spawn(q)
    <3>1. PICK w \in Workers : gor[w].pc = "idle" /\ \A v \in Workers \ {w} : gor'[v] = gor[v]
      BY <2>1 DEF Spawn, TypeGor
    <3>2. w \notin fresh
      BY <3>1 DEF FreshOK
    <3> QED BY <1>w, <2>1, <3>1, <3>2, FreshKept DEF Spawn
  <2>2. CASE ~Spawn(q)
    <3>1. UNCHANGED gor \/ CancelOperation(q)
      BY <1>2, <2>2 DEF ReconcileStep, fetchQuery, DeleteExpired, RefetchDeleted, NotFound,
         AddFinalizer, UpdateFetched, finalize, deleteBrokerData, RemoveFinalizer,
         InitConditions, InterruptQuery, TerminalPhase, StillWaiting, handleApprovedTask,
         handleResumableDenial, handleFailedTask, stampRoundAnchor, InFlight,
         CapacityReached, TryAcquire, mutateStatus
    <3>2. \A w \in Workers : /\ gor'[w].pc = gor[w].pc /\ gor'[w].want = gor[w].want
                             /\ gor'[w].query = gor[w].query
      BY <3>1, CancelMoves
    <3>3. UNCHANGED <<server, fresh>> \/ \E o : Put(q, o)
      BY <1>2, <2>2 DEF ReconcileStep, fetchQuery, DeleteExpired, DeleteObject,
         RefetchDeleted, NotFound, AddFinalizer, UpdateFetched, finalize, deleteBrokerData,
         RemoveFinalizer, InitConditions, InterruptQuery, TerminalPhase, StillWaiting,
         handleApprovedTask, handleResumableDenial, handleFailedTask, stampRoundAnchor,
         InFlight, CapacityReached, TryAcquire, mutateStatus
    <3>4. CASE UNCHANGED <<server, fresh>>
      BY <1>w, <3>2, <3>4, FreshKept
    <3> QED BY <3>2, <3>3, <3>4, FreshPut
  <2> QED BY <2>1, <2>2
<1>3. ASSUME NEW w \in Workers, GoroutineStep(w) \/ StatusUpdateFails(w) PROVE FreshOK'
  <2>1. CASE gor[w].pc # "update" /\ UNCHANGED <<server, fresh>>
             /\ \A v \in Workers \ {w} : gor'[v] = gor[v]
    <3>1. w \notin fresh
      BY <2>1 DEF FreshOK
    <3> QED BY <1>w, <2>1, <3>1, FreshKept
  <2>2. CASE executeQueryAsync(w)
    <3>1. \A v \in Workers \ {w} : gor'[v] = gor[v]
      BY <2>2 DEF executeQueryAsync, ToWrite, TypeGor
    <3> QED BY <2>1, <2>2, <3>1 DEF executeQueryAsync
  <2>3. CASE \/ sendQueryA2A(w) \/ handleQueryDispatch(w) \/ HandleA2ATaskResponse(w)
             \/ markQueryErroredAfterPanic(w) \/ DeleteOperation(w)
    <3>1. \/ GorMove(w, "executing") \/ GorMove(w, "write") \/ GorMove(w, "finish")
          \/ GorMove(w, "release")
      BY <2>3 DEF sendQueryA2A, handleQueryDispatch, HandleA2ATaskResponse,
         markQueryErroredAfterPanic, DeleteOperation, GorMove
    <3>2. gor[w].pc # "update" /\ UNCHANGED <<server, fresh>>
      BY <2>3 DEF sendQueryA2A, handleQueryDispatch, HandleA2ATaskResponse,
         markQueryErroredAfterPanic, DeleteOperation
    <3> QED BY <2>1, <3>1, <3>2, GorMoves
  <2>4. CASE Release(w)
    BY <2>1, <2>4 DEF Release, TypeGor
  <2>5. CASE CheckContext(w)
    <3>1. gor[w].pc = "write" /\ w \notin fresh /\ UNCHANGED server
      BY <2>5 DEF CheckContext, FreshOK
    <3>2. CASE Finish(w, "finish") /\ UNCHANGED fresh
      BY <2>1, <3>1, <3>2, GorMoves DEF GorMove
    <3>3. CASE /\ Step(w, "update") /\ ~Declined(cache[gor[w].query], gor[w].want)
               /\ fresh' = IF cache[gor[w].query] = server[gor[w].query]
                           THEN fresh \cup {w} ELSE fresh
      <4>1. /\ gor'[w] = [gor[w] EXCEPT !.pc = "update"]
            /\ \A v \in Workers \ {w} : gor'[v] = gor[v]
        BY <3>3 DEF Step, TypeGor
      <4>2. /\ gor'[w].pc = "update" /\ gor'[w].want = gor[w].want
            /\ gor'[w].query = gor[w].query
        BY <4>1 DEF TypeGor, Goroutine
      <4>3. w \in fresh' /\ gor[w].want = "timeout" =>
              ~isTerminalPhase(server[gor[w].query].phase)
        BY <3>1, <3>3 DEF Declined
      <4>4. \A v \in fresh' \ {w} : v \in fresh /\ v \in Workers \ {w}
        <5>1. fresh' \subseteq fresh \cup {w}
          BY <3>3
        <5> QED BY <1>w, <5>1
      <4>5. \A v \in fresh' \ {w} :
              /\ gor'[v].pc = "update"
              /\ gor'[v].want = "timeout" => ~isTerminalPhase(server[gor'[v].query].phase)
        BY <4>1, <4>4 DEF FreshOK
      <4> QED BY <3>1, <4>2, <4>3, <4>4, <4>5 DEF FreshOK
    <3> QED BY <2>5, <3>2, <3>3 DEF CheckContext
  <2>6. CASE StatusUpdate(w)
    <3>1. gor[w].query \in Queries
      BY <2>6 DEF StatusUpdate, TypeGor
    <3>2. \A v \in Workers \ {w} : gor'[v] = gor[v]
      BY <2>6, GorMoves DEF StatusUpdate, GorMove
    <3>3. CASE w \in fresh
      <4>1. PICK o : Put(gor[w].query, o)
        BY <2>6, <3>3 DEF StatusUpdate, NoConflict
      <4>2. \A v \in fresh' : v # w /\ v \in fresh
                              /\ gor[v].query \in Queries \ {gor[w].query}
        BY <1>q, <4>1 DEF Put
      <4>3. \A p \in Queries \ {gor[w].query} : server'[p] = server[p]
        BY <3>1, <4>1 DEF Put, TypeAPI
      <4> QED BY <1>w, <3>2, <4>2, <4>3, FreshKept
    <3>4. CASE w \notin fresh
      BY <1>w, <2>6, <3>2, <3>4, FreshKept DEF StatusUpdate, NoConflict
    <3> QED BY <3>3, <3>4
  <2>7. CASE StatusUpdateFails(w)
    <3>1. \A v \in Workers \ {w} : gor'[v] = gor[v]
      BY <2>7, GorMoves DEF StatusUpdateFails, GorMove
    <3> QED BY <1>w, <2>7, <3>1, FreshKept DEF StatusUpdateFails
  <2> QED BY <1>3, <2>2, <2>3, <2>4, <2>5, <2>6, <2>7 DEF GoroutineStep
<1>4. ASSUME NEW q \in Queries, ReconcileFails(q) PROVE FreshOK'
  BY <1>4, <1>u DEF ReconcileFails
<1>5. CASE Crash
  BY <1>5 DEF Crash, FreshOK
<1> QED BY <1>0, <1>1, <1>2, <1>3, <1>4, <1>5 DEF Next, FaultStep

-----------------------------------------------------------------------------
(***************************************************************************)
(* The task a query waits for.  A goroutine that is to write the phase     *)
(* input-required carries a response that names a task, and created the    *)
(* task before; no reconcile writes that phase; every other write replaces *)
(* the phase or leaves both it and the task alone.                         *)
(***************************************************************************)
\* A task of q that was created, which it stays.
TaskCreated(q, t) == t \in 1 .. MaxTasks /\ tasks[q][t] # "absent"

AwaitOK(q, o) == o.phase = "input-required" => TaskCreated(q, o.task)

Awaits == \A q \in Queries : AwaitOK(q, server[q])

Asks(g) == g.pc \in {"write", "update"} /\ g.want = "input-required" =>
             g.resp # "nil" /\ g.query \in Queries /\ TaskCreated(g.query, g.task)

NoAsk(r) == r.pc \in {"write", "acquired"} => r.want # "input-required"

AsksOK == /\ \A w \in Workers : Asks(gor[w])
          /\ \A q \in Queries : NoAsk(rec[q])

LEMMA TasksGrow ==
    ASSUME Types, [Next]_vars, NEW q \in Queries, NEW t, TaskCreated(q, t)
    PROVE  TaskCreated(q, t)'
<1> USE DEF Types, TypeRest, world, memory
<1>u. UNCHANGED tasks => TaskCreated(q, t)'
  BY DEF TaskCreated
<1>0. CASE UNCHANGED vars
  BY <1>0, <1>u DEF vars
<1>1. ASSUME NEW p \in Queries, InformerSync(p) \/ EnvironmentStep(p) PROVE TaskCreated(q, t)'
  <2>1. ASSUME NEW u \in 1 .. MaxTasks, SettleTask(p, u) PROVE TaskCreated(q, t)'
    <3>1. PICK d \in {"completed", "denied", "failed"} : tasks' = [tasks EXCEPT ![p][u] = d]
      BY <2>1 DEF SettleTask
    <3> QED BY <3>1 DEF TaskCreated
  <2>2. ASSUME NEW u \in 1 .. MaxTasks, DiscardTask(p, u) PROVE TaskCreated(q, t)'
    BY <2>2 DEF DiscardTask, TaskCreated
  <2> QED BY <1>1, <1>u, <2>1, <2>2 DEF InformerSync, EnvironmentStep, SetCancel, DeleteQuery,
       GraceElapses, BudgetElapses, update_query_phase, EngineStops
<1>2. ASSUME NEW p \in Queries, ReconcileStep(p) PROVE TaskCreated(q, t)'
  BY <1>2, <1>u DEF ReconcileStep, fetchQuery, DeleteExpired, RefetchDeleted, NotFound,
     AddFinalizer, UpdateFetched, finalize, deleteBrokerData, RemoveFinalizer,
     InitConditions, InterruptQuery, TerminalPhase, StillWaiting, handleApprovedTask,
     handleResumableDenial, handleFailedTask, stampRoundAnchor, InFlight,
     CapacityReached, TryAcquire, mutateStatus, Spawn
<1>3. ASSUME NEW w \in Workers, GoroutineStep(w) PROVE TaskCreated(q, t)'
  <2>1. CASE HandleA2ATaskResponse(w)
    <3>1. PICK u \in 1 .. MaxTasks : tasks' = [tasks EXCEPT ![gor[w].query][u] = "input-required"]
      BY <2>1 DEF HandleA2ATaskResponse, WithTask
    <3> QED BY <3>1 DEF TaskCreated
  <2> QED BY <1>3, <1>u, <2>1 DEF GoroutineStep, executeQueryAsync, sendQueryA2A,
       handleQueryDispatch, markQueryErroredAfterPanic, CheckContext, StatusUpdate,
       DeleteOperation, Release
<1>4. CASE FaultStep
  BY <1>4, <1>u DEF FaultStep, ReconcileFails, StatusUpdateFails, Crash
<1> QED BY <1>0, <1>1, <1>2, <1>3, <1>4 DEF Next

\* No reconcile is about to write input-required.
LEMMA WantStep ==
    ASSUME Types, AsksOK, [Next]_vars PROVE \A q \in Queries : NoAsk(rec[q])'
<1> USE DEF Types, world, memory
<1>u. UNCHANGED rec => \A q \in Queries : NoAsk(rec[q])'
  BY DEF AsksOK, NoAsk
<1>m. ASSUME NEW q \in Queries,
             \/ Return(q)
             \/ \E pc \in RecPC \ {"write", "acquired"} : Goto(q, pc) \/ Advance(q, pc)
             \/ \E pc, o : \E want \in {"queued", "running", "canceled", "timeout", "error"} :
                   GotoWrite(q, pc, want, o)
      PROVE  \A p \in Queries : NoAsk(rec[p])'
  <2>1. CASE Return(q)
    BY <1>m, <2>1 DEF Return, IdleReconcile, AsksOK, NoAsk, TypeRec
  <2>2. ASSUME NEW pc \in RecPC \ {"write", "acquired"}, Goto(q, pc)
        PROVE  \A p \in Queries : NoAsk(rec[p])'
    BY <1>m, <2>2 DEF Goto, AsksOK, NoAsk, TypeRec, Reconcile
  <2>3. ASSUME NEW pc \in RecPC \ {"write", "acquired"}, Advance(q, pc)
        PROVE  \A p \in Queries : NoAsk(rec[p])'
    BY <1>m, <2>3 DEF Advance, IdleReconcile, AsksOK, NoAsk, TypeRec
  <2>4. ASSUME NEW pc, NEW o, NEW want \in {"queued", "running", "canceled", "timeout", "error"},
               GotoWrite(q, pc, want, o)
        PROVE  \A p \in Queries : NoAsk(rec[p])'
    BY <1>m, <2>4 DEF GotoWrite, AsksOK, NoAsk, TypeRec
  <2> QED BY <1>m, <2>1, <2>2, <2>3, <2>4
<1>0. CASE UNCHANGED vars
  BY <1>0, <1>u DEF vars
<1>1. ASSUME NEW q \in Queries, InformerSync(q) \/ EnvironmentStep(q)
      PROVE  \A p \in Queries : NoAsk(rec[p])'
  BY <1>1, <1>u DEF InformerSync, EnvironmentStep, SetCancel, DeleteQuery, GraceElapses,
     BudgetElapses, SettleTask, DiscardTask, update_query_phase, EngineStops
<1>2. ASSUME NEW q \in Queries, ReconcileStep(q)
      PROVE  \A p \in Queries : NoAsk(rec[p])'
  <2>1. CASE fetchQuery(q) \/ RefetchDeleted(q)
    BY <2>1 DEF fetchQuery, RefetchDeleted, AsksOK, NoAsk, TypeRec, Reconcile
  <2>2. CASE ~fetchQuery(q) /\ ~RefetchDeleted(q)
    BY <1>2, <2>2, <1>m DEF ReconcileStep, DeleteExpired, NotFound,
       AddFinalizer, UpdateFetched, finalize, deleteBrokerData, RemoveFinalizer,
       InitConditions, InterruptQuery, TerminalPhase, StillWaiting, handleApprovedTask,
       handleResumableDenial, handleFailedTask, stampRoundAnchor, InFlight,
       CapacityReached, TryAcquire, mutateStatus, Spawn, RecPC
  <2> QED BY <2>1, <2>2
<1>3. ASSUME NEW w \in Workers, GoroutineStep(w)
      PROVE  \A p \in Queries : NoAsk(rec[p])'
  BY <1>3, <1>u DEF GoroutineStep, executeQueryAsync, sendQueryA2A, handleQueryDispatch,
     HandleA2ATaskResponse, markQueryErroredAfterPanic, CheckContext, StatusUpdate,
     DeleteOperation, Release
<1>4. ASSUME NEW q \in Queries, ReconcileFails(q)
      PROVE  \A p \in Queries : NoAsk(rec[p])'
  BY <1>4, <1>m DEF ReconcileFails
<1>5. ASSUME NEW w \in Workers, StatusUpdateFails(w)
      PROVE  \A p \in Queries : NoAsk(rec[p])'
  BY <1>5, <1>u DEF StatusUpdateFails
<1>6. CASE Crash
  BY <1>6 DEF Crash, IdleReconcile, NoAsk
<1> QED BY <1>0, <1>1, <1>2, <1>3, <1>4, <1>5, <1>6 DEF Next, FaultStep

\* A goroutine about to write input-required names a task that exists.
LEMMA AsksStep == ASSUME Types, AsksOK, [Next]_vars PROVE AsksOK'
<1> USE DEF Types, world, memory
<1>k. ASSUME NEW w \in Workers, gor'[w].want = gor[w].want, gor'[w].query = gor[w].query,
             gor'[w].resp = gor[w].resp, gor'[w].task = gor[w].task,
             gor'[w].pc \in {"write", "update"} => gor[w].pc \in {"write", "update"}
      PROVE  Asks(gor[w])'
  BY <1>k, TasksGrow DEF Asks, AsksOK
<1>f. ASSUME NEW w \in Workers,
             gor'[w].pc \in {"write", "update"} => gor'[w].want # "input-required"
      PROVE  Asks(gor[w])'
  BY <1>f DEF Asks
<1>u. UNCHANGED gor => \A w \in Workers : Asks(gor[w])'
  BY <1>k
<1>0. ASSUME UNCHANGED vars PROVE \A w \in Workers : Asks(gor[w])'
  BY <1>0, <1>u DEF vars
<1>1. ASSUME NEW q \in Queries, InformerSync(q) \/ EnvironmentStep(q)
      PROVE  \A w \in Workers : Asks(gor[w])'
  BY <1>1, <1>u DEF InformerSync, EnvironmentStep, SetCancel, DeleteQuery, GraceElapses,
     BudgetElapses, SettleTask, DiscardTask, update_query_phase, EngineStops
<1>2. ASSUME NEW q \in Queries, ReconcileStep(q) PROVE \A w \in Workers : Asks(gor[w])'
  <2>1. CASE Spawn(q)
    <3>1. \A w \in Workers : gor'[w] = gor[w] \/ gor'[w].pc = "start"
      BY <2>1 DEF Spawn, TypeGor, IdleGoroutine
    <3> QED BY <3>1, <1>k, <1>f
  <2>2. CASE CancelOperation(q)
    <3>1. \A w \in Workers : /\ gor'[w].want = gor[w].want /\ gor'[w].query = gor[w].query
                             /\ gor'[w].resp = gor[w].resp /\ gor'[w].task = gor[w].task
                             /\ gor'[w].pc = gor[w].pc
      BY <2>2 DEF CancelOperation, TypeGor, Goroutine
    <3> QED BY <3>1, <1>k
  <2>3. UNCHANGED gor \/ CancelOperation(q) \/ Spawn(q)
    BY <1>2 DEF ReconcileStep, fetchQuery, DeleteExpired, RefetchDeleted, NotFound,
       AddFinalizer, UpdateFetched, finalize, deleteBrokerData, RemoveFinalizer,
       InitConditions, InterruptQuery, TerminalPhase, StillWaiting, handleApprovedTask,
       handleResumableDenial, handleFailedTask, stampRoundAnchor, InFlight,
       CapacityReached, TryAcquire, mutateStatus
  <2> QED BY <1>u, <2>1, <2>2, <2>3
<1>3. ASSUME NEW w \in Workers, GoroutineStep(w) \/ StatusUpdateFails(w)
      PROVE  \A v \in Workers : Asks(gor[v])'
  <2>s. ASSUME NEW pc, Step(w, pc),
               pc \in {"write", "update"} => gor[w].pc \in {"write", "update"}
        PROVE  \A v \in Workers : Asks(gor[v])'
    <3>1. /\ gor'[w].want = gor[w].want /\ gor'[w].query = gor[w].query
          /\ gor'[w].resp = gor[w].resp /\ gor'[w].task = gor[w].task
          /\ gor'[w].pc = pc
          /\ \A v \in Workers \ {w} : gor'[v] = gor[v]
      BY <2>s DEF Step, TypeGor, Goroutine
    <3> QED BY <2>s, <3>1, <1>k
  <2>f. ASSUME Finish(w, "finish") PROVE \A v \in Workers : Asks(gor[v])'
    <3>1. gor'[w].pc = "finish" /\ \A v \in Workers \ {w} : gor'[v] = gor[v]
      BY <2>f DEF Finish, TypeGor, IdleGoroutine
    <3> QED BY <3>1, <1>k, <1>f
  <2>w. ASSUME NEW want \in {"done", "error", "timeout"}, NEW resp, NEW task,
               ToWrite(w, want, resp, task)
        PROVE  \A v \in Workers : Asks(gor[v])'
    <3>1. gor'[w].want = want /\ \A v \in Workers \ {w} : gor'[v] = gor[v]
      BY <2>w DEF ToWrite, TypeGor, Goroutine
    <3> QED BY <3>1, <1>k, <1>f
  <2>1. CASE executeQueryAsync(w)
    <3>1. CASE \E o : gor' = [gor EXCEPT ![w] = [@ EXCEPT !.pc = "dispatch", !.resp = o.resp,
                                                          !.task = o.task]]
      <4>1. gor'[w].pc = "dispatch" /\ \A v \in Workers \ {w} : gor'[v] = gor[v]
        BY <3>1 DEF TypeGor, Goroutine
      <4> QED BY <4>1, <1>k, <1>f
    <3> QED BY <2>1, <2>w, <3>1 DEF executeQueryAsync
  <2>2. CASE HandleA2ATaskResponse(w)
    <3>1. PICK t \in 1 .. MaxTasks :
             /\ tasks' = [tasks EXCEPT ![gor[w].query][t] = "input-required"]
             /\ ToWrite(w, "input-required", "input-required", t)
      BY <2>2 DEF HandleA2ATaskResponse, WithTask
    <3>2. gor[w].query \in Queries
      BY <2>2 DEF HandleA2ATaskResponse, TypeGor
    <3>3. /\ gor'[w].resp = "input-required" /\ gor'[w].task = t /\ gor'[w].pc = "write"
          /\ gor'[w].query = gor[w].query
          /\ \A v \in Workers \ {w} : gor'[v] = gor[v]
      BY <3>1 DEF ToWrite, TypeGor, Goroutine
    <3>4. tasks'[gor[w].query][t] = "input-required"
      BY <3>1, <3>2 DEF TypeRest
    <3>5. Asks(gor[w])'
      BY <3>2, <3>3, <3>4 DEF Asks, TaskCreated
    <3> QED BY <3>3, <3>5, <1>k
  <2>3. CASE Release(w)
    <3>1. gor'[w].pc = "idle" /\ \A v \in Workers \ {w} : gor'[v] = gor[v]
      BY <2>3 DEF Release, TypeGor, IdleGoroutine
    <3> QED BY <3>1, <1>k, <1>f
  <2> QED BY <1>3, <2>s, <2>f, <2>w, <2>1, <2>2, <2>3 DEF GoroutineStep, sendQueryA2A,
       handleQueryDispatch, markQueryErroredAfterPanic, CheckContext, StatusUpdate,
       StatusUpdateFails, DeleteOperation
<1>4. ASSUME NEW q \in Queries, ReconcileFails(q) PROVE \A w \in Workers : Asks(gor[w])'
  BY <1>4, <1>u DEF ReconcileFails
<1>5. ASSUME Crash PROVE \A w \in Workers : Asks(gor[w])'
  <2>1. \A w \in Workers : gor'[w].pc = "idle"
    BY <1>5 DEF Crash, IdleGoroutine
  <2> QED BY <2>1, <1>f
<1>6. \A w \in Workers : Asks(gor[w])'
  BY <1>0, <1>1, <1>2, <1>3, <1>4, <1>5 DEF Next, FaultStep
<1> QED BY <1>6, WantStep DEF AsksOK

\* A write to the API server.
LEMMA AwaitPut ==
    ASSUME Types, Awaits, [Next]_vars, NEW q \in Queries, NEW o, Put(q, o), AwaitOK(q, o)'
    PROVE  Awaits'
<1>1. \A p \in Queries : server'[p] = IF p = q THEN o ELSE server[p]
  BY DEF Types, TypeAPI, Put
<1>2. ASSUME NEW p \in Queries, p # q PROVE AwaitOK(p, server[p])'
  BY <1>1, <1>2, TasksGrow DEF Awaits, AwaitOK
<1>3. AwaitOK(q, server[q])'
  BY <1>1 DEF AwaitOK
<1> QED BY <1>2, <1>3 DEF Awaits

\* A step that keeps the phase and the task of the object it writes.
LEMMA AwaitSame ==
    ASSUME Types, Awaits, [Next]_vars, NEW q \in Queries, NEW o,
           o.phase = server[q].phase, o.task = server[q].task, Put(q, o)
    PROVE  Awaits'
BY AwaitPut, TasksGrow DEF Awaits, AwaitOK

LEMMA AwaitStep == ASSUME Types, AsksOK, Awaits, [Next]_vars PROVE Awaits'
<1> USE DEF Types, world, memory
<1>u. UNCHANGED server => Awaits'
  BY TasksGrow DEF Awaits, AwaitOK
<1>o. ASSUME NEW q \in Queries PROVE server[q] \in Object
  BY DEF TypeAPI
<1>g. ASSUME NEW q \in Queries, Put(q, Gone) PROVE Awaits'
  BY <1>g, AwaitPut DEF AwaitOK, Gone, Created
<1>d. ASSUME NEW q \in Queries, DeleteObject(q) PROVE Awaits'
  <2> DEFINE o == [server[q] EXCEPT !.deleting = TRUE]
  <2>1. o.phase = server[q].phase /\ o.task = server[q].task
    BY <1>o DEF Object
  <2> QED BY <1>d, <1>g, <2>1, AwaitSame DEF DeleteObject
<1>0. CASE UNCHANGED vars
  BY <1>0, <1>u DEF vars
<1>1. ASSUME NEW q \in Queries, InformerSync(q) \/ EnvironmentStep(q) PROVE Awaits'
  <2>1. CASE SetCancel(q)
    <3> DEFINE o == [server[q] EXCEPT !.cancel = TRUE]
    <3>1. o.phase = server[q].phase /\ o.task = server[q].task
      BY <1>o DEF Object
    <3> QED BY <2>1, <3>1, AwaitSame DEF SetCancel
  <2>2. CASE DeleteQuery(q)
    BY <2>2, <1>d DEF DeleteQuery
  <2>3. CASE update_query_phase(q)
    <3>1. PICK p \in {"provisioning", "running"} :
             Put(q, [server[q] EXCEPT !.phase = p, !.completed = "False"])
      BY <2>3 DEF update_query_phase
    <3> DEFINE o == [server[q] EXCEPT !.phase = p, !.completed = "False"]
    <3>2. o.phase # "input-required"
      BY <1>o DEF Object
    <3> QED BY <3>1, <3>2, AwaitPut DEF AwaitOK
  <2>4. CASE BudgetElapses(q)
    <3>1. \A p \in Queries : server'[p].phase = server[p].phase
                             /\ server'[p].task = server[p].task
      BY <2>4 DEF BudgetElapses, TypeAPI, Object
    <3> QED BY <3>1, TasksGrow DEF Awaits, AwaitOK
  <2> QED BY <1>1, <1>u, <2>1, <2>2, <2>3, <2>4 DEF InformerSync, EnvironmentStep,
       GraceElapses, SettleTask, DiscardTask, EngineStops
<1>2. ASSUME NEW q \in Queries, ReconcileStep(q) PROVE Awaits'
  <2>1. CASE DeleteExpired(q)
    BY <2>1, <1>d, <1>u DEF DeleteExpired
  <2>2. CASE AddFinalizer(q)
    <3> DEFINE o == [server[q] EXCEPT !.finalizer = TRUE]
    <3>1. o.phase = server[q].phase /\ o.task = server[q].task
      BY <1>o DEF Object
    <3> QED BY <2>2, <3>1, <1>u, AwaitSame DEF AddFinalizer, UpdateFetched
  <2>3. CASE RemoveFinalizer(q)
    BY <2>3, <1>g, <1>u DEF RemoveFinalizer, UpdateFetched
  <2>4. CASE InitConditions(q)
    <3> DEFINE o == [server[q] EXCEPT !.completed = "False"]
    <3>1. o.phase = server[q].phase /\ o.task = server[q].task
      BY <1>o DEF Object
    <3> QED BY <2>4, <3>1, <1>u, AwaitSame DEF InitConditions, UpdateFetched
  <2>5. CASE handleApprovedTask(q)
    <3> DEFINE o == [server[q] EXCEPT !.cascades = 0]
    <3>1. o.phase = server[q].phase /\ o.task = server[q].task
      BY <1>o DEF Object
    <3> QED BY <2>5, <3>1, <1>u, AwaitSame DEF handleApprovedTask
  <2>6. CASE handleResumableDenial(q)
    <3> DEFINE o == [server[q] EXCEPT !.cascades = IncrementedCount(rec[q].obj.cascades)]
    <3>1. o.phase = server[q].phase /\ o.task = server[q].task
      BY <1>o DEF Object
    <3> QED BY <2>6, <3>1, <1>u, AwaitSame DEF handleResumableDenial
  <2>7. CASE stampRoundAnchor(q)
    <3> DEFINE o == [server[q] EXCEPT !.overdue = FALSE]
    <3>1. o.phase = server[q].phase /\ o.task = server[q].task
      BY <1>o DEF Object
    <3> QED BY <2>7, <3>1, <1>u, AwaitSame DEF stampRoundAnchor
  <2>8. CASE mutateStatus(q)
    <3> DEFINE o == Written(server[q], rec[q].want, rec[q].obj.resp, rec[q].obj.task)
    <3>1. rec[q].want # "input-required"
      BY <2>8 DEF mutateStatus, AsksOK, NoAsk
    <3>2. o.phase # "input-required"
      BY <1>o, <3>1 DEF Written, Object
    <3> HIDE DEF o
    <3>3. Put(q, o) \/ UNCHANGED server
      BY <2>8 DEF mutateStatus, o
    <3> QED BY <3>2, <3>3, <1>u, AwaitPut DEF AwaitOK
  <2> QED BY <1>2, <1>u, <2>1, <2>2, <2>3, <2>4, <2>5, <2>6, <2>7, <2>8 DEF ReconcileStep,
       fetchQuery, RefetchDeleted, NotFound, finalize, deleteBrokerData, InterruptQuery,
       TerminalPhase, StillWaiting, handleFailedTask, InFlight, CapacityReached,
       TryAcquire, Spawn
<1>3. ASSUME NEW w \in Workers, GoroutineStep(w) PROVE Awaits'
  <2>1. CASE StatusUpdate(w)
    <3>1. PICK q \in Queries : q = gor[w].query
      BY <2>1 DEF StatusUpdate, TypeGor
    <3>2. PICK o : o = Written(server[q], gor[w].want, gor[w].resp, gor[w].task)
      OBVIOUS
    <3>3. gor[w].pc = "update" /\ (Put(q, o) \/ UNCHANGED server)
      BY <2>1, <3>1, <3>2 DEF StatusUpdate
    <3>4. ASSUME o.phase = "input-required" PROVE TaskCreated(q, o.task)
      <4>1. gor[w].want = "input-required"
        BY <3>2, <3>4, <1>o DEF Written, Object
      <4>2. gor[w].resp # "nil" /\ TaskCreated(q, gor[w].task)
        BY <3>1, <3>3, <4>1 DEF AsksOK, Asks
      <4> QED BY <3>2, <4>1, <4>2, <1>o DEF Written, Object
    <3>5. AwaitOK(q, o)'
      BY <3>4, TasksGrow DEF AwaitOK
    <3> QED BY <3>3, <3>5, <1>u, AwaitPut
  <2> QED BY <1>3, <1>u, <2>1 DEF GoroutineStep, executeQueryAsync, sendQueryA2A,
       handleQueryDispatch, HandleA2ATaskResponse, markQueryErroredAfterPanic,
       CheckContext, DeleteOperation, Release
<1>4. CASE FaultStep
  BY <1>4, <1>u DEF FaultStep, ReconcileFails, StatusUpdateFails, Crash
<1> QED BY <1>0, <1>1, <1>2, <1>3, <1>4 DEF Next

-----------------------------------------------------------------------------
(***************************************************************************)
(* What a timeout may write.                                               *)
(***************************************************************************)
\* A reconcile writes only its own query, and moves no goroutine but the one
\* it starts.
LEMMA ReconcileReach ==
    ASSUME Types, NEW q \in Queries, ReconcileStep(q)
    PROVE  /\ \A p \in Queries \ {q} : server'[p] = server[p]
           /\ \A w \in Workers : gor'[w].pc = gor[w].pc \/ gor'[w].pc = "start"
<1> USE DEF Types, world, memory
<1>1. UNCHANGED server \/ \E o : Put(q, o)
  BY DEF ReconcileStep, fetchQuery, DeleteExpired, DeleteObject, RefetchDeleted, NotFound,
     AddFinalizer, UpdateFetched, finalize, deleteBrokerData, RemoveFinalizer,
     InitConditions, InterruptQuery, TerminalPhase, StillWaiting, handleApprovedTask,
     handleResumableDenial, handleFailedTask, stampRoundAnchor, InFlight,
     CapacityReached, TryAcquire, mutateStatus, Spawn
<1>2. \A p \in Queries \ {q} : server'[p] = server[p]
  BY <1>1 DEF Put, TypeAPI
<1>3. UNCHANGED gor \/ CancelOperation(q) \/ Spawn(q)
  BY DEF ReconcileStep, fetchQuery, DeleteExpired, RefetchDeleted, NotFound,
     AddFinalizer, UpdateFetched, finalize, deleteBrokerData, RemoveFinalizer,
     InitConditions, InterruptQuery, TerminalPhase, StillWaiting, handleApprovedTask,
     handleResumableDenial, handleFailedTask, stampRoundAnchor, InFlight,
     CapacityReached, TryAcquire, mutateStatus
<1>4. CASE Spawn(q)
  BY <1>2, <1>4 DEF Spawn, TypeGor, IdleGoroutine
<1> QED BY <1>2, <1>3, <1>4, CancelMoves

LEMMA TimeoutStep ==
    ASSUME Types, FreshOK, [Next]_vars, NEW q \in Queries,
           TimeoutWrite(q), isTerminalPhase(server[q].phase)
    PROVE  server'[q] = server[q]
<1> USE DEF Types, world, memory
<1>u. UNCHANGED <<rec, gor>> => FALSE
  BY DEF TimeoutWrite
<1>1. ASSUME NEW p \in Queries, InformerSync(p) \/ EnvironmentStep(p)
      PROVE  server'[q] = server[q]
  BY <1>1, <1>u DEF InformerSync, EnvironmentStep, SetCancel, DeleteQuery, GraceElapses,
     BudgetElapses, SettleTask, DiscardTask, update_query_phase, EngineStops
<1>2. ASSUME NEW p \in Queries, ReconcileStep(p) PROVE server'[q] = server[q]
  <2>1. CASE p # q
    BY <1>2, <2>1, ReconcileReach
  <2>2. CASE p = q
    <3>1. rec[q].pc = "write" /\ rec[q].want = "timeout"
      BY <1>2, ReconcileReach DEF TimeoutWrite
    <3>2. mutateStatus(q)
      BY <1>2, <2>2, <3>1 DEF ReconcileStep, fetchQuery, DeleteExpired, RefetchDeleted,
         NotFound, AddFinalizer, finalize, deleteBrokerData, RemoveFinalizer,
         InitConditions, InterruptQuery, TerminalPhase, StillWaiting, handleApprovedTask,
         handleResumableDenial, handleFailedTask, stampRoundAnchor, InFlight,
         CapacityReached, TryAcquire, Spawn, Startable, AwaitingInput, Dispatching,
         Executable, InHand
    <3> QED BY <3>1, <3>2 DEF mutateStatus, Declined
  <2> QED BY <2>1, <2>2
<1>3. ASSUME NEW v \in Workers, GoroutineStep(v) PROVE server'[q] = server[q]
  <2>1. CASE StatusUpdate(v)
    <3>1. UNCHANGED rec /\ \A w \in Workers \ {v} : gor'[w] = gor[w]
      BY <2>1, GorMoves DEF StatusUpdate, GorMove
    <3>2. gor[v].query = q /\ gor[v].want = "timeout"
      BY <3>1 DEF TimeoutWrite
    <3>3. v \notin fresh
      BY <3>2 DEF FreshOK
    <3> QED BY <2>1, <3>3 DEF StatusUpdate, NoConflict
  <2> QED BY <1>3, <2>1 DEF GoroutineStep, executeQueryAsync, sendQueryA2A,
       handleQueryDispatch, HandleA2ATaskResponse, markQueryErroredAfterPanic,
       CheckContext, DeleteOperation, Release
<1>4. CASE FaultStep
  BY <1>4 DEF FaultStep, ReconcileFails, StatusUpdateFails, Crash
<1> QED BY <1>1, <1>2, <1>3, <1>4, <1>u DEF Next, vars

-----------------------------------------------------------------------------
(***************************************************************************)
(* The theorems.                                                           *)
(***************************************************************************)
\* The inductive invariant: the types, the permits and the counter, the map of
\* operations, the condition of a query that has ended, the fresh goroutines, the
\* tasks that are awaited or about to be.
Inv == Types /\ Permits /\ TrackedIsLive /\ TerminalIsCompleted /\ FreshOK
         /\ AsksOK /\ Awaits

LEMMA InvInductive == Spec => []Inv
<1>1. Init => Inv
  <2>1. ASSUME Init PROVE TerminalIsCompleted /\ FreshOK
    BY <2>1 DEF Init, Created, TerminalIsCompleted, isTerminalPhase, FreshOK
  <2>2. ASSUME Init PROVE AsksOK /\ Awaits
    BY <2>2 DEF Init, AsksOK, Asks, NoAsk, Awaits, AwaitOK, Created, IdleReconcile,
       IdleGoroutine
  <2> QED BY <2>1, <2>2, TypesInit, PermitsInit, TrackedInit DEF Inv
<1>2. Inv /\ [Next]_vars => Inv'
  BY TypesStep, PermitStep, PermitsStep, TrackedStep, CompletedStep, FreshStep,
     AsksStep, AwaitStep DEF Inv
<1> QED BY <1>1, <1>2, PTL DEF Spec

\* Every variable of the reconciler keeps its type, on any number of queries and
\* goroutines: among others the cascade counter never passes its cap.
THEOREM TypeCorrect == Spec => []TypeOK
<1>1. Inv => TypeOK
  BY DEF Inv, Types, TypeAPI, TypeRec, TypeGor, TypeRest, Permits, TypeOK
<1> QED BY <1>1, InvInductive, PTL

\* The semaphore counts exactly the reconciles and goroutines that hold a permit,
\* and never more than MaxConcurrentQueries: acquire and release are paired on
\* every path of Reconcile and executeQueryAsync.
THEOREM SemaphoreCorrect == Spec => []SemaphoreExact
<1>1. Inv => SemaphoreExact
  BY DEF Inv, Permits
<1> QED BY <1>1, InvInductive, PTL

\* An entry of operations is always that of a live goroutine of the same query
\* whose context is not cancelled.
THEOREM TrackedCorrect == Spec => []TrackedIsLive
<1>1. Inv => TrackedIsLive
  BY DEF Inv
<1> QED BY <1>1, InvInductive, PTL

\* Whoever ends a query sets its condition QueryCompleted, which ttlRemaining
\* relies on.
THEOREM CompletedCorrect == Spec => []TerminalIsCompleted
<1>1. Inv => TerminalIsCompleted
  BY DEF Inv
<1> QED BY <1>1, InvInductive, PTL

\* A query in phase input-required names an A2ATask that was created, so that one it
\* does not find has been collected: the goroutine creates the task before it writes
\* the query, a response is put back with the phase it came with, and no reconcile or
\* engine writes that phase.
THEOREM AwaitedCorrect == Spec => []AwaitedTaskCreated
<1>1. Inv => AwaitedTaskCreated
  BY BoundsAssumption DEF Inv, Awaits, AwaitOK, TaskCreated, AwaitedTaskCreated
<1> QED BY <1>1, InvInductive, PTL

\* failQueryOnTimeout, in a reconcile or in a goroutine, never changes a query
\* that has already ended.
THEOREM TimeoutCorrect == Spec => TimeoutSparesTerminal
<1>1. Inv /\ [Next]_vars =>
        [\A q \in Queries : TimeoutWrite(q) /\ isTerminalPhase(server[q].phase)
                              => server'[q] = server[q]]_vars
  BY TimeoutStep DEF Inv
<1> QED BY <1>1, InvInductive, PTL DEF Spec, TimeoutSparesTerminal

\* The reconciler implements the bounded pool of permits, with the holders of the
\* semaphore as the pool's state.
THEOREM PoolCorrect == Spec => PoolSpec
<1>1. Init => Pool!Init
  BY DEF Init, Pool!Init, PermitHolders, Live, IdleReconcile, IdleGoroutine
<1>2. Inv /\ [Next]_vars => [Pool!Next]_PermitHolders
  <2> SUFFICES ASSUME Inv, [Next]_vars PROVE [Pool!Next]_PermitHolders
    OBVIOUS
  <2>1. PermitMove
    BY PermitStep DEF Inv
  <2>2. ASSUME NEW q \in Queries, Take(q) PROVE Pool!Acquire(q)
    <3>1. Pool!Cardinality(PermitHolders) = Cardinality(PermitHolders)
      BY Zenon DEF Cardinality, Pool!Cardinality
    <3> QED BY <2>2, <3>1, BoundsAssumption DEF Take, HasCapacity, Inv, Permits,
               SemaphoreExact, Enforced, Pool!Acquire
  <2>3. ASSUME NEW q \in Queries, NEW w \in Workers, Hand(q, w) PROVE Pool!HandOver(q, w)
    BY <2>3 DEF Hand, Pool!HandOver
  <2>4. ASSUME NEW x \in Queries \cup Workers, GiveBack(x) PROVE Pool!Release(x)
    BY <2>4 DEF GiveBack, Pool!Release
  <2>5. ReturnAll => Pool!Restart
    BY DEF ReturnAll, Pool!Restart
  <2> QED BY <2>1, <2>2, <2>3, <2>4, <2>5 DEF PermitMove, Keep, Pool!Next
<1> QED BY <1>1, <1>2, InvInductive, PTL DEF Spec, PoolSpec, Pool!Spec
=============================================================================
