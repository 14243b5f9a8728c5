-------------------------- MODULE QueryOutcomeProofs --------------------------
(***************************************************************************)
(* What a query comes to: theorems about QueryController that follow an    *)
(* object through the informer cache and the hand of the reconciler to the *)
(* goroutines that were started for it.                                    *)
(***************************************************************************)
EXTENDS QueryControllerProofs

-----------------------------------------------------------------------------
(***************************************************************************)
(* A barred object starts no goroutine: a user has cancelled or deleted    *)
(* it, or it is gone.  An object stays barred, and the cache and the       *)
(* reconcile see it after the server does.                                 *)
(***************************************************************************)
Barred(o) == ~o.exists \/ o.cancel \/ o.deleting


\* Nothing is left that could start a goroutine for q.
Shut(q) == /\ Barred(cache[q])
           /\ InHand(q) => Barred(rec[q].obj)
           /\ rec[q].pc \notin {"acquired", "spawn", "resume"}

\* The course of one query: what is known of its object in the three places,
\* of the reconcile that is about to write it, and of it once it is canceled.
Course(q) ==
    /\ Barred(cache[q]) => Barred(server[q])
    /\ InHand(q) /\ Barred(rec[q].obj) => Barred(cache[q])
    /\ rec[q].pc = "acquired" => rec[q].want = "running"
    /\ rec[q].pc = "write" /\ rec[q].want = "canceled" =>
          Barred(cache[q]) /\ operations[q] = None
    /\ server[q].phase = "canceled" => Shut(q) /\ operations[q] = None

\* What writes a status leaves the object barred or not.
LEMMA WrittenBar ==
    ASSUME NEW o \in Object, NEW want, NEW resp, NEW task
    PROVE  Barred(Written(o, want, resp, task)) <=> Barred(o)
<1>1. CASE want = "timeout"
  BY <1>1 DEF Written, Object, Barred
<1>2. CASE want # "timeout"
  BY <1>2 DEF Written, Object, Barred
<1> QED BY <1>1, <1>2

\* The steps of one query leave the others alone.
LEMMA OneQuery ==
    ASSUME Types, NEW p \in Queries,
           \/ InformerSync(p) \/ EnvironmentStep(p) \/ ReconcileStep(p) \/ ReconcileFails(p)
    PROVE  \A q \in Queries \ {p} : /\ server'[q] = server[q] /\ cache'[q] = cache[q]
                                    /\ rec'[q] = rec[q] /\ operations'[q] = operations[q]
<1> USE DEF Types, world, memory
<1> DEFINE Goal == \A q \in Queries \ {p} : /\ server'[q] = server[q] /\ cache'[q] = cache[q]
                                            /\ rec'[q] = rec[q] /\ operations'[q] = operations[q]
<1>1. CASE InformerSync(p) \/ EnvironmentStep(p)
  <2>1. UNCHANGED <<rec, operations>>
    BY <1>1 DEF InformerSync, EnvironmentStep, SetCancel, DeleteQuery, GraceElapses,
       BudgetElapses, SettleTask, DiscardTask, update_query_phase, EngineStops
  <2>2. UNCHANGED server \/ (\E o : Put(p, o)) \/ BudgetElapses(p)
    BY <1>1 DEF InformerSync, EnvironmentStep, SetCancel, DeleteQuery, DeleteObject, GraceElapses,
       SettleTask, DiscardTask, update_query_phase, EngineStops
  <2>3. \A q \in Queries \ {p} : server'[q] = server[q]
    BY <2>2 DEF Put, BudgetElapses, TypeAPI
  <2>4. \A q \in Queries \ {p} : cache'[q] = cache[q]
    BY <1>1 DEF InformerSync, EnvironmentStep, SetCancel, DeleteQuery, GraceElapses,
       BudgetElapses, SettleTask, DiscardTask, update_query_phase, EngineStops, TypeAPI
  <2> QED BY <2>1, <2>3, <2>4
<1>2. CASE ReconcileStep(p)
  <2>1. UNCHANGED cache
    BY <1>2 DEF ReconcileStep, fetchQuery, DeleteExpired, RefetchDeleted, NotFound,
       AddFinalizer, UpdateFetched, finalize, deleteBrokerData, RemoveFinalizer,
       InitConditions, InterruptQuery, TerminalPhase, StillWaiting, handleApprovedTask,
       handleResumableDenial, handleFailedTask, stampRoundAnchor, InFlight,
       CapacityReached, TryAcquire, mutateStatus, Spawn
  <2>2. \A q \in Queries \ {p} : server'[q] = server[q]
    BY <1>2, ReconcileReach
  <2>3. UNCHANGED operations \/ CancelOperation(p) \/ Spawn(p)
    BY <1>2 DEF ReconcileStep, fetchQuery, DeleteExpired, RefetchDeleted, NotFound,
       AddFinalizer, UpdateFetched, finalize, deleteBrokerData, RemoveFinalizer,
       InitConditions, InterruptQuery, TerminalPhase, StillWaiting, handleApprovedTask,
       handleResumableDenial, handleFailedTask, stampRoundAnchor, InFlight,
       CapacityReached, TryAcquire, mutateStatus
  <2>4. \A q \in Queries \ {p} : operations'[q] = operations[q]
    BY <2>3 DEF CancelOperation, WithoutOperation, Spawn, TypeRest
  <2>5. \E r : rec' = [rec EXCEPT ![p] = r]
    BY <1>2 DEF ReconcileStep, fetchQuery, DeleteExpired, RefetchDeleted, NotFound,
       AddFinalizer, UpdateFetched, finalize, deleteBrokerData, RemoveFinalizer,
       InitConditions, InterruptQuery, TerminalPhase, StillWaiting, handleApprovedTask,
       handleResumableDenial, handleFailedTask, stampRoundAnchor, InFlight,
       CapacityReached, TryAcquire, mutateStatus, Spawn, Goto, Advance, Return, GotoWrite
  <2>6. \A q \in Queries \ {p} : rec'[q] = rec[q]
    BY <2>5 DEF TypeRec
  <2> QED BY <2>1, <2>2, <2>4, <2>6
<1>3. CASE ReconcileFails(p)
  BY <1>3 DEF ReconcileFails, Return, TypeRec
<1> QED BY <1>1, <1>2, <1>3

\* A goroutine writes a status or nothing.
LEMMA GoroutineReach ==
    ASSUME Types, NEW w \in Workers, GoroutineStep(w) \/ StatusUpdateFails(w)
    PROVE  /\ UNCHANGED <<cache, rec>>
           /\ \/ UNCHANGED server
              \/ /\ gor[w].pc = "update" /\ w \in fresh /\ gor[w].query \in Queries
                 /\ Put(gor[w].query, Written(server[gor[w].query], gor[w].want,
                                              gor[w].resp, gor[w].task))
<1> USE DEF Types, world, memory
<1>1. CASE StatusUpdate(w)
  BY <1>1 DEF StatusUpdate, NoConflict, TypeGor
<1>2. CASE ~StatusUpdate(w)
  BY <1>2 DEF GoroutineStep, executeQueryAsync, sendQueryA2A, handleQueryDispatch,
     HandleA2ATaskResponse, markQueryErroredAfterPanic, CheckContext, StatusUpdateFails,
     DeleteOperation, Release
<1> QED BY <1>1, <1>2


\* A step that does not touch what Course speaks of.
LEMMA CourseSame ==
    ASSUME NEW q \in Queries, Course(q), server'[q] = server[q], cache'[q] = cache[q],
           rec'[q] = rec[q], operations'[q] = operations[q]
    PROVE  Course(q)'
BY DEF Course, Shut, InHand

\* Only an object that is not barred starts or resumes an execution.
LEMMA Open ==
    ASSUME NEW q \in Queries, Startable(q) \/ AwaitingInput(q)
    PROVE  InHand(q) /\ ~Barred(rec[q].obj)
BY DEF Startable, AwaitingInput, Dispatching, Executable, MustCancel, Barred

\* Deleting an object bars it, and no object is canceled by that.
LEMMA GoneBar ==
    /\ Barred(Gone) /\ Gone.phase # "canceled"
    /\ \A x \in Object : /\ Barred([x EXCEPT !.deleting = TRUE])
                         /\ [x EXCEPT !.deleting = TRUE].phase = x.phase
BY DEF Gone, Created, Barred, Object

\* What the informer, users, approvers, engines and the clock do to a query.
LEMMA CourseEnvironment ==
    ASSUME Types, NEW q \in Queries, Course(q), InformerSync(q) \/ EnvironmentStep(q)
    PROVE  Course(q)'
<1> USE DEF Types, TypeAPI, world, memory
<1>1. CASE InformerSync(q)
  BY <1>1 DEF InformerSync, Course, Shut, InHand
<1>2. CASE SetCancel(q) \/ DeleteQuery(q) \/ update_query_phase(q)
  <2>1. /\ UNCHANGED <<cache, rec, operations>>
        /\ Barred(server[q]) => Barred(server'[q])
        /\ server'[q].phase = "canceled" => server[q].phase = "canceled"
    <3>1. CASE SetCancel(q)
      BY <3>1 DEF SetCancel, Put, Object, Barred
    <3>2. CASE DeleteQuery(q)
      BY <3>2, GoneBar DEF DeleteQuery, DeleteObject, Put
    <3>3. CASE update_query_phase(q)
      BY <3>3 DEF update_query_phase, Put, Object, Barred
    <3> QED BY <1>2, <3>1, <3>2, <3>3
  <2> QED BY <2>1 DEF Course, Shut, InHand
<1>3. CASE BudgetElapses(q)
  <2>1. /\ UNCHANGED <<rec, operations>> /\ server'[q].phase = server[q].phase
        /\ Barred(server'[q]) <=> Barred(server[q])
        /\ Barred(cache'[q]) <=> Barred(cache[q])
    BY <1>3 DEF BudgetElapses, Object, Barred
  <2> QED BY <2>1 DEF Course, Shut, InHand
<1>4. CASE UNCHANGED <<server, cache, rec, operations>>
  BY <1>4, CourseSame
<1> QED BY <1>1, <1>2, <1>3, <1>4 DEF EnvironmentStep, GraceElapses, SettleTask, DiscardTask, EngineStops

\* What the reconcile of a query does to it.
LEMMA CourseReconcile ==
    ASSUME Types, NEW q \in Queries, Course(q), ReconcileStep(q) \/ ReconcileFails(q)
    PROVE  Course(q)'
<1> USE DEF Types, TypeAPI, world, memory
<1> DEFINE o == rec[q].obj
<1>1. CASE fetchQuery(q) \/ RefetchDeleted(q)
  <2>1. /\ UNCHANGED <<server, cache, operations>> /\ rec'[q].obj = cache[q]
        /\ rec'[q].pc \in {"fetched", "refetched"}
    BY <1>1 DEF fetchQuery, RefetchDeleted, TypeRec, Reconcile
  <2> QED BY <2>1 DEF Course, Shut, InHand
<1>2. CASE NotFound(q) \/ TerminalPhase(q) \/ StillWaiting(q) \/ InFlight(q) \/ ReconcileFails(q)
  <2>1. UNCHANGED <<server, cache, operations>> /\ rec'[q].pc = "idle"
    BY <1>2 DEF NotFound, TerminalPhase, StillWaiting, InFlight, ReconcileFails, Return,
       IdleReconcile, TypeRec
  <2> QED BY <2>1 DEF Course, Shut, InHand
<1>3. CASE AddFinalizer(q) \/ RemoveFinalizer(q) \/ InitConditions(q)
  <2>1. UNCHANGED <<cache, operations>> /\ rec'[q].pc = "idle"
    BY <1>3 DEF AddFinalizer, RemoveFinalizer, InitConditions, UpdateFetched, Return,
       IdleReconcile, TypeRec
  <2>2. /\ Barred(server[q]) => Barred(server'[q])
        /\ server'[q].phase = "canceled" => server[q].phase = "canceled"
    <3>1. CASE AddFinalizer(q) \/ InitConditions(q)
      BY <3>1 DEF AddFinalizer, InitConditions, UpdateFetched, Put, Object, Barred
    <3>2. CASE RemoveFinalizer(q)
      BY <3>2, GoneBar DEF RemoveFinalizer, UpdateFetched, Put
    <3> QED BY <1>3, <3>1, <3>2
  <2> QED BY <2>1, <2>2 DEF Course, Shut, InHand
<1>4. CASE DeleteExpired(q)
  <2>1. UNCHANGED <<cache, operations>> /\ rec'[q].pc \in {"idle", "deleted"}
    BY <1>4 DEF DeleteExpired, Return, Advance, IdleReconcile, TypeRec
  <2>2. /\ Barred(server[q]) => Barred(server'[q])
        /\ server'[q].phase = "canceled" => server[q].phase = "canceled"
    BY <1>4, GoneBar DEF DeleteExpired, DeleteObject, Put
  <2> QED BY <2>1, <2>2 DEF Course, Shut, InHand
<1>5. CASE finalize(q) \/ deleteBrokerData(q)
  <2>1. /\ UNCHANGED <<server, cache>> /\ rec'[q].pc \in {"idle", "cleanup", "unfinalize"}
        /\ operations[q] = None => operations'[q] = None
    BY <1>5 DEF finalize, deleteBrokerData, Return, Goto, IdleReconcile, CancelOperation,
       WithoutOperation, TypeRec, TypeRest, Reconcile
  <2> QED BY <2>1 DEF Course, Shut, InHand
<1>6. CASE InterruptQuery(q)
  <2>1. /\ UNCHANGED <<server, cache>> /\ operations'[q] = None /\ rec'[q].pc = "write"
        /\ rec'[q].want = "canceled" => o.cancel /\ InHand(q)
    BY <1>6 DEF InterruptQuery, GotoWrite, MustCancel, Executable, CancelOperation,
       WithoutOperation, TypeRec, TypeRest
  <2> QED BY <2>1 DEF Course, Shut, InHand, Barred
<1>7. CASE handleApprovedTask(q) \/ handleResumableDenial(q)
  <2>1. InHand(q) /\ ~Barred(o)
    BY <1>7, Open DEF handleApprovedTask, handleResumableDenial
  <2>2. UNCHANGED <<cache, operations>> /\ rec'[q].pc = "resume"
    BY <1>7 DEF handleApprovedTask, handleResumableDenial, Advance, IdleReconcile, TypeRec
  <2>3. server'[q].phase = server[q].phase /\ (Barred(server'[q]) <=> Barred(server[q]))
    BY <1>7 DEF handleApprovedTask, handleResumableDenial, Put, Object, Barred
  <2> QED BY <2>1, <2>2, <2>3 DEF Course, Shut, InHand
<1>8. CASE handleFailedTask(q)
  <2>1. /\ UNCHANGED <<server, cache, operations>>
        /\ rec'[q].pc = "write" /\ rec'[q].want = "error"
    BY <1>8 DEF handleFailedTask, GotoWrite, TypeRec
  <2> QED BY <2>1 DEF Course, Shut, InHand
<1>9. CASE stampRoundAnchor(q)
  <2>1. /\ UNCHANGED cache /\ rec[q].pc = "resume"
        /\ rec'[q].pc \in {"idle", "write"}
        /\ rec'[q].pc = "write" => rec'[q].want = "running"
    BY <1>9 DEF stampRoundAnchor, Return, GotoWrite, IdleReconcile, TypeRec
  <2>2. server'[q].phase = server[q].phase /\ (Barred(server'[q]) <=> Barred(server[q]))
    BY <1>9 DEF stampRoundAnchor, Put, Object, Barred
  <2> QED BY <2>1, <2>2 DEF Course, Shut, InHand
<1>10. CASE CapacityReached(q)
  <2>1. InHand(q) /\ ~Barred(o)
    BY <1>10, Open DEF CapacityReached
  <2>2. /\ UNCHANGED <<server, cache, operations>> /\ rec'[q].pc \in {"idle", "write"}
        /\ rec'[q].pc = "write" => rec'[q].want = "queued"
    BY <1>10 DEF CapacityReached, Return, GotoWrite, IdleReconcile, TypeRec
  <2> QED BY <2>1, <2>2 DEF Course, Shut, InHand
<1>11. CASE TryAcquire(q)
  <2>1. InHand(q) /\ ~Barred(o)
    BY <1>11, Open DEF TryAcquire
  <2>2. /\ UNCHANGED <<server, cache, operations>> /\ rec'[q].pc \in {"acquired", "spawn"}
        /\ rec'[q].pc = "acquired" => rec'[q].want = "running"
    BY <1>11 DEF TryAcquire, Advance, GotoWrite, IdleReconcile, TypeRec
  <2> QED BY <2>1, <2>2 DEF Course, Shut, InHand
<1>12. CASE mutateStatus(q)
  <2>1. UNCHANGED <<cache, operations>>
    BY <1>12 DEF mutateStatus
  <2>2. rec'[q].pc = IF rec[q].pc = "acquired" THEN "spawn" ELSE "idle"
    BY <1>12 DEF mutateStatus, Advance, Return, IdleReconcile, TypeRec
  <2>3. rec[q].pc \in {"write", "acquired"}
    BY <1>12 DEF mutateStatus
  <2>4. CASE UNCHANGED server
    BY <2>1, <2>2, <2>3, <2>4 DEF Course, Shut, InHand
  <2>5. CASE server' = [server EXCEPT ![q] = Written(server[q], rec[q].want, o.resp, o.task)]
    <3>1. Barred(server'[q]) <=> Barred(server[q])
      BY <2>5, WrittenBar
    <3>2. server'[q].phase = "canceled" => rec[q].want = "canceled"
      BY <2>5 DEF Written, Object
    <3> QED BY <2>1, <2>2, <2>3, <3>1, <3>2 DEF Course, Shut, InHand
  <2> QED BY <1>12, <2>4, <2>5 DEF mutateStatus, Put
<1>13. CASE Spawn(q)
  <2>1. UNCHANGED <<server, cache>> /\ rec[q].pc = "spawn" /\ rec'[q].pc = "idle"
    BY <1>13 DEF Spawn, Return, IdleReconcile, TypeRec
  <2> QED BY <2>1 DEF Course, Shut, InHand
<1> QED BY <1>1, <1>2, <1>3, <1>4, <1>5, <1>6, <1>7, <1>8, <1>9, <1>10, <1>11, <1>12, <1>13
        DEF ReconcileStep

Courses == \A q \in Queries : Course(q)

\* No goroutine is about to write canceled.
NoCancelWrite == \A w \in Workers : gor[w].pc \in {"write", "update"} => gor[w].want # "canceled"

LEMMA NoCancelWriteStep ==
    ASSUME Types, NoCancelWrite, [Next]_vars PROVE NoCancelWrite'
<1> USE DEF Types, TypeGor, world, memory
<1>u. UNCHANGED gor => NoCancelWrite'
  BY DEF NoCancelWrite
<1>c. ASSUME NEW q \in Queries, CancelOperation(q) PROVE NoCancelWrite'
  BY <1>c, CancelMoves DEF NoCancelWrite
<1>0. CASE UNCHANGED vars
  BY <1>0, <1>u DEF vars
<1>1. ASSUME NEW q \in Queries, InformerSync(q) \/ EnvironmentStep(q) PROVE NoCancelWrite'
  BY <1>1, <1>u DEF InformerSync, EnvironmentStep, SetCancel, DeleteQuery, GraceElapses,
     BudgetElapses, SettleTask, DiscardTask, update_query_phase, EngineStops
<1>2. ASSUME NEW q \in Queries, ReconcileStep(q) PROVE NoCancelWrite'
  <2>1. CASE Spawn(q)
    BY <2>1 DEF Spawn, NoCancelWrite, IdleGoroutine
  <2> QED BY <1>2, <1>u, <1>c, <2>1 DEF ReconcileStep, fetchQuery, DeleteExpired,
       RefetchDeleted, NotFound, AddFinalizer, UpdateFetched, finalize, deleteBrokerData,
       RemoveFinalizer, InitConditions, InterruptQuery, TerminalPhase, StillWaiting,
       handleApprovedTask, handleResumableDenial, handleFailedTask, stampRoundAnchor,
       InFlight, CapacityReached, TryAcquire, mutateStatus
<1>3. ASSUME NEW w \in Workers, GoroutineStep(w) \/ StatusUpdateFails(w) PROVE NoCancelWrite'
  <2>1. CASE \E want \in {"done", "error", "timeout", "input-required"} : \E resp, task :
                   ToWrite(w, want, resp, task)
    BY <2>1 DEF ToWrite, NoCancelWrite, Goroutine
  <2>2. CASE Finish(w, "finish")
    BY <2>2 DEF Finish, NoCancelWrite, IdleGoroutine
  <2>3. CASE gor[w].pc \in {"write", "update"} /\ (Step(w, "update") \/ Step(w, "write"))
    BY <2>3 DEF Step, NoCancelWrite, Goroutine
  <2>4. CASE Step(w, "executing") \/ Step(w, "release")
    BY <2>4 DEF Step, NoCancelWrite, Goroutine
  <2>5. CASE Release(w)
    BY <2>5 DEF Release, NoCancelWrite, IdleGoroutine
  <2>6. CASE executeQueryAsync(w)
    <3>1. \/ ToWrite(w, "error", cache[gor[w].query].resp, cache[gor[w].query].task)
          \/ gor' = [gor EXCEPT ![w] = [@ EXCEPT !.pc = "dispatch",
                                          !.resp = cache[gor[w].query].resp,
                                          !.task = cache[gor[w].query].task]]
      BY <2>6 DEF executeQueryAsync
    <3> QED BY <2>1, <3>1 DEF NoCancelWrite, Goroutine
  <2> QED BY <1>3, <2>1, <2>2, <2>3, <2>4, <2>5, <2>6 DEF GoroutineStep, sendQueryA2A,
       handleQueryDispatch, HandleA2ATaskResponse, markQueryErroredAfterPanic, CheckContext,
       StatusUpdate, DeleteOperation, StatusUpdateFails
<1>4. ASSUME NEW q \in Queries, ReconcileFails(q) PROVE NoCancelWrite'
  BY <1>4, <1>u DEF ReconcileFails
<1>5. CASE Crash
  BY <1>5 DEF Crash, NoCancelWrite, IdleGoroutine
<1> QED BY <1>0, <1>1, <1>2, <1>3, <1>4, <1>5 DEF Next, FaultStep

\* A goroutine changes the course of its query only by ending it, in any phase
\* but canceled, and by dropping the entry in operations.
LEMMA CourseGoroutine ==
    ASSUME Types, NoCancelWrite, Courses, NEW w \in Workers,
           GoroutineStep(w) \/ StatusUpdateFails(w)
    PROVE  Courses'
<1> SUFFICES ASSUME NEW q \in Queries PROVE Course(q)'
  BY DEF Courses
<1> USE DEF Types, TypeAPI, world, memory
<1>1. UNCHANGED <<cache, rec>>
  BY GoroutineReach
<1>2. operations[q] = None => operations'[q] = None
  BY DEF GoroutineStep, executeQueryAsync, sendQueryA2A, handleQueryDispatch,
     HandleA2ATaskResponse, markQueryErroredAfterPanic, CheckContext, StatusUpdate,
     StatusUpdateFails, DeleteOperation, WithoutOperation, Release, TypeRest
<1>3. \/ server'[q] = server[q]
      \/ (Barred(server'[q]) <=> Barred(server[q])) /\ server'[q].phase # "canceled"
  <2>1. CASE UNCHANGED server
    BY <2>1
  <2>2. ASSUME gor[w].query # q, NEW o, Put(gor[w].query, o) PROVE server'[q] = server[q]
    BY <2>2 DEF Put
  <2>3. CASE /\ gor[w].query = q /\ gor[w].pc = "update"
             /\ Put(q, Written(server[q], gor[w].want, gor[w].resp, gor[w].task))
    <3>1. server'[q] = Written(server[q], gor[w].want, gor[w].resp, gor[w].task)
      BY <2>3 DEF Put
    <3>2. gor[w].want # "canceled"
      BY <2>3 DEF NoCancelWrite
    <3>3. Written(server[q], gor[w].want, gor[w].resp, gor[w].task).phase # "canceled"
      BY <3>2 DEF Written, Object
    <3> QED BY <3>1, <3>3, WrittenBar
  <2> QED BY <2>1, <2>2, <2>3, GoroutineReach
<1> QED BY <1>1, <1>2, <1>3 DEF Courses, Course, Shut, InHand

LEMMA CoursesStep ==
    ASSUME Types, NoCancelWrite, Courses, [Next]_vars PROVE Courses'
<1>0. CASE UNCHANGED vars
  BY <1>0, CourseSame DEF Courses, vars
<1>1. ASSUME NEW p \in Queries,
             InformerSync(p) \/ EnvironmentStep(p) \/ ReconcileStep(p) \/ ReconcileFails(p)
      PROVE  Courses'
  <2>1. \A q \in Queries \ {p} : Course(q)'
    BY <1>1, OneQuery, CourseSame DEF Courses
  <2>2. Course(p)'
    BY <1>1, CourseEnvironment, CourseReconcile DEF Courses
  <2> QED BY <2>1, <2>2 DEF Courses
<1>2. ASSUME NEW w \in Workers, GoroutineStep(w) \/ StatusUpdateFails(w) PROVE Courses'
  BY <1>2, CourseGoroutine
<1>3. CASE Crash
  BY <1>3 DEF Crash, IdleReconcile, Courses, Course, Shut, InHand
<1> QED BY <1>0, <1>1, <1>2, <1>3 DEF Next, FaultStep

-----------------------------------------------------------------------------
(***************************************************************************)
(* No interrupted goroutine could still write over the phase canceled: the *)
(* version it read is not the server's any more.                           *)
(***************************************************************************)
Overtaken == \A w \in fresh : server[gor[w].query].phase = "canceled" => ~gor[w].cancelled

LEMMA OvertakenStep ==
    ASSUME Types, TrackedIsLive, FreshOK, Courses, Overtaken, [Next]_vars PROVE Overtaken'
<1> USE DEF Types, TypeAPI, world, memory
<1>q. \A w \in fresh : w \in Workers /\ gor[w].query \in Queries /\ gor[w].pc = "update"
  BY DEF FreshOK, TypeGor
<1>k. ASSUME fresh' \subseteq fresh,
             \A w \in fresh' : /\ gor'[w].query = gor[w].query
                               /\ server'[gor[w].query].phase = server[gor[w].query].phase
                               /\ \/ gor'[w].cancelled = gor[w].cancelled
                                  \/ server[gor[w].query].phase # "canceled"
      PROVE  Overtaken'
  BY <1>k DEF Overtaken
<1>p. ASSUME NEW q \in Queries, NEW o, Put(q, o)
      PROVE  /\ fresh' \subseteq fresh
             /\ \A w \in fresh' : gor[w].query # q
                                  /\ server'[gor[w].query] = server[gor[w].query]
  BY <1>p, <1>q DEF Put
<1>0. CASE UNCHANGED vars
  BY <1>0, <1>k DEF vars
<1>1. ASSUME NEW q \in Queries, InformerSync(q) \/ EnvironmentStep(q) PROVE Overtaken'
  <2>1. CASE BudgetElapses(q)
    <3>1. \A p \in Queries : server'[p].phase = server[p].phase
      BY <2>1 DEF BudgetElapses, Object
    <3> QED BY <1>q, <1>k, <2>1, <3>1 DEF BudgetElapses
  <2>2. CASE SetCancel(q) \/ DeleteQuery(q) \/ update_query_phase(q)
    <3>1. UNCHANGED gor /\ \E o : Put(q, o)
      BY <2>2 DEF SetCancel, DeleteQuery, DeleteObject, update_query_phase
    <3> QED BY <1>k, <1>p, <3>1
  <2> QED BY <1>1, <1>k, <2>1, <2>2 DEF InformerSync, EnvironmentStep, GraceElapses,
       SettleTask, DiscardTask, EngineStops
<1>2. ASSUME NEW q \in Queries, ReconcileStep(q) PROVE Overtaken'
  <2>1. UNCHANGED <<server, fresh>> \/ \E o : Put(q, o)
    BY <1>2 DEF ReconcileStep, fetchQuery, DeleteExpired, DeleteObject, RefetchDeleted,
       NotFound, AddFinalizer, UpdateFetched, finalize, deleteBrokerData, RemoveFinalizer,
       InitConditions, InterruptQuery, TerminalPhase, StillWaiting, handleApprovedTask,
       handleResumableDenial, handleFailedTask, stampRoundAnchor, InFlight,
       CapacityReached, TryAcquire, mutateStatus, Spawn
  <2>2. /\ fresh' \subseteq fresh
        /\ \A w \in fresh' : server'[gor[w].query] = server[gor[w].query]
    BY <1>p, <2>1
  <2>3. CASE Spawn(q)
    <3>1. PICK w \in Workers : gor[w].pc = "idle" /\ \A v \in Workers \ {w} : gor'[v] = gor[v]
      BY <2>3 DEF Spawn, TypeGor
    <3> QED BY <1>k, <1>q, <2>2, <3>1
  <2>4. CASE UNCHANGED gor
    BY <1>k, <2>2, <2>4
  <2>5. CASE CancelOperation(q)
    <3>1. ASSUME NEW w \in fresh'
          PROVE  /\ gor'[w].query = gor[w].query
                 /\ \/ gor'[w].cancelled = gor[w].cancelled
                    \/ server[gor[w].query].phase # "canceled"
      <4>1. w \in Workers
        BY <1>q, <2>2
      <4>2. CASE w # operations[q]
        BY <2>5, <4>1, <4>2, CancelMoves
      <4>3. CASE w = operations[q]
        <5>1. operations[q] # None
          BY <4>1, <4>3, DistinctAssumption
        <5>2. gor[w].query = q /\ server[q].phase # "canceled"
          BY <4>3, <5>1 DEF TrackedIsLive, Courses, Course
        <5> QED BY <2>5, <4>1, <5>2, CancelMoves
      <4> QED BY <4>2, <4>3
    <3> QED BY <1>k, <2>2, <3>1
  <2> QED BY <1>2, <2>3, <2>4, <2>5 DEF ReconcileStep, fetchQuery, DeleteExpired,
       RefetchDeleted, NotFound, AddFinalizer, UpdateFetched, finalize, deleteBrokerData,
       RemoveFinalizer, InitConditions, InterruptQuery, TerminalPhase, StillWaiting,
       handleApprovedTask, handleResumableDenial, handleFailedTask, stampRoundAnchor,
       InFlight, CapacityReached, TryAcquire, mutateStatus
<1>3. ASSUME NEW w \in Workers, GoroutineStep(w) \/ StatusUpdateFails(w) PROVE Overtaken'
  <2>1. CASE CheckContext(w)
    <3>1. /\ UNCHANGED server /\ fresh' \subseteq fresh \cup {w}
          /\ \/ fresh' \subseteq fresh
             \/ ~gor[w].cancelled
      BY <2>1 DEF CheckContext
    <3>2. /\ \A v \in Workers : gor'[v].query = gor[v].query
                                /\ gor'[v].cancelled = gor[v].cancelled
      BY <2>1, GorMoves DEF CheckContext, GorMove
    <3> QED BY <1>q, <3>1, <3>2 DEF Overtaken
  <2>2. CASE ~CheckContext(w)
    <3>1. \/ UNCHANGED server /\ fresh' \subseteq fresh
          \/ gor[w].query \in Queries /\ \E o : Put(gor[w].query, o)
      <4>1. CASE StatusUpdate(w)
        BY <4>1 DEF StatusUpdate, TypeGor
      <4> QED BY <1>3, <2>2, <4>1 DEF GoroutineStep, executeQueryAsync, sendQueryA2A,
           handleQueryDispatch, HandleA2ATaskResponse, markQueryErroredAfterPanic,
           StatusUpdateFails, DeleteOperation, Release
    <3>2. /\ fresh' \subseteq fresh
          /\ \A v \in fresh' : server'[gor[v].query] = server[gor[v].query]
      BY <1>p, <3>1
    <3>3. \A v \in Workers : gor[v].pc = "update" => gor'[v].query = gor[v].query
                                                    /\ gor'[v].cancelled = gor[v].cancelled
      <4>1. CASE GorMove(w, "executing") \/ GorMove(w, "write") \/ GorMove(w, "finish")
                 \/ GorMove(w, "release")
        BY <4>1, GorMoves
      <4>2. CASE executeQueryAsync(w) \/ Release(w)
        BY <4>2 DEF executeQueryAsync, ToWrite, Release, TypeGor
      <4> QED BY <1>3, <2>2, <4>1, <4>2 DEF GoroutineStep, sendQueryA2A,
           handleQueryDispatch, HandleA2ATaskResponse, markQueryErroredAfterPanic,
           StatusUpdate, StatusUpdateFails, DeleteOperation, GorMove
    <3> QED BY <1>k, <1>q, <3>2, <3>3
  <2> QED BY <2>1, <2>2
<1>4. ASSUME NEW q \in Queries, ReconcileFails(q) PROVE Overtaken'
  BY <1>4, <1>k DEF ReconcileFails
<1>5. CASE Crash
  BY <1>5 DEF Crash, Overtaken
<1> QED BY <1>0, <1>1, <1>2, <1>3, <1>4, <1>5 DEF Next, FaultStep

\* The inductive invariant of what follows.
OutcomeInv == Inv /\ Courses /\ NoCancelWrite /\ Overtaken

LEMMA OutcomeInductive == Spec => []OutcomeInv
<1>1. Init => Courses /\ NoCancelWrite /\ Overtaken
  <2> SUFFICES ASSUME Init PROVE Courses /\ NoCancelWrite /\ Overtaken
    OBVIOUS
  <2>1. ASSUME NEW q \in Queries PROVE Course(q)
    <3>1. server[q] = Created /\ cache[q] = Created /\ rec[q].pc = "idle"
      BY DEF Init, IdleReconcile
    <3>2. ~Barred(Created) /\ Created.phase # "canceled"
      BY DEF Created, Barred
    <3> QED BY <3>1, <3>2 DEF Course, InHand
  <2>2. NoCancelWrite /\ Overtaken
    BY DEF Init, IdleGoroutine, NoCancelWrite, Overtaken
  <2> QED BY <2>1, <2>2 DEF Courses
<1>2. Inv /\ Courses /\ NoCancelWrite /\ Overtaken /\ [Next]_vars
         => (Courses /\ NoCancelWrite /\ Overtaken)'
  BY CoursesStep, NoCancelWriteStep, OvertakenStep DEF Inv
<1> QED BY <1>1, <1>2, InvInductive, PTL DEF Spec, OutcomeInv

\* No step writes a status for a goroutine that was interrupted once its query
\* is canceled: it notices its context in mutateStatus, or meets a version conflict.
THEOREM CanceledCorrect == Spec => CanceledStands
<1> DEFINE A == \A w \in Workers :
                  /\ gor[w].cancelled /\ gor[w].pc = "update"
                  /\ server[gor[w].query].phase = "canceled"
                  /\ gor'[w].pc = "finish"
                  => server' = server
<1>1. OutcomeInv /\ [Next]_vars => [A]_vars
  <2> SUFFICES ASSUME OutcomeInv, Next, NEW w \in Workers, gor[w].cancelled,
                      gor[w].pc = "update", server[gor[w].query].phase = "canceled",
                      gor'[w].pc = "finish"
               PROVE  server' = server
    BY DEF OutcomeInv
  <2> USE DEF OutcomeInv, Inv, Types, world, memory
  <2>1. w \notin fresh
    BY DEF Overtaken
  <2>2. ASSUME NEW q \in Queries, InformerSync(q) \/ EnvironmentStep(q) \/ ReconcileStep(q)
               \/ ReconcileFails(q)
        PROVE  FALSE
    BY <2>2, ReconcileReach DEF InformerSync, EnvironmentStep, SetCancel, DeleteQuery,
       GraceElapses, BudgetElapses, SettleTask, DiscardTask, update_query_phase, EngineStops, ReconcileFails
  <2>3. ASSUME NEW v \in Workers, GoroutineStep(v) \/ StatusUpdateFails(v)
        PROVE  server' = server
    <3>1. CASE StatusUpdate(v)
      <4>1. \A x \in Workers \ {v} : gor'[x] = gor[x]
        BY <3>1, GorMoves DEF StatusUpdate, GorMove
      <4>2. v = w
        BY <4>1
      <4> QED BY <2>1, <3>1, <4>2 DEF StatusUpdate, NoConflict
    <3> QED BY <2>3, <3>1 DEF GoroutineStep, executeQueryAsync, sendQueryA2A,
         handleQueryDispatch, HandleA2ATaskResponse, markQueryErroredAfterPanic,
         CheckContext, DeleteOperation, Release, StatusUpdateFails
  <2>4. CASE Crash
    BY <2>4 DEF Crash
  <2> QED BY <2>2, <2>3, <2>4 DEF Next, FaultStep
<1> QED BY <1>1, OutcomeInductive, PTL DEF Spec, CanceledStands

-----------------------------------------------------------------------------
(***************************************************************************)
(* One goroutine at a time, where no approval and no spent budget comes    *)
(* in: both interrupt an operation of a query that goes on.  Everything    *)
(* else that interrupts one closes the query to executions for good, so a  *)
(* goroutine is tracked until its deferred function runs, or it was        *)
(* interrupted and none follows it.                                        *)
(***************************************************************************)
Plain == MaxTasks = 0 /\ MayTimeOut = {}

\* No copy of a query is overdue, and none is resumed.
Unhurried == \A q \in Queries : /\ ~server[q].overdue /\ ~cache[q].overdue
                                /\ ~rec[q].obj.overdue
                                /\ rec[q].pc # "resume"

Untracked == \A q \in Queries : Holding(q) => operations[q] = None

Owned(w) == LET q == gor[w].query
            IN gor[w].pc \notin {"idle", "release"} =>
                 \/ operations[q] = w
                 \/ gor[w].cancelled /\ operations[q] = None /\ Shut(q)

AllOwned == \A w \in Workers : Owned(w)

\* Without tasks the handler of input-required only waits.
LEMMA PlainWaits ==
    ASSUME Types, Plain, NEW q \in Queries
    PROVE  ~handleApprovedTask(q) /\ ~handleResumableDenial(q) /\ ~handleFailedTask(q)
<1>1. rec[q].obj.task = 0
  BY DEF Plain, Types, TypeRec, Reconcile, Object, TaskId
<1>2. AwaitedTask(q) = "absent"
  BY <1>1 DEF AwaitedTask
<1> QED BY <1>2 DEF handleApprovedTask, handleResumableDenial, handleFailedTask

\* A closed query stays closed.
LEMMA ShutReconcile ==
    ASSUME Types, NEW q \in Queries, Course(q), Shut(q), ReconcileStep(q) \/ ReconcileFails(q)
    PROVE  Shut(q)'
<1> USE DEF Types, TypeAPI, world, memory
<1>1. UNCHANGED cache
  BY DEF ReconcileStep, ReconcileFails, fetchQuery, DeleteExpired, RefetchDeleted, NotFound,
     AddFinalizer, UpdateFetched, finalize, deleteBrokerData, RemoveFinalizer,
     InitConditions, InterruptQuery, TerminalPhase, StillWaiting, handleApprovedTask,
     handleResumableDenial, handleFailedTask, stampRoundAnchor, InFlight,
     CapacityReached, TryAcquire, mutateStatus, Spawn
<1>2. CASE fetchQuery(q) \/ RefetchDeleted(q)
  <2>1. rec'[q].obj = cache[q] /\ rec'[q].pc \in {"fetched", "refetched"}
    BY <1>2 DEF fetchQuery, RefetchDeleted, TypeRec, Reconcile
  <2> QED BY <1>1, <2>1 DEF Shut
<1>3. CASE rec'[q].pc \in {"idle", "deleted", "cleanup", "unfinalize", "write"}
  BY <1>1, <1>3 DEF Shut, InHand
<1>4. ~handleApprovedTask(q) /\ ~handleResumableDenial(q) /\ ~TryAcquire(q)
  BY Open DEF handleApprovedTask, handleResumableDenial, TryAcquire, Shut
<1>5. ~stampRoundAnchor(q) /\ ~Spawn(q)
  BY DEF Shut, stampRoundAnchor, Spawn
<1>6. CASE mutateStatus(q)
  <2>1. rec'[q].pc = "idle"
    BY <1>6 DEF Shut, mutateStatus, Return, IdleReconcile, TypeRec
  <2> QED BY <1>3, <2>1
<1>7. CASE \/ NotFound(q) \/ TerminalPhase(q) \/ StillWaiting(q) \/ InFlight(q)
           \/ ReconcileFails(q) \/ AddFinalizer(q) \/ RemoveFinalizer(q) \/ InitConditions(q)
  <2>1. rec'[q].pc = "idle"
    BY <1>7 DEF NotFound, TerminalPhase, StillWaiting, InFlight, ReconcileFails, AddFinalizer,
       RemoveFinalizer, InitConditions, UpdateFetched, Return, IdleReconcile, TypeRec
  <2> QED BY <1>3, <2>1
<1>8. CASE DeleteExpired(q) \/ finalize(q) \/ deleteBrokerData(q)
  <2>1. rec'[q].pc \in {"idle", "deleted", "cleanup", "unfinalize"}
    BY <1>8 DEF DeleteExpired, finalize, deleteBrokerData, Return, Advance, Goto,
       IdleReconcile, TypeRec, Reconcile
  <2> QED BY <1>3, <2>1
<1>9. CASE InterruptQuery(q) \/ handleFailedTask(q) \/ CapacityReached(q)
  <2>1. Return(q) \/ \E want, x : GotoWrite(q, "write", want, x)
    BY <1>9 DEF InterruptQuery, handleFailedTask, CapacityReached
  <2>2. rec'[q].pc \in {"idle", "write"}
    BY <2>1, RecMoves DEF RecMove
  <2> QED BY <1>3, <2>2
<1> QED BY <1>2, <1>4, <1>5, <1>6, <1>7, <1>8, <1>9 DEF ReconcileStep

LEMMA ShutStep ==
    ASSUME Types, Courses, [Next]_vars, NEW q \in Queries, Shut(q)
    PROVE  Shut(q)' \/ Crash
<1> USE DEF Types, TypeAPI, world, memory
<1>u. UNCHANGED <<cache, rec>> => Shut(q)'
  BY DEF Shut, InHand
<1>s. cache'[q] = cache[q] /\ rec'[q] = rec[q] => Shut(q)'
  BY DEF Shut, InHand
<1>1. ASSUME NEW p \in Queries, InformerSync(p) \/ EnvironmentStep(p) \/ ReconcileStep(p)
             \/ ReconcileFails(p), p # q
      PROVE  Shut(q)'
  BY <1>1, <1>s, OneQuery
<1>2. CASE ReconcileStep(q) \/ ReconcileFails(q)
  BY <1>2, ShutReconcile DEF Courses
<1>3. CASE InformerSync(q)
  <2>1. Barred(server[q])
    BY DEF Courses, Course, Shut
  <2> QED BY <1>3, <2>1 DEF InformerSync, Shut, InHand
<1>4. CASE EnvironmentStep(q)
  <2>1. CASE BudgetElapses(q)
    <3>1. UNCHANGED rec /\ (Barred(cache[q]) => Barred(cache'[q]))
      BY <2>1 DEF BudgetElapses, Object, Barred
    <3> QED BY <3>1 DEF Shut, InHand
  <2> QED BY <1>4, <1>u, <2>1 DEF EnvironmentStep, SetCancel, DeleteQuery, GraceElapses,
       SettleTask, DiscardTask, update_query_phase, EngineStops
<1>5. ASSUME NEW w \in Workers, GoroutineStep(w) \/ StatusUpdateFails(w) PROVE Shut(q)'
  BY <1>5, <1>u, GoroutineReach
<1> QED BY <1>u, <1>1, <1>2, <1>3, <1>4, <1>5 DEF Next, FaultStep, vars

LEMMA UnhurriedStep ==
    ASSUME Types, Plain, Unhurried, [Next]_vars PROVE Unhurried'
<1> USE DEF Types, TypeAPI, world, memory
<1> DEFINE Calm(q) == /\ ~server[q].overdue /\ ~cache[q].overdue
                      /\ ~rec[q].obj.overdue /\ rec[q].pc # "resume"
<1>g. ~Gone.overdue /\ ~IdleReconcile.obj.overdue /\ IdleReconcile.pc # "resume"
  BY DEF Gone, Created, IdleReconcile
<1>w. \A o \in Object : \A want, resp, task : Written(o, want, resp, task).overdue = o.overdue
  BY DEF Written, Object
<1>0. CASE UNCHANGED vars
  BY <1>0 DEF vars, Unhurried
<1>1. ASSUME NEW p \in Queries,
             InformerSync(p) \/ EnvironmentStep(p) \/ ReconcileStep(p) \/ ReconcileFails(p)
      PROVE  Unhurried'
  <2>1. \A q \in Queries \ {p} : Calm(q)'
    BY <1>1, OneQuery DEF Unhurried
  <2>2. ~server'[p].overdue /\ ~cache'[p].overdue
    <3>1. ~BudgetElapses(p) /\ ~stampRoundAnchor(p)
      BY DEF Plain, BudgetElapses, Unhurried, stampRoundAnchor
    <3>2. cache'[p] \in {cache[p], server[p]}
      BY <1>1, <3>1 DEF InformerSync, EnvironmentStep, SetCancel, DeleteQuery, GraceElapses,
         SettleTask, DiscardTask, update_query_phase, EngineStops, ReconcileStep, ReconcileFails, fetchQuery,
         DeleteExpired, RefetchDeleted, NotFound, AddFinalizer, UpdateFetched, finalize,
         deleteBrokerData, RemoveFinalizer, InitConditions, InterruptQuery, TerminalPhase,
         StillWaiting, handleApprovedTask, handleResumableDenial, handleFailedTask, InFlight,
         CapacityReached, TryAcquire, mutateStatus, Spawn
    <3>3. CASE UNCHANGED server
      BY <3>2, <3>3 DEF Unhurried
    <3>4. CASE \/ SetCancel(p) \/ update_query_phase(p) \/ AddFinalizer(p) \/ InitConditions(p)
      <4>1. \A x \in Object : /\ [x EXCEPT !.cancel = TRUE].overdue = x.overdue
                              /\ [x EXCEPT !.finalizer = TRUE].overdue = x.overdue
                              /\ [x EXCEPT !.completed = "False"].overdue = x.overdue
        BY DEF Object
      <4>2. \A x \in Object : \A ph : [x EXCEPT !.phase = ph, !.completed = "False"].overdue = x.overdue
        BY DEF Object
      <4>3. server[p] \in Object
        OBVIOUS
      <4>4. SetCancel(p) => server'[p].overdue = server[p].overdue
        BY <4>1, <4>3 DEF SetCancel, Put
      <4>5. update_query_phase(p) => server'[p].overdue = server[p].overdue
        BY <4>2, <4>3 DEF update_query_phase, Put
      <4>6. AddFinalizer(p) => server'[p].overdue = server[p].overdue
        BY <4>1, <4>3 DEF AddFinalizer, UpdateFetched, Put
      <4>7. InitConditions(p) => server'[p].overdue = server[p].overdue
        BY <4>1, <4>3 DEF InitConditions, UpdateFetched, Put
      <4>8. server'[p].overdue = server[p].overdue
        BY <3>4, <4>4, <4>5, <4>6, <4>7
      <4> QED BY <3>2, <4>8 DEF Unhurried
    <3>5. CASE DeleteQuery(p) \/ DeleteExpired(p) \/ RemoveFinalizer(p)
      <4>1. \A x \in Object : [x EXCEPT !.deleting = TRUE].overdue = x.overdue
        BY DEF Object
      <4>2. server'[p].overdue \in {server[p].overdue, Gone.overdue}
        BY <3>5, <4>1 DEF DeleteQuery, DeleteExpired, RemoveFinalizer, DeleteObject,
           UpdateFetched, Put
      <4> QED BY <1>g, <3>2, <4>2 DEF Unhurried
    <3>6. CASE mutateStatus(p)
      <4>1. server'[p].overdue = server[p].overdue
        BY <1>w, <3>6 DEF mutateStatus, Put
      <4> QED BY <3>2, <4>1 DEF Unhurried
    <3> QED BY <1>1, <3>1, <3>3, <3>4, <3>5, <3>6, PlainWaits DEF InformerSync,
         EnvironmentStep, GraceElapses, SettleTask, DiscardTask, EngineStops, ReconcileStep,
         ReconcileFails, fetchQuery, RefetchDeleted, NotFound, finalize, deleteBrokerData,
         InterruptQuery, TerminalPhase, StillWaiting, InFlight, CapacityReached, TryAcquire, Spawn
  <2>3. ~rec'[p].obj.overdue /\ rec'[p].pc # "resume"
    <3>1. ASSUME NEW pc, NEW want, NEW o, GotoWrite(p, pc, want, o), pc # "resume"
          PROVE  ~rec'[p].obj.overdue /\ rec'[p].pc # "resume"
      BY <1>g, <3>1 DEF GotoWrite, TypeRec, Gone, Created
    <3>2. ASSUME Return(p) \/ \E pc \in RecPC \ {"resume"} : Goto(p, pc) \/ Advance(p, pc)
          PROVE  ~rec'[p].obj.overdue /\ rec'[p].pc # "resume"
      BY <1>g, <3>2 DEF Return, Goto, Advance, TypeRec, Reconcile, Unhurried, IdleReconcile
    <3>3. CASE fetchQuery(p) \/ RefetchDeleted(p)
      BY <3>3 DEF fetchQuery, RefetchDeleted, TypeRec, Reconcile, Unhurried
    <3>4. CASE UNCHANGED rec
      BY <3>4 DEF Unhurried
    <3>5. ~stampRoundAnchor(p)
      BY DEF Unhurried, stampRoundAnchor
    <3> QED BY <1>1, <3>1, <3>2, <3>3, <3>4, <3>5, PlainWaits DEF InformerSync,
         EnvironmentStep, SetCancel, DeleteQuery, GraceElapses, BudgetElapses, SettleTask, DiscardTask,
         update_query_phase, EngineStops, ReconcileStep, ReconcileFails, DeleteExpired,
         NotFound, AddFinalizer, UpdateFetched, finalize, deleteBrokerData, RemoveFinalizer,
         InitConditions, InterruptQuery, TerminalPhase, StillWaiting, InFlight,
         CapacityReached, TryAcquire, mutateStatus, Spawn, RecPC
  <2> QED BY <2>1, <2>2, <2>3 DEF Unhurried
<1>2. ASSUME NEW w \in Workers, GoroutineStep(w) \/ StatusUpdateFails(w) PROVE Unhurried'
  <2>1. UNCHANGED <<cache, rec>>
    BY <1>2, GoroutineReach
  <2>2. \A q \in Queries : server'[q].overdue = server[q].overdue
    BY <1>2, <1>w, GoroutineReach DEF Put
  <2> QED BY <2>1, <2>2 DEF Unhurried
<1>3. CASE Crash
  BY <1>3, <1>g DEF Crash, Unhurried
<1> QED BY <1>0, <1>1, <1>2, <1>3 DEF Next, FaultStep

\* Between TryAcquire and Spawn nothing enters operations.
LEMMA UntrackedStep ==
    ASSUME Types, Untracked, [Next]_vars PROVE Untracked'
<1> USE DEF Types, TypeRest, world, memory
<1>0. CASE UNCHANGED vars
  BY <1>0 DEF vars, Untracked, Holding
<1>1. ASSUME NEW p \in Queries,
             InformerSync(p) \/ EnvironmentStep(p) \/ ReconcileStep(p) \/ ReconcileFails(p)
      PROVE  Untracked'
  <2>1. \A q \in Queries \ {p} : rec'[q] = rec[q] /\ operations'[q] = operations[q]
    BY <1>1, OneQuery
  <2>2. Holding(p)' => operations'[p] = None
    <3>1. CASE TryAcquire(p)
      BY <3>1 DEF TryAcquire, Tracked
    <3>2. CASE mutateStatus(p)
      BY <3>2 DEF mutateStatus, Return, Advance, IdleReconcile, TypeRec, Untracked, Holding
    <3>3. CASE UNCHANGED <<rec, operations>>
      BY <3>3 DEF Untracked, Holding
    <3>4. ASSUME Return(p) \/ \E pc \in RecPC \ {"acquired", "spawn"} :
                    \/ Goto(p, pc) \/ Advance(p, pc) \/ \E want, o : GotoWrite(p, pc, want, o)
          PROVE  ~Holding(p)'
      <4>1. \E pc \in RecPC \ {"acquired", "spawn"} : RecMove(p, pc)
        BY <3>4 DEF RecMove, RecPC
      <4> QED BY <4>1, RecMoves DEF Holding
    <3>5. CASE fetchQuery(p) \/ RefetchDeleted(p)
      BY <3>5 DEF fetchQuery, RefetchDeleted, TypeRec, Reconcile, Holding
    <3> QED BY <1>1, <3>1, <3>2, <3>3, <3>4, <3>5 DEF InformerSync, EnvironmentStep,
         SetCancel, DeleteQuery, GraceElapses, BudgetElapses, SettleTask, DiscardTask, update_query_phase,
         EngineStops, ReconcileStep, ReconcileFails, DeleteExpired, NotFound, AddFinalizer,
         UpdateFetched, finalize, deleteBrokerData, RemoveFinalizer, InitConditions,
         InterruptQuery, TerminalPhase, StillWaiting, handleApprovedTask,
         handleResumableDenial, handleFailedTask, stampRoundAnchor, InFlight,
         CapacityReached, Spawn, RecPC
  <2> QED BY <2>1, <2>2 DEF Untracked, Holding
<1>2. ASSUME NEW w \in Workers, GoroutineStep(w) \/ StatusUpdateFails(w) PROVE Untracked'
  <2>1. \A q \in Queries : operations[q] = None => operations'[q] = None
    BY <1>2 DEF GoroutineStep, executeQueryAsync, sendQueryA2A, handleQueryDispatch,
       HandleA2ATaskResponse, markQueryErroredAfterPanic, CheckContext, StatusUpdate,
       StatusUpdateFails, DeleteOperation, WithoutOperation, Release
  <2> QED BY <1>2, <2>1, GoroutineReach DEF Untracked, Holding
<1>3. CASE Crash
  BY <1>3 DEF Crash, IdleReconcile, Untracked, Holding
<1> QED BY <1>0, <1>1, <1>2, <1>3 DEF Next, FaultStep

\* A goroutine whose query, context and entry are left alone stays owned; so
\* does an interrupted one.
LEMMA OwnedKept ==
    ASSUME NEW w \in Workers, Owned(w), gor'[w].query = gor[w].query,
           gor'[w].cancelled = gor[w].cancelled,
           gor[w].pc \in {"idle", "release"} => gor'[w].pc \in {"idle", "release"},
           \/ gor'[w].pc \in {"idle", "release"}
           \/ /\ operations'[gor[w].query] = operations[gor[w].query]
              /\ Shut(gor[w].query) => Shut(gor[w].query)'
    PROVE  Owned(w)'
BY DEF Owned, Shut, InHand

LEMMA OwnedStep ==
    ASSUME Types, Plain, TrackedIsLive, Courses, Unhurried, Untracked, AllOwned, [Next]_vars
    PROVE  AllOwned'
<1> USE DEF Types, world, memory
<1> SUFFICES ASSUME NEW v \in Workers PROVE Owned(v)'
  BY DEF AllOwned
<1>v. Owned(v)
  BY DEF AllOwned
<1>n. None \notin Workers
  BY DistinctAssumption
<1>q. gor[v].pc \notin {"idle", "release"} => gor[v].query \in Queries
  BY DEF TypeGor
<1>s. ASSUME NEW q \in Queries, Shut(q), ~Crash PROVE Shut(q)'
  BY <1>s, ShutStep
<1>k. ASSUME ~Crash, gor'[v] = gor[v], UNCHANGED operations PROVE Owned(v)'
  BY <1>k, <1>v, <1>q, <1>s, OwnedKept
<1>5. CASE Crash
  BY <1>5 DEF Crash, Owned, IdleGoroutine
<1>0. CASE UNCHANGED vars
  BY <1>0, <1>5, <1>k DEF vars
<1>1. ASSUME NEW q \in Queries, InformerSync(q) \/ EnvironmentStep(q), ~Crash PROVE Owned(v)'
  BY <1>1, <1>k DEF InformerSync, EnvironmentStep, SetCancel, DeleteQuery, GraceElapses,
     BudgetElapses, SettleTask, DiscardTask, update_query_phase, EngineStops
<1>2. ASSUME NEW q \in Queries, ReconcileStep(q), ~Crash PROVE Owned(v)'
  <2>1. CASE Spawn(q)
    <3>1. PICK w \in Workers :
             /\ gor[w].pc = "idle"
             /\ gor' = [gor EXCEPT ![w] = [IdleGoroutine EXCEPT !.pc = "start", !.query = q]]
             /\ operations' = [operations EXCEPT ![q] = w]
      BY <2>1 DEF Spawn
    <3>2. operations[q] = None /\ ~Shut(q)
      BY <2>1 DEF Spawn, Untracked, Holding, Shut
    <3>3. gor'[w].query = q /\ operations'[q] = w
      BY <3>1 DEF TypeGor, TypeRest, IdleGoroutine
    <3>4. CASE v = w
      BY <3>3, <3>4 DEF Owned
    <3>5. CASE v # w /\ gor[v].pc \notin {"idle", "release"}
      <4>1. gor[v].query # q
        BY <1>v, <1>n, <3>2, <3>5 DEF Owned
      <4> QED BY <1>2, <1>q, <1>s, <1>v, <3>1, <3>5, <4>1, OwnedKept DEF TypeGor, TypeRest
    <3>6. CASE v # w /\ gor[v].pc \in {"idle", "release"}
      BY <3>1, <3>6 DEF Owned, TypeGor
    <3> QED BY <3>4, <3>5, <3>6
  <2>2. CASE UNCHANGED <<gor, operations>>
    BY <1>2, <1>k, <2>2
  <2>3. CASE (finalize(q) \/ InterruptQuery(q)) /\ CancelOperation(q)
    <3>1. Barred(rec[q].obj) /\ InHand(q)
      <4>1. ~MustTimeOut(rec[q].obj)
        BY DEF MustTimeOut, Unhurried
      <4> QED BY <2>3, <4>1 DEF finalize, InterruptQuery, Executable, MustCancel, Barred
    <3>2. Shut(q)
      BY <3>1 DEF Courses, Course, Shut, InHand
    <3>3. Shut(q)'
      BY <1>2, <1>s, <3>2
    <3>4. CASE v = operations[q]
      <4>1. gor[v].query = q
        BY <1>n, <3>4 DEF TrackedIsLive
      <4>2. gor'[v].query = q /\ gor'[v].cancelled /\ operations'[q] = None
        <5>1. gor' = [gor EXCEPT ![v].cancelled = TRUE]
          BY <1>n, <2>3, <3>4 DEF CancelOperation
        <5>2. gor'[v].cancelled
          BY <5>1 DEF TypeGor, Goroutine
        <5> QED BY <2>3, <4>1, <5>2, CancelMoves DEF TypeRest
      <4> QED BY <3>3, <4>2 DEF Owned
    <3>5. CASE v # operations[q]
      <4>1. gor'[v] = gor[v]
        BY <2>3, <3>5, CancelMoves
      <4>2. gor[v].query \in Queries \ {q} =>
              operations'[gor[v].query] = operations[gor[v].query]
        BY <2>3, CancelMoves DEF TypeRest
      <4>3. gor[v].query = q /\ gor[v].pc \notin {"idle", "release"} =>
              operations'[q] = operations[q]
        BY <1>v, <2>3, <3>5, CancelMoves DEF Owned, TypeRest
      <4> QED BY <1>2, <1>q, <1>s, <1>v, <4>1, <4>2, <4>3, OwnedKept
    <3> QED BY <3>4, <3>5
  <2>4. ~stampRoundAnchor(q)
    BY DEF Unhurried, stampRoundAnchor
  <2> QED BY <1>2, <2>1, <2>2, <2>3, <2>4 DEF ReconcileStep, fetchQuery, DeleteExpired,
       RefetchDeleted, NotFound, AddFinalizer, UpdateFetched, finalize, deleteBrokerData,
       RemoveFinalizer, InitConditions, InterruptQuery, TerminalPhase, StillWaiting,
       handleApprovedTask, handleResumableDenial, handleFailedTask, InFlight,
       CapacityReached, TryAcquire, mutateStatus
<1>3. ASSUME NEW w \in Workers, GoroutineStep(w) \/ StatusUpdateFails(w), ~Crash
      PROVE  Owned(v)'
  <2>1. /\ gor'[v].pc \notin {"idle", "release"} =>
               gor'[v].query = gor[v].query /\ gor'[v].cancelled = gor[v].cancelled
        /\ gor[v].pc \in {"idle", "release"} => gor'[v].pc \in {"idle", "release"}
    <3>1. CASE \/ GorMove(w, "executing") \/ GorMove(w, "write") \/ GorMove(w, "finish")
               \/ GorMove(w, "update") \/ GorMove(w, "release")
      <4>1. gor[w].pc \notin {"idle", "release"}
        BY <1>3, <3>1, GorMoves DEF GoroutineStep, executeQueryAsync, sendQueryA2A,
           handleQueryDispatch, HandleA2ATaskResponse, markQueryErroredAfterPanic, CheckContext,
           StatusUpdate, StatusUpdateFails, DeleteOperation, Release, IdleGoroutine, TypeGor
      <4> QED BY <3>1, <4>1, GorMoves
    <3>2. CASE executeQueryAsync(w)
      <4>1. \A u \in Workers \ {w} : gor'[u] = gor[u]
        BY <3>2 DEF executeQueryAsync, ToWrite, TypeGor
      <4>2. /\ gor[w].pc = "start" /\ gor'[w].query = gor[w].query
            /\ gor'[w].cancelled = gor[w].cancelled
        BY <3>2 DEF executeQueryAsync, ToWrite, TypeGor, Goroutine
      <4> QED BY <4>1, <4>2
    <3>3. CASE Release(w)
      BY <3>3 DEF Release, TypeGor, IdleGoroutine
    <3> QED BY <1>3, <3>1, <3>2, <3>3 DEF GoroutineStep, sendQueryA2A, handleQueryDispatch,
         HandleA2ATaskResponse, markQueryErroredAfterPanic, CheckContext, StatusUpdate,
         StatusUpdateFails, DeleteOperation, GorMove
  <2>2. CASE gor'[v].pc \in {"idle", "release"}
    BY <2>2 DEF Owned
  <2>3. CASE gor'[v].pc \notin {"idle", "release"} /\ UNCHANGED operations
    BY <1>3, <1>q, <1>s, <1>v, <2>1, <2>3, OwnedKept
  <2>4. CASE gor'[v].pc \notin {"idle", "release"} /\ DeleteOperation(w)
    <3>1. v # w /\ gor'[v] = gor[v]
      <4>1. GorMove(w, "release")
        BY <2>4 DEF DeleteOperation, GorMove
      <4> QED BY <2>4, <4>1, GorMoves
    <3>2. gor[w].pc = "finish" /\ gor[w].query \in Queries /\ Owned(w)
      BY <2>4 DEF DeleteOperation, TypeGor, AllOwned
    <3>3. operations[gor[w].query] \in {w, None}
      BY <3>2 DEF Owned
    <3>4. CASE gor[v].query = gor[w].query
      <4>1. operations[gor[v].query] = None
        BY <1>v, <1>n, <2>4, <3>1, <3>3, <3>4 DEF Owned
      <4>2. operations'[gor[v].query] = None
        BY <2>4, <3>2, <3>4 DEF DeleteOperation, WithoutOperation, TypeRest
      <4> QED BY <1>3, <1>q, <1>s, <1>v, <3>1, <4>1, <4>2, OwnedKept
    <3>5. CASE gor[v].query # gor[w].query
      <4>1. operations'[gor[v].query] = operations[gor[v].query]
        BY <2>1, <2>4, <1>q, <3>5 DEF DeleteOperation, WithoutOperation, TypeRest
      <4> QED BY <1>3, <1>q, <1>s, <1>v, <3>1, <4>1, OwnedKept
    <3> QED BY <3>4, <3>5
  <2> QED BY <1>3, <2>2, <2>3, <2>4 DEF GoroutineStep, executeQueryAsync, sendQueryA2A,
       handleQueryDispatch, HandleA2ATaskResponse, markQueryErroredAfterPanic, CheckContext,
       StatusUpdate, StatusUpdateFails, Release
<1>4. ASSUME NEW q \in Queries, ReconcileFails(q), ~Crash PROVE Owned(v)'
  BY <1>4, <1>k DEF ReconcileFails
<1> QED BY <1>0, <1>1, <1>2, <1>3, <1>4, <1>5 DEF Next, FaultStep

\* Where no approval is asked for and no budget runs out, at most one goroutine
\* works for a query, whatever users, engines, faults and restarts do: an operation
\* is interrupted only for a query that handleRunningPhase will not start again.
\* With either of the two the deferred function of an earlier round drops the
\* entry of the later one and the property fails.
THEOREM OneGoroutineCorrect ==
    ASSUME MaxTasks = 0, MayTimeOut = {} PROVE Spec => []OneGoroutine
<1>1. Plain
  BY DEF Plain
<1>2. Init => Unhurried /\ Untracked /\ AllOwned
  <2>1. Init => Unhurried
    <3>1. ~Created.overdue /\ ~Gone.overdue
      BY DEF Created, Gone
    <3>2. IdleReconcile.pc = "idle" /\ IdleReconcile.obj = Gone
      BY DEF IdleReconcile
    <3> QED BY <3>1, <3>2 DEF Init, Unhurried
  <2>2. Init => Untracked
    BY DEF Init, IdleReconcile, Untracked, Holding
  <2>3. Init => AllOwned
    BY DEF Init, IdleGoroutine, AllOwned, Owned
  <2> QED BY <2>1, <2>2, <2>3
<1>3. OutcomeInv /\ Unhurried /\ Untracked /\ AllOwned /\ [Next]_vars
         => (Unhurried /\ Untracked /\ AllOwned)'
  BY <1>1, UnhurriedStep, UntrackedStep, OwnedStep DEF OutcomeInv, Inv
<1>4. OutcomeInv /\ AllOwned => OneGoroutine
  BY DEF AllOwned, Owned, Working, OneGoroutine
<1> QED BY <1>2, <1>3, <1>4, OutcomeInductive, PTL DEF Spec

-----------------------------------------------------------------------------
(***************************************************************************)
(* Where this model meets that of the A2ATask reconciler.  A2ATask shows   *)
(* that an approval implements ApprovalTask; here whatever ApprovalTask    *)
(* allows a task that exists is a step of the queries' environment.        *)
(***************************************************************************)
Task(q, t) == INSTANCE ApprovalTask WITH task <- tasks[q][t]

\* The model of the queries leaves out nothing that ApprovalTask allows, so nothing
\* the A2ATask reconciler may do to an approval: a task is answered either way, and
\* may be collected at any moment, before its answer is read or even given.
THEOREM TasksUnrestricted ==
    ASSUME ShortLived = 1 .. MaxTasks, Types,
           NEW q \in Queries, NEW t \in 1 .. MaxTasks,
           tasks[q][t] # "absent", Task(q, t)!Next,
           tasks' = [tasks EXCEPT ![q][t] = tasks'[q][t]],
           UNCHANGED <<server, cache, rec, gor, fresh, engines, graceOver, resumed, faults, memory>>
    PROVE  Next
<1> USE DEF Types, TypeRest
<1>1. CASE Task(q, t)!Settle
  BY <1>1 DEF Task!Settle, Task!Answer, SettleTask, EnvironmentStep, Next
<1>2. CASE Task(q, t)!Discard
  BY <1>2 DEF Task!Discard, DiscardTask, EnvironmentStep, Next
<1>3. ~Task(q, t)!Ask
  BY DEF Task!Ask
<1> QED BY <1>1, <1>2, <1>3 DEF Task!Next

=============================================================================
