---------------------------- MODULE A2ATaskProofs ----------------------------
(***************************************************************************)
(* Theorems about A2ATask, for any requests, agent, deadlines and numbers  *)
(* of edits and faults.                                                    *)
(***************************************************************************)
EXTENDS A2ATask, TLAPS

-----------------------------------------------------------------------------
(* The inductive invariant *)

\* Reasons a task ends with, and those that an answer of the agent gives it.
Ended == TrueReason \cup {"InvalidApprovalDecision"}
AnswerReason == {"TaskPending", "TaskRunning", "TaskSucceeded", "TaskFailed", "TaskCancelled"}

\* Until the creator has written its status, phase and condition move together.
Matches(t) == (t.reason \in Ended) = IsTerminalPhase(t.phase)

\* What a reconcile or a creator knows that holds the server's version.
FreshOK ==
    /\ synced => cache = server
    /\ fresh # {} => server.exists
    /\ "rec" \in fresh =>
         /\ rec.pc # "idle"
         /\ cache.exists /\ cache.phase = server.phase /\ cache.reason = server.reason
         /\ rec.pc = "fetched" => obj = server
         /\ rec.pc = "polled" => obj.reason \in AnswerReason \cup {server.reason}

RecOK ==
    /\ rec.pc = "fetched" => rec.before = obj.phase
    /\ rec.pc = "polled" => request.remote /\ ~IsTerminalPhase(rec.before)

CreatorOK ==
    /\ creator.pc = "create" => server = Absent /\ cache = Absent /\ ~discarded
    /\ creator.pc # "failed" => creator.tries < MaxTries
    /\ discarded => ~server.exists
    /\ creator.pc # "done" =>
         /\ Matches(server) /\ Matches(cache)
         /\ "rec" \in fresh /\ rec.pc = "polled" => Matches(obj)

\* An approval is asked for by its creator and by nobody else.
ApprovalOK ==
    ~request.remote =>
      /\ creator.reported = "input-required"
      /\ server.phase \in {"pending", "input-required", "completed", "failed"}
      /\ creator.pc # "done" => server.phase = "pending"
      /\ server.phase \in {"completed", "failed"} => server.reason # "none"

\* An event that is to come because of the status, whatever the spec is.
StatusEvent ==
    \/ ~cache.exists
    \/ cache.reason # server.reason
    \/ creator.pc = "done" /\ <<cache.phase, cache.started>> # <<server.phase, server.started>>

\* Nothing but an event will look at the task again: there is no reconcile, or
\* one that has found a task that had ended.
Asleep ==
    /\ ~queued /\ ~timer
    /\ rec.pc = "idle" \/ (rec.pc = "fetched" /\ IsTerminalPhase(obj.phase))

WakeOK == server.exists /\ ~IsTerminalPhase(server.phase) /\ Asleep => StatusEvent

Inv == TypeOK /\ FreshOK /\ RecOK /\ CreatorOK /\ ApprovalOK /\ WakeOK

-----------------------------------------------------------------------------
(* Types *)

LEMMA ConstantTypes ==
    /\ Absent \in Task /\ Created \in Task /\ Idle \in Reconcile
    /\ Idle.pc = "idle" /\ ~Absent.exists /\ Absent.phase = "pending" /\ Absent.reason = "none"
    /\ Created.exists /\ Created.phase = "pending" /\ Created.reason = "none"
<1>1. Absent \in Task
  BY DEF Absent, Task, Phase, Reason, Input
<1>2. Created \in Task
  BY <1>1 DEF Created, Task
<1>3. Idle \in Reconcile
  BY <1>1 DEF Idle, Reconcile, Phase
<1> QED BY <1>1, <1>2, <1>3 DEF Created, Absent, Idle, Task

LEMMA ConvertType ==
    ASSUME NEW s \in ProtocolState
    PROVE  ConvertA2AStateToPhase(s) \in Phase
BY DEF ConvertA2AStateToPhase, ProtocolState, Phase

LEMMA UpdateType ==
    ASSUME NEW t \in Task, NEW phase \in Phase
    PROVE  LET r == updateConditionsAndEvents(t, phase)
           IN  /\ r \in Reason /\ r \in AnswerReason \cup {t.reason}
               /\ Matches(t) /\ ~IsTerminalPhase(t.phase) =>
                     (r \in Ended) = IsTerminalPhase(phase)
BY DEF updateConditionsAndEvents, Task, Phase, Reason, TrueReason, FalseReason, AnswerReason,
       Matches, Ended, IsTerminalPhase

-----------------------------------------------------------------------------
(* The ways in which a reconcile ends *)

LEMMA ReturnErrorInv ==
    ASSUME Inv, ReturnError, UNCHANGED outside, faults' \in 0 .. MaxFaults
    PROVE  Inv'
<1>1. /\ rec' = Idle /\ queued' = TRUE /\ fresh' = fresh \ {"rec"}
      /\ UNCHANGED <<server, synced, timer, request, cache, creator, agent, clock, edits, discarded>>
  BY DEF ReturnError, outside
<1>2. TypeOK'
  BY <1>1, ConstantTypes DEF Inv, TypeOK
<1>3. FreshOK' /\ RecOK'
  BY <1>1, ConstantTypes DEF Inv, FreshOK, RecOK, obj
<1>4. CreatorOK' /\ ApprovalOK'
  BY <1>1 DEF Inv, CreatorOK, ApprovalOK, obj
<1>5. WakeOK'
  BY <1>1 DEF WakeOK, Asleep
<1> QED BY <1>2, <1>3, <1>4, <1>5 DEF Inv

\* A reconcile that does not ask to be called again has found an ended task.
LEMMA ReturnInv ==
    ASSUME Inv, NEW again \in BOOLEAN, Return(again), UNCHANGED <<outside, faults>>,
           again \/ (rec.pc = "fetched" /\ IsTerminalPhase(obj.phase))
    PROVE  Inv'
<1>1. /\ rec' = Idle /\ timer' = (timer \/ again) /\ fresh' = fresh \ {"rec"}
      /\ UNCHANGED <<server, synced, queued, request, cache, creator, agent, clock, edits,
                     discarded, faults>>
  BY DEF Return, outside
<1>2. TypeOK'
  BY <1>1, ConstantTypes DEF Inv, TypeOK
<1>3. FreshOK' /\ RecOK'
  BY <1>1, ConstantTypes DEF Inv, FreshOK, RecOK, obj
<1>4. CreatorOK' /\ ApprovalOK'
  BY <1>1 DEF Inv, CreatorOK, ApprovalOK, obj
<1>5. WakeOK'
  BY <1>1 DEF Inv, WakeOK, Asleep, StatusEvent
<1> QED BY <1>2, <1>3, <1>4, <1>5 DEF Inv

\* A write that asks for no call ends the task or changes its condition.
LEMMA StatusUpdateInv ==
    ASSUME Inv, NEW t \in Task, NEW again \in BOOLEAN, StatusUpdate(t, again), UNCHANGED outside,
           "rec" \in fresh =>
             /\ again \/ IsTerminalPhase(t.phase) \/ t.reason # server.reason
             /\ creator.pc # "done" => Matches(t)
             /\ ~request.remote =>
                  /\ t.phase \in {"pending", "input-required", "completed", "failed"}
                  /\ creator.pc # "done" => t.phase = "pending"
                  /\ t.phase \in {"completed", "failed"} => t.reason # "none"
    PROVE  Inv'
<1>1. CASE /\ NoConflict("rec")
           /\ Put([server EXCEPT !.phase = t.phase, !.reason = t.reason, !.started = t.started])
           /\ rec' = Idle /\ timer' = (timer \/ again)
           /\ UNCHANGED <<queued, faults>>
  <2>1. /\ "rec" \in fresh /\ synced' = FALSE /\ fresh' = {} /\ rec' = Idle
        /\ timer' = (timer \/ again)
        /\ server' = [server EXCEPT !.phase = t.phase, !.reason = t.reason, !.started = t.started]
        /\ UNCHANGED <<queued, faults, request, cache, creator, agent, clock, edits, discarded>>
    BY <1>1 DEF NoConflict, Put, outside
  <2>2. /\ server \in Task /\ server' \in Task /\ server'.exists = server.exists
        /\ server'.phase = t.phase /\ server'.reason = t.reason
    BY <2>1 DEF Inv, TypeOK, Task
  <2>3. server.exists /\ cache.exists /\ cache.reason = server.reason
    BY <2>1 DEF Inv, FreshOK
  <2>4. TypeOK'
    BY <2>1, <2>2, ConstantTypes DEF Inv, TypeOK
  <2>5. FreshOK' /\ RecOK'
    BY <2>1, ConstantTypes DEF FreshOK, RecOK
  <2>6. CreatorOK'
    <3>1. creator.pc # "create" /\ ~discarded
      BY <2>3, ConstantTypes DEF Inv, CreatorOK
    <3> QED BY <2>1, <2>2, <3>1 DEF Inv, CreatorOK, Matches
  <2>7. ApprovalOK'
    BY <2>1, <2>2 DEF Inv, ApprovalOK
  <2>8. WakeOK'
    BY <2>1, <2>2, <2>3 DEF WakeOK, Asleep, StatusEvent
  <2> QED BY <2>4, <2>5, <2>6, <2>7, <2>8 DEF Inv
<1>2. CASE ReturnError /\ UNCHANGED faults
  BY <1>2, ReturnErrorInv DEF Inv, TypeOK
<1>3. CASE Fault /\ ReturnError
  <2>1. faults' \in 0 .. MaxFaults
    BY <1>3, BoundsAssumption DEF Fault, Inv, TypeOK
  <2> QED BY <1>3, <2>1, ReturnErrorInv
<1> QED BY <1>1, <1>2, <1>3 DEF StatusUpdate

-----------------------------------------------------------------------------
(* Informer, timers, deadlines, the user and the remote agent *)

LEMMA InformerSyncInv == Inv /\ InformerSync => Inv'
<1> SUFFICES ASSUME Inv, InformerSync PROVE Inv'
  OBVIOUS
<1>1. /\ cache' = server /\ synced' = TRUE
      /\ queued' = (queued \/ a2aTaskUpdatePredicate(cache, server))
      /\ UNCHANGED <<request, server, fresh, timer, rec, creator, agent, clock, edits,
                     discarded, faults>>
  BY DEF InformerSync
<1>2. TypeOK'
  BY <1>1 DEF Inv, TypeOK, a2aTaskUpdatePredicate
<1>3. FreshOK' /\ RecOK'
  BY <1>1 DEF Inv, FreshOK, RecOK, obj
<1>4. CreatorOK' /\ ApprovalOK'
  BY <1>1 DEF Inv, CreatorOK, ApprovalOK, obj, Matches
<1>5. WakeOK'
  <2>1. server.exists /\ StatusEvent => a2aTaskUpdatePredicate(cache, server)
    BY DEF StatusEvent, a2aTaskUpdatePredicate
  <2> QED BY <1>1, <2>1 DEF Inv, WakeOK, Asleep, obj
<1> QED BY <1>2, <1>3, <1>4, <1>5 DEF Inv

LEMMA RequeueAfterInv == Inv /\ RequeueAfter => Inv'
<1> SUFFICES ASSUME Inv, RequeueAfter PROVE Inv'
  OBVIOUS
<1>1. /\ timer' = FALSE /\ queued' = TRUE
      /\ UNCHANGED <<request, server, cache, synced, fresh, rec, creator, agent, clock,
                     edits, discarded, faults>>
  BY DEF RequeueAfter
<1>2. TypeOK'
  BY <1>1 DEF Inv, TypeOK
<1>3. FreshOK' /\ RecOK' /\ CreatorOK' /\ ApprovalOK'
  BY <1>1 DEF Inv, FreshOK, RecOK, CreatorOK, ApprovalOK, obj
<1>4. WakeOK'
  BY <1>1 DEF WakeOK, Asleep
<1> QED BY <1>2, <1>3, <1>4 DEF Inv

\* Nothing but types is said of these variables.
LEMMA UnrelatedInv ==
    ASSUME Inv, clock' \subseteq Clocks, agent' \in ProtocolState,
           UNCHANGED <<request, server, cache, synced, fresh, queued, timer, rec, creator,
                       edits, discarded, faults>>
    PROVE  Inv'
BY DEF Inv, TypeOK, FreshOK, RecOK, CreatorOK, ApprovalOK, WakeOK, Asleep, StatusEvent, obj

LEMMA EnvironmentInv == Inv /\ EnvironmentStep => Inv'
<1> SUFFICES ASSUME Inv, EnvironmentStep PROVE Inv'
  OBVIOUS
<1>1. ASSUME NEW c \in Clocks, DeadlinePasses(c)
      PROVE  Inv'
  BY <1>1, UnrelatedInv DEF DeadlinePasses, Inv, TypeOK
<1>2. ASSUME NEW d \in Input, Decide(d)
      PROVE  Inv'
  <2>1. /\ server.exists /\ edits' \in 0 .. MaxEdits
        /\ server' = [server EXCEPT !.input = d] /\ synced' = FALSE /\ fresh' = {}
        /\ UNCHANGED <<request, cache, queued, timer, rec, creator, agent, clock, discarded,
                       faults>>
    BY <1>2, BoundsAssumption DEF Decide, Put, Inv, TypeOK
  <2>2. /\ server \in Task /\ server' \in Task
        /\ server'.exists /\ server'.phase = server.phase /\ server'.reason = server.reason
        /\ server'.started = server.started
    BY <2>1 DEF Inv, TypeOK, Task
  <2>3. TypeOK'
    BY <2>1, <2>2 DEF Inv, TypeOK
  <2>4. FreshOK' /\ RecOK'
    BY <2>1 DEF Inv, FreshOK, RecOK, obj
  <2>5. CreatorOK' /\ ApprovalOK'
    BY <2>1, <2>2, ConstantTypes DEF Inv, CreatorOK, ApprovalOK, Matches
  <2>6. WakeOK'
    BY <2>1, <2>2 DEF Inv, WakeOK, Asleep, StatusEvent, obj
  <2> QED BY <2>3, <2>4, <2>5, <2>6 DEF Inv
<1>3. CASE AgentMoves
  BY <1>3, UnrelatedInv, AgentAssumption DEF AgentMoves, Inv, TypeOK
<1> QED BY <1>1, <1>2, <1>3 DEF EnvironmentStep

-----------------------------------------------------------------------------
(* HandleA2ATaskResponse *)

LEMMA CreateTaskInv == Inv /\ CreateTask => Inv'
<1> SUFFICES ASSUME Inv, CreateTask PROVE Inv'
  OBVIOUS
<1>1. /\ creator.pc = "create" /\ server = Absent /\ cache = Absent /\ fresh = {} /\ ~discarded
      /\ UNCHANGED <<request, cache, queued, timer, rec, agent, clock, edits, discarded>>
  BY ConstantTypes DEF CreateTask, Inv, CreatorOK, FreshOK
<1>2. CASE /\ Put(Created) /\ UNCHANGED faults
           /\ creator' = [creator EXCEPT !.pc = "refetch", !.reported =
                              IF request.remote THEN agent ELSE "input-required"]
  <2>1. /\ creator' \in Creator /\ creator'.pc = "refetch" /\ creator'.tries = creator.tries
        /\ ~request.remote => creator'.reported = "input-required"
    BY <1>2 DEF Inv, TypeOK, Creator, ProtocolState
  <2>2. server' = Created /\ synced' = FALSE /\ fresh' = {}
    BY <1>2 DEF Put
  <2>3. TypeOK'
    BY <1>1, <1>2, <2>1, <2>2, ConstantTypes DEF Inv, TypeOK
  <2>4. FreshOK' /\ RecOK'
    BY <1>1, <2>2 DEF Inv, FreshOK, RecOK, obj
  <2>5. CreatorOK' /\ ApprovalOK'
    BY <1>1, <2>1, <2>2, ConstantTypes
    DEF Inv, CreatorOK, ApprovalOK, Matches, Ended, TrueReason, IsTerminalPhase
  <2>6. WakeOK'
    BY <1>1, ConstantTypes DEF WakeOK, StatusEvent
  <2> QED BY <2>3, <2>4, <2>5, <2>6 DEF Inv
<1>3. CASE /\ Fault /\ creator' = [creator EXCEPT !.pc = "failed"]
           /\ UNCHANGED <<server, synced, fresh>>
  <2>1. /\ creator' \in Creator /\ creator'.pc = "failed" /\ creator'.reported = creator.reported
        /\ faults' \in 0 .. MaxFaults
    BY <1>3, BoundsAssumption DEF Fault, Inv, TypeOK, Creator
  <2>2. TypeOK'
    BY <1>1, <1>3, <2>1 DEF Inv, TypeOK
  <2>3. FreshOK' /\ RecOK'
    BY <1>1, <1>3 DEF Inv, FreshOK, RecOK, obj
  <2>4. CreatorOK' /\ ApprovalOK'
    BY <1>1, <1>3, <2>1, ConstantTypes DEF Inv, CreatorOK, ApprovalOK
  <2>5. WakeOK'
    BY <1>1, <1>3, ConstantTypes DEF WakeOK
  <2> QED BY <2>2, <2>3, <2>4, <2>5 DEF Inv
<1> QED BY <1>2, <1>3 DEF CreateTask

LEMMA NextTryType ==
    ASSUME Inv, NEW pc \in {"refetch", "reget"}, NextTry(pc), creator.pc # "failed"
    PROVE  /\ creator' \in Creator /\ creator'.pc \in {pc, "failed"}
           /\ creator'.reported = creator.reported
           /\ creator'.pc # "failed" => creator'.tries < MaxTries
<1> DEFINE n == creator.tries + 1
           p == IF n = MaxTries THEN "failed" ELSE pc
<1>1. /\ creator \in Creator /\ n \in 0 .. MaxTries /\ p \in {pc, "failed"}
      /\ p # "failed" => n < MaxTries
  BY DEF Inv, TypeOK, Creator, CreatorOK, MaxTries
<1>2. creator' = [creator EXCEPT !.tries = n, !.pc = p]
  BY DEF NextTry
<1> HIDE DEF n, p
<1> QED BY <1>1, <1>2 DEF Creator

LEMMA RefetchInv == Inv /\ Refetch => Inv'
<1> SUFFICES ASSUME Inv, Refetch PROVE Inv'
  OBVIOUS
<1>1. /\ creator.pc \in {"refetch", "reget"}
      /\ UNCHANGED <<request, server, cache, synced, queued, timer, rec, agent, clock, edits,
                     discarded, faults>>
  BY DEF Refetch
<1>2. /\ creator' \in Creator /\ creator'.pc \in {"refetch", "reget", "update", "failed"}
      /\ creator'.reported = creator.reported
      /\ creator'.pc # "failed" => creator'.tries < MaxTries
  <2>1. CASE Readable
    <3> DEFINE n == IF creator.pc = "refetch" THEN 0 ELSE creator.tries
    <3>1. creator' = [creator EXCEPT !.pc = "update", !.tries = n]
      BY <2>1 DEF Refetch
    <3>2. creator \in Creator /\ n \in 0 .. MaxTries /\ n < MaxTries
      BY <1>1 DEF Inv, TypeOK, CreatorOK, Creator, MaxTries
    <3> HIDE DEF n
    <3> QED BY <3>1, <3>2 DEF Creator
  <2>2. CASE ~Readable
    BY <1>1, <2>2, NextTryType DEF Refetch
  <2> QED BY <2>1, <2>2
<1>3. /\ fresh' \subseteq fresh \cup {"creator"}
      /\ fresh' = fresh \/ server.exists
  BY <1>1 DEF Refetch, Readable, Inv, FreshOK
<1>4. TypeOK'
  BY <1>1, <1>2, <1>3 DEF Inv, TypeOK
<1>5. FreshOK' /\ RecOK'
  BY <1>1, <1>3 DEF Inv, FreshOK, RecOK, obj
<1>6. CreatorOK' /\ ApprovalOK'
  BY <1>1, <1>2, <1>3 DEF Inv, CreatorOK, ApprovalOK, Matches, obj
<1>7. WakeOK'
  BY <1>1, <1>2 DEF Inv, WakeOK, Asleep, StatusEvent, obj
<1> QED BY <1>4, <1>5, <1>6, <1>7 DEF Inv

\* The creator's write wakes the reconciler although only the condition counts
\* until then: a task that had not ended was awaited, one that had ended changes.
LEMMA PopulateInv == Inv /\ PopulateA2ATaskStatus => Inv'
<1> SUFFICES ASSUME Inv, PopulateA2ATaskStatus PROVE Inv'
  OBVIOUS
<1>1. /\ creator.pc = "update"
      /\ UNCHANGED <<request, cache, queued, timer, rec, agent, clock, edits, discarded>>
  BY DEF PopulateA2ATaskStatus
<1>2. CASE /\ NoConflict("creator") /\ UNCHANGED faults
           /\ Put([server EXCEPT !.phase = ConvertA2AStateToPhase(creator.reported),
                                 !.started = TRUE])
           /\ creator' = [creator EXCEPT !.pc = "done"]
  <2> DEFINE phase == ConvertA2AStateToPhase(creator.reported)
  <2>1. /\ creator \in Creator /\ creator.reported \in ProtocolState /\ server \in Task
        /\ creator.tries < MaxTries
    BY <1>1 DEF Inv, TypeOK, Creator, CreatorOK
  <2>2. phase \in Phase
    BY <2>1, ConvertType
  <2>3. ~request.remote => phase = "input-required"
    BY <1>1 DEF Inv, ApprovalOK, ConvertA2AStateToPhase
  <2> HIDE DEF phase
  <2>4. /\ server' = [server EXCEPT !.phase = phase, !.started = TRUE]
        /\ synced' = FALSE /\ fresh' = {} /\ server.exists /\ ~discarded
    BY <1>2 DEF Put, NoConflict, phase, Inv, FreshOK, CreatorOK
  <2>5. /\ server' \in Task /\ server'.exists /\ server'.phase = phase
        /\ server'.reason = server.reason /\ server'.started = TRUE
    BY <2>1, <2>2, <2>4 DEF Task
  <2>6. creator' \in Creator /\ creator'.pc = "done" /\ creator'.reported = creator.reported
        /\ creator'.tries = creator.tries
    BY <1>2, <2>1 DEF Creator
  <2>7. TypeOK'
    BY <1>1, <1>2, <2>4, <2>5, <2>6 DEF Inv, TypeOK
  <2>8. FreshOK' /\ RecOK'
    BY <1>1, <2>4 DEF Inv, FreshOK, RecOK, obj
  <2>9. CreatorOK' /\ ApprovalOK'
    BY <1>1, <2>1, <2>3, <2>4, <2>5, <2>6 DEF Inv, CreatorOK, ApprovalOK
  <2>10. WakeOK'
    <3>1. SUFFICES ASSUME Asleep, ~IsTerminalPhase(phase), cache.exists,
                          cache.reason = server.reason, cache.phase = phase
                   PROVE  FALSE
      BY <1>1, <2>5, <2>6 DEF WakeOK, Asleep, StatusEvent, obj
    <3>2. Matches(server) /\ Matches(cache)
      BY <1>1 DEF Inv, CreatorOK
    <3>3. ~IsTerminalPhase(server.phase)
      BY <3>1, <3>2 DEF Matches
    <3> QED BY <1>1, <2>4, <3>1, <3>3 DEF Inv, WakeOK, StatusEvent
  <2> QED BY <2>7, <2>8, <2>9, <2>10 DEF Inv
<1>3. ASSUME NextTry("reget"), UNCHANGED <<server, synced>>, fresh' \subseteq fresh,
             faults' \in 0 .. MaxFaults
      PROVE  Inv'
  <2>1. /\ creator' \in Creator /\ creator'.pc \in {"reget", "failed"}
        /\ creator'.reported = creator.reported
        /\ creator'.pc # "failed" => creator'.tries < MaxTries
    BY <1>1, <1>3, NextTryType
  <2>2. TypeOK'
    BY <1>1, <1>3, <2>1 DEF Inv, TypeOK
  <2>3. FreshOK' /\ RecOK'
    BY <1>1, <1>3 DEF Inv, FreshOK, RecOK, obj
  <2>4. CreatorOK' /\ ApprovalOK'
    BY <1>1, <1>3, <2>1 DEF Inv, CreatorOK, ApprovalOK, Matches, obj
  <2>5. WakeOK'
    BY <1>1, <1>3, <2>1 DEF Inv, WakeOK, Asleep, StatusEvent, obj
  <2> QED BY <2>2, <2>3, <2>4, <2>5 DEF Inv
<1>4. CASE /\ ~NoConflict("creator") /\ NextTry("reget")
           /\ UNCHANGED <<server, synced, fresh, faults>>
  BY <1>3, <1>4 DEF Inv, TypeOK
<1>5. CASE /\ Fault /\ NextTry("reget")
           /\ fresh' = fresh \ {"creator"} /\ UNCHANGED <<server, synced>>
  <2>1. faults' \in 0 .. MaxFaults
    BY <1>5, BoundsAssumption DEF Fault, Inv, TypeOK
  <2> QED BY <1>3, <1>5, <2>1
<1> QED BY <1>2, <1>4, <1>5 DEF PopulateA2ATaskStatus

-----------------------------------------------------------------------------
(* Reconcile *)

LEMMA FetchInv == Inv /\ Fetch => Inv'
<1> SUFFICES ASSUME Inv, Fetch PROVE Inv'
  OBVIOUS
<1>1. /\ rec.pc = "idle" /\ queued' = FALSE
      /\ UNCHANGED <<request, server, cache, synced, timer, creator, agent, clock, edits,
                     discarded, faults>>
  BY DEF Fetch
<1>2. CASE cache.exists
  <2>1. /\ rec' = [pc |-> "fetched", obj |-> cache, before |-> cache.phase]
        /\ fresh' = IF synced THEN fresh \cup {"rec"} ELSE fresh
    BY <1>2 DEF Fetch
  <2>2. /\ synced => cache = server
        /\ "rec" \in fresh' => synced
        /\ fresh' # {} => server.exists
    BY <1>1, <1>2, <2>1 DEF Inv, FreshOK
  <2>3. TypeOK'
    BY <1>1, <2>1 DEF Inv, TypeOK, Reconcile, Task
  <2>4. FreshOK' /\ RecOK'
    BY <1>1, <1>2, <2>1, <2>2 DEF FreshOK, RecOK, obj
  <2>5. CreatorOK' /\ ApprovalOK'
    BY <1>1, <2>1 DEF Inv, CreatorOK, ApprovalOK, Matches, obj
  <2>6. WakeOK'
    <3>1. SUFFICES ASSUME server.exists, ~IsTerminalPhase(server.phase),
                          IsTerminalPhase(cache.phase), creator.pc # "done",
                          cache.reason = server.reason
                   PROVE  FALSE
      BY <1>1, <2>1 DEF WakeOK, Asleep, StatusEvent, obj
    <3> QED BY <3>1 DEF Inv, CreatorOK, Matches
  <2> QED BY <2>3, <2>4, <2>5, <2>6 DEF Inv
<1>3. CASE ~cache.exists
  <2>1. UNCHANGED <<rec, fresh>>
    BY <1>3 DEF Fetch
  <2>2. TypeOK'
    BY <1>1, <2>1 DEF Inv, TypeOK
  <2>3. FreshOK' /\ RecOK' /\ CreatorOK' /\ ApprovalOK'
    BY <1>1, <2>1 DEF Inv, FreshOK, RecOK, CreatorOK, ApprovalOK, obj
  <2>4. WakeOK'
    BY <1>1, <1>3 DEF WakeOK, StatusEvent
  <2> QED BY <2>2, <2>3, <2>4 DEF Inv
<1> QED BY <1>2, <1>3

LEMMA ReconcileTTLInv == Inv /\ reconcileTTL => Inv'
<1> SUFFICES ASSUME Inv, reconcileTTL PROVE Inv'
  OBVIOUS
<1>1. UNCHANGED <<request, cache, creator, agent, clock, edits>>
  BY DEF reconcileTTL
<1>2. CASE /\ server.exists /\ Put(Absent) /\ rec' = Idle /\ discarded' = TRUE
           /\ UNCHANGED <<queued, timer, faults>>
  <2>1. /\ server' = Absent /\ synced' = FALSE /\ fresh' = {}
        /\ creator.pc # "create"
    BY <1>2, ConstantTypes DEF Put, Inv, CreatorOK
  <2>2. TypeOK'
    BY <1>1, <1>2, <2>1, ConstantTypes DEF Inv, TypeOK
  <2>3. FreshOK' /\ RecOK'
    BY <1>2, <2>1, ConstantTypes DEF FreshOK, RecOK
  <2>4. CreatorOK' /\ ApprovalOK'
    BY <1>1, <1>2, <2>1, ConstantTypes
    DEF Inv, CreatorOK, ApprovalOK, Matches, Ended, TrueReason, IsTerminalPhase
  <2>5. WakeOK'
    BY <2>1, ConstantTypes DEF WakeOK
  <2> QED BY <2>2, <2>3, <2>4, <2>5 DEF Inv
<1>3. CASE ReturnError /\ UNCHANGED <<discarded, faults>>
  BY <1>1, <1>3, ReturnErrorInv DEF Inv, TypeOK, outside
<1>4. CASE Fault /\ ReturnError /\ UNCHANGED discarded
  <2>1. faults' \in 0 .. MaxFaults
    BY <1>4, BoundsAssumption DEF Fault, Inv, TypeOK
  <2> QED BY <1>1, <1>4, <2>1, ReturnErrorInv DEF outside
<1> QED BY <1>2, <1>3, <1>4 DEF reconcileTTL

\* What a reconcile knows that holds the server's version.
LEMMA Known ==
    ASSUME Inv, rec.pc = "fetched"
    PROVE  /\ obj \in Task
           /\ "rec" \in fresh =>
                /\ obj = server
                /\ creator.pc # "done" => Matches(obj)
                /\ ~request.remote =>
                     /\ obj.phase \in {"pending", "input-required", "completed", "failed"}
                     /\ creator.pc # "done" => obj.phase = "pending"
BY DEF Inv, TypeOK, Reconcile, FreshOK, CreatorOK, ApprovalOK, obj

LEMMA SetNotStartedInv == Inv /\ SetNotStarted => Inv'
<1> SUFFICES ASSUME Inv, SetNotStarted PROVE Inv'
  OBVIOUS
<1> DEFINE t == [obj EXCEPT !.reason = "TaskNotStarted"]
<1>1. /\ rec.pc = "fetched" /\ obj.reason = "none" /\ StatusUpdate(t, FALSE)
      /\ UNCHANGED outside
  BY DEF SetNotStarted, Fetched
<1>2. t \in Task /\ t.phase = obj.phase /\ t.reason = "TaskNotStarted"
  BY <1>1, Known DEF Task, Reason, FalseReason
<1>3. ("none" \in Ended) = ("TaskNotStarted" \in Ended)
  BY DEF Ended, TrueReason
<1> HIDE DEF t
<1> QED BY <1>1, <1>2, <1>3, Known, StatusUpdateInv DEF Matches

LEMMA TaskEndedInv == Inv /\ TaskEnded => Inv'
<1> SUFFICES ASSUME Inv, TaskEnded PROVE Inv'
  OBVIOUS
<1>1. /\ rec.pc = "fetched" /\ IsTerminalPhase(obj.phase) /\ Return(FALSE)
      /\ UNCHANGED <<outside, faults>>
  BY DEF TaskEnded, Fetched
<1> QED BY <1>1, ReturnInv

\* The reconciler ends a task, with a reason that says so.  An approval it
\* ends has been asked for by its creator.
LEMMA EndInv ==
    ASSUME Inv, Active, NEW phase \in {"completed", "failed"}, NEW reason \in Ended,
           ~request.remote => obj.phase = "input-required",
           StatusUpdate([obj EXCEPT !.phase = phase, !.reason = reason], FALSE),
           UNCHANGED outside
    PROVE  Inv'
<1> DEFINE t == [obj EXCEPT !.phase = phase, !.reason = reason]
<1>1. rec.pc = "fetched"
  BY DEF Active, Fetched
<1>2. t \in Task /\ t.phase = phase /\ t.reason = reason
  BY <1>1, Known DEF Task, Phase, Reason, Ended, FalseReason
<1>3. IsTerminalPhase(phase) /\ reason # "none"
  BY DEF IsTerminalPhase, Ended, TrueReason
<1>4. StatusUpdate(t, FALSE) /\ UNCHANGED outside
  OBVIOUS
<1> HIDE DEF t
<1> QED BY <1>1, <1>2, <1>3, <1>4, Known, StatusUpdateInv DEF Matches

LEMMA CheckApprovalTimeoutInv == Inv /\ checkApprovalTimeout => Inv'
<1> SUFFICES ASSUME Inv, checkApprovalTimeout PROVE Inv'
  OBVIOUS
<1>1. Active /\ obj.phase = "input-required" /\ UNCHANGED outside
  BY DEF checkApprovalTimeout, ApprovalExpired
<1>2. "ApprovalTimeoutProceeded" \in Ended /\ "ApprovalTimeoutRejected" \in Ended
  BY DEF Ended, TrueReason
<1>3. \/ StatusUpdate([obj EXCEPT !.phase = "completed", !.reason = "ApprovalTimeoutProceeded"], FALSE)
      \/ StatusUpdate([obj EXCEPT !.phase = "failed", !.reason = "ApprovalTimeoutRejected"], FALSE)
  BY DEF checkApprovalTimeout
<1> QED BY <1>1, <1>2, <1>3, EndInv

LEMMA ProcessApprovalDecisionInv == Inv /\ processApprovalDecision => Inv'
<1> SUFFICES ASSUME Inv, processApprovalDecision PROVE Inv'
  OBVIOUS
<1>1. /\ Active /\ rec.pc = "fetched" /\ obj.phase = "input-required"
      /\ obj.input \notin {"", "undecided"} /\ UNCHANGED outside
  BY DEF processApprovalDecision, Decided, Active, Fetched
<1>2. /\ "ApprovalGranted" \in Ended /\ "ApprovalRejected" \in Ended
      /\ "InvalidApprovalDecision" \in Ended
  BY DEF Ended, TrueReason
<1>3. obj.input \in {"approved", "rejected", "malformed"}
  BY <1>1, Known DEF Task, Input
<1>4. \/ StatusUpdate([obj EXCEPT !.phase = "completed", !.reason = "ApprovalGranted"], FALSE)
      \/ StatusUpdate([obj EXCEPT !.phase = "failed", !.reason = "ApprovalRejected"], FALSE)
      \/ StatusUpdate([obj EXCEPT !.phase = "failed", !.reason = "InvalidApprovalDecision"], FALSE)
  BY <1>3 DEF processApprovalDecision
<1> QED BY <1>1, <1>2, <1>4, EndInv

LEMMA ReconcileTimeoutInv == Inv /\ reconcileTimeout => Inv'
<1> SUFFICES ASSUME Inv, reconcileTimeout PROVE Inv'
  OBVIOUS
<1>1. Active /\ request.remote /\ UNCHANGED outside
  BY DEF reconcileTimeout, TimedOut
<1>2. StatusUpdate([obj EXCEPT !.phase = "failed", !.reason = "TaskTimeout"], FALSE)
  BY DEF reconcileTimeout
<1>3. "TaskTimeout" \in Ended
  BY DEF Ended, TrueReason
<1> QED BY <1>1, <1>2, <1>3, EndInv

-----------------------------------------------------------------------------
(* Polling *)

LEMMA PollNobodyInv == Inv /\ PollNobody => Inv'
<1> SUFFICES ASSUME Inv, PollNobody PROVE Inv'
  OBVIOUS
<1>1. Return(TRUE) /\ UNCHANGED <<outside, faults>>
  BY DEF PollNobody, PollAgain, Polling, Active
<1> QED BY <1>1, ReturnInv

LEMMA HandlePollFailureInv == Inv /\ handlePollFailure => Inv'
<1> SUFFICES ASSUME Inv, handlePollFailure PROVE Inv'
  OBVIOUS
<1>1. /\ faults' \in 0 .. MaxFaults /\ rec' = Idle /\ timer' = TRUE
      /\ UNCHANGED <<queued, request, cache, creator, agent, clock, edits, discarded>>
  BY BoundsAssumption DEF handlePollFailure, Fault, outside, Inv, TypeOK
<1>2. /\ server' \in Task /\ synced' \in BOOLEAN /\ fresh' \subseteq fresh \ {"rec"}
      /\ server'.exists = server.exists /\ server'.phase = server.phase
      /\ server'.reason = server.reason
      /\ synced' => synced /\ server' = server
      /\ server' # server => server.exists
  <2>1. CASE NoConflict("rec") /\ Put([server EXCEPT !.failing = TRUE])
    <3>1. /\ server.exists /\ server \in Task /\ synced' = FALSE /\ fresh' = {}
          /\ server' = [server EXCEPT !.failing = TRUE]
      BY <2>1 DEF NoConflict, Put, Inv, TypeOK, FreshOK
    <3> QED BY <3>1 DEF Task
  <2>2. CASE fresh' = fresh \ {"rec"} /\ UNCHANGED <<server, synced>>
    BY <2>2 DEF Inv, TypeOK
  <2> QED BY <2>1, <2>2 DEF handlePollFailure
<1>3. TypeOK'
  BY <1>1, <1>2, ConstantTypes DEF Inv, TypeOK
<1>4. FreshOK' /\ RecOK'
  BY <1>1, <1>2, ConstantTypes DEF Inv, FreshOK, RecOK
<1>5. CreatorOK' /\ ApprovalOK'
  BY <1>1, <1>2, ConstantTypes DEF Inv, CreatorOK, ApprovalOK, Matches
<1>6. WakeOK'
  BY <1>1 DEF WakeOK, Asleep
<1> QED BY <1>3, <1>4, <1>5, <1>6 DEF Inv

LEMMA UpdateA2ATaskStatusInv == Inv /\ UpdateA2ATaskStatus => Inv'
<1> SUFFICES ASSUME Inv, UpdateA2ATaskStatus PROVE Inv'
  OBVIOUS
<1>1. /\ rec.pc = "fetched" /\ ~IsTerminalPhase(obj.phase) /\ request.remote
      /\ UNCHANGED <<server, synced, fresh, queued, timer, faults, request, cache, creator,
                     agent, clock, edits, discarded>>
  BY DEF UpdateA2ATaskStatus, Polling, Active, Fetched, outside
<1>2. PICK s \in {obj.started, obj.started \/ obj.phase = "pending"} :
        LET phase == ConvertA2AStateToPhase(agent)
        IN rec' = [rec EXCEPT !.pc = "polled",
                     !.obj = [obj EXCEPT !.phase = phase, !.started = s,
                                !.reason = updateConditionsAndEvents(obj, phase)]]
  BY DEF UpdateA2ATaskStatus
<1> DEFINE phase == ConvertA2AStateToPhase(agent)
           reason == updateConditionsAndEvents(obj, phase)
           t == [obj EXCEPT !.phase = phase, !.started = s, !.reason = reason]
<1>3. /\ obj \in Task /\ s \in BOOLEAN /\ phase \in Phase
      /\ rec \in Reconcile /\ rec.before = obj.phase
  BY <1>1, Known, ConvertType DEF Inv, TypeOK, RecOK, Task
<1>4. /\ reason \in Reason /\ reason \in AnswerReason \cup {obj.reason}
      /\ Matches(obj) => (reason \in Ended) = IsTerminalPhase(phase)
  BY <1>1, <1>3, UpdateType
<1>5. rec' = [rec EXCEPT !.pc = "polled", !.obj = t]
  BY <1>2
<1> HIDE DEF phase, reason
<1>6. t \in Task /\ t.phase = phase /\ t.reason = reason
  BY <1>3, <1>4 DEF Task
<1> HIDE DEF t
<1>7. /\ rec' \in Reconcile /\ rec'.pc = "polled" /\ rec'.obj = t /\ rec'.before = obj.phase
  BY <1>3, <1>5, <1>6 DEF Reconcile
<1>8. TypeOK'
  BY <1>1, <1>7 DEF Inv, TypeOK
<1>9. FreshOK' /\ RecOK'
  BY <1>1, <1>4, <1>6, <1>7 DEF Inv, FreshOK, RecOK, obj
<1>10. CreatorOK' /\ ApprovalOK'
  BY <1>1, <1>4, <1>6, <1>7, Known DEF Inv, CreatorOK, ApprovalOK, Matches, obj
<1>11. WakeOK'
  BY <1>7 DEF WakeOK, Asleep
<1> QED BY <1>8, <1>9, <1>10, <1>11 DEF Inv

LEMMA ResetFailureCountInv == Inv /\ ResetFailureCount => Inv'
<1> SUFFICES ASSUME Inv, ResetFailureCount PROVE Inv'
  OBVIOUS
<1>1. /\ rec.pc = "polled"
      /\ UNCHANGED <<queued, timer, request, cache, creator, agent, clock, edits, discarded>>
  BY DEF ResetFailureCount, outside
<1>2. faults' \in 0 .. MaxFaults
  BY BoundsAssumption DEF ResetFailureCount, Fault, Inv, TypeOK
<1>3. CASE /\ NoConflict("rec")
           /\ server' = [server EXCEPT !.failing = FALSE] /\ synced' = FALSE /\ fresh' = {"rec"}
           /\ rec' = [rec EXCEPT !.obj = ResetResponse]
  <2>1. /\ server.exists /\ cache.exists /\ "rec" \in fresh
        /\ cache.phase = server.phase /\ cache.reason = server.reason
    BY <1>3 DEF NoConflict, Inv, FreshOK
  <2>2. /\ server' \in Task /\ server'.exists /\ server'.phase = server.phase
        /\ server'.reason = server.reason /\ server'.started = server.started
    BY <1>3, <2>1 DEF Inv, TypeOK, Task
  <2>3. rec' = [rec EXCEPT !.obj = server']
    BY <1>3 DEF ResetResponse
  <2>4. /\ rec' \in Reconcile /\ rec'.pc = "polled" /\ rec'.obj = server'
        /\ rec'.before = rec.before
    BY <1>1, <2>2, <2>3 DEF Inv, TypeOK, Reconcile
  <2>5. TypeOK'
    BY <1>1, <1>2, <1>3, <2>2, <2>4 DEF Inv, TypeOK
  <2>6. FreshOK' /\ RecOK'
    BY <1>1, <1>3, <2>1, <2>2, <2>4 DEF Inv, FreshOK, RecOK, obj
  <2>7. CreatorOK' /\ ApprovalOK'
    BY <1>1, <2>1, <2>2, <2>4, ConstantTypes DEF Inv, CreatorOK, ApprovalOK, Matches, obj
  <2>8. WakeOK'
    BY <2>4 DEF WakeOK, Asleep
  <2> QED BY <2>5, <2>6, <2>7, <2>8 DEF Inv
<1>4. CASE rec' = [rec EXCEPT !.obj.failing = FALSE] /\ UNCHANGED <<server, synced, fresh>>
  <2>1. /\ rec' \in Reconcile /\ rec'.pc = "polled" /\ rec'.before = rec.before
        /\ rec'.obj.phase = obj.phase /\ rec'.obj.reason = obj.reason
    BY <1>1, <1>4 DEF Inv, TypeOK, Reconcile, Task, obj
  <2>2. TypeOK'
    BY <1>1, <1>2, <1>4, <2>1 DEF Inv, TypeOK
  <2>3. FreshOK' /\ RecOK'
    BY <1>1, <1>4, <2>1 DEF Inv, FreshOK, RecOK, obj
  <2>4. CreatorOK' /\ ApprovalOK'
    BY <1>1, <1>4, <2>1 DEF Inv, CreatorOK, ApprovalOK, Matches, obj
  <2>5. WakeOK'
    BY <2>1 DEF WakeOK, Asleep
  <2> QED BY <2>2, <2>3, <2>4, <2>5 DEF Inv
<1> QED BY <1>3, <1>4 DEF ResetFailureCount

LEMMA PollTaskStatusInv == Inv /\ pollTaskStatus => Inv'
<1> SUFFICES ASSUME Inv, pollTaskStatus PROVE Inv'
  OBVIOUS
<1>1. rec.pc = "polled" /\ request.remote /\ ~IsTerminalPhase(rec.before) /\ UNCHANGED outside
  BY DEF pollTaskStatus, Inv, RecOK
<1>2. obj \in Task /\ PollAgain(obj.phase) = ~IsTerminalPhase(obj.phase)
  BY DEF Inv, TypeOK, Reconcile, PollAgain, obj
<1>3. CASE StatusUpdate(obj, PollAgain(obj.phase))
  <2>1. "rec" \in fresh /\ creator.pc # "done" => Matches(obj)
    BY <1>1 DEF Inv, CreatorOK
  <2>2. PollAgain(obj.phase) \in BOOLEAN
    BY <1>2 DEF IsTerminalPhase
  <2> QED BY <1>1, <1>2, <1>3, <2>1, <2>2, StatusUpdateInv
<1>4. CASE obj.phase = rec.before /\ Return(PollAgain(obj.phase)) /\ UNCHANGED faults
  <2>1. Return(TRUE)
    BY <1>1, <1>4 DEF PollAgain
  <2> QED BY <1>1, <1>4, <2>1, ReturnInv
<1> QED BY <1>3, <1>4 DEF pollTaskStatus

LEMMA CrashInv == Inv /\ Crash => Inv'
<1> SUFFICES ASSUME Inv, Crash PROVE Inv'
  OBVIOUS
<1>1. /\ cache' = server /\ synced' = TRUE /\ queued' = server.exists /\ timer' = FALSE
      /\ rec' = Idle /\ fresh' \subseteq fresh \cap {"creator"}
      /\ UNCHANGED <<request, server, agent, clock, edits, discarded>>
  BY DEF Crash
<1>2. \/ creator' = creator
      \/ creator.pc # "done" /\ creator' = [creator EXCEPT !.pc = "failed"]
  BY DEF Crash
<1>3. /\ creator' \in Creator /\ creator'.reported = creator.reported
      /\ creator'.pc # "done" => creator.pc # "done"
      /\ creator'.pc # "failed" => creator' = creator
  BY <1>2 DEF Inv, TypeOK, Creator
<1>4. faults' \in 0 .. MaxFaults
  BY BoundsAssumption DEF Crash, Fault, Inv, TypeOK
<1>5. TypeOK'
  BY <1>1, <1>3, <1>4, ConstantTypes DEF Inv, TypeOK, Task
<1>6. FreshOK' /\ RecOK'
  BY <1>1, ConstantTypes DEF Inv, FreshOK, RecOK
<1>7. CreatorOK' /\ ApprovalOK'
  BY <1>1, <1>3 DEF Inv, CreatorOK, ApprovalOK, Matches
<1>8. WakeOK'
  BY <1>1 DEF WakeOK, Asleep
<1> QED BY <1>5, <1>6, <1>7, <1>8 DEF Inv

-----------------------------------------------------------------------------
(* Every step *)

LEMMA InitInv == Init => Inv
<1> SUFFICES ASSUME Init PROVE Inv
  OBVIOUS
<1>1. /\ request \in Requests /\ server = Absent /\ cache = Absent /\ synced = TRUE /\ fresh = {}
      /\ queued = FALSE /\ timer = FALSE /\ rec = Idle /\ clock = {} /\ edits = 0
      /\ discarded = FALSE /\ faults = 0
      /\ creator = [pc |-> "create", tries |-> 0, reported |-> "input-required"]
  BY DEF Init
<1>2. agent \in ProtocolState
  BY AgentAssumption DEF Init, ProtocolState
<1>3. TypeOK
  <2>1. creator \in Creator
    BY <1>1 DEF Creator, ProtocolState, MaxTries
  <2>2. 0 \in 0 .. MaxEdits /\ 0 \in 0 .. MaxFaults
    BY BoundsAssumption
  <2> QED BY <1>1, <1>2, <2>1, <2>2, ConstantTypes DEF TypeOK
<1>4. FreshOK /\ RecOK
  BY <1>1, ConstantTypes DEF FreshOK, RecOK
<1>5. CreatorOK /\ ApprovalOK
  BY <1>1, ConstantTypes
  DEF CreatorOK, ApprovalOK, Matches, Ended, TrueReason, IsTerminalPhase, MaxTries
<1>6. WakeOK
  BY <1>1, ConstantTypes DEF WakeOK
<1> QED BY <1>3, <1>4, <1>5, <1>6 DEF Inv

LEMMA StutterInv == Inv /\ UNCHANGED vars => Inv'
BY DEF Inv, TypeOK, FreshOK, RecOK, CreatorOK, ApprovalOK, WakeOK, Asleep, StatusEvent, obj, vars

LEMMA StepInv == Inv /\ [Next]_vars => Inv'
<1> SUFFICES ASSUME Inv, [Next]_vars PROVE Inv'
  OBVIOUS
<1>1. CASE InformerSync \/ RequeueAfter \/ EnvironmentStep
  BY <1>1, InformerSyncInv, RequeueAfterInv, EnvironmentInv
<1>2. CASE CreatorStep
  BY <1>2, CreateTaskInv, RefetchInv, PopulateInv DEF CreatorStep
<1>3. CASE ReconcileStep
  BY <1>3, FetchInv, ReconcileTTLInv, SetNotStartedInv, TaskEndedInv, CheckApprovalTimeoutInv,
     ProcessApprovalDecisionInv, ReconcileTimeoutInv, PollNobodyInv, HandlePollFailureInv,
     UpdateA2ATaskStatusInv, ResetFailureCountInv, PollTaskStatusInv
  DEF ReconcileStep
<1>4. CASE Crash \/ UNCHANGED vars
  BY <1>4, CrashInv, StutterInv
<1> QED BY <1>1, <1>2, <1>3, <1>4 DEF Next

-----------------------------------------------------------------------------
(* What a step does to the status of the task *)

SameStatus ==
    /\ server'.exists = server.exists /\ server'.phase = server.phase
    /\ server'.reason = server.reason
    /\ discarded' = discarded

Appears == server = Absent /\ server' = Created /\ UNCHANGED discarded

\* The creator's write asks for the approval.
Asks ==
    /\ server.exists /\ server'.exists /\ server'.reason = server.reason
    /\ UNCHANGED discarded
    /\ ~request.remote => server.phase = "pending" /\ server'.phase = "input-required"

Vanishes == server.exists /\ server' = Absent /\ discarded' = TRUE

\* The first reconcile writes the condition.
Starts ==
    /\ server'.exists = server.exists /\ server'.phase = server.phase /\ UNCHANGED discarded
    /\ server.reason = "none" /\ server'.reason = "TaskNotStarted"

\* The reconciler ends the task; of a decision it has read what the server holds.
Ends ==
    /\ server.exists /\ server'.exists /\ UNCHANGED discarded
    /\ ~request.remote => server.phase = "input-required"
    /\ server'.phase \in {"completed", "failed"}
    /\ server'.reason = "ApprovalGranted" => server.input = "approved"
    /\ server'.reason = "ApprovalRejected" => server.input = "rejected"

Mirrors ==
    /\ request.remote /\ server.exists /\ server'.exists /\ UNCHANGED discarded
    /\ server'.reason \in AnswerReason \cup {server.reason}

StatusMove ==
    /\ UNCHANGED request
    /\ SameStatus \/ Appears \/ Asks \/ Vanishes \/ Starts \/ Ends \/ Mirrors

\* A status update leaves the status alone, or writes t over the version that
\* the reconcile has read.
LEMMA StatusUpdateMove ==
    ASSUME Inv, NEW t \in Task, NEW again, StatusUpdate(t, again), UNCHANGED outside
    PROVE  /\ UNCHANGED <<request, discarded>>
           /\ \/ SameStatus
              \/ /\ "rec" \in fresh /\ server.exists /\ server'.exists
                 /\ server'.phase = t.phase /\ server'.reason = t.reason
<1>1. UNCHANGED <<request, discarded>>
  BY DEF outside
<1>2. CASE NoConflict("rec") /\ Put([server EXCEPT !.phase = t.phase, !.reason = t.reason,
                                                   !.started = t.started])
  <2>1. /\ "rec" \in fresh /\ server.exists /\ server \in Task
        /\ server' = [server EXCEPT !.phase = t.phase, !.reason = t.reason, !.started = t.started]
    BY <1>2 DEF NoConflict, Put, Inv, FreshOK, TypeOK
  <2> QED BY <1>1, <2>1 DEF Task
<1>3. CASE ReturnError
  BY <1>1, <1>3 DEF ReturnError, SameStatus
<1> QED BY <1>1, <1>2, <1>3 DEF StatusUpdate

LEMMA CreatorMove == Inv /\ CreatorStep => StatusMove
<1> SUFFICES ASSUME Inv, CreatorStep PROVE StatusMove
  OBVIOUS
<1>1. CASE CreateTask
  <2>1. creator.pc = "create" /\ server = Absent /\ UNCHANGED <<request, discarded>>
    BY <1>1 DEF CreateTask, Inv, CreatorOK
  <2> QED BY <1>1, <2>1 DEF CreateTask, Put, StatusMove, Appears, SameStatus
<1>2. CASE Refetch
  BY <1>2 DEF Refetch, StatusMove, SameStatus
<1>3. CASE PopulateA2ATaskStatus
  <2> DEFINE phase == ConvertA2AStateToPhase(creator.reported)
  <2>1. creator.pc = "update" /\ UNCHANGED <<request, discarded>>
    BY <1>3 DEF PopulateA2ATaskStatus
  <2>2. ~request.remote => server.phase = "pending" /\ phase = "input-required"
    BY <2>1 DEF Inv, ApprovalOK, ConvertA2AStateToPhase
  <2> HIDE DEF phase
  <2>3. \/ UNCHANGED server
        \/ /\ NoConflict("creator")
           /\ server' = [server EXCEPT !.phase = phase, !.started = TRUE]
    BY <1>3 DEF PopulateA2ATaskStatus, Put, phase
  <2>4. CASE /\ NoConflict("creator")
             /\ server' = [server EXCEPT !.phase = phase, !.started = TRUE]
    <3>1. server \in Task /\ server.exists
      BY <2>4 DEF Inv, TypeOK, FreshOK, NoConflict
    <3>2. server'.phase = phase /\ server'.reason = server.reason /\ server'.exists
      BY <2>4, <3>1 DEF Task
    <3> QED BY <2>1, <2>2, <3>1, <3>2 DEF StatusMove, Asks
  <2> QED BY <2>1, <2>3, <2>4 DEF StatusMove, SameStatus
<1> QED BY <1>1, <1>2, <1>3 DEF CreatorStep

LEMMA DecisionMove == Inv /\ processApprovalDecision => StatusMove
<1> SUFFICES ASSUME Inv, processApprovalDecision PROVE StatusMove
  OBVIOUS
<1>1. /\ rec.pc = "fetched" /\ obj.phase = "input-required"
      /\ obj.input \notin {"", "undecided"} /\ UNCHANGED outside
  BY DEF processApprovalDecision, Decided, Active, Fetched
<1>2. obj.input \in {"approved", "rejected", "malformed"}
  BY <1>1, Known DEF Task, Input
<1>3. PICK phase \in {"completed", "failed"},
           reason \in {"ApprovalGranted", "ApprovalRejected", "InvalidApprovalDecision"} :
        /\ StatusUpdate([obj EXCEPT !.phase = phase, !.reason = reason], FALSE)
        /\ reason = "ApprovalGranted" => obj.input = "approved"
        /\ reason = "ApprovalRejected" => obj.input = "rejected"
  <2>1. CASE obj.input = "approved"
    BY <2>1 DEF processApprovalDecision
  <2>2. CASE obj.input = "rejected"
    BY <2>2 DEF processApprovalDecision
  <2>3. CASE obj.input = "malformed"
    BY <2>3 DEF processApprovalDecision
  <2> QED BY <1>2, <2>1, <2>2, <2>3
<1> DEFINE t == [obj EXCEPT !.phase = phase, !.reason = reason]
<1>4. t \in Task /\ t.phase = phase /\ t.reason = reason
  BY <1>1, Known DEF Task, Phase, Reason, TrueReason, FalseReason
<1>5. StatusUpdate(t, FALSE)
  BY <1>3
<1> HIDE DEF t
<1>6. /\ UNCHANGED <<request, discarded>>
      /\ \/ SameStatus
         \/ /\ "rec" \in fresh /\ server.exists /\ server'.exists
            /\ server'.phase = t.phase /\ server'.reason = t.reason
  BY <1>1, <1>4, <1>5, StatusUpdateMove
<1> QED BY <1>1, <1>3, <1>4, <1>6, Known DEF StatusMove, Ends

LEMMA ReconcileMove == Inv /\ ReconcileStep => StatusMove
<1> SUFFICES ASSUME Inv, ReconcileStep PROVE StatusMove
  OBVIOUS
<1>1. ASSUME rec.pc = "fetched", NEW t \in Task, StatusUpdate(t, FALSE), UNCHANGED outside,
             \/ obj.reason = "none" /\ t.reason = "TaskNotStarted" /\ t.phase = obj.phase
             \/ /\ t.phase \in {"completed", "failed"}
                /\ t.reason \notin {"ApprovalGranted", "ApprovalRejected"}
                /\ ~request.remote => obj.phase = "input-required"
      PROVE  StatusMove
  <2>1. /\ UNCHANGED <<request, discarded>>
        /\ \/ SameStatus
           \/ /\ "rec" \in fresh /\ server.exists /\ server'.exists
              /\ server'.phase = t.phase /\ server'.reason = t.reason
    BY <1>1, StatusUpdateMove
  <2>2. CASE SameStatus
    BY <2>1, <2>2 DEF StatusMove
  <2>3. CASE /\ "rec" \in fresh /\ server.exists /\ server'.exists
             /\ server'.phase = t.phase /\ server'.reason = t.reason
    <3>1. obj = server
      BY <1>1, <2>3, Known
    <3>2. server.exists \in BOOLEAN /\ server'.exists = server.exists
      BY <1>1, <2>3, <3>1, Known DEF Inv, TypeOK, Task, StatusUpdate, Put, ReturnError
    <3> QED BY <1>1, <2>1, <2>3, <3>1, <3>2 DEF StatusMove, Starts, Ends
  <2> QED BY <2>1, <2>2, <2>3
<1>2. CASE Fetch \/ TaskEnded \/ PollNobody \/ UpdateA2ATaskStatus
  BY <1>2 DEF Fetch, TaskEnded, PollNobody, UpdateA2ATaskStatus, Return, outside,
              StatusMove, SameStatus
<1>3. CASE reconcileTTL
  BY <1>3 DEF reconcileTTL, Put, ReturnError, StatusMove, SameStatus, Vanishes
<1>4. CASE SetNotStarted
  <2>1. /\ rec.pc = "fetched" /\ obj.reason = "none" /\ UNCHANGED outside
        /\ StatusUpdate([obj EXCEPT !.reason = "TaskNotStarted"], FALSE)
    BY <1>4 DEF SetNotStarted, Fetched
  <2>2. [obj EXCEPT !.reason = "TaskNotStarted"] \in Task
    BY <2>1, Known DEF Task, Reason, FalseReason
  <2> QED BY <1>1, <2>1, <2>2, Known DEF Task
<1>5. ASSUME NEW phase \in {"completed", "failed"},
             NEW reason \in {"ApprovalTimeoutProceeded", "ApprovalTimeoutRejected", "TaskTimeout"},
             rec.pc = "fetched", ~request.remote => obj.phase = "input-required",
             StatusUpdate([obj EXCEPT !.phase = phase, !.reason = reason], FALSE),
             UNCHANGED outside
      PROVE  StatusMove
  <2> DEFINE t == [obj EXCEPT !.phase = phase, !.reason = reason]
  <2>1. t \in Task /\ t.phase = phase /\ t.reason = reason /\ StatusUpdate(t, FALSE)
    BY <1>5, Known DEF Task, Phase, Reason, TrueReason
  <2> HIDE DEF t
  <2> QED BY <1>1, <1>5, <2>1
<1>6. CASE checkApprovalTimeout
  <2>1. /\ rec.pc = "fetched" /\ obj.phase = "input-required" /\ UNCHANGED outside
    BY <1>6 DEF checkApprovalTimeout, ApprovalExpired, Active, Fetched
  <2>2. CASE request.onTimeout = "proceed"
    <3>1. StatusUpdate([obj EXCEPT !.phase = "completed", !.reason = "ApprovalTimeoutProceeded"],
                       FALSE)
      BY <1>6, <2>2 DEF checkApprovalTimeout
    <3> QED BY <1>5, <2>1, <3>1
  <2>3. CASE request.onTimeout # "proceed"
    <3>1. StatusUpdate([obj EXCEPT !.phase = "failed", !.reason = "ApprovalTimeoutRejected"], FALSE)
      BY <1>6, <2>3 DEF checkApprovalTimeout
    <3> QED BY <1>5, <2>1, <3>1
  <2> QED BY <2>2, <2>3
<1>7. CASE processApprovalDecision
  BY <1>7, DecisionMove
<1>8. CASE reconcileTimeout
  <2>1. /\ rec.pc = "fetched" /\ request.remote /\ UNCHANGED outside
        /\ StatusUpdate([obj EXCEPT !.phase = "failed", !.reason = "TaskTimeout"], FALSE)
    BY <1>8 DEF reconcileTimeout, TimedOut, Active, Fetched
  <2> QED BY <1>5, <2>1
<1>9. CASE handlePollFailure
  <2>1. /\ UNCHANGED <<request, discarded>>
        /\ \/ UNCHANGED server
           \/ server' = [server EXCEPT !.failing = TRUE]
    BY <1>9 DEF handlePollFailure, Put, outside
  <2> QED BY <2>1 DEF StatusMove, SameStatus, Inv, TypeOK, Task
<1>10. CASE ResetFailureCount
  <2>1. /\ UNCHANGED <<request, discarded>>
        /\ \/ UNCHANGED server
           \/ server' = [server EXCEPT !.failing = FALSE]
    BY <1>10 DEF ResetFailureCount, outside
  <2> QED BY <2>1 DEF StatusMove, SameStatus, Inv, TypeOK, Task
<1>11. CASE pollTaskStatus
  <2>1. /\ rec.pc = "polled" /\ request.remote /\ obj \in Task /\ UNCHANGED outside
        /\ "rec" \in fresh => obj.reason \in AnswerReason \cup {server.reason}
    BY <1>11 DEF pollTaskStatus, Inv, TypeOK, Reconcile, RecOK, FreshOK, obj
  <2>2. CASE StatusUpdate(obj, PollAgain(obj.phase))
    BY <2>1, <2>2, StatusUpdateMove DEF StatusMove, Mirrors
  <2>3. CASE Return(PollAgain(obj.phase))
    BY <2>1, <2>3 DEF Return, outside, StatusMove, SameStatus
  <2> QED BY <1>11, <2>2, <2>3 DEF pollTaskStatus
<1> QED BY <1>2, <1>3, <1>4, <1>6, <1>7, <1>8, <1>9, <1>10, <1>11 DEF ReconcileStep

LEMMA StatusStep == Inv /\ [Next]_vars => StatusMove
<1> SUFFICES ASSUME Inv, [Next]_vars PROVE StatusMove
  OBVIOUS
<1>1. CASE InformerSync \/ RequeueAfter \/ Crash \/ UNCHANGED vars
  BY <1>1 DEF InformerSync, RequeueAfter, Crash, vars, StatusMove, SameStatus
<1>2. CASE EnvironmentStep
  <2>1. ASSUME NEW c \in Clocks, DeadlinePasses(c)
        PROVE  StatusMove
    BY <2>1 DEF DeadlinePasses, StatusMove, SameStatus
  <2>2. ASSUME NEW d \in Input, Decide(d)
        PROVE  StatusMove
    <3>1. server' = [server EXCEPT !.input = d] /\ UNCHANGED <<request, discarded>>
      BY <2>2 DEF Decide, Put
    <3> QED BY <3>1 DEF StatusMove, SameStatus, Inv, TypeOK, Task
  <2>3. CASE AgentMoves
    BY <2>3 DEF AgentMoves, StatusMove, SameStatus
  <2> QED BY <1>2, <2>1, <2>2, <2>3 DEF EnvironmentStep
<1> QED BY <1>1, <1>2, CreatorMove, ReconcileMove DEF Next

-----------------------------------------------------------------------------
(* The theorems *)

THEOREM InvCorrect == Spec => []Inv
BY InitInv, StepInv, PTL DEF Spec

\* Every reachable state of task, reconciler and creator is well typed
\* (a2atask_controller.go, a2a.go).
THEOREM TypeCorrect == Spec => []TypeOK
<1>1. Inv => TypeOK
  BY DEF Inv
<1> QED BY <1>1, InvCorrect, PTL

\* A task that has not ended is never forgotten by Reconcile, which is woken only
\* by a2aTaskUpdatePredicate, RequeueAfter or an error.
THEOREM WakeupCorrect == Spec => []NoLostWakeup
<1>1. Inv => NoLostWakeup
  <2>1. StatusEvent /\ server.exists => a2aTaskUpdatePredicate(cache, server)
    BY DEF StatusEvent, a2aTaskUpdatePredicate
  <2> QED BY <2>1 DEF Inv, WakeOK, Asleep, NoLostWakeup
<1> QED BY <1>1, InvCorrect, PTL

\* processApprovalDecision applies the decision that the server holds when it
\* writes, although it read it from the cache.
THEOREM DecisionCorrect == Spec => DecisionApplied
<1>1. Inv /\ [Next]_vars =>
        \A d \in {<<"ApprovalGranted", "approved">>, <<"ApprovalRejected", "rejected">>} :
           server'.reason = d[1] /\ server.reason # d[1] => server.input = d[2]
  <2> SUFFICES ASSUME Inv, [Next]_vars
               PROVE  /\ server'.reason = "ApprovalGranted" /\ server.reason # "ApprovalGranted"
                            => server.input = "approved"
                      /\ server'.reason = "ApprovalRejected" /\ server.reason # "ApprovalRejected"
                            => server.input = "rejected"
    OBVIOUS
  <2>1. StatusMove
    BY StatusStep
  <2> QED BY <2>1, ConstantTypes DEF StatusMove, SameStatus, Appears, Asks, Vanishes, Starts,
                                     Ends, Mirrors, AnswerReason
<1> QED BY <1>1, InvCorrect, PTL DEF Spec, DecisionApplied

\* Creator and reconciler together keep the promise of ApprovalTask: one
\* question, one answer, and the answer stands until the task is collected.
THEOREM ApprovalCorrect == Spec => ApprovalSpec
<1>1. Init => Approval!Init
  BY ConstantTypes DEF Init, Approval!Init, ApprovalState, Asked
<1>2. Inv /\ [Next]_vars => [Approval!Next]_ApprovalState
  <2> SUFFICES ASSUME Inv, [Next]_vars PROVE [Approval!Next]_ApprovalState
    OBVIOUS
  <2>1. StatusMove
    BY StatusStep
  <2>2. discarded => ~server.exists
    BY DEF Inv, CreatorOK
  <2>3. UNCHANGED request
    BY <2>1 DEF StatusMove
  <2>4. CASE SameStatus \/ Appears \/ Starts \/ Mirrors
    <3>1. ApprovalState' = ApprovalState
      BY <2>2, <2>3, <2>4, ConstantTypes
      DEF SameStatus, Appears, Starts, Mirrors, ApprovalState, Asked
    <3> QED BY <3>1
  <2>5. CASE Asks
    <3>1. CASE request.remote
      BY <2>2, <2>3, <2>5, <3>1 DEF Asks, ApprovalState, Asked
    <3>2. CASE ~request.remote
      BY <2>2, <2>3, <2>5, <3>2 DEF Asks, ApprovalState, Asked, Approval!Next, Approval!Ask
    <3> QED BY <3>1, <3>2
  <2>6. CASE Ends
    <3>1. CASE request.remote
      BY <2>2, <2>3, <2>6, <3>1 DEF Ends, ApprovalState, Asked
    <3>2. CASE ~request.remote
      <4>1. ApprovalState = "input-required"
        BY <2>2, <2>6, <3>2 DEF Ends, ApprovalState, Asked
      <4>2. ApprovalState' \in Approval!Answer
        BY <2>2, <2>3, <2>6, <3>2 DEF Ends, ApprovalState, Asked, Approval!Answer
      <4> QED BY <4>1, <4>2 DEF Approval!Next, Approval!Settle
    <3> QED BY <3>1, <3>2
  <2>7. CASE Vanishes
    BY <2>2, <2>7 DEF Vanishes, ApprovalState, Asked, Approval!Next, Approval!Discard
  <2> QED BY <2>1, <2>4, <2>5, <2>6, <2>7 DEF StatusMove
<1> QED BY <1>1, <1>2, InvCorrect, PTL DEF Spec, ApprovalSpec, Approval!Spec

==============================================================================
