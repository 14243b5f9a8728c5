-------------------------------- MODULE A2ATask --------------------------------
(***************************************************************************)
(* One A2ATask, its reconciler                                             *)
(* (ark/internal/controller/a2atask_controller.go) and its creator,        *)
(* HandleA2ATaskResponse (ark/internal/a2a/a2a.go).                        *)
(*                                                                         *)
(* A task without A2AServerRef is a request for approval: the query        *)
(* controller creates it, a user answers through spec.input, the           *)
(* reconciler settles it.  A task with one mirrors a task of a remote      *)
(* agent: the executor creates it, the reconciler polls the agent.         *)
(* Creator and reconciler write the same status, each with the version it  *)
(* read.  The reconciler reads the informer cache, as does the creator of  *)
(* an approval; the executor reads the API server.                         *)
(*                                                                         *)
(* The reconciler runs only when it is woken: by an event that passes      *)
(* a2aTaskUpdatePredicate, by a RequeueAfter it asked for, or by the retry *)
(* of a reconcile that returned an error.  Tasks do not interact, so one   *)
(* is modelled.                                                            *)
(***************************************************************************)
EXTENDS Naturals

CONSTANTS
    Requests,   \* what the task may be created for
    AgentStates, \* the protocol states the remote agent goes through
    Clocks,     \* the deadlines that may pass: "approval", "polling", "ttl"
    Flaky,      \* the remote agent may fail to answer any number of times
    MaxEdits,   \* bound: changes a user makes to spec.input
    MaxFaults   \* bound: crashes, refused writes, unanswered polls unless Flaky

Request == [remote : BOOLEAN, onTimeout : {"reject", "proceed", "invalid"}]

ASSUME RequestsAssumption == Requests \subseteq Request
ASSUME ClocksAssumption == Clocks \subseteq {"approval", "polling", "ttl"}
ASSUME BoundsAssumption == Flaky \in BOOLEAN /\ MaxEdits \in Nat /\ MaxFaults \in Nat

VARIABLES
    request,  \* what the task is created for
    server,   \* the API server's copy of the task
    cache,    \* the informer's copy
    synced,   \* the informer has the server's version
    fresh,    \* who of the reconciler and the creator holds the server's version
    queued,   \* the task is in the work queue
    timer,    \* a RequeueAfter is running
    rec,      \* the reconcile in progress
    creator,  \* the call of HandleA2ATaskResponse
    agent,    \* the state of the remote agent's task
    clock,    \* the deadlines that have passed
    edits,    \* changes of spec.input so far
    discarded, \* history: the task was deleted
    faults

vars == <<request, server, cache, synced, fresh, queued, timer, rec, creator,
          agent, clock, edits, discarded, faults>>

-----------------------------------------------------------------------------
(***************************************************************************)
(* The task.                                                               *)
(***************************************************************************)
Phase == {"pending", "assigned", "running", "input-required", "auth-required",
          "completed", "failed", "cancelled", "unknown"}

IsTerminalPhase(p) == p \in {"completed", "failed", "cancelled"}

ProtocolState == {"submitted", "working", "input-required", "auth-required",
                  "completed", "failed", "canceled", "rejected", "unknown"}

ASSUME AgentAssumption == AgentStates \subseteq ProtocolState

FinalState == {"completed", "failed", "canceled", "rejected"}

ConvertA2AStateToPhase(state) ==
    CASE state = "submitted"              -> "assigned"
      [] state = "working"                -> "running"
      [] state = "canceled"               -> "cancelled"
      [] state \in {"failed", "rejected"} -> "failed"
      [] OTHER                            -> state

\* The reason of the condition Completed; "none" before there is one.
TrueReason == {"TaskSucceeded", "TaskFailed", "TaskCancelled", "TaskTimeout",
               "ApprovalGranted", "ApprovalRejected", "ApprovalTimeoutProceeded",
               "ApprovalTimeoutRejected"}
FalseReason == {"TaskNotStarted", "TaskPending", "TaskRunning", "InvalidApprovalDecision"}
Reason == TrueReason \cup FalseReason \cup {"none"}

\* spec.input: absent, a decision, JSON without one, or anything else.
Input == {"", "approved", "rejected", "undecided", "malformed"}

\* An empty phase is read as pending everywhere, and so modelled as pending.
\* started is status.startTime, failing a poll-failure-count above zero.
Task == [exists : BOOLEAN, phase : Phase, reason : Reason, input : Input,
         started : BOOLEAN, failing : BOOLEAN]

Absent == [exists |-> FALSE, phase |-> "pending", reason |-> "none", input |-> "",
           started |-> FALSE, failing |-> FALSE]

Created == [Absent EXCEPT !.exists = TRUE]

\* Mutant: only a new generation is an event.
a2aTaskUpdatePredicate_GenerationOnly(old, new) ==
    old.exists # new.exists \/ old.input # new.input

\* The informer's event reaches the work queue: creation, deletion, a new spec
\* or a new status, but not the reconciler's own annotation.
a2aTaskUpdatePredicate(old, new) ==
    \/ old.exists # new.exists
    \/ old.input # new.input
    \/ <<old.phase, old.reason, old.started>> # <<new.phase, new.reason, new.started>>

Reconcile == [pc : {"idle", "fetched", "polled"}, obj : Task, before : Phase]
Idle == [pc |-> "idle", obj |-> Absent, before |-> "pending"]

MaxTries == 3

Creator == [pc : {"create", "refetch", "reget", "update", "done", "failed"},
            tries : 0 .. MaxTries, reported : ProtocolState]

TypeOK ==
    /\ request \in Requests
    /\ server \in Task /\ cache \in Task
    /\ synced \in BOOLEAN /\ queued \in BOOLEAN /\ timer \in BOOLEAN
    /\ fresh \subseteq {"rec", "creator"}
    /\ rec \in Reconcile
    /\ creator \in Creator
    /\ agent \in ProtocolState
    /\ clock \subseteq Clocks
    /\ edits \in 0 .. MaxEdits
    /\ discarded \in BOOLEAN
    /\ faults \in 0 .. MaxFaults

Init ==
    /\ request \in Requests
    /\ server = Absent /\ cache = Absent
    /\ synced = TRUE /\ fresh = {}
    /\ queued = FALSE /\ timer = FALSE
    /\ rec = Idle
    /\ creator = [pc |-> "create", tries |-> 0, reported |-> "input-required"]
    /\ agent \in IF request.remote THEN AgentStates ELSE {"submitted"}
    /\ clock = {}
    /\ edits = 0
    /\ discarded = FALSE
    /\ faults = 0

\* The server stores a new version; whatever was read before is old.
Put(t) == server' = t /\ synced' = FALSE /\ fresh' = {}

Fault == faults < MaxFaults /\ faults' = faults + 1

-----------------------------------------------------------------------------
(***************************************************************************)
(* Informer, timers, deadlines, the user and the remote agent.             *)
(***************************************************************************)
InformerSync ==
    /\ ~synced
    /\ cache' = server /\ synced' = TRUE
    /\ queued' = (queued \/ a2aTaskUpdatePredicate(cache, server))
    /\ UNCHANGED <<request, server, fresh, timer, rec, creator, agent, clock, edits,
                   discarded, faults>>

RequeueAfter ==
    /\ timer
    /\ timer' = FALSE /\ queued' = TRUE
    /\ UNCHANGED <<request, server, cache, synced, fresh, rec, creator, agent, clock,
                   edits, discarded, faults>>

\* spec.timeout and spec.ttl count from the creation, the approval timeout
\* from status.startTime.  Only a task that mirrors a remote one is held to
\* spec.timeout.
DeadlinePasses(c) ==
    /\ c \in Clocks \ clock
    /\ server.exists /\ (c = "approval" => server.started)
    /\ c = "polling" => request.remote
    /\ clock' = clock \cup {c}
    /\ UNCHANGED <<request, server, cache, synced, fresh, queued, timer, rec, creator,
                   agent, edits, discarded, faults>>

\* Nobody reads the spec.input of a remote task.
Decide(d) ==
    /\ server.exists /\ ~request.remote
    /\ d # server.input /\ edits < MaxEdits /\ edits' = edits + 1
    /\ Put([server EXCEPT !.input = d])
    /\ UNCHANGED <<request, cache, queued, timer, rec, creator, agent, clock, discarded,
                   faults>>

AgentMoves ==
    /\ request.remote /\ agent \notin FinalState
    /\ agent' \in AgentStates \ {agent}
    /\ UNCHANGED <<request, server, cache, synced, fresh, queued, timer, rec, creator,
                   clock, edits, discarded, faults>>

-----------------------------------------------------------------------------
(***************************************************************************)
(* HandleA2ATaskResponse: create the task, read it, write its status, with *)
(* MaxTries attempts at either.                                            *)
(***************************************************************************)
CreateTask ==
    /\ creator.pc = "create"
    /\ \/ /\ Put(Created) /\ UNCHANGED faults
          /\ creator' = [creator EXCEPT !.pc = "refetch", !.reported =
                             IF request.remote THEN agent ELSE "input-required"]
       \/ /\ Fault /\ creator' = [creator EXCEPT !.pc = "failed"]
          /\ UNCHANGED <<server, synced, fresh>>
    /\ UNCHANGED <<request, cache, queued, timer, rec, agent, clock, edits, discarded>>

\* Mutant: one attempt too many.
NextTry_Late(pc) == creator' = [creator EXCEPT !.tries = @ + 1,
                             !.pc = IF creator.tries = MaxTries THEN "failed" ELSE pc]

\* An attempt has failed.
NextTry(pc) == creator' = [creator EXCEPT !.tries = @ + 1,
                             !.pc = IF creator.tries + 1 = MaxTries THEN "failed" ELSE pc]

Readable == IF request.remote THEN server.exists ELSE cache.exists

Refetch ==
    /\ creator.pc \in {"refetch", "reget"}
    /\ IF Readable
       THEN /\ creator' = [creator EXCEPT !.pc = "update",
                             !.tries = IF creator.pc = "refetch" THEN 0 ELSE @]
            /\ fresh' = IF request.remote \/ synced THEN fresh \cup {"creator"} ELSE fresh
       ELSE NextTry(creator.pc) /\ UNCHANGED fresh
    /\ UNCHANGED <<request, server, cache, synced, queued, timer, rec, agent, clock,
                   edits, discarded, faults>>

\* Mutant: the status is written whatever version was read.
NoConflict_Blind(who) == server.exists

\* The update carries the server's version.
NoConflict(who) == who \in fresh

PopulateA2ATaskStatus ==
    /\ creator.pc = "update"
    /\ \/ /\ NoConflict("creator") /\ UNCHANGED faults
          /\ Put([server EXCEPT !.phase = ConvertA2AStateToPhase(creator.reported),
                                !.started = TRUE])
          /\ creator' = [creator EXCEPT !.pc = "done"]
       \/ /\ ~NoConflict("creator") /\ NextTry("reget")
          /\ UNCHANGED <<server, synced, fresh, faults>>
       \/ /\ Fault /\ NextTry("reget")
          /\ fresh' = fresh \ {"creator"} /\ UNCHANGED <<server, synced>>
    /\ UNCHANGED <<request, cache, queued, timer, rec, agent, clock, edits, discarded>>

-----------------------------------------------------------------------------
(***************************************************************************)
(* Reconcile.                                                              *)
(***************************************************************************)
obj == rec.obj

\* The reconcile returns an error and is retried.
ReturnError == /\ rec' = Idle /\ queued' = TRUE /\ fresh' = fresh \ {"rec"}
               /\ UNCHANGED <<server, synced, timer>>

\* The reconcile returns, and asks to be called again later if `again'.
Return(again) == /\ rec' = Idle /\ timer' = (timer \/ again)
                 /\ fresh' = fresh \ {"rec"}
                 /\ UNCHANGED <<server, synced, queued>>

\* Status().Update of t, then return.  A refused update is an error.
StatusUpdate(t, again) ==
    \/ /\ NoConflict("rec")
       /\ Put([server EXCEPT !.phase = t.phase, !.reason = t.reason, !.started = t.started])
       /\ rec' = Idle /\ timer' = (timer \/ again)
       /\ UNCHANGED <<queued, faults>>
    \/ ~NoConflict("rec") /\ ReturnError /\ UNCHANGED faults
    \/ Fault /\ ReturnError

Fetch ==
    /\ rec.pc = "idle" /\ queued
    /\ queued' = FALSE
    /\ IF cache.exists
       THEN /\ rec' = [pc |-> "fetched", obj |-> cache, before |-> cache.phase]
            /\ fresh' = IF synced THEN fresh \cup {"rec"} ELSE fresh
       ELSE UNCHANGED <<rec, fresh>>
    /\ UNCHANGED <<request, server, cache, synced, timer, creator, agent, clock, edits,
                   discarded, faults>>

outside == <<request, cache, creator, agent, clock, edits, discarded>>

reconcileTTL ==
    /\ rec.pc = "fetched" /\ "ttl" \in clock
    /\ \/ /\ server.exists /\ Put(Absent) /\ rec' = Idle /\ discarded' = TRUE
          /\ UNCHANGED <<queued, timer, faults>>
       \/ ~server.exists /\ ReturnError /\ UNCHANGED <<discarded, faults>>
       \/ Fault /\ ReturnError /\ UNCHANGED discarded
    /\ UNCHANGED <<request, cache, creator, agent, clock, edits>>

Fetched == rec.pc = "fetched" /\ "ttl" \notin clock

SetNotStarted ==
    /\ Fetched /\ obj.reason = "none"
    /\ StatusUpdate([obj EXCEPT !.reason = "TaskNotStarted"], FALSE)
    /\ UNCHANGED outside

TaskEnded ==
    /\ Fetched /\ obj.reason # "none" /\ IsTerminalPhase(obj.phase)
    /\ Return(FALSE)
    /\ UNCHANGED <<faults, outside>>

Active == Fetched /\ obj.reason # "none" /\ ~IsTerminalPhase(obj.phase)

ApprovalExpired == /\ obj.phase = "input-required" /\ obj.started
                   /\ "approval" \in clock /\ request.onTimeout # "invalid"

checkApprovalTimeout ==
    /\ Active /\ ApprovalExpired
    /\ StatusUpdate(IF request.onTimeout = "proceed"
                    THEN [obj EXCEPT !.phase = "completed", !.reason = "ApprovalTimeoutProceeded"]
                    ELSE [obj EXCEPT !.phase = "failed", !.reason = "ApprovalTimeoutRejected"],
                    FALSE)
    /\ UNCHANGED outside

Decided == /\ ~ApprovalExpired
           /\ obj.phase = "input-required" /\ ~request.remote
           /\ obj.input \notin {"", "undecided"}

processApprovalDecision ==
    /\ Active /\ Decided
    /\ StatusUpdate(
         CASE obj.input = "approved"  -> [obj EXCEPT !.phase = "completed",
                                                     !.reason = "ApprovalGranted"]
           [] obj.input = "rejected"  -> [obj EXCEPT !.phase = "failed",
                                                     !.reason = "ApprovalRejected"]
           [] obj.input = "malformed" -> [obj EXCEPT !.phase = "failed",
                                                     !.reason = "InvalidApprovalDecision"],
         FALSE)
    /\ UNCHANGED outside

\* Mutant: a task that waits for input does not time out.
TimedOut_UnlessWaiting ==
    request.remote /\ "polling" \in clock /\ obj.phase # "input-required"

TimedOut == request.remote /\ "polling" \in clock

reconcileTimeout ==
    /\ Active /\ ~ApprovalExpired /\ ~Decided /\ TimedOut
    /\ StatusUpdate([obj EXCEPT !.phase = "failed", !.reason = "TaskTimeout"], FALSE)
    /\ UNCHANGED outside

Polling == Active /\ ~ApprovalExpired /\ ~Decided /\ ~TimedOut

\* Mutant: a task that waits for input is not looked at again.
PollAgain_OnlyRunning(phase) == phase = "running"

PollAgain(phase) == ~IsTerminalPhase(phase)

\* There is nobody to poll for an approval.
PollNobody ==
    /\ Polling /\ ~request.remote
    /\ Return(PollAgain(obj.phase))
    /\ UNCHANGED <<faults, outside>>

\* The failure is counted in an annotation; an error of that update is logged.
handlePollFailure ==
    /\ Polling /\ request.remote
    /\ (Flaky /\ UNCHANGED faults) \/ Fault
    /\ rec' = Idle /\ timer' = TRUE
    /\ \/ NoConflict("rec") /\ Put([server EXCEPT !.failing = TRUE])
       \/ fresh' = fresh \ {"rec"} /\ UNCHANGED <<server, synced>>
    /\ UNCHANGED <<queued, outside>>

\* The condition follows a change of phase, except to phases it does not name.
updateConditionsAndEvents(t, phase) ==
    CASE phase = t.phase                     -> t.reason
      [] phase \in {"pending", "assigned"}   -> "TaskPending"
      [] phase = "running"                   -> "TaskRunning"
      [] phase = "completed"                 -> "TaskSucceeded"
      [] phase = "failed"                    -> "TaskFailed"
      [] phase = "cancelled"                 -> "TaskCancelled"
      [] OTHER                               -> t.reason

\* The agent's answer, in the task in hand.  The time stamp may be unreadable.
UpdateA2ATaskStatus ==
    /\ Polling /\ request.remote
    /\ \E s \in {obj.started, obj.started \/ obj.phase = "pending"} :
         LET phase == ConvertA2AStateToPhase(agent)
         IN rec' = [rec EXCEPT !.pc = "polled",
                      !.obj = [obj EXCEPT !.phase = phase, !.started = s,
                                 !.reason = updateConditionsAndEvents(obj, phase)]]
    /\ UNCHANGED <<server, synced, fresh, queued, timer, faults, outside>>

\* What the reconciler holds after Update: the server does not take the status
\* from it and answers with the one it stores.
ResetResponse == [server EXCEPT !.failing = FALSE]

\* The first answer after a failure resets the count, with Update.
ResetFailureCount ==
    /\ rec.pc = "polled" /\ obj.failing
    /\ \/ /\ NoConflict("rec")
          /\ server' = [server EXCEPT !.failing = FALSE] /\ synced' = FALSE /\ fresh' = {"rec"}
          /\ rec' = [rec EXCEPT !.obj = ResetResponse]
          /\ UNCHANGED faults
       \/ /\ ~NoConflict("rec") /\ UNCHANGED faults
          /\ rec' = [rec EXCEPT !.obj.failing = FALSE] /\ UNCHANGED <<server, synced, fresh>>
       \/ /\ Fault
          /\ rec' = [rec EXCEPT !.obj.failing = FALSE] /\ UNCHANGED <<server, synced, fresh>>
    /\ UNCHANGED <<queued, timer, outside>>

\* The status is written when its phase, or data that is not modelled, changed.
pollTaskStatus ==
    /\ rec.pc = "polled" /\ ~obj.failing
    /\ \/ StatusUpdate(obj, PollAgain(obj.phase))
       \/ /\ obj.phase = rec.before
          /\ Return(PollAgain(obj.phase)) /\ UNCHANGED faults
    /\ UNCHANGED outside

\* The process of the reconciler dies; the next one lists the tasks.  The
\* creator of an approval is part of it, the executor is another process.
Crash ==
    /\ Fault
    /\ cache' = server /\ synced' = TRUE /\ queued' = server.exists /\ timer' = FALSE
    /\ rec' = Idle
    /\ \E lost \in {~request.remote, TRUE} :
         creator' = IF lost /\ creator.pc # "done" THEN [creator EXCEPT !.pc = "failed"]
                    ELSE creator
    /\ fresh' = fresh \cap (IF creator'.pc = "update" THEN {"creator"} ELSE {})
    /\ UNCHANGED <<request, server, agent, clock, edits, discarded>>

-----------------------------------------------------------------------------
CreatorStep == CreateTask \/ Refetch \/ PopulateA2ATaskStatus

ReconcileStep ==
    \/ Fetch \/ reconcileTTL \/ SetNotStarted \/ TaskEnded \/ checkApprovalTimeout
    \/ processApprovalDecision \/ reconcileTimeout \/ PollNobody \/ handlePollFailure
    \/ UpdateA2ATaskStatus \/ ResetFailureCount \/ pollTaskStatus

EnvironmentStep ==
    \/ \E c \in Clocks : DeadlinePasses(c)
    \/ \E d \in Input : Decide(d)
    \/ AgentMoves

Next == InformerSync \/ RequeueAfter \/ EnvironmentStep \/ CreatorStep \/ ReconcileStep \/ Crash

Spec == Init /\ [][Next]_vars

\* Informer, work queue and creator run, and an agent that is polled again and
\* again answers now and then.  No deadline need ever pass.
Fairness == /\ WF_vars(InformerSync) /\ WF_vars(RequeueAfter)
            /\ WF_vars(CreatorStep) /\ WF_vars(ReconcileStep)
            /\ SF_vars(UpdateA2ATaskStatus)

FairSpec == Spec /\ Fairness

-----------------------------------------------------------------------------
(***************************************************************************)
(* Properties.                                                             *)
(***************************************************************************)
\* The comment of a2aTaskUpdatePredicate: "Status updates must pass: the
\* reconciler drives its phase handshakes [...] through its own status writes
\* with no RequeueAfter."  A task that has not ended is never forgotten: it is
\* queued, in a reconcile, on a timer, or an event that will queue it is coming.
NoLostWakeup ==
    server.exists /\ ~IsTerminalPhase(server.phase) =>
        \/ queued \/ timer \/ rec.pc # "idle"
        \/ a2aTaskUpdatePredicate(cache, server)

\* The state of an approval, as the Query reconciler sees it
\* (handleInputRequiredPhase, IsResumableDenial).
Asked == ~request.remote /\ server.exists /\ server.phase \in
            {"input-required", "completed", "failed"}

ApprovalState ==
    CASE discarded             -> "gone"
      [] ~discarded /\ ~Asked  -> "absent"
      [] ~discarded /\ Asked   ->
           IF server.phase = "failed"
              /\ server.reason \in {"ApprovalRejected", "ApprovalTimeoutRejected"}
           THEN "denied" ELSE server.phase

Approval == INSTANCE ApprovalTask WITH task <- ApprovalState

\* A task without A2AServerRef is the question and the answer that the Query
\* reconciler takes it for: creator and reconciler, racing on the same status,
\* ask once, and an answer is final.
ApprovalSpec == Approval!Spec

\* A decision is applied as the user left it: the step that settles a task by
\* decision reads the same spec.input that the server holds.
DecisionApplied ==
    [][\A d \in {<<"ApprovalGranted", "approved">>, <<"ApprovalRejected", "rejected">>} :
         server'.reason = d[1] /\ server.reason # d[1] => server.input = d[2]]_vars

Over == IsTerminalPhase(server.phase) \/ discarded

\* The deadline of the task has passed.  An approval with an unreadable onTimeout
\* has none, nor has one whose creator gave up before it wrote startTime: those
\* wait for their TTL.
Overdue == IF request.remote THEN "polling" \in clock
           ELSE "approval" \in clock /\ request.onTimeout # "invalid"

\* Every task that is overdue comes to an end and stays there: an approval is
\* decided or expires, a remote task is mirrored or times out, also when the
\* agent, the user or a failed write come in between, or the creator has given
\* up and left a task without a status.
TasksEnd == Overdue ~> []Over

\* "the controller [...] polls it until the task reaches a terminal state,
\* mirroring the remote agent's progress into the A2ATask's status": once the
\* agent is done, so is the task, and in the same way, unless one of its
\* deadlines passed.
MirrorsAgent ==
    request.remote /\ agent \in FinalState /\ server.exists
        ~> server.phase = ConvertA2AStateToPhase(agent) \/ clock # {}
=============================================================================
