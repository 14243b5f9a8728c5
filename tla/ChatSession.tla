----------------------------- MODULE ChatSession -----------------------------
(***************************************************************************)
(* A chat of the dashboard: the hook useChatSession with the panel and the *)
(* approval card whose buttons call it.                                    *)
(*                                                                         *)
(* The hook is a set of asynchronous functions over one list of messages.  *)
(* Each await is a point where the user and the other functions go on: the *)
(* turn (sendMessage), the poller of the phase, the poller that follows a  *)
(* decision on an approval.  A turn remembers where in the list its answer *)
(* is to go.                                                               *)
(*                                                                         *)
(* The panel sits in a tab without forceMount: leaving the tab unmounts    *)
(* the hook and coming back mounts another one.  The list outlives the     *)
(* hook (chatHistoryAtom), its state and refs do not; the functions it     *)
(* started go on with the refs of the hook they belong to.                 *)
(***************************************************************************)
EXTENDS Integers, Sequences, FiniteSets

CONSTANTS
    MaxTurns,      \* bound: messages sent
    MaxEvents,     \* bound: approval cards shown, presses of stop and of new chat,
                   \* remounts of the panel and queries deleted, together
    MaxRounds,     \* bound: times a query asks for approval
    Streaming,     \* the modes of isChatStreamingEnabled to look at
    None

ASSUME BoundsAssumption ==
    /\ {MaxTurns, MaxEvents, MaxRounds} \subseteq Nat
    /\ Streaming \subseteq BOOLEAN

VARIABLES
    streaming,
    messages,      \* of the session; a hole is None
    session,       \* the number of the session, one per new chat
    conversation,  \* the query that gave the session its conversationId
    mount,         \* the number of the mounted hook
    isProcessing,  \* of the mounted hook, as are pending and stopPolling
    turn,
    query,         \* external: phase and approval rounds of each turn's query
    lastQuery,     \* lastQueryName, of every hook there was
    pending,       \* pendingApprovalQueryRef
    card,          \* approval cards, by order of appearance
    poller,        \* pollAfterApproval, by the card it follows
    phasePolls,    \* queries whose phase streamQueryStatus polls
    stopPolling,   \* stopPollingRef: whose flag it sets
    stops, clears,
    sent,          \* history: turns sent in this session
    overlapped,    \* history: a turn was sent while another one, not stopped, ran
    spoiled        \* history: the end of an approval met another turn

list == <<messages, session, conversation, sent, overlapped, spoiled>>
approval == <<pending, card, poller>>
presses == <<stops, clears, mount>>
vars == <<streaming, list, isProcessing, turn, query, lastQuery, approval,
          phasePolls, stopPolling, presses>>

Turns == 1 .. MaxTurns
Cards == 1 .. MaxEvents
Places == 0 .. 4 * MaxTurns + 2 * MaxEvents

\* What the hook writes: an answer, an error or a notice.
Reply == [kind |-> "reply", of |-> 0]

Message == [kind : {"user"}, of : Turns] \cup [kind : {"approval"}, of : Cards] \cup {Reply}

ASSUME NoneAssumption == None \notin Message

\* pc: "submit", the POST of the query; "follow", the stream; "final", the stream
\* after its final chunk; "ensure", ensureConversationId; "poll" and "sleep",
\* handlePollChatResponse.
\* start, at: turnStartIndex and currentMessageIndex, counted from 1.
Turn == [pc : {"idle", "submit", "follow", "final", "ensure", "poll", "sleep", "done"},
         start : Places, at : Places, agent : BOOLEAN, approving : BOOLEAN,
         asked : Turns \cup {None}, session : 0 .. MaxEvents, mount : 0 .. MaxEvents,
         aborted : BOOLEAN]

\* "decided": approved or rejected here; "expired": its time ran out.
CardState == {"open", "decided", "expired"}

Terminal == {"done", "error", "canceled"}

\* "answered": the executor is done and the controller has not written it yet.
\* "gone": deleted.
QueryPhase == {"none", "running", "answered", "input-required", "gone"} \cup Terminal

TypeOK ==
    /\ streaming \in Streaming
    /\ messages \in Seq(Message \cup {None}) /\ Len(messages) \in Places
    /\ session \in 0 .. MaxEvents
    /\ conversation \in Turns \cup {None}
    /\ isProcessing \in BOOLEAN
    /\ turn \in [Turns -> Turn]
    /\ query \in [Turns -> [phase : QueryPhase, rounds : 0 .. MaxRounds]]
    /\ lastQuery \in [0 .. MaxEvents -> Turns \cup {None}]
    /\ pending \in {None} \cup [of : Turns, at : Places \cup {-1}]
    /\ card \in [Cards -> {None} \cup [of : Turns, round : 1 .. MaxRounds, state : CardState]]
    /\ poller \in [Cards -> {None} \cup [of : Turns, at : Places \cup {-1}, mount : 0 .. MaxEvents,
                                         stopped : BOOLEAN]]
    /\ phasePolls \subseteq Turns
    /\ stopPolling \in {None} \cup ({"turn"} \X Turns) \cup ({"card"} \X Cards)
    /\ {stops, clears, mount} \subseteq 0 .. MaxEvents
    /\ sent \subseteq Turns /\ {overlapped, spoiled} \subseteq BOOLEAN

Idle == [pc |-> "idle", start |-> 0, at |-> 0, agent |-> FALSE, approving |-> FALSE,
         asked |-> None, session |-> 0, mount |-> 0, aborted |-> FALSE]

Init ==
    /\ streaming \in Streaming
    /\ messages = <<>> /\ session = 0 /\ conversation = None
    /\ isProcessing = FALSE
    /\ turn = [t \in Turns |-> Idle]
    /\ query = [t \in Turns |-> [phase |-> "none", rounds |-> 0]]
    /\ lastQuery = [m \in 0 .. MaxEvents |-> None] /\ pending = None
    /\ card = [c \in Cards |-> None] /\ poller = [c \in Cards |-> None]
    /\ phasePolls = {} /\ stopPolling = None
    /\ stops = 0 /\ clears = 0 /\ mount = 0
    /\ sent = {} /\ overlapped = FALSE /\ spoiled = FALSE

Said(kind, t) == [kind |-> kind, of |-> t]

\* updated[i] = m: an index past the end leaves holes.
Placed(ms, i, m) ==
    [j \in 1 .. IF i > Len(ms) THEN i ELSE Len(ms) |->
       IF j = i THEN m ELSE IF j <= Len(ms) THEN ms[j] ELSE None]

\* prev.slice(0, n): a negative n counts from the end.
Slice(ms, n) ==
    IF n < 0 THEN SubSeq(ms, 1, Len(ms) + n)
    ELSE SubSeq(ms, 1, IF n < Len(ms) THEN n ELSE Len(ms))

Running(t) == turn[t].pc \notin {"idle", "done"}

Used == {c \in Cards : card[c] # None}

Deleted == {t \in Turns : query[t].phase = "gone"}

\* One more card, stop, new chat, remount or deletion.
WithinBound == stops + clears + mount + Cardinality(Used) + Cardinality(Deleted) < MaxEvents

\* A turn or a poller of the mounted hook: what it sets is seen.
Mounted(x) == x.mount = mount

-----------------------------------------------------------------------------
(* The user *)

Start_Early(ms) == Len(ms) + 1

\* chatMessages.length + 1, as an index from 1: behind the user's message.
Start(ms) == Len(ms) + 2

\* The send button is there when nothing is processed.  The stream has a
\* placeholder for its answer.
sendMessage(t) ==
    /\ ~isProcessing
    /\ turn[t].pc = "idle" /\ \A u \in 1 .. t - 1 : turn[u].pc # "idle"
    /\ messages' = messages \o IF streaming THEN <<Said("user", t), Reply>> ELSE <<Said("user", t)>>
    /\ turn' = [turn EXCEPT ![t] = [Idle EXCEPT !.pc = "submit", !.session = session, !.mount = mount,
                                    !.start = Start(messages), !.at = Start(messages)]]
    /\ isProcessing' = TRUE
    /\ sent' = sent \cup {t}
    /\ overlapped' = (overlapped \/ \E u \in Turns : Running(u) /\ ~turn[u].aborted)
    /\ UNCHANGED <<streaming, session, conversation, spoiled, query, lastQuery, approval,
                   phasePolls, stopPolling, presses>>

\* The turn whose controller chatStreamAbortControllerRef holds.
Latest == CHOOSE t \in Turns : /\ turn[t].pc # "idle"
                              /\ \A u \in Turns : u > t => turn[u].pc = "idle"

\* stopPollingRef.current(): the flag of the poller that registered last, if it
\* is still there.
Flagged(t) == stopPolling = <<"turn", t>>

PollerFlagged(c) == stopPolling = <<"card", c>> /\ poller[c] # None

StoppedPollers == [c \in Cards |-> IF PollerFlagged(c) THEN [poller[c] EXCEPT !.stopped = TRUE]
                                                      ELSE poller[c]]

\* The stop button: abort the stream of the latest turn, set the flag of the
\* poller that registered last, cancel the query whose name came last.
cancelQuery ==
    /\ isProcessing /\ WithinBound
    /\ stops' = stops + 1
    /\ isProcessing' = FALSE
    /\ messages' = Append(messages, Reply)
    /\ turn' = [t \in Turns |->
         [turn[t] EXCEPT !.aborted = @ \/ /\ Running(t)
                                          /\ Flagged(t) \/ (streaming /\ t = Latest)]]
    /\ poller' = StoppedPollers
    /\ LET q == lastQuery[mount] IN
         query' = IF q # None /\ query[q].phase \notin Terminal \cup {"gone"}
                  THEN [query EXCEPT ![q].phase = "canceled"] ELSE query
    /\ UNCHANGED <<streaming, session, conversation, sent, overlapped, spoiled, lastQuery,
                   pending, card, phasePolls, stopPolling, clears, mount>>

\* The user leaves the tab and comes back.  The cleanup of the hook stops the
\* poller that registered last and aborts no stream; the new hook knows of no
\* turn at work.
remount ==
    /\ WithinBound
    /\ mount' = mount + 1
    /\ turn' = [t \in Turns |-> [turn[t] EXCEPT !.aborted = @ \/ (Running(t) /\ Flagged(t))]]
    /\ poller' = StoppedPollers
    /\ isProcessing' = FALSE /\ pending' = None /\ stopPolling' = None
    /\ UNCHANGED <<streaming, list, query, lastQuery, card, phasePolls, stops, clears>>

\* The new-chat button.
clearChat ==
    /\ ~isProcessing /\ messages # <<>> /\ WithinBound
    /\ clears' = clears + 1
    /\ session' = session + 1
    /\ messages' = <<>> /\ conversation' = None /\ sent' = {}
    /\ UNCHANGED <<streaming, overlapped, spoiled, isProcessing, turn, query, lastQuery, approval,
                   phasePolls, stopPolling, stops, mount>>

-----------------------------------------------------------------------------
(* A turn: sendMessage after its first await *)

\* The function is over; its variables are gone.
Over(t) == [Idle EXCEPT !.pc = "done", !.session = turn[t].session]

\* finally: whatever else runs, nothing is processed any more.
Finally(t) ==
    /\ turn' = [turn EXCEPT ![t] = Over(t)]
    /\ isProcessing' = (isProcessing /\ ~Mounted(turn[t]))

\* The end of handleStreamChatResponse: ensureConversationId, then finally.
Ensure_Detached(t, known, asked) ==
    /\ turn' = [turn EXCEPT ![t] = IF known # None \/ asked = None THEN Over(t)
                                   ELSE [@ EXCEPT !.asked = asked, !.pc = "ensure"]]
    /\ isProcessing' = (isProcessing /\ ~Mounted(turn[t]))

\* After the stream: without a conversationId, ask for the query named last.
Ensure(t, known, asked) ==
    IF known # None \/ asked = None
    THEN Finally(t)
    ELSE /\ turn' = [turn EXCEPT ![t].asked = asked, ![t].pc = "ensure"]
         /\ UNCHANGED isProcessing

\* conversationIdRef follows the session as long as its hook is mounted.
Known(t) == IF Mounted(turn[t]) THEN {conversation} ELSE {None, t}

LastQuery(t) == lastQuery[turn[t].mount]

Named(t, q) == [lastQuery EXCEPT ![turn[t].mount] = q]

\* The POST returns.  A stream that was stopped by then ends at its first read,
\* with the poller of its phase already started.
Submitted(t) ==
    /\ turn[t].pc = "submit"
    /\ query' = [query EXCEPT ![t].phase = "running"]
    /\ lastQuery' = Named(t, t)
    /\ IF streaming
       THEN /\ phasePolls' = phasePolls \cup {t}
            /\ IF turn[t].aborted THEN Finally(t)
               ELSE /\ turn' = [turn EXCEPT ![t].pc = "follow"]
                    /\ UNCHANGED isProcessing
            /\ UNCHANGED stopPolling
       ELSE /\ turn' = [turn EXCEPT ![t].pc = "poll"]
            /\ stopPolling' = IF Mounted(turn[t]) THEN <<"turn", t>> ELSE stopPolling
            /\ UNCHANGED <<phasePolls, isProcessing>>
    /\ UNCHANGED <<streaming, list, approval, presses>>

Fail_NoFinally(t) ==
    /\ messages' = Append(messages, Reply)
    /\ turn' = [turn EXCEPT ![t] = Over(t)]
    /\ UNCHANGED <<streaming, session, conversation, sent, overlapped, spoiled, isProcessing,
                   query, lastQuery, approval, phasePolls, stopPolling, presses>>

\* The catch of sendMessage.
Fail(t) ==
    /\ messages' = Append(messages, Reply)
    /\ Finally(t)
    /\ UNCHANGED <<streaming, session, conversation, sent, overlapped, spoiled, query, lastQuery,
                   approval, phasePolls, stopPolling, presses>>

SubmitFails(t) == turn[t].pc = "submit" /\ Fail(t)

Following(t) == turn[t].pc = "follow" /\ ~turn[t].aborted

\* A chunk of the answer.
Chunk(t) ==
    /\ Following(t) /\ ~turn[t].approving
    /\ messages' = Placed(messages, turn[t].at, Reply)
    /\ UNCHANGED <<streaming, session, conversation, sent, overlapped, spoiled, isProcessing, turn,
                   query, lastQuery, approval, phasePolls, stopPolling, presses>>

\* The first chunk of an agent begins a message of its own.
AgentChunk(t) ==
    /\ Following(t) /\ ~turn[t].approving /\ ~turn[t].agent
    /\ messages' = Placed(Append(messages, Reply), turn[t].at + 1, Reply)
    /\ turn' = [turn EXCEPT ![t].agent = TRUE, ![t].at = @ + 1]
    /\ UNCHANGED <<streaming, session, conversation, sent, overlapped, spoiled, isProcessing,
                   query, lastQuery, approval, phasePolls, stopPolling, presses>>

\* The next card, as a set.
FreeCards == {c \in Cards : WithinBound /\ Used = 1 .. c - 1}

\* tool_approval_request: the card takes the place of the answer.
ApprovalChunk(t) ==
    /\ Following(t) /\ ~turn[t].approving
    /\ query[t].phase = "running" /\ query[t].rounds < MaxRounds
    /\ \E c \in FreeCards :
         /\ card' = [card EXCEPT ![c] = [of |-> t, round |-> query[t].rounds + 1, state |-> "open"]]
         /\ messages' = Placed(messages, turn[t].at, Said("approval", c))
    /\ query' = [query EXCEPT ![t] = [phase |-> "input-required", rounds |-> @.rounds + 1]]
    /\ pending' = IF Mounted(turn[t]) THEN [of |-> t, at |-> turn[t].at - 1] ELSE pending
    /\ turn' = [turn EXCEPT ![t].approving = TRUE]
    /\ UNCHANGED <<streaming, session, conversation, sent, overlapped, spoiled, isProcessing,
                   lastQuery, poller, phasePolls, stopPolling, presses>>

\* The executor sends its last chunk before the controller writes the phase.
Answer(t) ==
    /\ query[t].phase # "input-required"
    /\ query' = IF query[t].phase = "running" THEN [query EXCEPT ![t].phase = "answered"] ELSE query

\* chatcmpl-final, with the conversationId and the messages of the query; the
\* reader goes on to the end of the stream.
FinalChunk(t) ==
    /\ Following(t) /\ ~turn[t].approving
    /\ Answer(t)
    /\ messages' = Placed(messages, turn[t].at, Reply)
    /\ conversation' = t
    /\ turn' = [turn EXCEPT ![t].pc = "final"]
    /\ UNCHANGED <<streaming, session, sent, overlapped, spoiled, isProcessing, lastQuery, approval,
                   phasePolls, stopPolling, presses>>

\* The stream ends: the messages of the turn are replaced by the ones of the query.
Complete(t) ==
    /\ turn[t].pc = "final" /\ ~turn[t].aborted
    /\ messages' = Append(Slice(messages, turn[t].start - 1), Reply)
    /\ phasePolls' = phasePolls \ {t}
    /\ Finally(t)
    /\ UNCHANGED <<streaming, session, conversation, sent, overlapped, spoiled, query, lastQuery,
                   approval, stopPolling, presses>>

\* An error chunk, which need not name the query, or the final one of a query
\* in error, which gives its conversationId.
ErrorChunk(t) ==
    /\ Following(t) /\ ~turn[t].approving
    /\ Answer(t)
    /\ messages' = Placed(messages, turn[t].at, Reply)
    /\ \/ /\ \E name \in {t, None}, known \in Known(t) :
               lastQuery' = Named(t, name) /\ Ensure(t, known, name)
          /\ UNCHANGED conversation
       \/ conversation' = t /\ Finally(t) /\ UNCHANGED lastQuery
    /\ phasePolls' = phasePolls \ {t}
    /\ UNCHANGED <<streaming, session, sent, overlapped, spoiled, approval, stopPolling, presses>>

\* The stream ends without a final chunk, as it does when an approval is due.
StreamEnds(t) ==
    /\ Following(t)
    /\ phasePolls' = phasePolls \ {t}
    /\ \E known \in Known(t) : Ensure(t, known, LastQuery(t))
    /\ UNCHANGED <<streaming, list, query, lastQuery, approval, stopPolling, presses>>

Reading(t) == turn[t].pc \in {"follow", "final"}

StreamBreaks(t) == Reading(t) /\ ~turn[t].aborted /\ Fail(t)

\* AbortError: sendMessage returns, and the poller of the phase goes on.
StreamAborted(t) ==
    /\ Reading(t) /\ turn[t].aborted
    /\ Finally(t)
    /\ UNCHANGED <<streaming, list, query, lastQuery, approval, phasePolls, stopPolling, presses>>

\* The answer to ensureConversationId; a query that has not ended has none.
Ensured(t) ==
    /\ turn[t].pc = "ensure"
    /\ conversation' = IF query[turn[t].asked].phase \in Terminal THEN turn[t].asked
                       ELSE conversation
    /\ Finally(t)
    /\ UNCHANGED <<streaming, messages, session, sent, overlapped, spoiled, query, lastQuery,
                   approval, phasePolls, stopPolling, presses>>

\* An answer of handlePollChatResponse is used whether it was stopped or not.  A
\* query that is gone has no end: the turn polls for it until it is stopped.
PollReply(t) ==
    /\ turn[t].pc = "poll"
    /\ IF query[t].phase \in Terminal
       THEN /\ conversation' = t
            /\ messages' = IF query[t].phase = "canceled" THEN messages ELSE Append(messages, Reply)
            /\ Finally(t)
       ELSE /\ IF turn[t].aborted THEN Finally(t)
               ELSE turn' = [turn EXCEPT ![t].pc = "sleep"] /\ UNCHANGED isProcessing
            /\ UNCHANGED <<messages, conversation>>
    /\ UNCHANGED <<streaming, session, sent, overlapped, spoiled, query, lastQuery, approval,
                   phasePolls, stopPolling, presses>>

\* getQueryResult makes a failed request a terminal error.
PollFails(t) == turn[t].pc = "poll" /\ Fail(t)

Wake(t) ==
    /\ turn[t].pc = "sleep"
    /\ IF turn[t].aborted THEN Finally(t)
       ELSE turn' = [turn EXCEPT ![t].pc = "poll"] /\ UNCHANGED isProcessing
    /\ UNCHANGED <<streaming, list, query, lastQuery, approval, phasePolls, stopPolling, presses>>

PhasePolled_DoneOnly(t) ==
    /\ t \in phasePolls /\ query[t].phase = "done"
    /\ phasePolls' = phasePolls \ {t}
    /\ UNCHANGED <<streaming, list, isProcessing, turn, query, lastQuery, approval, stopPolling,
                   presses>>

\* streamQueryStatus stops by itself when the query has ended; on an error, or for
\* a query that is gone, it polls on.
PhasePolled(t) ==
    /\ t \in phasePolls /\ query[t].phase \in Terminal
    /\ phasePolls' = phasePolls \ {t}
    /\ UNCHANGED <<streaming, list, isProcessing, turn, query, lastQuery, approval, stopPolling,
                   presses>>

-----------------------------------------------------------------------------
(* Approvals: the card and pollAfterApproval *)

\* The card is on the screen and nothing was decided on it.
Shown(c) ==
    /\ card[c] # None /\ card[c].state = "open"
    /\ \E i \in DOMAIN messages : messages[i] = Said("approval", c)

\* The loop starts for the approval that this hook noted last, whatever the card;
\* there is none after a remount.
pollAfterApproval(c) ==
    /\ IF pending = None THEN UNCHANGED <<poller, stopPolling>>
       ELSE /\ poller' = [poller EXCEPT ![c] = [of |-> pending.of, at |-> pending.at,
                                                mount |-> mount, stopped |-> FALSE]]
            /\ stopPolling' = <<"card", c>>
    /\ UNCHANGED <<streaming, list, isProcessing, turn, query, lastQuery, pending, phasePolls,
                   presses>>

\* Approve or reject; a failed request leaves the card as it was.
Decide(c) ==
    /\ Shown(c)
    /\ card' = [card EXCEPT ![c].state = "decided"]
    /\ pollAfterApproval(c)

\* triggerOnExpired.
Expire(c) ==
    /\ Shown(c)
    /\ card' = [card EXCEPT ![c].state = "expired"]
    /\ pollAfterApproval(c)

\* The end of the approval comes where it was not asked: no place was noted, the
\* stream of its turn is still open, a turn was sent since, or the chat was begun
\* anew.
Strays(p) ==
    \/ p.at = -1
    \/ Running(p.of)
    \/ \E u \in Turns : u > p.of /\ turn[u].pc # "idle"
    \/ turn[p.of].session # session

Ended(c) ==
    /\ poller' = [poller EXCEPT ![c] = None]
    /\ isProcessing' = (isProcessing /\ ~Mounted(poller[c]))
    /\ spoiled' = (spoiled \/ Strays(poller[c]))
    /\ UNCHANGED <<streaming, session, conversation, sent, overlapped, turn, query, lastQuery,
                   phasePolls, presses>>

\* stopPollingRef.current = null.
Unregister(c) == stopPolling' = IF Mounted(poller[c]) THEN None ELSE stopPolling

\* handleCascadingApproval.  A task that was decided on is shown as decided.
CascadeReply(c) ==
    /\ poller[c] # None /\ query[poller[c].of].phase = "input-required"
    /\ LET t == poller[c].of IN
         \E d \in FreeCards :
           /\ card' = [card EXCEPT ![d] =
                [of |-> t, round |-> query[t].rounds,
                 state |-> IF \E e \in Cards : /\ card[e] # None /\ card[e].of = t
                                               /\ card[e].round = query[t].rounds
                                               /\ card[e].state = "decided"
                           THEN "decided" ELSE "open"]]
           /\ messages' = Append(messages, Said("approval", d))
    /\ pending' = IF Mounted(poller[c]) THEN [of |-> poller[c].of, at |-> -1] ELSE pending
    /\ Unregister(c)
    /\ Ended(c)

\* applyTerminalResult: the answer replaces all that follows the noted place.
applyTerminalResult(c) ==
    /\ poller[c] # None /\ query[poller[c].of].phase \in Terminal
    /\ LET p == poller[c] IN
         messages' = CASE query[p.of].phase = "done"     -> Append(Slice(messages, p.at), Reply)
                       [] query[p.of].phase = "error"    -> Append(messages, Reply)
                       [] query[p.of].phase = "canceled" -> messages
    /\ Unregister(c)
    /\ Ended(c)
    /\ UNCHANGED <<card, pending>>

\* A request that fails reads as an error of the query.
PollerFails(c) ==
    /\ poller[c] # None
    /\ messages' = Append(messages, Reply)
    /\ Unregister(c)
    /\ Ended(c)
    /\ UNCHANGED <<card, pending>>

\* Two minutes went by.
PollerTimesOut(c) ==
    /\ poller[c] # None /\ ~poller[c].stopped
    /\ messages' = Append(messages, Reply)
    /\ Ended(c)
    /\ UNCHANGED <<card, pending, stopPolling>>

\* A stopped loop uses the answer it waits for, if the answer is an end.
PollerStops(c) ==
    /\ poller[c] # None /\ poller[c].stopped /\ query[poller[c].of].phase \notin Terminal
    /\ poller' = [poller EXCEPT ![c] = None]
    /\ UNCHANGED <<streaming, list, isProcessing, turn, query, lastQuery, pending, card,
                   phasePolls, stopPolling, presses>>

-----------------------------------------------------------------------------
(* External: the query on the server *)

Becomes(t, phase) ==
    /\ query' = [query EXCEPT ![t].phase = phase]
    /\ UNCHANGED <<streaming, list, isProcessing, turn, lastQuery, approval, phasePolls,
                   stopPolling, presses>>

QueryEnds(t) ==
    /\ query[t].phase \in {"running", "answered"}
    /\ \E phase \in {"done", "error"} : Becomes(t, phase)

\* A user deletes it, or its TTL runs out.
QueryDeleted(t) ==
    /\ query[t].phase \notin {"none", "gone"} /\ WithinBound
    /\ Becomes(t, "gone")

\* A resumed query asks again; its stream is over by then.
AsksAgain(t) ==
    /\ query[t].phase = "running" /\ query[t].rounds < MaxRounds
    /\ ~Reading(t)
    /\ query' = [query EXCEPT ![t] = [phase |-> "input-required", rounds |-> @.rounds + 1]]
    /\ UNCHANGED <<streaming, list, isProcessing, turn, lastQuery, approval, phasePolls,
                   stopPolling, presses>>

\* The approval was decided on, here or elsewhere, or timed out on the server.
Resumes(t) == query[t].phase = "input-required" /\ Becomes(t, "running")

-----------------------------------------------------------------------------
\* The step that ends an await of the turn, or the stream it reads.
TurnStep(t) ==
    \/ Submitted(t) \/ SubmitFails(t) \/ AgentChunk(t) \/ ApprovalChunk(t) \/ FinalChunk(t)
    \/ Complete(t) \/ ErrorChunk(t) \/ StreamEnds(t) \/ StreamBreaks(t) \/ StreamAborted(t)
    \/ Ensured(t) \/ PollReply(t) \/ PollFails(t) \/ Wake(t)

PollerStep(c) ==
    \/ CascadeReply(c) \/ applyTerminalResult(c) \/ PollerFails(c) \/ PollerTimesOut(c)
    \/ PollerStops(c)

Next ==
    \/ cancelQuery \/ clearChat \/ remount
    \/ \E t \in Turns : \/ sendMessage(t) \/ TurnStep(t) \/ Chunk(t) \/ PhasePolled(t)
                        \/ QueryEnds(t) \/ QueryDeleted(t) \/ AsksAgain(t) \/ Resumes(t)
    \/ \E c \in Cards : Decide(c) \/ Expire(c) \/ PollerStep(c)

Spec == Init /\ [][Next]_vars

\* A request of the hook is answered or fails, a sleep ends, and a stream does not
\* send chunks for ever: the other side closes it or it breaks (no timeout of the
\* dashboard sees to that).  The server ends its queries, and its approvals have a
\* timeout.
FairSpec ==
    /\ Spec
    /\ \A t \in Turns : WF_vars(TurnStep(t))
    /\ WF_vars(\E t \in Turns : PhasePolled(t))
    /\ WF_vars(\E t \in Turns : QueryEnds(t) \/ Resumes(t))
    /\ WF_vars(\E c \in Cards : PollerStep(c))

-----------------------------------------------------------------------------
(* Properties *)

\* The list keeps the messages of the user, all and in order, while turns
\* write into it at places noted before they waited (turnStartIndex of
\* handleStreamChatResponse).  Left out: the end of an approval that met
\* another turn, and a turn sent while another one ran.
UserMessagesKept ==
    ~spoiled /\ ~overlapped =>
      /\ \A t \in Turns : t \in sent <=> \E i \in DOMAIN messages : messages[i] = Said("user", t)
      /\ \A i, j \in DOMAIN messages, t, u \in Turns :
           messages[i] = Said("user", t) /\ messages[j] = Said("user", u) => (i < j <=> t < u)

\* isProcessing is all that keeps the user from sending while a turn runs, and
\* from a new chat whose conversationId an old turn would set.  Until the stop
\* button or a stray approval resets it under a running turn, it is TRUE exactly
\* while a turn of the mounted hook runs.  It knows nothing of the turns of a
\* hook that was left: after a remount one may run unseen, beside a second turn
\* or a new chat.
ProcessingProtects ==
    stops = 0 /\ ~spoiled =>
      /\ isProcessing <=> \E t \in Turns : Running(t) /\ Mounted(turn[t])
      /\ mount = 0 /\ conversation # None => turn[conversation].session = session

\* A turn that polls for a deleted query: getQueryResult answers unknown and not
\* terminal, and handlePollChatResponse has no timeout.
Forsaken == \E t \in Turns : /\ turn[t].pc \in {"poll", "sleep"} /\ Mounted(turn[t])
                             /\ query[t].phase = "gone"

\* The input comes back: when requests fail, streams break, the user stops or an
\* approval is due, the chat does not process for ever.  Only the deletion of
\* the query of a polled turn takes the input away, until stop is pressed.
Responsive == []<>(~isProcessing \/ Forsaken)

\* The loops that no longer have anyone to stop them end by themselves: those that
\* follow an approval, and those that poll the phase of a query unless the query
\* was deleted.
PollersStop == []<>(phasePolls \subseteq Deleted /\ \A c \in Cards : poller[c] = None)
=============================================================================
