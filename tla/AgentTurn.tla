------------------------------ MODULE AgentTurn ------------------------------
(***************************************************************************)
(* One session's turns: Host::run_turn (conga-host/src/lib.rs) driving     *)
(* run_agent_loop (conga/src/agent_loop.rs) over the session's event log,  *)
(* while the transport steers, cancels and clears, and while the process   *)
(* or the connection may die between any two steps.                        *)
(*                                                                         *)
(* Every step is one access to state another task can see: an append to    *)
(* the log, a read of the cancel flag, a drain of the steer queue, the     *)
(* start or the end of a tool.  A failed append is an error return, taken  *)
(* at any append while MaxFaults allows it.                                *)
(***************************************************************************)
EXTENDS Compaction

CONSTANTS
    MaxTurns,         \* max_turns: iterations of the loop per turn
    MaxToolCalls,     \* max_tool_calls_per_turn: calls executed per batch
    MaxRetries,       \* retry.max_retries
    TokenReports,     \* input tokens a provider may report; 0: no usage
    Desktop,          \* TRUE: /clear may overlap a turn (src-tauri/chat.rs)
    \* Bounds of the instance.
    MaxTexts,         \* texts the user types: prompts and steered messages
    MaxBatch,         \* calls one assistant message declares
    MaxClears, MaxCancels, MaxCrashes, MaxFaults

ASSUME AgentTurnAssumption ==
    /\ {MaxTurns, MaxToolCalls, MaxRetries, MaxTexts, MaxBatch} \subseteq Nat
    /\ {MaxClears, MaxCancels, MaxCrashes, MaxFaults} \subseteq Nat
    /\ TokenReports \subseteq Nat
    /\ Desktop \in BOOLEAN

VARIABLES
    log,       \* events.jsonl of the session
    pc,        \* where run_turn is; "idle": the turn slot is free
    prompt,    \* the text that opened the turn
    context,   \* the working messages of the turn
    pressure,  \* the input tokens the budget was restored with
    iter,      \* loop iterations begun
    attempt,   \* provider requests of this iteration
    reply,     \* the assistant message being handled
    slots,     \* verdicts of the batch's pre-pass, in declaration order
    running,   \* calls whose tool future is pending
    recorded,  \* results of the batch recorded so far
    failed,    \* TRUE: the loop returned Err
    steer,     \* SteerQueue: texts waiting to be injected
    signal,    \* CancelSignal: the flag
    clearing,  \* a desktop /clear between its slot check and its append
    \* History.
    typed,     \* texts typed so far; a text is its serial number
    started,   \* calls a tool was ever started for
    sent,      \* the view of the last provider request since a checkpoint
    pressed,   \* a cancel arrived during this turn
    used       \* how much of the instance's bounds is spent

turnVars == <<prompt, context, pressure, iter, attempt, reply, slots, running,
              recorded, failed>>
vars == <<log, pc, turnVars, steer, signal, clearing, typed, started, sent,
          pressed, used>>

NoReply == Assistant(<<>>, 0, "none")

(* The events of the environment the instance bounds.                      *)
Bounds == {"clears", "cancels", "crashes", "faults"}

Limit ==
    [b \in Bounds |-> CASE b = "clears"  -> MaxClears
                        [] b = "cancels" -> MaxCancels
                        [] b = "crashes" -> MaxCrashes
                        [] b = "faults"  -> MaxFaults]

Init ==
    /\ log = <<>>
    /\ pc = "idle"
    /\ prompt = 0 /\ context = <<>> /\ pressure = 0
    /\ iter = 0 /\ attempt = 0 /\ reply = NoReply
    /\ slots = <<>> /\ running = {} /\ recorded = 0 /\ failed = FALSE
    /\ steer = <<>> /\ signal = FALSE /\ clearing = FALSE
    /\ typed = 0 /\ started = {} /\ sent = <<>> /\ pressed = FALSE
    /\ used = [b \in Bounds |-> 0]

-----------------------------------------------------------------------------
(* Helpers.                                                                *)

Spend(what) ==
    /\ used[what] < Limit[what]
    /\ used' = [used EXCEPT ![what] = @ + 1]

(* The locals of run_turn are gone once it returns or is dropped.          *)
Return ==
    /\ pc' = "idle"
    /\ prompt' = 0 /\ context' = <<>> /\ pressure' = 0
    /\ iter' = 0 /\ attempt' = 0 /\ reply' = NoReply
    /\ slots' = <<>> /\ running' = {} /\ recorded' = 0 /\ failed' = FALSE

(* A read or an append of the host before the loop fails: its error ends   *)
(* the turn at once.                                                       *)
HostFails ==
    /\ Spend("faults")
    /\ Return
    /\ UNCHANGED <<log, steer, signal, clearing, typed, started, sent, pressed>>

(* Mutated: the failed persist of a reply is shrugged off.                 *)
LoopCarriesOn ==
    /\ Spend("faults")
    /\ failed' = TRUE /\ pc' = IF pc = "reply" THEN "gate" ELSE "end"

(* A failed persist inside the loop: run_agent_loop returns Err.           *)
LoopFails ==
    /\ Spend("faults")
    /\ failed' = TRUE /\ pc' = "end"

(* The last usage the log reports past the last checkpoint.                *)
LastTokens(events) ==
    LET live == RowsAfter(events, ViewScopeStart(events))
        at   == SelectLastInSeq(live, LAMBDA r : r.type = "assistant" /\ r.tokens > 0)
    IN  IF at = 0 THEN 0 ELSE live[at].tokens

(* Ids of the calls of the message that will be at position k of the log.  *)
CallIds(k, n) == [i \in 1 .. n |-> <<k, i>>]

Calls == reply.calls

MayIterate == iter < MaxTurns

(* Mutated: a failed request is not counted.                               *)
FreeAttempt == attempt

CountAttempt == attempt + 1

(* Mutated: results in the reverse order of their calls.                   *)
ReversedResult(i) ==
    ToolResult(Calls[Len(slots) + 1 - i],
               IF slots[Len(slots) + 1 - i] = "ready" THEN "ran" ELSE "failed")

(* The result of the i-th slot of a batch.                                 *)
ResultOf(i) == ToolResult(Calls[i], IF slots[i] = "ready" THEN "ran" ELSE "failed")

(* Mutated: an abort returns before the results are recorded.              *)
BatchAbandoned == recorded = Len(slots) \/ signal

BatchRecorded == recorded = Len(slots)

(* Mutated: a second message that waits is dropped.                        *)
OneSlot(queue, text) == IF queue = <<>> THEN <<text>> ELSE queue

Enqueue(queue, text) == Append(queue, text)
-----------------------------------------------------------------------------
(* Host::run_turn up to the loop.                                          *)

(* The turn slot is claimed.  A gateway or CLI handles /clear inline, so   *)
(* it cannot overlap a turn; the desktop runs it in a task of its own.     *)
RunTurn ==
    /\ pc = "idle" /\ typed < MaxTexts
    /\ clearing => Desktop
    /\ typed' = typed + 1 /\ prompt' = typed + 1
    /\ pressed' = FALSE
    /\ pc' = "open"
    /\ UNCHANGED <<log, context, pressure, iter, attempt, reply, slots, running,
                   recorded, failed, steer, signal, clearing, started, sent, used>>

(* The log is read, and history and budget are derived from that read: a   *)
(* log that cannot be read or migrated ends the turn.                      *)
OpenLog ==
    /\ pc = "open"
    /\ \/ /\ \E view \in {DeriveMessages(log)} : context' = RepairUnanswered(view)
          /\ pressure' = LastTokens(log)
          /\ pc' = "frame"
          /\ UNCHANGED <<log, prompt, iter, attempt, reply, slots, running, recorded,
                         failed, steer, signal, clearing, typed, started, sent, pressed,
                         used>>
       \/ HostFails

FrameTurn ==
    /\ pc = "frame"
    /\ \/ /\ log' = Append(log, TurnStart)
          /\ pc' = "budget"
          /\ UNCHANGED <<turnVars, steer, signal, clearing, typed, started, sent,
                         pressed, used>>
       \/ HostFails

(* Over budget: one checkpoint is appended and the history restarts.       *)
Budget ==
    /\ pc = "budget"
    /\ LET view == BudgetCompact(context, pressure)
       IN  \/ /\ view = <<>>
              /\ pc' = "prompt"
              /\ UNCHANGED <<log, turnVars, steer, signal, clearing, typed, started,
                             sent, pressed, used>>
           \/ /\ view # <<>>
              /\ log' = Append(log, Compacted(view, DroppedCount(context, view)))
              /\ context' = view
              /\ sent' = <<>>
              /\ pc' = "prompt"
              /\ UNCHANGED <<prompt, pressure, iter, attempt, reply, slots, running,
                             recorded, failed, steer, signal, clearing, typed, started,
                             pressed, used>>
           \/ view # <<>> /\ HostFails

Prompt ==
    /\ pc = "prompt"
    /\ LET user == User(prompt, "prompt")
       IN  \/ /\ log' = Append(log, user)
              /\ context' = Append(context, user)
              /\ pc' = "prepare"
              /\ UNCHANGED <<prompt, pressure, iter, attempt, reply, slots, running,
                             recorded, failed, steer, signal, clearing, typed, started,
                             sent, pressed, used>>
           \/ HostFails

(* prepare_turn resets the cancel flag, then the loop is entered.          *)
PrepareTurn ==
    /\ pc = "prepare"
    /\ signal' = FALSE
    /\ pc' = "top"
    /\ UNCHANGED <<log, turnVars, steer, clearing, typed, started, sent, pressed, used>>
-----------------------------------------------------------------------------
(* run_agent_loop: the top of an iteration and the provider call.          *)

LoopExhausted ==
    /\ pc = "top" /\ ~MayIterate
    /\ pc' = "end"
    /\ UNCHANGED <<log, turnVars, steer, signal, clearing, typed, started, sent,
                   pressed, used>>

(* The whole queue is drained, then its texts are persisted one by one: a  *)
(* failed persist loses the ones behind it.                                *)
DrainSteer ==
    /\ pc = "top" /\ MayIterate
    /\ iter' = iter + 1 /\ attempt' = 0
    /\ steer' = <<>>
    /\ LET users == [i \in DOMAIN steer |-> User(steer[i], "steer")]
       IN  \/ /\ log' = log \o users
              /\ context' = context \o users
              /\ pc' = "ask"
              /\ UNCHANGED <<failed, used>>
           \/ \E n \in 0 .. Len(steer) - 1 :
              /\ log' = log \o SubSeq(users, 1, n)
              /\ LoopFails
              /\ UNCHANGED context
    /\ UNCHANGED <<prompt, pressure, reply, slots, running, recorded, signal, clearing,
                   typed, started, sent, pressed>>

(* An abort is honoured before a request is made, retries included.        *)
SkipRequest ==
    /\ pc = "ask" /\ signal
    /\ reply' = Assistant(<<>>, 0, "aborted")
    /\ pc' = "reply"
    /\ UNCHANGED <<log, prompt, context, pressure, iter, attempt, slots, running,
                   recorded, failed, steer, signal, clearing, typed, started, sent,
                   pressed, used>>

Request ==
    /\ pc = "ask" /\ ~signal
    /\ attempt' = CountAttempt
    /\ sent' = context
    /\ pc' = "stream"
    /\ UNCHANGED <<log, prompt, context, pressure, iter, reply, slots, running, recorded,
                   failed, steer, signal, clearing, typed, started, pressed, used>>

(* The stream ends: an abort marks the message, else the provider's own    *)
(* stop reason stands, whatever calls the message holds.                   *)
StreamDone ==
    /\ pc = "stream"
    /\ \E n \in 0 .. MaxBatch, tokens \in TokenReports,
          stop \in {"end_turn", "tool_use", "max_tokens"} :
          reply' = Assistant(CallIds(Len(log) + 1, n), tokens,
                             IF signal THEN "aborted" ELSE stop)
    /\ pc' = "reply"
    /\ UNCHANGED <<log, prompt, context, pressure, iter, attempt, slots, running,
                   recorded, failed, steer, signal, clearing, typed, started, sent,
                   pressed, used>>

(* The stream fails: retried when nothing was shown yet.                   *)
StreamError ==
    /\ pc = "stream"
    /\ \E emitted \in BOOLEAN :
          IF ~emitted /\ attempt <= MaxRetries /\ ~signal
          THEN pc' = "ask" /\ UNCHANGED reply
          ELSE pc' = "reply" /\ reply' = Assistant(<<>>, 0, "error")
    /\ UNCHANGED <<log, prompt, context, pressure, iter, attempt, slots, running,
                   recorded, failed, steer, signal, clearing, typed, started, sent,
                   pressed, used>>

(* The assistant message reaches the log before anything acts on it.       *)
PersistReply ==
    /\ pc = "reply"
    /\ \/ /\ log' = Append(log, reply)
          /\ context' = Append(context, reply)
          /\ pc' = CASE reply.stop = "tool_use"   -> "gate"
                     [] reply.stop = "max_tokens" -> "discard"
                     [] OTHER                     -> "end"
          /\ UNCHANGED <<failed, used>>
       \/ LoopFails /\ UNCHANGED <<log, context>>
    /\ UNCHANGED <<prompt, pressure, iter, attempt, reply, slots, running, recorded,
                   steer, signal, clearing, typed, started, sent, pressed>>

(* A truncated message: every call gets an error result, one by one.       *)
DiscardCall ==
    /\ pc = "discard" /\ recorded < Len(Calls)
    /\ LET result == ToolResult(Calls[recorded + 1], "failed")
       IN  \/ /\ log' = Append(log, result)
              /\ context' = Append(context, result)
              /\ recorded' = recorded + 1
              /\ UNCHANGED <<pc, failed, used>>
           \/ LoopFails /\ UNCHANGED <<log, context, recorded>>
    /\ UNCHANGED <<prompt, pressure, iter, attempt, reply, slots, running, steer,
                   signal, clearing, typed, started, sent, pressed>>

DiscardDone ==
    /\ pc = "discard" /\ recorded = Len(Calls)
    /\ pc' = "top" /\ recorded' = 0
    /\ UNCHANGED <<log, prompt, context, pressure, iter, attempt, reply, slots, running,
                   failed, steer, signal, clearing, typed, started, sent, pressed, used>>
-----------------------------------------------------------------------------
(* execute_tool_calls: pre-pass, concurrent execution, recording.          *)

(* The next call of the pre-pass: over the limit it is dropped, whatever   *)
(* the signal says; else malformed arguments, a hook or an unknown tool    *)
(* fail it, or it is ready.                                                *)
GateCall ==
    /\ pc = "gate" /\ Len(slots) < Len(Calls)
    /\ \E verdict \in {"ready", "failed"} :
          /\ Len(slots) >= MaxToolCalls => verdict = "failed"
          /\ Len(slots) < MaxToolCalls => ~signal
          /\ slots' = Append(slots, verdict)
    /\ UNCHANGED <<log, pc, prompt, context, pressure, iter, attempt, reply, running,
                   recorded, failed, steer, signal, clearing, typed, started, sent,
                   pressed, used>>

(* The pre-pass ends, at the last call or at an abort, and every ready     *)
(* call is started.                                                        *)
Dispatch ==
    /\ pc = "gate"
    /\ \/ Len(slots) = Len(Calls)
       \/ signal /\ Len(slots) < MaxToolCalls
    /\ running' = {Calls[i] : i \in {j \in DOMAIN slots : slots[j] = "ready"}}
    /\ started' = started \cup running'
    /\ pc' = "running"
    /\ UNCHANGED <<log, prompt, context, pressure, iter, attempt, reply, slots, recorded,
                   failed, steer, signal, clearing, typed, sent, pressed, used>>

(* A tool returns or fails; only a host that sets tool_timeout cuts it off.*)
ToolEnds ==
    /\ pc = "running"
    /\ \E c \in running : running' = running \ {c}
    /\ UNCHANGED <<log, pc, prompt, context, pressure, iter, attempt, reply, slots,
                   recorded, failed, steer, signal, clearing, typed, started, sent,
                   pressed, used>>

(* Results are persisted in declaration order once every tool is done.     *)
RecordResult ==
    /\ pc = "running" /\ running = {} /\ recorded < Len(slots)
    /\ \/ /\ log' = Append(log, ResultOf(recorded + 1))
          /\ recorded' = recorded + 1
          /\ UNCHANGED <<pc, failed, used>>
       \/ LoopFails /\ UNCHANGED <<log, recorded>>
    /\ UNCHANGED <<prompt, context, pressure, iter, attempt, reply, slots, running,
                   steer, signal, clearing, typed, started, sent, pressed>>

BatchDone ==
    /\ pc = "running" /\ running = {} /\ BatchRecorded
    /\ context' = context \o [i \in DOMAIN slots |-> ResultOf(i)]
    /\ pc' = "top" /\ slots' = <<>> /\ recorded' = 0
    /\ UNCHANGED <<log, prompt, pressure, iter, attempt, reply, running, failed, steer,
                   signal, clearing, typed, started, sent, pressed, used>>
-----------------------------------------------------------------------------
(* Mutated: a loop that gave up at a failed append is not looked at.       *)
ReasonOfOutcome ==
    IF signal THEN "aborted"
    ELSE IF reply.stop = "error" THEN "error"
    ELSE "completed"

(* Host::run_turn after the loop: the reason, and the TurnEnd marker whose *)
(* failed append is only logged.                                           *)

Reason ==
    IF failed THEN "error"
    ELSE IF signal THEN "aborted"
    ELSE IF reply.stop = "error" THEN "error"
    ELSE "completed"

EndTurn ==
    /\ pc = "end"
    /\ \/ log' = Append(log, TurnEnd(Reason)) /\ UNCHANGED used
       \/ Spend("faults") /\ UNCHANGED log
    /\ Return
    /\ UNCHANGED <<steer, signal, clearing, typed, started, sent, pressed>>

-----------------------------------------------------------------------------
(* The transport, and what may befall the process.                         *)

(* A message during a turn is steered.                                     *)
Steer ==
    /\ pc # "idle" /\ typed < MaxTexts
    /\ typed' = typed + 1
    /\ steer' = Enqueue(steer, typed + 1)
    /\ UNCHANGED <<log, pc, turnVars, signal, clearing, started, sent, pressed, used>>

(* A cancel, in a turn or out of one.                                      *)
Cancel ==
    /\ Spend("cancels")
    /\ signal' = TRUE
    /\ pressed' = TRUE
    /\ UNCHANGED <<log, pc, turnVars, steer, clearing, typed, started, sent>>

(* /clear finds the turn slot free; clear_session then appends its marker. *)
BeginClear ==
    /\ pc = "idle" /\ ~clearing
    /\ Spend("clears")
    /\ clearing' = TRUE
    /\ UNCHANGED <<log, pc, turnVars, steer, signal, typed, started, sent, pressed>>

MarkCleared ==
    /\ clearing
    /\ clearing' = FALSE
    /\ \/ log' = Append(log, Cleared) /\ sent' = <<>> /\ UNCHANGED used
       \/ Spend("faults") /\ UNCHANGED <<log, sent>>
    /\ UNCHANGED <<pc, turnVars, steer, signal, typed, started, pressed>>

(* The process dies, or the connection closes and the turn future and its  *)
(* Host are dropped: only the log is left.                                 *)
Crash ==
    /\ Spend("crashes")
    /\ Return
    /\ steer' = <<>> /\ signal' = FALSE /\ clearing' = FALSE
    /\ UNCHANGED <<log, typed, started, sent, pressed>>

-----------------------------------------------------------------------------
(* The steps of the turn's own task, and those it waits for: the end of a  *)
(* provider's stream and the end of a tool.                                *)
HostStep ==
    \/ OpenLog \/ FrameTurn \/ Budget \/ Prompt \/ PrepareTurn
    \/ LoopExhausted \/ DrainSteer \/ SkipRequest \/ Request
    \/ PersistReply \/ DiscardCall \/ DiscardDone
    \/ GateCall \/ Dispatch \/ RecordResult \/ BatchDone \/ EndTurn

Awaited == StreamDone \/ StreamError \/ ToolEnds

TurnStep == HostStep \/ Awaited

Environment == RunTurn \/ Steer \/ Cancel \/ BeginClear \/ MarkCleared \/ Crash

(* Every bound is spent and no turn is running.                            *)
Finished ==
    /\ pc = "idle" /\ typed = MaxTexts
    /\ UNCHANGED vars

Next == TurnStep \/ Environment \/ Finished

Spec == Init /\ [][Next]_vars

(* The task of the turn and that of /clear are scheduled, their appends    *)
(* return and a backoff elapses.  Nothing is assumed of what a turn waits  *)
(* for: the HTTP client has no timeout, tool_timeout is None by default.   *)
FairSpec == Spec /\ WF_vars(HostStep) /\ WF_vars(MarkCleared)

-----------------------------------------------------------------------------
(* Properties.                                                             *)

Steps == {"idle", "open", "frame", "budget", "prompt", "prepare", "top", "ask",
          "stream", "reply", "discard", "gate", "running", "end"}

LoopOK ==
    /\ pc \in Steps
    /\ iter \in 0 .. MaxTurns /\ attempt \in 0 .. MaxRetries + 1
    /\ slots \in Seq({"ready", "failed"}) /\ Len(slots) <= Len(Calls)
    /\ recorded \in 0 .. Len(Calls)
    /\ running \subseteq started
    /\ failed \in BOOLEAN

InputOK ==
    /\ typed \in 0 .. MaxTexts /\ prompt \in 0 .. typed
    /\ steer \in Seq(1 .. typed)
    /\ signal \in BOOLEAN /\ clearing \in BOOLEAN /\ pressed \in BOOLEAN

UsedOK == used \in [Bounds -> Nat] /\ \A b \in Bounds : used[b] <= Limit[b]

(* Every variable stays in its type and the counters of the loop within    *)
(* their limits; what context holds is left to the wire properties.        *)
TypeOK == IsSequence(log) /\ LoopOK /\ InputOK /\ UsedOK

AssistantRows(l) == {k \in DOMAIN l : l[k].type = "assistant"}

AskedCalls(l) == UNION {ToSet(l[k].calls) : k \in AssistantRows(l)}

AnsweredCalls(l) == {l[k].call : k \in {j \in DOMAIN l : IsResult(l[j])}}

(* A tool call is on record before it runs, runs at most once and is       *)
(* answered at most once, whatever crashes: the log's "assistant asked,    *)
(* tool never answered" tail is honest and is never run again.             *)
Ledger == INSTANCE ToolLedger
    WITH asked <- AskedCalls(log), ran <- started, answered <- AnsweredCalls(log)

LedgerSpec == Ledger!Spec

(* The log replays results as declared: the result of the i-th call of the *)
(* assistant message at row k is row k + i, so nothing comes between a     *)
(* message and its results, no result is repeated and none is out of order *)
(* ("all in declaration order, so the session log replays exactly as       *)
(* declared").  Call ids carry the row of their message and their place.   *)
ResultsInPlace ==
    \A p \in DOMAIN log : IsResult(log[p]) =>
        LET k == log[p].call[1]
            i == log[p].call[2]
        IN  /\ p = k + i
            /\ k \in AssistantRows(log)
            /\ i \in DOMAIN log[k].calls

(* In every request the provider sees, a declared call is answered among   *)
(* the results that follow its message at once, and a result stands behind *)
(* a message that declares its call: OpenAI-compatible and Anthropic       *)
(* endpoints answer a request without either with HTTP 400.                *)
WireWellFormed ==
    pc = "stream" => CallsAnswered(sent) /\ NoOrphanResults(sent)

(* Send what you persist: the view of a request is what the log on disk    *)
(* projects to at that moment, so a restart replays the same bytes.        *)
SendWhatYouPersist ==
    pc = "stream" => sent = RepairUnanswered(DeriveMessages(log))

(* The prompt cache stays warm: until a checkpoint, every request extends  *)
(* the request before it, across turns, aborts, failures and crashes.      *)
PrefixStable == [][pc = "ask" /\ pc' = "stream" => IsPrefix(sent, sent')]_vars

Undisturbed == used["crashes"] = 0 /\ used["faults"] = 0

(* A mid-batch abort does not leave a started call without its result: at  *)
(* every boundary the calls that ran are answered, unless the process died *)
(* or the disk failed.                                                     *)
DispatchedAnswered ==
    Undisturbed /\ pc \in {"idle", "top", "end"} => started \subseteq AnsweredCalls(log)

SteeredTexts(l) ==
    LET rows == ElementsAt(l, {k \in DOMAIN l : l[k].type = "user" /\ l[k].from = "steer"})
    IN  [i \in DOMAIN rows |-> rows[i].text]

(* Steered messages are injected in the order they were queued, each once. *)
SteeredInOrder ==
    LET texts == SteeredTexts(log) \o steer
    IN  \A i, j \in DOMAIN texts : i < j => texts[i] < texts[j]

(* No text the user typed is lost while the process lives and the disk     *)
(* works: it is in the log, in the queue, or about to open the turn; and   *)
(* what was steered comes in the order it was typed, once.                 *)
NothingTypedIsLost ==
    /\ SteeredInOrder
    /\ Undisturbed =>
         1 .. typed = {row.text : row \in {r \in ToSet(log) : r.type = "user"}}
                      \cup ToSet(steer)
                      \cup (IF pc \in {"open", "frame", "budget", "prompt"}
                            THEN {prompt} ELSE {})

(* The last message of the model and the last turn frame up to row n.       *)
LastReply(l, n) == SelectLastInSubSeq(l, 1, n, LAMBDA r : r.type = "assistant")

LastFrame(l, n) == SelectLastInSubSeq(l, 1, n, LAMBDA r : r.type = "turn_start")

(* What the turn whose marker is at row p says of itself in its last       *)
(* message, and of the calls its messages asked for.                       *)
EndsWell(l, p) ==
    LET a == LastReply(l, p)
    IN  a > LastFrame(l, p) => l[a].stop \notin {"aborted", "error"}

RepliesOfTurn(l, p) == {k \in AssistantRows(l) : LastFrame(l, p) < k /\ k <= p}

ActedOn(msg) == msg.stop \in {"tool_use", "max_tokens"}

LeavesNoCall(l, p) ==
    \A k \in RepliesOfTurn(l, p) :
        ActedOn(l[k]) => ToSet(l[k].calls) \subseteq AnsweredCalls(l)

(* A turn the log calls completed did not end in an aborted or errored     *)
(* message, and every call that a message of it asked to run or had cut    *)
(* off has its result: no abort and no failed append left a batch half     *)
(* recorded behind it.  (Running out of turns completes a turn too: then   *)
(* its last message is one whose calls were answered.)                     *)
CompletedIsHonest ==
    \A p \in DOMAIN log : log[p] = TurnEnd("completed") =>
        EndsWell(log, p) /\ LeavesNoCall(log, p)

CompletedEndsWell ==
    \A p \in DOMAIN log : log[p] = TurnEnd("completed") => EndsWell(log, p)

CompletedLeavesNoCall ==
    \A p \in DOMAIN log : log[p] = TurnEnd("completed") => LeavesNoCall(log, p)

(* The row-level count behind the session list equals the length of the    *)
(* projection ("by construction").                                         *)
CountMatchesView == VisibleMessageCount(log) = Len(DeriveMessages(log))

(* Compaction and aborts never unbill: the totals of a conversation only   *)
(* grow until the user clears it.                                          *)
BillingMonotone ==
    [][LET old == CacheStats(log)
           new == CacheStats(log')
       IN  \/ new.input >= old.input /\ new.calls >= old.calls
           \/ Len(log') > Len(log) /\ Last(log') = Cleared]_vars

(* What a turn may wait for without end.                                   *)
Waiting == pc = "stream" \/ running # {}

(* Every turn gives its slot back, whatever is retried, cancelled, steered *)
(* or lost, unless it hangs for ever in the wait for one reply of the      *)
(* provider or for one batch of tools, which nothing in the host bounds.   *)
TurnEnds == <>[]Waiting \/ (pc # "idle" ~> pc = "idle")

(* "Every press is honored": once a cancel came during a turn, the turn    *)
(* makes no further provider request.                                      *)
CancelIsHonored == [][pc = "ask" /\ pc' = "stream" => ~pressed]_vars

-----------------------------------------------------------------------------
(* The inductive invariant behind the theorems of AgentTurnProofs, for     *)
(* every host: a /clear may overlap a turn.                                *)

(* Where the loop's counters stand at each step.                           *)
InvControl ==
    /\ pc = "ask" => attempt <= MaxRetries
    /\ pc \notin {"gate", "running", "end"} => slots = <<>>
    /\ pc \notin {"discard", "running", "end"} => recorded = 0
    /\ pc = "running" => recorded <= Len(slots)
    /\ pc # "running" => running = {}

(* The message being handled is one of the assistant's.                    *)
InvReply == reply.type = "assistant" /\ IsSequence(reply.calls)

(* Ids are used once: the calls of the message being handled are new until *)
(* it reaches the log, and then each is on record, not started at the gate *)
(* and not answered before its turn has come.                              *)
InvCalls ==
    /\ started \subseteq AskedCalls(log) /\ AnsweredCalls(log) \subseteq AskedCalls(log)
    /\ \A c \in AskedCalls(log) : c[1] \in 1 .. Len(log)
    /\ \A i, j \in DOMAIN Calls : Calls[i] = Calls[j] => i = j
    /\ pc = "reply" => \A c \in ToSet(Calls) : c[1] \in 1 .. (Len(log) + 1)
    /\ pc = "reply" => ToSet(Calls) \cap AskedCalls(log) = {}
    /\ pc \in {"gate", "running", "discard"} => ToSet(Calls) \subseteq AskedCalls(log)
    /\ pc \in {"gate", "running", "discard"} =>
          \A i \in DOMAIN Calls : i > recorded => Calls[i] \notin AnsweredCalls(log)
    /\ pc = "gate" => ToSet(Calls) \cap started = {}

Inv == TypeOK /\ InvControl /\ InvReply /\ InvCalls

(* On a host whose /clear cannot overlap a turn, an id names the row of    *)
(* its message and its place in it, and a result has its place too.        *)
InvSlot == clearing => pc = "idle"

Numbered(msg, k) ==
    /\ msg.type = "assistant"
    /\ IsSequence(msg.calls)
    /\ \A i \in DOMAIN msg.calls : msg.calls[i] = <<k, i>>

InvLog ==
    /\ \A k \in AssistantRows(log) : Numbered(log[k], k)
    /\ ResultsInPlace

(* The message being handled and the tail of the log it left.              *)
InvTail ==
    /\ pc = "reply" => Numbered(reply, Len(log) + 1)
    /\ pc = "gate" => Len(log) > 0 /\ log[Len(log)] = reply
    /\ pc \in {"running", "discard"} =>
          Len(log) - recorded > 0 /\ log[Len(log) - recorded] = reply

InvPlaces == InvSlot /\ InvLog /\ InvTail

(* The parts that rest on Inv.  The started calls of the batch whose       *)
(* results are still to be recorded, and the others, which are answered.   *)
Pending == {Calls[i] : i \in {j \in DOMAIN slots : j > recorded /\ slots[j] = "ready"}}

InvAnswered ==
    Undisturbed =>
        started \subseteq AnsweredCalls(log) \cup (IF pc = "running" THEN Pending ELSE {})

(* The message being handled is the last one of the turn's frame, and only *)
(* the signal makes it an aborted one.                                     *)
InvHonest ==
    /\ CompletedEndsWell
    /\ pc \in {"idle", "open", "frame", "budget", "prompt", "prepare"} => reply = NoReply
    /\ reply.stop = "aborted" => signal
    /\ pc \notin {"idle", "open", "frame", "reply"} /\ ~failed =>
          LET a == LastReply(log, Len(log))
          IN  a > LastFrame(log, Len(log)) => log[a] = reply

InBatch == pc \in {"gate", "running", "discard"}

(* A call of the message being handled whose result has not been recorded. *)
Owed(msg, i) == InBatch /\ msg = reply /\ i > recorded

(* The calls of the turn's messages are answered but for those owed.       *)
TurnAnswered ==
    \A k \in RepliesOfTurn(log, Len(log)) : ActedOn(log[k]) =>
        \A i \in DOMAIN log[k].calls :
            log[k].calls[i] \in AnsweredCalls(log) \/ Owed(log[k], i)

Looping == pc \notin {"idle", "open", "frame", "budget", "prompt", "prepare"}

(* That holds until an abort or a failed append, and only an abort cuts    *)
(* the pre-pass of a batch short.                                          *)
InvBatches ==
    /\ CompletedLeavesNoCall
    /\ pc = "running" /\ Len(slots) < Len(Calls) => signal
    /\ pc \in {"budget", "prompt", "prepare"} => RepliesOfTurn(log, Len(log)) = {}
    /\ Looping /\ ~failed /\ ~signal => TurnAnswered

(* The log's view, the part of it before the message being handled and the *)
(* results recorded for that message.                                      *)

View == DeriveMessages(log)

Settled == SubSeq(View, 1, Len(View) - (IF InBatch THEN recorded + 1 ELSE 0))

BatchRows ==
    [i \in 1 .. recorded |->
        IF pc = "discard" THEN ToolResult(Calls[i], "failed") ELSE ResultOf(i)]

(* Rows, and the messages checkpoints carry, are well shaped, and so is    *)
(* the history that the next checkpoint is made of.                        *)
ShapedRow(row) ==
    /\ Shaped(row)
    /\ row.type = "compacted" => IsSequence(row.base) /\ WellShaped(row.base)

InvShaped ==
    /\ \A k \in DOMAIN log : ShapedRow(log[k])
    /\ pc \in {"frame", "budget"} => IsSequence(context) /\ WellShaped(context)

(* The log's view is sound, and the last request is a prefix of every view *)
(* it can grow into.                                                       *)
InvLogView ==
    /\ Based(log) /\ Sound(View)
    /\ InBatch => /\ recorded < Len(View)
                  /\ View = Append(Settled, reply) \o BatchRows
    /\ IsSequence(sent) /\ IsPrefix(sent, RepairUnanswered(Settled))

(* What the turn works with is the repaired view of the log, unless an     *)
(* abort left calls behind that the working messages do not answer.        *)
InvContext ==
    /\ pc \in {"frame", "budget", "prompt", "prepare", "stream"} =>
          context = RepairUnanswered(View)
    /\ pc = "stream" => sent = context
    /\ pc = "running" /\ Len(slots) < Len(Calls) => signal
    /\ ~signal =>
          /\ pc \in {"top", "ask", "reply"} => context = RepairUnanswered(View)
          /\ pc \in {"gate", "running"} =>
                context = Append(RepairUnanswered(Settled), reply)
          /\ pc = "discard" =>
                context = Append(RepairUnanswered(Settled), reply) \o BatchRows

InvView == InvLogView /\ InvContext

(* A text in the log was typed.                                            *)
InvTyped ==
    /\ NothingTypedIsLost
    /\ \A k \in DOMAIN log : log[k].type = "user" => log[k].text \in 0 .. typed

(* What a provider reported is a number of tokens.                         *)
InvPriced ==
    /\ reply.tokens \in Nat
    /\ \A k \in AssistantRows(log) : log[k].tokens \in Nat
=============================================================================
