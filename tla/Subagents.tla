----------------------------- MODULE Subagents ------------------------------
(***************************************************************************)
(* One call of spawn_subagents in a turn of the gateway: the sub-agents'   *)
(* tasks, the forwarder of each (conga-host/src/subagent.rs), the wire to  *)
(* the browser (conga-gateway/src/ws.rs) and the panels and the lock of    *)
(* the input there (useChatSession.ts, chatStore.ts).                      *)
(*                                                                         *)
(* A sub-agent is its events: a batch of tool calls or none, then an end.  *)
(* Text and usage events travel the same way and are left out, as are the  *)
(* main agent's own events and the header of the panels.  The user may     *)
(* stop the turn, send a message and retry one; the socket stays up.       *)
(***************************************************************************)
EXTENDS Naturals, Sequences, FiniteSets

CONSTANTS
    NumTasks,    \* sub-agents of the call
    ToolNames,   \* tools a sub-agent calls
    MaxBatch,    \* calls in its batch
    MaxBatches,  \* sub-agents that have a batch
    MaxPanics,   \* sub-agents that panic
    ToolTimeout, \* is the engine's tool timeout (CONGA_TOOL_TIMEOUT_S) set?
    MaxWire,     \* frames under way to the browser
    MaxUpsets    \* messages the user sends or retries, and timeouts of the tool

ASSUME SubagentsAssumption ==
    /\ NumTasks \in Nat \ {0} /\ MaxBatch \in Nat \ {0} /\ MaxBatches \in Nat
    /\ MaxPanics \in Nat /\ MaxUpsets \in Nat
    /\ ToolTimeout \in BOOLEAN /\ MaxWire \in Nat \ {0}

Tasks == 1..NumTasks

VARIABLES
    parent,   \* the call: spawning, collecting, returned, dropped;
              \* then the turn, and the turns behind it: returned, failing, ended
    dropped,  \* has the engine's timeout dropped the call?
    run,      \* each sub-agent's task
    channel,  \* the events its forwarder has not taken yet
    open,     \* the forwarders that run
    taken,    \* the user's messages the server has read, of those posted
    wire,     \* frames on their way to the browser
    panel,    \* what the browser shows of each sub-agent, and in which reply
    timer,    \* the panels whose five-minute timer is armed
    locked,   \* isReceiving: the browser takes no new message
    thinking, \* isThinking
    sending,  \* isSending
    chat,     \* the replies in the chat, whose message is the last, and whether
              \* currentBotMessageId is the last reply (or null)
    posted,   \* the user's messages that left the browser
    sent      \* history: what each sub-agent has put on the wire so far

server  == <<parent, dropped, run, channel, open, taken>>
browser == <<panel, timer, locked, thinking, sending, chat, posted>>
vars    == <<server, wire, browser, sent>>

NewRun == [at |-> "unborn", batch |-> <<>>, verdict |-> "none"]
NoPanel == [home |-> 0, status |-> "none", tools |-> <<>>]
Unheard == [starts |-> 0, verdicts |-> 0, late |-> FALSE]

\* The sender end of a channel lives in the loop's callback.
SenderOpen(i) == run[i].at \in {"thinking", "tools"}

Init ==
    /\ parent = "spawning" /\ dropped = FALSE
    /\ run = [i \in Tasks |-> NewRun]
    /\ channel = [i \in Tasks |-> <<>>] /\ open = {}
    /\ wire = <<[kind |-> "allStarted"]>>
    /\ panel = [i \in Tasks |-> NoPanel] /\ timer = {}
    /\ locked = TRUE /\ thinking = TRUE /\ sending = FALSE
    /\ \E last \in {"bot", "user"} : chat = [bots |-> 1, last |-> last, tracked |-> TRUE]
    /\ posted = 0 /\ taken = 0
    /\ sent = [i \in Tasks |-> Unheard]

Frame(kind, i) == [kind |-> kind, id |-> i]
Room == Len(wire) < MaxWire
Upsets == posted + IF dropped THEN 1 ELSE 0

\* A frame of sub-agent i; a verdict is meant to be its last.
Emit(frame, i) ==
    /\ Room
    /\ wire' = Append(wire, frame)
    /\ sent' = [sent EXCEPT ![i] =
                  [starts   |-> @.starts + IF frame.kind = "started" THEN 1 ELSE 0,
                   verdicts |-> @.verdicts
                                + IF frame.kind \in {"completed", "error"} THEN 1 ELSE 0,
                   late     |-> @.verdicts > 0]]

Move(i, at) == run' = [run EXCEPT ![i].at = at]

-----------------------------------------------------------------------------
(* The call *)

\* The loop of spawn has no await: nothing interrupts it, but the tasks it has
\* spawned already run.
Spawn(i) ==
    /\ parent = "spawning" /\ run[i].at = "unborn"
    /\ \A j \in 1..(i - 1) : run[j].at # "unborn"
    /\ Move(i, "thinking")
    /\ open' = open \cup {i}
    /\ Emit(Frame("started", i), i)
    /\ parent' = IF i = NumTasks THEN "collecting" ELSE "spawning"
    /\ UNCHANGED <<dropped, channel, taken, browser>>

\* join_next until the set is empty, then Synthesizing.
Collect ==
    /\ parent = "collecting" /\ Room
    /\ \A i \in Tasks : run[i].at = "joined"
    /\ wire' = Append(wire, [kind |-> "synthesizing"])
    /\ parent' = "returned"
    /\ UNCHANGED <<dropped, run, channel, open, taken, browser, sent>>

\* The engine drops the tool's future, and the JoinSet aborts its tasks.
TimeOut ==
    /\ ToolTimeout /\ parent = "collecting" /\ Upsets < MaxUpsets
    /\ parent' = "dropped" /\ dropped' = TRUE
    /\ UNCHANGED <<run, channel, open, taken, wire, browser, sent>>

\* The turn goes on to its end, good or bad.
EndTurn ==
    /\ parent \in {"returned", "dropped"} /\ Room
    /\ wire' = Append(wire, [kind |-> "done"])
    /\ parent' \in {"ended", "failing"}
    /\ UNCHANGED <<dropped, run, channel, open, taken, browser, sent>>

\* The error of a turn is queued behind its done.
FailTurn ==
    /\ parent = "failing" /\ Room
    /\ wire' = Append(wire, [kind |-> "failed"])
    /\ parent' = "ended"
    /\ UNCHANGED <<dropped, run, channel, open, taken, browser, sent>>

\* A message that comes during a turn is queued for its loop.
Steer ==
    /\ taken < posted /\ parent \notin {"failing", "ended"} /\ Room
    /\ taken' = taken + 1
    /\ wire' = Append(wire, [kind |-> "queued"])
    /\ UNCHANGED <<parent, dropped, run, channel, open, browser, sent>>

\* One that comes later opens a turn, here one without sub-agents.
NextTurn ==
    /\ taken < posted /\ parent = "ended"
    /\ taken' = taken + 1
    /\ parent' = "returned"
    /\ UNCHANGED <<dropped, run, channel, open, wire, browser, sent>>

-----------------------------------------------------------------------------
(* A sub-agent's task and its forwarder *)

StartsOf(i, batch) ==
    [c \in DOMAIN batch |->
        [kind |-> "toolStart", id |-> i, call |-> c, name |-> batch[c]]]
EndsOf(i, batch) ==
    [c \in DOMAIN batch |->
        [kind |-> "toolEnd", id |-> i, call |-> c, name |-> batch[c]]]

\* A batch starts all at once and its results are recorded in its order.
Dispatch(i) ==
    /\ run[i].at = "thinking" /\ run[i].batch = <<>>
    /\ Cardinality({j \in Tasks : run[j].batch # <<>>}) < MaxBatches
    /\ \E n \in 1..MaxBatch : \E batch \in [1..n -> ToolNames] :
          /\ run' = [run EXCEPT ![i] = [@ EXCEPT !.at = "tools", !.batch = batch]]
          /\ channel' = [channel EXCEPT ![i] = @ \o StartsOf(i, batch)]
    /\ UNCHANGED <<parent, dropped, open, taken, wire, browser, sent>>

Record(i) ==
    /\ run[i].at = "tools"
    /\ Move(i, "thinking")
    /\ channel' = [channel EXCEPT ![i] = @ \o EndsOf(i, run[i].batch)]
    /\ UNCHANGED <<parent, dropped, open, taken, wire, browser, sent>>

\* The loop returns: a result, an error, a failed or aborted reply.
Finish(i) ==
    /\ run[i].at = "thinking"
    /\ \E v \in {"ok", "failed"} :
          run' = [run EXCEPT ![i] = [@ EXCEPT !.at = "draining", !.verdict = v]]
    /\ UNCHANGED <<parent, dropped, channel, open, taken, wire, browser, sent>>

Panic(i) ==
    /\ run[i].at \in {"thinking", "tools"}
    /\ Cardinality({j \in Tasks : run[j].verdict = "panic"}) < MaxPanics
    /\ run' = [run EXCEPT ![i] = [@ EXCEPT !.at = "panicked", !.verdict = "panic"]]
    /\ UNCHANGED <<parent, dropped, channel, open, taken, wire, browser, sent>>

Forward(i) ==
    /\ i \in open /\ channel[i] # <<>>
    /\ Emit(Head(channel[i]), i)
    /\ channel' = [channel EXCEPT ![i] = Tail(@)]
    /\ UNCHANGED <<parent, dropped, run, open, taken, browser>>

ForwarderEnds(i) ==
    /\ i \in open /\ channel[i] = <<>> /\ ~SenderOpen(i)
    /\ open' = open \ {i}
    /\ UNCHANGED <<parent, dropped, run, channel, taken, wire, browser, sent>>

\* Mutant of Report: it does not wait for the forwarder.
ReportAtOnce(i) ==
    /\ run[i].at = "draining"
    /\ Emit(Frame(IF run[i].verdict = "ok" THEN "completed" ELSE "error", i), i)
    /\ Move(i, "joined")
    /\ UNCHANGED <<parent, dropped, channel, open, taken, browser>>

\* Mutant of Report: what follows the report panics, inside catch_unwind.
ReportThenPanic(i) ==
    /\ run[i].at = "draining" /\ i \notin open
    /\ Emit(Frame(IF run[i].verdict = "ok" THEN "completed" ELSE "error", i), i)
    /\ run' = [run EXCEPT ![i] = [@ EXCEPT !.at = "panicked", !.verdict = "panic"]]
    /\ UNCHANGED <<parent, dropped, channel, open, taken, browser>>

Report(i) ==
    /\ run[i].at = "draining" /\ i \notin open
    /\ Emit(Frame(IF run[i].verdict = "ok" THEN "completed" ELSE "error", i), i)
    /\ Move(i, "joined")
    /\ UNCHANGED <<parent, dropped, channel, open, taken, browser>>

\* catch_unwind: nobody waits for the forwarder of a task that panicked.
ReportPanic(i) ==
    /\ run[i].at = "panicked"
    /\ Emit(Frame("error", i), i)
    /\ Move(i, "joined")
    /\ UNCHANGED <<parent, dropped, channel, open, taken, browser>>

\* An abort takes effect at the task's next await; its forwarder is detached and
\* drains what is left.
AbortTask(i) ==
    /\ dropped /\ run[i].at \in {"thinking", "tools", "draining", "panicked"}
    /\ Move(i, "aborted")
    /\ UNCHANGED <<parent, dropped, channel, open, taken, wire, browser, sent>>

-----------------------------------------------------------------------------
(* The browser *)

\* handleSubagentToolEnd: the newest running call of that name.
EndTool(tools, name) ==
    LET running == {k \in DOMAIN tools : tools[k].name = name /\ tools[k].got = 0}
    IN  IF running = {} THEN 0
        ELSE CHOOSE k \in running : \A j \in running : j <= k

\* The bot message a frame goes to (getOrCreateBotMessage): the one the turn is
\* bound to, else the last reply unless a message of the user follows it.
Reply == IF chat.tracked \/ chat.last = "bot" THEN chat.bots ELSE chat.bots + 1

\* abortSubagents, of one bot message
Cancelled(bot) == [i \in Tasks |->
    IF panel[i].home = bot /\ panel[i].status = "running"
    THEN [panel[i] EXCEPT !.status = "error"]
    ELSE panel[i]]

\* Mutant of Settle: a panel that was given up is left alone.
SettleRunning(i, status) ==
    /\ panel' = [panel EXCEPT ![i].status =
                   IF panel[i].home = Reply /\ @ = "running" THEN status ELSE @]
    /\ timer' = timer \ {i}

\* updateSubagent finds the panel in the frame's bot message only.
Settle(i, status) ==
    /\ panel' = [panel EXCEPT ![i].status =
                   IF panel[i].home = Reply THEN status ELSE @]
    /\ timer' = timer \ {i}

ShowStarted(f) ==
    /\ f.kind = "started"
    /\ panel' = [panel EXCEPT ![f.id] =
                   [home |-> Reply, status |-> "running", tools |-> <<>>]]
    /\ timer' = timer \cup {f.id}
ShowToolStart(f) ==
    /\ f.kind = "toolStart"
    /\ panel' = IF panel[f.id].home # Reply THEN panel
                ELSE [panel EXCEPT ![f.id].tools =
                        Append(@, [call |-> f.call, name |-> f.name, got |-> 0])]
    /\ UNCHANGED timer
ShowToolEnd(f) ==
    /\ f.kind = "toolEnd"
    /\ LET k == EndTool(panel[f.id].tools, f.name) IN
       panel' = IF panel[f.id].home # Reply \/ k = 0 THEN panel
                ELSE [panel EXCEPT ![f.id].tools[k].got = f.call]
    /\ UNCHANGED timer
ShowCompleted(f) == f.kind = "completed" /\ Settle(f.id, "completed")
ShowError(f)     == f.kind = "error" /\ Settle(f.id, "error")
\* The error of the turn aborts the reply's panels and all timers; done leaves
\* them.
ShowFailed(f)    == f.kind = "failed" /\ panel' = Cancelled(Reply) /\ timer' = {}
ShowNothing(f)   == /\ f.kind \in {"allStarted", "synthesizing", "done", "queued"}
                    /\ UNCHANGED <<panel, timer>>

\* Mutant of Unlocks: the error that follows done is forgotten.
UnlocksOnDone(f) == f.kind \in {"done", "queued"}

\* Every frame locks the input, but the ends of a turn and the note that a
\* message is queued unlock it again.
Unlocks(f) == f.kind \in {"done", "failed", "queued"}

\* The chat after a frame: a reply may have begun, a queued message is shown
\* below it, and done lets go of the reply.
ChatAfter(f) ==
    [bots    |-> Reply,
     last    |-> IF f.kind = "queued" THEN "user"
                 ELSE IF Reply = chat.bots THEN chat.last ELSE "bot",
     tracked |-> f.kind # "done"]

Receive ==
    /\ wire # <<>>
    /\ wire' = Tail(wire)
    /\ LET f == Head(wire) IN
       /\ ShowStarted(f) \/ ShowToolStart(f) \/ ShowToolEnd(f)
          \/ ShowCompleted(f) \/ ShowError(f) \/ ShowFailed(f) \/ ShowNothing(f)
       /\ chat' = ChatAfter(f)
       /\ locked' = ~Unlocks(f)
       /\ thinking' = (thinking /\ f.kind \notin {"done", "failed"})
    /\ sending' = FALSE
    /\ UNCHANGED <<server, posted, sent>>

\* Mutant of TimerFires: the panel is left as it is.
TimerIdles(i) ==
    /\ i \in timer
    /\ timer' = timer \ {i}
    /\ UNCHANGED <<server, wire, panel, locked, thinking, sending, chat, posted, sent>>

\* Five minutes on, the panel is given up, wherever it is.
TimerFires(i) ==
    /\ i \in timer
    /\ panel' = [panel EXCEPT ![i].status = IF @ = "running" THEN "error" ELSE @]
    /\ timer' = timer \ {i}
    /\ UNCHANGED <<server, wire, locked, thinking, sending, chat, posted, sent>>

\* stopGenerating: the browser forgets the turn; the server's loops will notice
\* the cancel and finish, and what they still send arrives.
Stop ==
    /\ locked \/ thinking
    /\ locked' = FALSE /\ thinking' = FALSE /\ sending' = FALSE
    /\ panel' = Cancelled(chat.bots) /\ timer' = {}
    /\ UNCHANGED <<server, wire, chat, posted, sent>>

\* sendMessage: the next frame belongs to a reply below it.
Send ==
    /\ ~locked /\ ~thinking /\ ~sending /\ Upsets < MaxUpsets
    /\ posted' = posted + 1
    /\ sending' = TRUE
    /\ chat' = [chat EXCEPT !.last = "user", !.tracked = FALSE]
    /\ UNCHANGED <<server, wire, panel, timer, locked, thinking, sent>>

\* retryMessage: of a message that could not be sent; it asks for no leave.
Retry ==
    /\ Upsets < MaxUpsets
    /\ posted' = posted + 1
    /\ chat' = [chat EXCEPT !.tracked = FALSE]
    /\ UNCHANGED <<server, wire, panel, timer, locked, thinking, sending, sent>>

-----------------------------------------------------------------------------

Over == parent = "ended" /\ open = {} /\ wire = <<>> /\ taken = posted
        /\ \A i \in Tasks : run[i].at \in {"joined", "aborted"}
Rest == Over /\ timer = {} /\ UNCHANGED vars

Work(i) ==
    \/ Spawn(i) \/ Dispatch(i) \/ Record(i) \/ Finish(i) \/ Panic(i)
    \/ Forward(i) \/ ForwarderEnds(i) \/ Report(i) \/ ReportPanic(i)
    \/ AbortTask(i)

Next ==
    \/ Collect \/ TimeOut \/ EndTurn \/ FailTurn \/ Steer \/ NextTurn
    \/ \E i \in Tasks : Work(i) \/ TimerFires(i)
    \/ Receive \/ Stop \/ Send \/ Retry \/ Rest

\* The browser runs its handlers and its timers.  Nothing is asked of the
\* server: a loop or a tool of a sub-agent may hang for ever.
Fairness == WF_vars(Receive) /\ \A i \in Tasks : WF_vars(TimerFires(i))

Spec == Init /\ [][Next]_vars
FairSpec == Spec /\ Fairness

-----------------------------------------------------------------------------
(* Properties *)

\* Each task is started once and its verdict is sent once, and the call returns
\* only with all of them, however tasks panic (subagent.rs, spawn): a second
\* start or verdict of a sub-agent is no step of Fanout.
Calls == INSTANCE Fanout WITH
    started  <- [i \in Tasks |-> sent[i].starts],
    reported <- [i \in Tasks |-> sent[i].verdicts],
    outcome  <- IF dropped THEN "dropped"
                ELSE IF parent \in {"returned", "failing", "ended"} THEN "complete"
                ELSE "open"
FanoutSpec == Calls!Spec

\* A sub-agent's verdict is the last the browser hears of it (subagent.rs,
\* "Wait for forwarder to drain"), unless it panicked.
VerdictIsLast ==
    \A i \in Tasks : sent[i].late => run[i].verdict = "panic"

\* When all is over the input is free (useChatSession.ts, the guard of
\* sendMessage), whatever the user stopped, sent and retried.  Only an event
\* after done can lock it for good, and it takes a panic or a dropped call to
\* send one.
InputIsFree ==
    Over => (~locked /\ ~sending) \/ dropped \/ \E i \in Tasks : run[i].verdict = "panic"

\* When all is over every panel in the last reply shows its sub-agent's verdict,
\* whatever stop or the timer made of it in between; of a dropped call it does
\* not.  A verdict that comes when a later reply has begun finds no panel
\* (useChatSession.ts, processWebSocketMessage; chatStore.ts, updateSubagent).
PanelsTellTheVerdict ==
    Over /\ ~dropped => \A i \in Tasks : panel[i].home = chat.bots =>
        panel[i].status = IF run[i].verdict = "ok" THEN "completed" ELSE "error"

\* No panel of the last reply spins for ever, though a dropped call never reports
\* (the timer in handleSubagentStarted is its only end).
NoPanelSpins ==
    \A i \in Tasks : panel[i].status = "running" ~>
        panel[i].status # "running" \/ panel[i].home # chat.bots

\* The output shown with a call is its own: "Sub-agents execute tools serially,
\* so the newest running call with this name is the one that just finished".
OutputsPairUp ==
    \A i \in Tasks : \A k \in DOMAIN panel[i].tools :
        panel[i].tools[k].got \in {0, panel[i].tools[k].call}

-----------------------------------------------------------------------------
(* The inductive invariant behind the theorems of SubagentsProofs *)

CallFrames == [kind : {"allStarted", "synthesizing", "done", "failed", "queued"}]
RunFrames  == [kind : {"started", "completed", "error"}, id : Tasks]
ToolFrames == [kind : {"toolStart", "toolEnd"}, id : Tasks, call : Nat, name : ToolNames]
Frames     == CallFrames \cup RunFrames \cup ToolFrames

Places     == {"unborn", "thinking", "tools", "draining", "panicked", "joined", "aborted"}
RunStates  == [at : Places, batch : Seq(ToolNames),
               verdict : {"none", "ok", "failed", "panic"}]
ShownTools == [call : Nat, name : ToolNames, got : Nat]
Panels     == [home : Nat, status : {"none", "running", "completed", "error"},
               tools : Seq(ShownTools)]
Chats      == [bots : Nat, last : {"bot", "user"}, tracked : BOOLEAN]
Sent       == [starts : Nat, verdicts : Nat, late : BOOLEAN]

TypeOK ==
    /\ parent \in {"spawning", "collecting", "returned", "dropped", "failing", "ended"}
    /\ dropped \in BOOLEAN
    /\ run \in [Tasks -> RunStates]
    /\ channel \in [Tasks -> Seq(ToolFrames)] /\ open \subseteq Tasks
    /\ wire \in Seq(Frames)
    /\ panel \in [Tasks -> Panels]
    /\ timer \subseteq Tasks /\ chat \in Chats
    /\ locked \in BOOLEAN /\ thinking \in BOOLEAN /\ sending \in BOOLEAN
    /\ posted \in Nat /\ taken \in Nat
    /\ sent \in [Tasks -> Sent]

\* A verdict is out once when its task is joined; and a task that is joined in the
\* regular way has no forwarder left to send anything behind it.
InvRuns == \A i \in Tasks :
    /\ sent[i].starts = IF run[i].at = "unborn" THEN 0 ELSE 1
    /\ sent[i].verdicts = IF run[i].at = "joined" THEN 1 ELSE 0
    /\ sent[i].late => run[i].at = "joined"
    /\ i \in open => run[i].at # "unborn"
    /\ run[i].at \in {"unborn", "thinking", "tools"} => run[i].verdict = "none"
    /\ run[i].at = "draining" => run[i].verdict \in {"ok", "failed"}
    /\ run[i].at = "panicked" => run[i].verdict = "panic"
    /\ run[i].at = "joined" => run[i].verdict # "none"
    /\ run[i].at = "joined" /\ run[i].verdict # "panic" => i \notin open

\* A call that was not dropped ends with its tasks joined.
InvCall ==
    /\ dropped => parent \in {"returned", "dropped", "failing", "ended"}
    /\ parent = "dropped" => dropped
    /\ parent \in {"returned", "failing", "ended"} /\ ~dropped =>
            \A i \in Tasks : run[i].at = "joined"
    /\ \A i \in Tasks : run[i].at = "aborted" => dropped

Shown(i) == IF run[i].verdict = "ok" THEN "completed" ELSE "error"
Starts(f, i) == f.kind = "started" /\ f.id = i
Closes(f, i) == f.kind \in {"completed", "error"} /\ f.id = i

\* The verdict of a joined task is on the wire, or its panel shows it, if it is in
\* the last reply, and nothing on the wire will start the panel again.
InvWire == \A i \in Tasks :
    /\ \A k \in DOMAIN wire :
          /\ Starts(wire[k], i) => run[i].at # "unborn"
          /\ Closes(wire[k], i) => run[i].at = "joined" /\ wire[k].kind = Shown(i)
          /\ Closes(wire[k], i) => \A j \in DOMAIN wire : Starts(wire[j], i) => j < k
    /\ run[i].at = "joined" =>
          \/ \E k \in DOMAIN wire : Closes(wire[k], i)
          \/ /\ panel[i].home = chat.bots => panel[i].status = Shown(i)
             /\ \A k \in DOMAIN wire : ~Starts(wire[k], i)

\* Behind the end of a turn comes nothing, unless a forwarder was left alone.
Orphans == dropped \/ \E i \in Tasks : run[i].verdict = "panic"
InvEnd ==
    parent \in {"failing", "ended"} /\ ~Orphans =>
        IF wire = <<>> THEN ~locked ELSE Unlocks(wire[Len(wire)])

\* A panel is in a reply of the chat.
InvChat == \A i \in Tasks : panel[i].home <= chat.bots

\* A message that is being sent will be answered.
InvMail ==
    /\ taken <= posted
    /\ sending => taken < posted \/ wire # <<>> \/ parent \notin {"failing", "ended"}

Inv == InvRuns /\ VerdictIsLast /\ InvCall /\ InvWire /\ InvEnd /\ InvChat /\ InvMail
=============================================================================
