--------------------------- MODULE SubagentsProofs --------------------------
(***************************************************************************)
(* Proofs about Subagents, for any number of sub-agents, panics and frames *)
(* under way, with or without a tool timeout: a call implements Fanout, a  *)
(* verdict is the last that is sent of a sub-agent, and when all is over   *)
(* the input is free and the panels of the last reply show the verdicts.   *)
(***************************************************************************)
EXTENDS Subagents, SequenceTheorems, TLAPS

(***************************************************************************)
(* Types                                                                   *)
(***************************************************************************)

(* What a step of a task does to the tasks.                                *)
LEMMA MoveFacts ==
    ASSUME run \in [Tasks -> RunStates], NEW i \in Tasks, NEW at \in Places, Move(i, at)
    PROVE  /\ run' \in [Tasks -> RunStates]
           /\ run'[i].at = at /\ run'[i].verdict = run[i].verdict
           /\ \A j \in Tasks \ {i} : run'[j] = run[j]
    BY DEF Move, RunStates

(* What the end of a task's work does to the tasks.                        *)
LEMMA VerdictFacts ==
    ASSUME run \in [Tasks -> RunStates], NEW i \in Tasks, NEW at \in Places,
           NEW v \in {"ok", "failed", "panic"},
           run' = [run EXCEPT ![i] = [@ EXCEPT !.at = at, !.verdict = v]]
    PROVE  /\ run' \in [Tasks -> RunStates]
           /\ run'[i].at = at /\ run'[i].verdict = v
           /\ \A j \in Tasks \ {i} : run'[j] = run[j]
    BY DEF RunStates

(* A frame goes to the end of the wire, and history takes note of it.      *)
LEMMA EmitFacts ==
    ASSUME TypeOK, NEW i \in Tasks, NEW frame \in Frames, Emit(frame, i)
    PROVE  /\ wire' = Append(wire, frame) /\ wire' \in Seq(Frames)
           /\ sent' \in [Tasks -> Sent]
           /\ sent'[i].starts = sent[i].starts + IF frame.kind = "started" THEN 1 ELSE 0
           /\ sent'[i].verdicts = sent[i].verdicts
                                  + IF frame.kind \in {"completed", "error"} THEN 1 ELSE 0
           /\ sent'[i].late => sent[i].verdicts > 0
           /\ \A j \in Tasks \ {i} : sent'[j] = sent[j]
    <1>1. wire \in Seq(Frames) /\ sent \in [Tasks -> Sent]
        BY DEF TypeOK
    <1>2. wire' \in Seq(Frames)
        BY <1>1 DEF Emit
    <1> DEFINE heard ==
            [starts   |-> sent[i].starts + IF frame.kind = "started" THEN 1 ELSE 0,
             verdicts |-> sent[i].verdicts
                          + IF frame.kind \in {"completed", "error"} THEN 1 ELSE 0,
             late     |-> sent[i].verdicts > 0]
    <1>3. sent' = [sent EXCEPT ![i] = heard] /\ wire' = Append(wire, frame)
        BY DEF Emit
    <1>4. heard \in Sent
        BY <1>1 DEF Sent
    <1>5. sent'[i] = heard /\ sent' \in [Tasks -> Sent]
          /\ \A j \in Tasks \ {i} : sent'[j] = sent[j]
        BY <1>1, <1>3, <1>4
    <1> QED  BY <1>2, <1>3, <1>5

LEMMA RunFrameFacts ==
    ASSUME NEW i \in Tasks, NEW kind \in {"started", "completed", "error"}
    PROVE  /\ Frame(kind, i) \in Frames
           /\ Frame(kind, i).kind = kind /\ Frame(kind, i).id = i
    BY DEF Frame, Frames, RunFrames

(* The calls made of a batch are a sequence of tool frames.                *)
LEMMA BatchTyped ==
    ASSUME NEW i \in Tasks, NEW batch \in Seq(ToolNames)
    PROVE  StartsOf(i, batch) \in Seq(ToolFrames) /\ EndsOf(i, batch) \in Seq(ToolFrames)
    <1>1. PICK n \in Nat : batch \in [1..n -> ToolNames]
        OBVIOUS
    <1>2. DOMAIN batch = 1..n /\ \A c \in 1..n : batch[c] \in ToolNames
        BY <1>1
    <1>3. /\ StartsOf(i, batch) \in [1..n -> ToolFrames]
          /\ EndsOf(i, batch) \in [1..n -> ToolFrames]
        BY <1>2 DEF StartsOf, EndsOf, ToolFrames
    <1> QED  BY <1>3

(* A sub-agent's steps of its own change its task and add tool frames to   *)
(* its channel, and nothing else.                                          *)
LEMMA WorkFacts ==
    ASSUME TypeOK, NEW i \in Tasks, Dispatch(i) \/ Record(i)
    PROVE  /\ run' \in [Tasks -> RunStates]
           /\ run[i].at \in {"thinking", "tools"} /\ run'[i].at \in {"thinking", "tools"}
           /\ run'[i].verdict = run[i].verdict
           /\ \A j \in Tasks \ {i} : run'[j] = run[j]
           /\ channel' \in [Tasks -> Seq(ToolFrames)]
           /\ UNCHANGED <<parent, dropped, open, taken, wire, browser, sent>>
    <1>1. /\ run \in [Tasks -> RunStates] /\ channel \in [Tasks -> Seq(ToolFrames)]
          /\ run[i].batch \in Seq(ToolNames)
        BY DEF TypeOK, RunStates
    <1>2. CASE Dispatch(i)
        <2>1. PICK n \in 1..MaxBatch : \E batch \in [1..n -> ToolNames] :
                /\ run' = [run EXCEPT ![i] = [@ EXCEPT !.at = "tools", !.batch = batch]]
                /\ channel' = [channel EXCEPT ![i] = @ \o StartsOf(i, batch)]
            BY <1>2 DEF Dispatch
        <2>2. PICK batch \in [1..n -> ToolNames] :
                /\ run' = [run EXCEPT ![i] = [@ EXCEPT !.at = "tools", !.batch = batch]]
                /\ channel' = [channel EXCEPT ![i] = @ \o StartsOf(i, batch)]
            BY <2>1
        <2>3. n \in Nat
            BY SubagentsAssumption
        <2>4. batch \in Seq(ToolNames)
            BY <2>2, <2>3
        <2>5. channel[i] \o StartsOf(i, batch) \in Seq(ToolFrames)
            BY <1>1, <2>4, BatchTyped
        <2>6. channel' \in [Tasks -> Seq(ToolFrames)]
            BY <1>1, <2>2, <2>5
        <2>7. /\ run' \in [Tasks -> RunStates]
              /\ run'[i].at = "tools" /\ run'[i].verdict = run[i].verdict
              /\ \A j \in Tasks \ {i} : run'[j] = run[j]
            BY <1>1, <2>2, <2>4 DEF RunStates, Places
        <2> QED  BY <1>2, <2>6, <2>7 DEF Dispatch
    <1>3. CASE Record(i)
        <2>1. channel[i] \o EndsOf(i, run[i].batch) \in Seq(ToolFrames)
            BY <1>1, BatchTyped
        <2>2. channel' \in [Tasks -> Seq(ToolFrames)]
            BY <1>1, <1>3, <2>1 DEF Record
        <2>3. Move(i, "thinking") /\ "thinking" \in Places
            BY <1>3 DEF Record, Places
        <2> QED  BY <1>1, <1>3, <2>2, <2>3, MoveFacts DEF Record
    <1> QED  BY <1>2, <1>3

(* What a forwarder takes is a frame of a tool.                            *)
LEMMA ForwardFacts ==
    ASSUME TypeOK, NEW i \in Tasks, Forward(i)
    PROVE  /\ Head(channel[i]) \in ToolFrames /\ Head(channel[i]) \in Frames
           /\ Head(channel[i]).kind \in {"toolStart", "toolEnd"}
           /\ channel' \in [Tasks -> Seq(ToolFrames)]
    <1>1. channel \in [Tasks -> Seq(ToolFrames)] /\ channel[i] # <<>>
        BY DEF Forward, TypeOK
    <1>2. Head(channel[i]) \in ToolFrames /\ Tail(channel[i]) \in Seq(ToolFrames)
        BY <1>1
    <1>3. channel' \in [Tasks -> Seq(ToolFrames)]
        BY <1>1, <1>2 DEF Forward
    <1> QED  BY <1>2, <1>3 DEF Frames, ToolFrames

(* What became of a panel: a running one may have been given up.           *)
GivenUpAtMost(i) ==
    /\ panel'[i].home = panel[i].home
    /\ \/ panel'[i].status = panel[i].status
       \/ panel[i].status = "running" /\ panel'[i].status = "error"

LEMMA SettleFacts ==
    ASSUME panel \in [Tasks -> Panels], NEW i \in Tasks,
           NEW status \in {"none", "running", "completed", "error"},
           panel' = [panel EXCEPT ![i].status = status]
    PROVE  /\ panel' \in [Tasks -> Panels]
           /\ panel'[i].status = status /\ panel'[i].home = panel[i].home
           /\ \A j \in Tasks \ {i} : panel'[j] = panel[j]
    BY DEF Panels

LEMMA CancelFacts ==
    ASSUME panel \in [Tasks -> Panels], NEW bot, panel' = Cancelled(bot)
    PROVE  panel' \in [Tasks -> Panels] /\ \A i \in Tasks : GivenUpAtMost(i)
    <1> DEFINE new == Cancelled(bot)
    <1>1. ASSUME NEW i \in Tasks
          PROVE  /\ new[i] \in Panels /\ new[i].home = panel[i].home
                 /\ \/ new[i].status = panel[i].status
                    \/ panel[i].status = "running" /\ new[i].status = "error"
        BY DEF Cancelled, Panels
    <1>2. new \in [Tasks -> Panels]
        BY <1>1 DEF Cancelled
    <1> QED  BY <1>1, <1>2 DEF GivenUpAtMost

LEMMA ToolsFacts ==
    ASSUME panel \in [Tasks -> Panels], NEW i \in Tasks, NEW tools \in Seq(ShownTools),
           panel' = [panel EXCEPT ![i].tools = tools]
    PROVE  /\ panel' \in [Tasks -> Panels]
           /\ \A j \in Tasks : panel'[j].status = panel[j].status
                              /\ panel'[j].home = panel[j].home
    <1>1. [panel[i] EXCEPT !.tools = tools] \in Panels
        BY DEF Panels
    <1> QED  BY <1>1 DEF Panels

(* What one frame makes of a panel.                                        *)
Told(f, i) ==
    /\ Starts(f, i) => panel'[i].home = Reply /\ panel'[i].status = "running"
    /\ Closes(f, i) => /\ panel'[i].home = panel[i].home
                       /\ panel[i].home = Reply => panel'[i].status = f.kind
    /\ ~Starts(f, i) /\ ~Closes(f, i) => GivenUpAtMost(i)

LEMMA ShowFacts ==
    ASSUME TypeOK, NEW f \in Frames,
           ShowStarted(f) \/ ShowToolStart(f) \/ ShowToolEnd(f)
           \/ ShowCompleted(f) \/ ShowError(f) \/ ShowFailed(f) \/ ShowNothing(f)
    PROVE  /\ panel' \in [Tasks -> Panels] /\ timer' \subseteq Tasks
           /\ \A i \in Tasks : Told(f, i)
    <1>1. panel \in [Tasks -> Panels] /\ timer \subseteq Tasks /\ Reply \in Nat
        BY DEF TypeOK, Reply, Chats
    <1>2. f.kind \in {"started", "completed", "error"} => f.id \in Tasks
        BY DEF Frames, CallFrames, RunFrames, ToolFrames
    <1>3. f.kind \in {"toolStart", "toolEnd"} =>
            f.id \in Tasks /\ f.call \in Nat /\ f.name \in ToolNames
        BY DEF Frames, CallFrames, RunFrames, ToolFrames
    <1>4. CASE ShowStarted(f)
        <2> DEFINE new == [home |-> Reply, status |-> "running", tools |-> <<>>]
        <2>1. f.kind = "started" /\ f.id \in Tasks
            BY <1>2, <1>4 DEF ShowStarted
        <2>2. panel' = [panel EXCEPT ![f.id] = new] /\ timer' = timer \cup {f.id}
            BY <1>4 DEF ShowStarted
        <2>3. new \in Panels
            BY <1>1 DEF Panels
        <2>4. panel' \in [Tasks -> Panels] /\ timer' \subseteq Tasks
            BY <1>1, <2>1, <2>2, <2>3
        <2>5. panel'[f.id].home = Reply /\ panel'[f.id].status = "running"
              /\ \A i \in Tasks \ {f.id} : panel'[i] = panel[i]
            BY <1>1, <2>1, <2>2
        <2> QED  BY <2>1, <2>4, <2>5 DEF Told, Starts, Closes, GivenUpAtMost
    <1>5. ASSUME NEW status \in {"completed", "error"}, f.kind = status,
                 Settle(f.id, status)
          PROVE  /\ panel' \in [Tasks -> Panels] /\ timer' \subseteq Tasks
                 /\ \A i \in Tasks : Told(f, i)
        <2>1. f.id \in Tasks
            BY <1>2, <1>5
        <2>2. PICK shown \in {"none", "running", "completed", "error"} :
                shown = IF panel[f.id].home = Reply THEN status ELSE panel[f.id].status
            BY <1>1, <2>1 DEF Panels
        <2>3. panel' = [panel EXCEPT ![f.id].status = shown] /\ timer' = timer \ {f.id}
            BY <1>5, <2>2 DEF Settle
        <2>4. /\ panel' \in [Tasks -> Panels]
              /\ panel'[f.id].status = shown /\ panel'[f.id].home = panel[f.id].home
              /\ \A j \in Tasks \ {f.id} : panel'[j] = panel[j]
            BY <1>1, <2>1, <2>3, SettleFacts
        <2>5. timer' \subseteq Tasks
            BY <1>1, <2>3
        <2> QED  BY <1>5, <2>1, <2>2, <2>4, <2>5
                 DEF Told, Starts, Closes, GivenUpAtMost
    <1>6. CASE ShowToolStart(f)
        <2> DEFINE tools == Append(panel[f.id].tools,
                                   [call |-> f.call, name |-> f.name, got |-> 0])
        <2>1. f.kind = "toolStart" /\ f.id \in Tasks
            BY <1>3, <1>6 DEF ShowToolStart
        <2>4. panel[f.id].tools \in Seq(ShownTools)
            BY <1>1, <2>1 DEF Panels
        <2>5. [call |-> f.call, name |-> f.name, got |-> 0] \in ShownTools
            BY <1>3, <2>1 DEF ShownTools
        <2>2. tools \in Seq(ShownTools)
            BY <2>4, <2>5
        <2>3. /\ panel' = panel \/ panel' = [panel EXCEPT ![f.id].tools = tools]
              /\ timer' = timer
            BY <1>6 DEF ShowToolStart
        <2> HIDE DEF tools
        <2> QED  BY <1>1, <2>1, <2>2, <2>3, ToolsFacts
                 DEF Told, Starts, Closes, GivenUpAtMost
    <1>7. CASE ShowToolEnd(f)
        <2> DEFINE old == panel[f.id].tools
                   k == EndTool(old, f.name)
                   tools == [old EXCEPT ![k].got = f.call]
        <2>1. f.kind = "toolEnd" /\ f.id \in Tasks /\ f.call \in Nat
            BY <1>3, <1>7 DEF ShowToolEnd
        <2>2. /\ panel' = panel \/ panel' = [panel EXCEPT ![f.id].tools[k].got = f.call]
              /\ timer' = timer
            BY <1>7 DEF ShowToolEnd
        <2>3. old \in Seq(ShownTools)
            BY <1>1, <2>1 DEF Panels
        <2> HIDE DEF k
        <2>4. tools \in Seq(ShownTools)
            <3> HIDE DEF old
            <3>1. CASE k \in DOMAIN old
                <4>1. old[k] \in ShownTools
                    BY <2>3, <3>1
                <4>2. [old[k] EXCEPT !.got = f.call] \in ShownTools
                    BY <2>1, <4>1 DEF ShownTools
                <4> QED  BY <2>3, <3>1, <4>2
            <3>2. CASE k \notin DOMAIN old
                <4>1. tools = old
                    BY <2>3, <3>2
                <4> QED  BY <2>3, <4>1
            <3> QED  BY <3>1, <3>2
        <2>5. panel' = panel \/ panel' = [panel EXCEPT ![f.id].tools = tools]
            BY <1>1, <2>1, <2>2
        <2> HIDE DEF tools
        <2> QED  BY <1>1, <2>1, <2>2, <2>4, <2>5, ToolsFacts
                 DEF Told, Starts, Closes, GivenUpAtMost
    <1>8. CASE ShowFailed(f)
        BY <1>8, <1>1, CancelFacts DEF ShowFailed, Told, Starts, Closes
    <1>9. CASE ShowNothing(f)
        BY <1>9, <1>1 DEF ShowNothing, Told, Starts, Closes, GivenUpAtMost
    <1> QED  BY <1>4, <1>5, <1>6, <1>7, <1>8, <1>9 DEF ShowCompleted, ShowError

(* What a step of the browser does, apart from taking a frame.             *)
BrowserSteps == (\E i \in Tasks : TimerFires(i)) \/ Stop \/ Send \/ Retry

LEMMA BrowserFacts ==
    ASSUME TypeOK, BrowserSteps
    PROVE  /\ panel' \in [Tasks -> Panels] /\ timer' \subseteq Tasks
           /\ \A i \in Tasks : GivenUpAtMost(i)
           /\ chat' \in Chats /\ chat'.bots = chat.bots
           /\ locked' = locked \/ locked' = FALSE
           /\ locked' \in BOOLEAN /\ thinking' \in BOOLEAN /\ sending' \in BOOLEAN
           /\ posted' \in {posted, posted + 1}
           /\ posted' = posted => (sending' => sending)
           /\ UNCHANGED <<server, wire, sent>>
    <1>1. panel \in [Tasks -> Panels] /\ timer \subseteq Tasks /\ chat \in Chats
          /\ locked \in BOOLEAN /\ thinking \in BOOLEAN /\ sending \in BOOLEAN
          /\ posted \in Nat
        BY DEF TypeOK
    <1>2. ASSUME NEW i \in Tasks, TimerFires(i)
          PROVE  /\ panel' \in [Tasks -> Panels] /\ timer' \subseteq Tasks
                 /\ \A j \in Tasks : GivenUpAtMost(j)
                 /\ UNCHANGED <<server, wire, locked, thinking, sending, chat, posted, sent>>
        <2>1. panel[i].status \in {"none", "running", "completed", "error"}
            BY <1>1 DEF Panels
        <2>2. PICK status \in {"none", "running", "completed", "error"} :
                status = IF panel[i].status = "running" THEN "error" ELSE panel[i].status
            BY <2>1
        <2>3. panel' = [panel EXCEPT ![i].status = status]
            BY <1>2, <2>2 DEF TimerFires
        <2>4. /\ timer' \subseteq Tasks
              /\ UNCHANGED <<server, wire, locked, thinking, sending, chat, posted, sent>>
            BY <1>1, <1>2 DEF TimerFires
        <2> QED  BY <1>1, <2>2, <2>3, <2>4, SettleFacts DEF GivenUpAtMost
    <1>3. ASSUME Stop
          PROVE  /\ panel' \in [Tasks -> Panels] /\ timer' \subseteq Tasks
                 /\ \A j \in Tasks : GivenUpAtMost(j)
                 /\ locked' = FALSE /\ thinking' = FALSE /\ sending' = FALSE
                 /\ UNCHANGED <<server, wire, chat, posted, sent>>
        BY <1>1, <1>3, CancelFacts DEF Stop
    <1>4. ASSUME Send \/ Retry
          PROVE  /\ UNCHANGED <<server, wire, panel, timer, locked, thinking, sent>>
                 /\ chat' \in Chats /\ chat'.bots = chat.bots
                 /\ posted' = posted + 1 /\ sending' \in BOOLEAN
        BY <1>1, <1>4 DEF Send, Retry, Chats
    <1>5. CASE \E i \in Tasks : TimerFires(i)
        BY <1>1, <1>2, <1>5
    <1>6. CASE Stop
        BY <1>1, <1>3, <1>6
    <1>7. CASE Send \/ Retry
        BY <1>1, <1>4, <1>7 DEF GivenUpAtMost
    <1> QED  BY <1>5, <1>6, <1>7 DEF BrowserSteps

LEMMA ReceiveFacts ==
    ASSUME TypeOK, Receive
    PROVE  /\ wire # <<>> /\ Head(wire) \in Frames
           /\ wire' = Tail(wire) /\ wire' \in Seq(Frames)
           /\ panel' \in [Tasks -> Panels] /\ timer' \subseteq Tasks
           /\ \A i \in Tasks : Told(Head(wire), i)
           /\ chat' \in Chats /\ chat'.bots = Reply /\ Reply \in {chat.bots, chat.bots + 1}
           /\ locked' = ~Unlocks(Head(wire)) /\ locked' \in BOOLEAN
           /\ thinking' \in BOOLEAN /\ sending' = FALSE
           /\ UNCHANGED <<server, posted, sent>>
    <1>1. wire \in Seq(Frames) /\ wire # <<>> /\ chat \in Chats
        BY DEF TypeOK, Receive
    <1>2. Head(wire) \in Frames /\ Tail(wire) \in Seq(Frames)
        BY <1>1
    <1> DEFINE f == Head(wire)
    <1>3. ShowStarted(f) \/ ShowToolStart(f) \/ ShowToolEnd(f)
          \/ ShowCompleted(f) \/ ShowError(f) \/ ShowFailed(f) \/ ShowNothing(f)
        BY DEF Receive
    <1>4. /\ wire' = Tail(wire) /\ chat' = ChatAfter(f) /\ locked' = ~Unlocks(f)
          /\ thinking' = (thinking /\ f.kind \notin {"done", "failed"})
          /\ sending' = FALSE /\ UNCHANGED <<server, posted, sent>>
        BY DEF Receive
    <1>5. Reply \in {chat.bots, chat.bots + 1} /\ Reply \in Nat
        BY <1>1 DEF Reply, Chats
    <1>6. ChatAfter(f) \in Chats /\ ChatAfter(f).bots = Reply
        BY <1>1, <1>5 DEF ChatAfter, Chats
    <1>7. thinking' \in BOOLEAN /\ locked' \in BOOLEAN
        BY <1>4 DEF Unlocks
    <1> HIDE DEF f
    <1>8. /\ panel' \in [Tasks -> Panels] /\ timer' \subseteq Tasks
          /\ \A i \in Tasks : Told(f, i)
        BY <1>2, <1>3, ShowFacts DEF f
    <1> QED  BY <1>1, <1>2, <1>4, <1>5, <1>6, <1>7, <1>8 DEF f

LEMMA Typing ==
    ASSUME TypeOK, [Next]_vars
    PROVE  TypeOK'
    <1>0. /\ run \in [Tasks -> RunStates] /\ channel \in [Tasks -> Seq(ToolFrames)]
          /\ wire \in Seq(Frames) /\ panel \in [Tasks -> Panels] /\ sent \in [Tasks -> Sent]
          /\ open \subseteq Tasks /\ timer \subseteq Tasks
          /\ dropped \in BOOLEAN /\ locked \in BOOLEAN /\ chat \in Chats
          /\ thinking \in BOOLEAN /\ sending \in BOOLEAN /\ posted \in Nat /\ taken \in Nat
          /\ parent \in {"spawning", "collecting", "returned", "dropped", "failing", "ended"}
        BY DEF TypeOK
    <1>1. \A kind \in {"allStarted", "synthesizing", "done", "failed", "queued"} :
             Append(wire, [kind |-> kind]) \in Seq(Frames)
        BY <1>0 DEF CallFrames, Frames
    <1>2. CASE Collect \/ TimeOut \/ EndTurn \/ FailTurn
        BY <1>0, <1>1, <1>2 DEF Collect, TimeOut, EndTurn, FailTurn, browser, TypeOK
    <1>10. CASE Steer \/ NextTurn
        <2>1. wire' \in Seq(Frames) /\ taken' \in Nat
            <3>1. CASE Steer
                <4>1. wire' = Append(wire, [kind |-> "queued"]) /\ taken' = taken + 1
                    BY <3>1 DEF Steer
                <4> QED  BY <1>0, <1>1, <4>1
            <3>2. CASE NextTurn
                BY <1>0, <3>2 DEF NextTurn
            <3> QED  BY <1>10, <3>1, <3>2
        <2>2. /\ parent' \in {parent, "returned"}
              /\ UNCHANGED <<dropped, run, channel, open, browser, sent>>
            BY <1>10 DEF Steer, NextTurn
        <2> QED  BY <1>0, <2>1, <2>2 DEF browser, TypeOK
    <1>3. ASSUME NEW i \in Tasks, Spawn(i) \/ Report(i) \/ ReportPanic(i)
          PROVE  TypeOK'
        <2>1. run' \in [Tasks -> RunStates]
            BY <1>0, <1>3, MoveFacts DEF Spawn, Report, ReportPanic, Places
        <2>2. wire' \in Seq(Frames) /\ sent' \in [Tasks -> Sent]
            BY <1>3, EmitFacts, RunFrameFacts DEF Spawn, Report, ReportPanic
        <2>3. /\ parent' \in {"spawning", "collecting"} \/ UNCHANGED parent
              /\ open' \subseteq Tasks /\ UNCHANGED <<dropped, channel, taken, browser>>
            BY <1>0, <1>3 DEF Spawn, Report, ReportPanic
        <2> QED  BY <1>0, <2>1, <2>2, <2>3 DEF TypeOK, browser
    <1>4. ASSUME NEW i \in Tasks, Dispatch(i) \/ Record(i)
          PROVE  TypeOK'
        BY <1>0, <1>4, WorkFacts DEF TypeOK, browser
    <1>5. ASSUME NEW i \in Tasks, Finish(i) \/ Panic(i) \/ ForwarderEnds(i) \/ AbortTask(i)
          PROVE  TypeOK'
        <2>1. run' \in [Tasks -> RunStates]
            BY <1>0, <1>5, MoveFacts, VerdictFacts
            DEF Finish, Panic, ForwarderEnds, AbortTask, Places
        <2>2. open' \subseteq Tasks /\ UNCHANGED <<parent, dropped, channel, taken, wire, browser, sent>>
            BY <1>0, <1>5 DEF Finish, Panic, ForwarderEnds, AbortTask
        <2> QED  BY <1>0, <2>1, <2>2 DEF TypeOK, browser
    <1>6. ASSUME NEW i \in Tasks, Forward(i)
          PROVE  TypeOK'
        <2>1. wire' \in Seq(Frames) /\ sent' \in [Tasks -> Sent]
            BY <1>6, EmitFacts, ForwardFacts DEF Forward
        <2>2. UNCHANGED <<parent, dropped, run, open, taken, browser>>
            BY <1>6 DEF Forward
        <2> QED  BY <1>0, <1>6, <2>1, <2>2, ForwardFacts DEF TypeOK, browser
    <1>7. CASE BrowserSteps
        <2>1. /\ panel' \in [Tasks -> Panels] /\ timer' \subseteq Tasks /\ chat' \in Chats
              /\ locked' \in BOOLEAN /\ thinking' \in BOOLEAN /\ sending' \in BOOLEAN
              /\ posted' \in {posted, posted + 1} /\ UNCHANGED <<server, wire, sent>>
            BY <1>7, BrowserFacts
        <2>2. posted' \in Nat
            BY <1>0, <2>1
        <2> QED  BY <1>0, <2>1, <2>2 DEF TypeOK, server
    <1>8. CASE Receive
        <2>1. /\ panel' \in [Tasks -> Panels] /\ timer' \subseteq Tasks /\ chat' \in Chats
              /\ locked' \in BOOLEAN /\ thinking' \in BOOLEAN /\ sending' \in BOOLEAN
              /\ wire' \in Seq(Frames) /\ UNCHANGED <<server, posted, sent>>
            BY <1>8, ReceiveFacts
        <2> QED  BY <1>0, <2>1 DEF TypeOK, server
    <1>9. CASE UNCHANGED vars
        BY <1>9 DEF TypeOK, vars, server, browser
    <1> QED
        BY <1>2, <1>3, <1>4, <1>5, <1>6, <1>7, <1>8, <1>9, <1>10
        DEF Next, Work, BrowserSteps, Rest

(***************************************************************************)
(* The inductive invariant                                                 *)
(***************************************************************************)

(* The steps that change a task and nothing the invariant speaks of.       *)
Quietly(i) ==
    /\ \A j \in Tasks \ {i} : run'[j] = run[j]
    /\ run[i].at \notin {"unborn", "joined"} /\ run'[i].at \notin {"unborn", "joined"}
    /\ \/ run'[i].at \in {"thinking", "tools"} /\ run'[i].verdict = "none"
       \/ run'[i].at = "draining" /\ run'[i].verdict \in {"ok", "failed"}
       \/ run'[i].at = "panicked" /\ run'[i].verdict = "panic"
       \/ run'[i].at = "aborted" /\ dropped
    /\ UNCHANGED <<parent, dropped, open, taken, wire, browser, sent>>

LEMMA QuietFacts ==
    ASSUME TypeOK, InvRuns, NEW i \in Tasks,
           Dispatch(i) \/ Record(i) \/ Finish(i) \/ Panic(i) \/ AbortTask(i)
    PROVE  Quietly(i)
    <1>0. run \in [Tasks -> RunStates]
        BY DEF TypeOK
    <1>1. CASE Dispatch(i) \/ Record(i)
        BY <1>1, WorkFacts DEF Quietly, InvRuns
    <1>2. CASE Finish(i)
        <2>1. PICK v \in {"ok", "failed"} :
                run' = [run EXCEPT ![i] = [@ EXCEPT !.at = "draining", !.verdict = v]]
            BY <1>2 DEF Finish
        <2> QED  BY <1>0, <1>2, <2>1, VerdictFacts DEF Quietly, Finish, Places
    <1>3. CASE Panic(i)
        BY <1>0, <1>3, VerdictFacts DEF Quietly, Panic, Places
    <1>4. CASE AbortTask(i)
        BY <1>0, <1>4, MoveFacts DEF Quietly, AbortTask, Places
    <1> QED  BY <1>1, <1>2, <1>3, <1>4

(* The steps that start a task or send its verdict.                        *)
Visibly(i, kind) ==
    /\ \A j \in Tasks \ {i} : run'[j] = run[j]
    /\ run'[i].verdict = run[i].verdict
    /\ \/ /\ kind = "started" /\ parent \in {"spawning", "collecting"}
          /\ run[i].at = "unborn" /\ run'[i].at = "thinking"
          /\ open' = open \cup {i} /\ parent' \in {"spawning", "collecting"}
       \/ /\ run[i].at \in {"draining", "panicked"} /\ run'[i].at = "joined"
          /\ run[i].at = "draining" => i \notin open
          /\ kind = Shown(i) /\ open' = open /\ parent' = parent
    /\ Frame(kind, i) \in Frames /\ Frame(kind, i).kind = kind /\ Frame(kind, i).id = i
    /\ wire' = Append(wire, Frame(kind, i))
    /\ \A j \in Tasks \ {i} : sent'[j] = sent[j]
    /\ sent'[i].starts = sent[i].starts + IF kind = "started" THEN 1 ELSE 0
    /\ sent'[i].verdicts = sent[i].verdicts + IF kind = "started" THEN 0 ELSE 1
    /\ (sent'[i].late => sent[i].verdicts > 0)
    /\ sent' \in [Tasks -> Sent]
    /\ UNCHANGED <<dropped, channel, taken, browser>>

LEMMA VisibleFacts ==
    ASSUME TypeOK, InvRuns, NEW i \in Tasks, Spawn(i) \/ Report(i) \/ ReportPanic(i)
    PROVE  \E kind \in {"started", "completed", "error"} : Visibly(i, kind)
    <1>0. run \in [Tasks -> RunStates]
        BY DEF TypeOK
    <1>1. CASE Spawn(i)
        <2>1. Emit(Frame("started", i), i) /\ Move(i, "thinking")
            BY <1>1 DEF Spawn
        <2>2. Visibly(i, "started")
            BY <1>0, <1>1, <2>1, MoveFacts, EmitFacts, RunFrameFacts
            DEF Visibly, Spawn, Places
        <2> QED  BY <2>2
    <1>2. CASE Report(i)
        <2>1. PICK kind \in {"completed", "error"} : kind = Shown(i)
            BY DEF Shown
        <2>2. Emit(Frame(kind, i), i) /\ Move(i, "joined")
            BY <1>2, <2>1 DEF Report, Shown
        <2>3. Visibly(i, kind)
            BY <1>0, <1>2, <2>1, <2>2, MoveFacts, EmitFacts, RunFrameFacts
            DEF Visibly, Report, Places
        <2> QED  BY <2>3
    <1>3. CASE ReportPanic(i)
        <2>1. Emit(Frame("error", i), i) /\ Move(i, "joined") /\ Shown(i) = "error"
            BY <1>3 DEF ReportPanic, Shown, InvRuns
        <2>2. Visibly(i, "error")
            BY <1>0, <1>3, <2>1, MoveFacts, EmitFacts, RunFrameFacts
            DEF Visibly, ReportPanic, Places
        <2> QED  BY <2>2
    <1> QED  BY <1>1, <1>2, <1>3

(* A forwarder's step: a tool's frame goes out, the tasks stay.            *)
LEMMA ForwardedFacts ==
    ASSUME TypeOK, NEW i \in Tasks, Forward(i)
    PROVE  \E f \in Frames :
              /\ i \in open /\ f.kind \in {"toolStart", "toolEnd"}
              /\ wire' = Append(wire, f)
              /\ \A j \in Tasks \ {i} : sent'[j] = sent[j]
              /\ sent'[i].starts = sent[i].starts /\ sent'[i].verdicts = sent[i].verdicts
              /\ sent'[i].late => sent[i].verdicts > 0
              /\ sent' \in [Tasks -> Sent]
              /\ UNCHANGED <<parent, dropped, run, open, taken, browser>>
    <1>1. sent[i].starts \in Nat /\ sent[i].verdicts \in Nat
        BY DEF TypeOK, Sent
    <1> DEFINE f == Head(channel[i])
    <1>2. /\ f \in Frames /\ f.kind \in {"toolStart", "toolEnd"} /\ Emit(f, i)
          /\ i \in open /\ UNCHANGED <<parent, dropped, run, open, taken, browser>>
        BY ForwardFacts DEF Forward
    <1> HIDE DEF f
    <1>3. /\ wire' = Append(wire, f) /\ sent' \in [Tasks -> Sent]
          /\ \A j \in Tasks \ {i} : sent'[j] = sent[j]
          /\ sent'[i].late => sent[i].verdicts > 0
        BY <1>2, EmitFacts
    <1>4. sent'[i].starts = sent[i].starts /\ sent'[i].verdicts = sent[i].verdicts
        BY <1>1, <1>2, EmitFacts
    <1> QED  BY <1>2, <1>3, <1>4

(* The steps of the call, and what they send.                              *)
CallSteps(f) ==
    /\ f \in Frames /\ f.kind \in {"synthesizing", "done", "failed"}
    /\ wire' = Append(wire, f)
    /\ \/ /\ f.kind = "synthesizing" /\ parent = "collecting" /\ parent' = "returned"
          /\ \A i \in Tasks : run[i].at = "joined"
       \/ /\ f.kind = "done" /\ parent \in {"returned", "dropped"}
          /\ parent' \in {"ended", "failing"}
       \/ f.kind = "failed" /\ parent = "failing" /\ parent' = "ended"
    /\ UNCHANGED <<dropped, run, channel, open, taken, browser, sent>>

LEMMA CallFacts ==
    ASSUME Collect \/ EndTurn \/ FailTurn
    PROVE  \E f \in Frames : CallSteps(f)
    <1>1. \A kind \in {"allStarted", "synthesizing", "done", "failed"} :
             [kind |-> kind] \in Frames
        BY DEF CallFrames, Frames
    <1>2. CASE Collect
        <2>1. CallSteps([kind |-> "synthesizing"])
            BY <1>1, <1>2 DEF Collect, CallSteps
        <2> QED  BY <1>1, <2>1
    <1>3. CASE EndTurn
        <2>1. CallSteps([kind |-> "done"])
            BY <1>1, <1>3 DEF EndTurn, CallSteps
        <2> QED  BY <1>1, <2>1
    <1>4. CASE FailTurn
        <2>1. CallSteps([kind |-> "failed"])
            BY <1>1, <1>4 DEF FailTurn, CallSteps
        <2> QED  BY <1>1, <2>1
    <1> QED  BY <1>2, <1>3, <1>4

LEMMA SteerFacts ==
    ASSUME Steer
    PROVE  \E f \in Frames :
              /\ f.kind = "queued" /\ wire' = Append(wire, f)
              /\ parent \notin {"failing", "ended"} /\ taken < posted /\ taken' = taken + 1
              /\ UNCHANGED <<parent, dropped, run, channel, open, browser, sent>>
    <1>1. [kind |-> "queued"] \in Frames
        BY DEF CallFrames, Frames
    <1> QED  BY <1>1 DEF Steer

LEMMA RunsKept ==
    ASSUME TypeOK, InvRuns, VerdictIsLast, [Next]_vars
    PROVE  InvRuns' /\ VerdictIsLast'
    <1>1. ASSUME NEW i \in Tasks,
                 Dispatch(i) \/ Record(i) \/ Finish(i) \/ Panic(i) \/ AbortTask(i)
          PROVE  InvRuns' /\ VerdictIsLast'
        <2>1. Quietly(i)
            BY <1>1, QuietFacts
        <2>2. InvRuns'
            BY <2>1 DEF Quietly, InvRuns
        <2>3. VerdictIsLast'
            BY <2>1 DEF Quietly, InvRuns, VerdictIsLast
        <2> QED  BY <2>2, <2>3
    <1>0. sent \in [Tasks -> Sent]
        BY DEF TypeOK
    <1>2. ASSUME NEW i \in Tasks, Spawn(i) \/ Report(i) \/ ReportPanic(i)
          PROVE  InvRuns' /\ VerdictIsLast'
        <2>1. PICK kind \in {"started", "completed", "error"} : Visibly(i, kind)
            BY <1>2, VisibleFacts
        <2>4. /\ sent[i].starts \in Nat /\ sent[i].verdicts \in Nat
              /\ \A j \in Tasks \ {i} : run'[j] = run[j] /\ sent'[j] = sent[j]
            BY <1>0, <2>1 DEF Visibly, Sent
        <2>5. ASSUME kind = "started"  PROVE InvRuns'
            <3>1. /\ run[i].at = "unborn" /\ run'[i].at = "thinking"
                  /\ run'[i].verdict = run[i].verdict /\ open' = open \cup {i}
                BY <2>1, <2>5 DEF Visibly, Shown
            <3>2. /\ sent'[i].starts = sent[i].starts + 1 /\ sent'[i].verdicts = sent[i].verdicts
                  /\ sent'[i].late => sent[i].verdicts > 0
                BY <2>1, <2>4, <2>5 DEF Visibly
            <3> QED  BY <2>4, <3>1, <3>2 DEF InvRuns
        <2>6. ASSUME kind # "started"  PROVE InvRuns'
            <3>1. /\ run[i].at \in {"draining", "panicked"} /\ run'[i].at = "joined"
                  /\ run[i].at = "draining" => i \notin open
                  /\ run'[i].verdict = run[i].verdict /\ open' = open
                BY <2>1, <2>6 DEF Visibly
            <3>2. sent'[i].starts = sent[i].starts /\ sent'[i].verdicts = sent[i].verdicts + 1
                BY <2>1, <2>4, <2>6 DEF Visibly
            <3> QED  BY <2>4, <3>1, <3>2 DEF InvRuns
        <2>2. InvRuns'
            BY <2>5, <2>6
        <2>3. VerdictIsLast'
            BY <2>1 DEF Visibly, InvRuns, VerdictIsLast
        <2> QED  BY <2>2, <2>3
    <1>3. ASSUME NEW i \in Tasks, Forward(i)
          PROVE  InvRuns' /\ VerdictIsLast'
        <2>1. /\ i \in open /\ UNCHANGED <<run, open>>
              /\ \A j \in Tasks \ {i} : sent'[j] = sent[j]
              /\ sent'[i].starts = sent[i].starts /\ sent'[i].verdicts = sent[i].verdicts
              /\ sent'[i].late => sent[i].verdicts > 0
            BY <1>3, ForwardedFacts
        <2>4. \A j \in Tasks : /\ sent'[j].starts = sent[j].starts
                               /\ sent'[j].verdicts = sent[j].verdicts
            BY <2>1
        <2>2. InvRuns'
            BY <2>1, <2>4 DEF InvRuns
        <2>3. VerdictIsLast'
            BY <2>1 DEF InvRuns, VerdictIsLast
        <2> QED  BY <2>2, <2>3
    <1>4. ASSUME NEW i \in Tasks, ForwarderEnds(i)
          PROVE  InvRuns' /\ VerdictIsLast'
        BY <1>4 DEF ForwarderEnds, InvRuns, VerdictIsLast
    <1>5. ASSUME UNCHANGED <<run, open, sent>>
          PROVE  InvRuns' /\ VerdictIsLast'
        BY <1>5 DEF InvRuns, VerdictIsLast
    <1>6. CASE Collect \/ EndTurn \/ FailTurn
        BY <1>5, <1>6, CallFacts DEF CallSteps
    <1>7. CASE TimeOut \/ Steer \/ NextTurn
        BY <1>5, <1>7 DEF TimeOut, Steer, NextTurn
    <1>8. CASE BrowserSteps
        BY <1>5, <1>8, BrowserFacts DEF server
    <1>9. CASE Receive
        BY <1>5, <1>9, ReceiveFacts DEF server
    <1>10. CASE UNCHANGED vars
        BY <1>5, <1>10 DEF vars, server
    <1> QED
        BY <1>1, <1>2, <1>3, <1>4, <1>6, <1>7, <1>8, <1>9, <1>10
        DEF Next, Work, BrowserSteps, Rest

LEMMA CallKept ==
    ASSUME TypeOK, InvRuns, InvCall, [Next]_vars
    PROVE  InvCall'
    <1>1. ASSUME NEW i \in Tasks,
                 Dispatch(i) \/ Record(i) \/ Finish(i) \/ Panic(i) \/ AbortTask(i)
          PROVE  InvCall'
        <2>1. Quietly(i)
            BY <1>1, QuietFacts
        <2> QED  BY <2>1 DEF Quietly, InvCall
    <1>2. ASSUME NEW i \in Tasks, Spawn(i) \/ Report(i) \/ ReportPanic(i)
          PROVE  InvCall'
        <2>1. PICK kind \in {"started", "completed", "error"} : Visibly(i, kind)
            BY <1>2, VisibleFacts
        <2> QED  BY <2>1 DEF Visibly, InvCall
    <1>3. ASSUME UNCHANGED <<parent, dropped, run>>
          PROVE  InvCall'
        BY <1>3 DEF InvCall
    <1>4. ASSUME NEW i \in Tasks, Forward(i) \/ ForwarderEnds(i)
          PROVE  InvCall'
        BY <1>3, <1>4 DEF Forward, ForwarderEnds
    <1>5. CASE Collect \/ EndTurn \/ FailTurn
        BY <1>5, CallFacts DEF CallSteps, InvCall
    <1>6. CASE TimeOut \/ Steer \/ NextTurn
        BY <1>6 DEF TimeOut, Steer, NextTurn, InvCall
    <1>7. CASE BrowserSteps
        BY <1>3, <1>7, BrowserFacts DEF server
    <1>8. CASE Receive
        BY <1>3, <1>8, ReceiveFacts DEF server
    <1>9. CASE UNCHANGED vars
        BY <1>3, <1>9 DEF vars, server
    <1> QED
        BY <1>1, <1>2, <1>4, <1>5, <1>6, <1>7, <1>8, <1>9
        DEF Next, Work, BrowserSteps, Rest

(* A frame more on the wire: of a task that had none of the kind before.   *)
LEMMA WireLonger ==
    ASSUME TypeOK, InvWire, NEW f \in Frames, wire' = Append(wire, f),
           panel' = panel, chat' = chat,
           \A i \in Tasks :
              /\ run[i].at # "unborn" => run'[i].at # "unborn"
              /\ run[i].at = "joined" => run'[i] = run[i]
              /\ run'[i].at = "joined" => run[i].at = "joined" \/ Closes(f, i)
              /\ Starts(f, i) => run'[i].at \notin {"unborn", "joined"}
              /\ Closes(f, i) => run'[i].at = "joined" /\ f.kind = Shown(i)'
    PROVE  InvWire'
    <1>1. /\ wire \in Seq(Frames) /\ Len(wire') = Len(wire) + 1 /\ Len(wire) \in Nat
          /\ DOMAIN wire = 1..Len(wire) /\ DOMAIN wire' = 1..(Len(wire) + 1)
          /\ wire'[Len(wire) + 1] = f
          /\ \A k \in 1..Len(wire) : wire'[k] = wire[k]
        BY DEF TypeOK
    <1> DEFINE last == Len(wire) + 1
    <1>2. \A k \in DOMAIN wire' : k = last \/ (k \in DOMAIN wire /\ wire'[k] = wire[k])
        BY <1>1
    <1>3. ASSUME NEW i \in Tasks
          PROVE  ~(Starts(f, i) /\ Closes(f, i))
        BY DEF Starts, Closes
    <1>4. ASSUME NEW i \in Tasks, NEW k \in DOMAIN wire'
          PROVE  /\ Starts(wire'[k], i) => run'[i].at # "unborn"
                 /\ Closes(wire'[k], i) => run'[i].at = "joined" /\ wire'[k].kind = Shown(i)'
        BY <1>1, <1>2 DEF InvWire, Shown
    <1>5. ASSUME NEW i \in Tasks, NEW k \in DOMAIN wire', NEW j \in DOMAIN wire',
                 Closes(wire'[k], i), Starts(wire'[j], i)
          PROVE  j < k
        <2>1. run'[i].at = "joined"
            BY <1>4, <1>5
        <2>2. j # last
            BY <1>1, <1>5, <2>1
        <2>3. j \in DOMAIN wire /\ wire'[j] = wire[j]
            BY <1>2, <2>2
        <2>4. CASE k = last
            BY <1>1, <2>3, <2>4
        <2>5. CASE k # last
            BY <1>2, <1>5, <2>3, <2>5 DEF InvWire
        <2> QED  BY <2>4, <2>5
    <1>6. ASSUME NEW i \in Tasks, run'[i].at = "joined"
          PROVE  \/ \E k \in DOMAIN wire' : Closes(wire'[k], i)
                 \/ /\ panel'[i].home = chat'.bots => panel'[i].status = Shown(i)'
                    /\ \A k \in DOMAIN wire' : ~Starts(wire'[k], i)
        <2>1. CASE Closes(f, i)
            <3>1. last \in DOMAIN wire' /\ wire'[last] = f
                BY <1>1
            <3> QED  BY <2>1, <3>1
        <2>2. CASE ~Closes(f, i)
            <3>1. run[i].at = "joined" /\ run'[i] = run[i] /\ ~Starts(f, i)
                BY <1>6, <2>2
            <3>2. CASE \E k \in DOMAIN wire : Closes(wire[k], i)
                BY <1>1, <3>2
            <3>3. CASE /\ panel[i].home = chat.bots => panel[i].status = Shown(i)
                       /\ \A k \in DOMAIN wire : ~Starts(wire[k], i)
                BY <1>1, <1>2, <3>1, <3>3 DEF Shown
            <3> QED  BY <3>1, <3>2, <3>3 DEF InvWire
        <2> QED  BY <2>1, <2>2
    <1> QED  BY <1>4, <1>5, <1>6 DEF InvWire

(* The same wire, with tasks that neither start nor join.                  *)
LEMMA WireSame ==
    ASSUME InvWire, UNCHANGED wire, chat'.bots = chat.bots,
           \A i \in Tasks :
              /\ run[i].at = "unborn" <=> run'[i].at = "unborn"
              /\ run[i].at = "joined" <=> run'[i].at = "joined"
              /\ run[i].at = "joined" => run'[i] = run[i]
              /\ GivenUpAtMost(i)
    PROVE  InvWire'
    BY DEF InvWire, Shown, GivenUpAtMost

(* What is left of a wire without its first frame.                         *)
LEMMA TailFacts ==
    ASSUME NEW q \in Seq(Frames), q # <<>>
    PROVE  /\ Len(q) \in Nat /\ Len(q) # 0 /\ Head(q) = q[1] /\ DOMAIN q = 1..Len(q)
           /\ Len(Tail(q)) = Len(q) - 1 /\ DOMAIN Tail(q) = 1..(Len(q) - 1)
           /\ \A k \in 1..(Len(q) - 1) : Tail(q)[k] = q[k + 1]
    <1>1. Len(q) \in Nat /\ Len(q) # 0 /\ Head(q) = q[1] /\ DOMAIN q = 1..Len(q)
        OBVIOUS
    <1>2. /\ Tail(q) \in Seq(Frames) /\ Len(Tail(q)) = Len(q) - 1
          /\ \A k \in 1..Len(Tail(q)) : Tail(q)[k] = q[k + 1]
        BY HeadTailProperties
    <1> QED  BY <1>1, <1>2

(* A frame taken off the wire.                                             *)
LEMMA WireShorter ==
    ASSUME TypeOK, InvRuns, InvWire, InvChat, Receive
    PROVE  InvWire'
    <1> DEFINE f == Head(wire)
    <1>1. /\ wire \in Seq(Frames) /\ Len(wire) \in Nat /\ Len(wire) # 0 /\ f = wire[1]
          /\ DOMAIN wire = 1..Len(wire) /\ DOMAIN wire' = 1..(Len(wire) - 1)
          /\ \A k \in 1..(Len(wire) - 1) : wire'[k] = wire[k + 1]
        <2>1. wire \in Seq(Frames) /\ wire # <<>> /\ wire' = Tail(wire)
            BY ReceiveFacts DEF TypeOK
        <2> QED  BY <2>1, TailFacts
    <1>2. /\ run' = run /\ \A i \in Tasks : Told(f, i)
          /\ chat'.bots = Reply /\ Reply \in {chat.bots, chat.bots + 1}
        BY ReceiveFacts DEF server
    <1>8. chat.bots \in Nat /\ \A i \in Tasks : panel[i].home \in Nat /\ panel[i].home <= chat.bots
        BY DEF TypeOK, Chats, Panels, InvChat
    <1> HIDE DEF f
    <1>3. \A k \in DOMAIN wire' :
             /\ k + 1 \in DOMAIN wire /\ wire'[k] = wire[k + 1]
             /\ k \in Nat
        BY <1>1
    <1>4. 1 \in DOMAIN wire /\ \A k \in DOMAIN wire : k = 1 \/ k - 1 \in DOMAIN wire'
        BY <1>1
    <1>5. ASSUME NEW i \in Tasks, NEW k \in DOMAIN wire'
          PROVE  /\ Starts(wire'[k], i) => run'[i].at # "unborn"
                 /\ Closes(wire'[k], i) => run'[i].at = "joined" /\ wire'[k].kind = Shown(i)'
        BY <1>2, <1>3 DEF InvWire, Shown
    <1>6. ASSUME NEW i \in Tasks, NEW k \in DOMAIN wire', NEW j \in DOMAIN wire',
                 Closes(wire'[k], i), Starts(wire'[j], i)
          PROVE  j < k
        <2>1. j + 1 < k + 1
            BY <1>3, <1>6 DEF InvWire
        <2> QED  BY <1>3, <2>1
    <1>7. ASSUME NEW i \in Tasks, run'[i].at = "joined"
          PROVE  \/ \E k \in DOMAIN wire' : Closes(wire'[k], i)
                 \/ /\ panel'[i].home = chat'.bots => panel'[i].status = Shown(i)'
                    /\ \A k \in DOMAIN wire' : ~Starts(wire'[k], i)
        <2>1. CASE Closes(f, i)
            <3>1. f.kind = Shown(i) /\ \A j \in DOMAIN wire : Starts(wire[j], i) => j < 1
                BY <1>1, <1>4, <2>1 DEF InvWire
            <3>2. panel'[i].home = chat'.bots => panel'[i].status = Shown(i)'
                BY <1>2, <2>1, <3>1 DEF Told, Shown
            <3>3. ASSUME NEW k \in DOMAIN wire', Starts(wire'[k], i)
                  PROVE  FALSE
                <4>1. k + 1 < 1
                    BY <1>3, <3>1, <3>3
                <4> QED  BY <1>3, <4>1
            <3> QED  BY <3>2, <3>3
        <2>2. CASE ~Closes(f, i) /\ \E k \in DOMAIN wire : Closes(wire[k], i)
            <3>1. PICK k \in DOMAIN wire : Closes(wire[k], i)
                BY <2>2
            <3>2. k # 1
                BY <1>1, <2>2, <3>1
            <3>3. k - 1 \in DOMAIN wire' /\ wire'[k - 1] = wire[k]
                BY <1>1, <1>3, <1>4, <3>2
            <3> QED  BY <3>1, <3>3
        <2>3. CASE ~\E k \in DOMAIN wire : Closes(wire[k], i)
            <3>1. /\ panel[i].home = chat.bots => panel[i].status = Shown(i)
                  /\ \A k \in DOMAIN wire : ~Starts(wire[k], i)
                BY <1>2, <1>7, <2>3 DEF InvWire
            <3>2. GivenUpAtMost(i)
                BY <1>1, <1>2, <1>4, <2>3, <3>1 DEF Told
            <3>4. ASSUME panel'[i].home = chat'.bots
                  PROVE  panel[i].home = chat.bots
                <4>1. panel[i].home = chat.bots \/ panel[i].home = chat.bots + 1
                    BY <1>2, <3>2, <3>4 DEF GivenUpAtMost
                <4> QED  BY <1>8, <4>1
            <3>3. panel'[i].home = chat'.bots => panel'[i].status = Shown(i)'
                BY <1>2, <3>1, <3>2, <3>4 DEF GivenUpAtMost, Shown
            <3> QED  BY <1>3, <3>1, <3>3
        <2> QED  BY <2>1, <2>2, <2>3
    <1> QED  BY <1>5, <1>6, <1>7 DEF InvWire

LEMMA WireKept ==
    ASSUME TypeOK, InvRuns, InvWire, InvChat, [Next]_vars
    PROVE  InvWire'
    <1>1. ASSUME NEW i \in Tasks,
                 Dispatch(i) \/ Record(i) \/ Finish(i) \/ Panic(i) \/ AbortTask(i)
          PROVE  InvWire'
        <2>1. Quietly(i)
            BY <1>1, QuietFacts
        <2> QED  BY <2>1, WireSame DEF Quietly, GivenUpAtMost, browser
    <1>2. ASSUME NEW i \in Tasks, Spawn(i) \/ Report(i) \/ ReportPanic(i)
          PROVE  InvWire'
        <2>1. PICK kind \in {"started", "completed", "error"} : Visibly(i, kind)
            BY <1>2, VisibleFacts
        <2> DEFINE f == Frame(kind, i)
        <2>2. /\ f \in Frames /\ f.kind = kind /\ f.id = i
              /\ wire' = Append(wire, f) /\ panel' = panel /\ chat' = chat
            BY <2>1 DEF Visibly, browser
        <2> HIDE DEF f
        <2>3. ASSUME NEW j \in Tasks
              PROVE  /\ run[j].at # "unborn" => run'[j].at # "unborn"
                     /\ run[j].at = "joined" => run'[j] = run[j]
                     /\ run'[j].at = "joined" => run[j].at = "joined" \/ Closes(f, j)
                     /\ Starts(f, j) => run'[j].at \notin {"unborn", "joined"}
                     /\ Closes(f, j) => run'[j].at = "joined" /\ f.kind = Shown(j)'
            BY <2>1, <2>2 DEF Visibly, Starts, Closes, Shown
        <2> QED  BY <2>2, <2>3, WireLonger
    <1>3. ASSUME NEW i \in Tasks, Forward(i)
          PROVE  InvWire'
        <2>1. PICK f \in Frames :
                /\ f.kind \in {"toolStart", "toolEnd"} /\ wire' = Append(wire, f)
                /\ run' = run /\ panel' = panel /\ chat' = chat
            BY <1>3, ForwardedFacts DEF browser
        <2> QED  BY <2>1, WireLonger DEF Starts, Closes
    <1>4. CASE Collect \/ EndTurn \/ FailTurn
        <2>1. PICK f \in Frames : CallSteps(f)
            BY <1>4, CallFacts
        <2> QED  BY <2>1, WireLonger DEF CallSteps, Starts, Closes, browser
    <1>11. CASE Steer
        <2>1. PICK f \in Frames :
                f.kind = "queued" /\ wire' = Append(wire, f) /\ UNCHANGED <<run, browser>>
            BY <1>11, SteerFacts
        <2> QED  BY <2>1, WireLonger DEF Starts, Closes, browser
    <1>5. ASSUME run' = run, wire' = wire, chat'.bots = chat.bots,
                 \A i \in Tasks : GivenUpAtMost(i)
          PROVE  InvWire'
        BY <1>5, WireSame
    <1>6. ASSUME UNCHANGED <<run, wire, browser>>
          PROVE  InvWire'
        BY <1>5, <1>6 DEF browser, GivenUpAtMost
    <1>7. CASE TimeOut \/ NextTurn \/ \E i \in Tasks : ForwarderEnds(i)
        BY <1>6, <1>7 DEF TimeOut, NextTurn, ForwarderEnds
    <1>8. CASE BrowserSteps
        BY <1>5, <1>8, BrowserFacts DEF server
    <1>9. CASE Receive
        BY <1>9, WireShorter
    <1>10. CASE UNCHANGED vars
        BY <1>6, <1>10 DEF vars, server
    <1> QED
        BY <1>1, <1>2, <1>3, <1>4, <1>7, <1>8, <1>9, <1>10, <1>11
        DEF Next, Work, BrowserSteps, Rest

(* What went to the end of the wire is its last frame.                     *)
LEMMA LastFrame ==
    ASSUME NEW q \in Seq(Frames), NEW f \in Frames
    PROVE  Append(q, f) # <<>> /\ Append(q, f)[Len(Append(q, f))] = f
    OBVIOUS

LEMMA EndKept ==
    ASSUME TypeOK, InvRuns, InvCall, InvEnd, [Next]_vars
    PROVE  InvEnd'
    <1>0. wire \in Seq(Frames)
        BY DEF TypeOK
    <1>1. SUFFICES ASSUME parent' \in {"failing", "ended"}, ~Orphans'
                   PROVE  IF wire' = <<>> THEN ~locked' ELSE Unlocks(wire'[Len(wire')])
        BY DEF InvEnd, Unlocks
    <1> DEFINE Goal == IF wire' = <<>> THEN ~locked' ELSE Unlocks(wire'[Len(wire')])
    <1>2. ASSUME parent \in {"failing", "ended"}, ~Orphans
          PROVE  \A i \in Tasks : run[i].at = "joined" /\ i \notin open
        BY <1>2 DEF InvCall, InvRuns, Orphans
    <1>3. ASSUME UNCHANGED <<parent, dropped, run, wire>>, locked' = locked \/ ~locked'
          PROVE  Goal
        BY <1>1, <1>3 DEF InvEnd, Orphans, Unlocks
    <1>4. ASSUME NEW i \in Tasks,
                 Dispatch(i) \/ Record(i) \/ Finish(i) \/ Panic(i) \/ AbortTask(i)
          PROVE  Goal
        <2>1. Quietly(i)
            BY <1>4, QuietFacts
        <2> QED  BY <1>1, <2>1 DEF Quietly, InvCall, Orphans
    <1>5. ASSUME NEW i \in Tasks, Spawn(i) \/ Report(i) \/ ReportPanic(i)
          PROVE  Goal
        <2>1. PICK kind \in {"started", "completed", "error"} : Visibly(i, kind)
            BY <1>5, VisibleFacts
        <2> QED  BY <1>1, <2>1 DEF Visibly, InvCall, Orphans
    <1>6. ASSUME NEW i \in Tasks, Forward(i)
          PROVE  Goal
        <2>1. i \in open /\ UNCHANGED <<parent, dropped, run>>
            BY <1>6 DEF Forward
        <2> QED  BY <1>1, <1>2, <2>1 DEF Orphans
    <1>7. ASSUME NEW i \in Tasks, ForwarderEnds(i)
          PROVE  Goal
        BY <1>3, <1>7 DEF ForwarderEnds, browser
    <1>8. CASE Collect \/ EndTurn \/ FailTurn
        <2>1. PICK f \in Frames : CallSteps(f)
            BY <1>8, CallFacts
        <2>2. Unlocks(f) /\ wire' = Append(wire, f)
            BY <1>1, <2>1 DEF CallSteps, Unlocks
        <2> QED  BY <1>0, <2>2, LastFrame
    <1>9. CASE TimeOut \/ Steer \/ NextTurn
        BY <1>1, <1>9 DEF TimeOut, Steer, NextTurn
    <1>10. CASE BrowserSteps
        BY <1>3, <1>10, BrowserFacts DEF server
    <1>11. CASE Receive
        <2>1. /\ wire # <<>> /\ wire' = Tail(wire) /\ locked' = ~Unlocks(Head(wire))
              /\ UNCHANGED <<parent, dropped, run>>
            BY <1>11, ReceiveFacts DEF server
        <2>2. Unlocks(wire[Len(wire)])
            BY <1>1, <2>1 DEF InvEnd, Orphans
        <2>3. CASE Len(wire) = 1
            <3>1. Head(wire) = wire[Len(wire)] /\ Len(Tail(wire)) = 0
                BY <1>0, <2>1, <2>3, TailFacts
            <3>2. Tail(wire) = <<>>
                BY <1>0, <2>1, <3>1, EmptySeq
            <3> QED  BY <2>1, <2>2, <3>1, <3>2
        <2>4. CASE Len(wire) # 1
            <3>0. Len(wire) \in Nat /\ Len(wire) # 0 /\ Len(Tail(wire)) = Len(wire) - 1
                BY <1>0, <2>1, TailFacts
            <3>1. Len(wire) - 1 \in 1..(Len(wire) - 1) /\ Len(wire) - 1 + 1 = Len(wire)
                BY <2>4, <3>0
            <3>2. Tail(wire)[Len(wire) - 1] = wire[Len(wire)]
                BY <1>0, <2>1, <3>1, TailFacts
            <3>3. Tail(wire) # <<>>
                <4>1. Len(Tail(wire)) # 0
                    BY <2>4, <3>0
                <4>2. Len(<<>>) = 0
                    OBVIOUS
                <4> QED  BY <4>1, <4>2
            <3> QED  BY <2>1, <2>2, <3>0, <3>2, <3>3
        <2> QED  BY <2>3, <2>4
    <1>12. CASE UNCHANGED vars
        BY <1>3, <1>12 DEF vars, server, browser
    <1> QED
        BY <1>4, <1>5, <1>6, <1>7, <1>8, <1>9, <1>10, <1>11, <1>12
        DEF Next, Work, BrowserSteps, Rest

LEMMA ChatKept ==
    ASSUME TypeOK, InvChat, [Next]_vars
    PROVE  InvChat'
    <1>1. chat.bots \in Nat /\ \A i \in Tasks : panel[i].home \in Nat
        BY DEF TypeOK, Chats, Panels
    <1>2. CASE Receive
        <2>1. /\ \A i \in Tasks : panel'[i].home \in {panel[i].home, Reply}
              /\ chat'.bots = Reply /\ Reply \in {chat.bots, chat.bots + 1}
            BY <1>2, ReceiveFacts DEF Told, GivenUpAtMost
        <2> QED  BY <1>1, <2>1 DEF InvChat
    <1>3. CASE BrowserSteps
        BY <1>3, BrowserFacts DEF InvChat, GivenUpAtMost
    <1>4. ASSUME UNCHANGED browser
          PROVE  InvChat'
        BY <1>4 DEF browser, InvChat
    <1>5. ASSUME NEW i \in Tasks, Work(i)
          PROVE  UNCHANGED browser
        BY <1>5 DEF Work, Spawn, Dispatch, Record, Finish, Panic, Forward, ForwarderEnds,
                    Report, ReportPanic, AbortTask
    <1>6. CASE Collect \/ TimeOut \/ EndTurn \/ FailTurn \/ Steer \/ NextTurn
        BY <1>4, <1>6 DEF Collect, TimeOut, EndTurn, FailTurn, Steer, NextTurn
    <1> QED
        BY <1>2, <1>3, <1>4, <1>5, <1>6 DEF Next, BrowserSteps, Rest, vars

LEMMA MailKept ==
    ASSUME TypeOK, InvRuns, InvMail, [Next]_vars
    PROVE  InvMail'
    <1>0. wire \in Seq(Frames) /\ posted \in Nat /\ taken \in Nat
        BY DEF TypeOK
    <1>1. ASSUME UNCHANGED <<taken, posted, sending>>, wire' = wire, parent' = parent
          PROVE  InvMail'
        BY <1>1 DEF InvMail
    <1>2. ASSUME UNCHANGED <<taken, posted, sending>>, wire' # <<>>
          PROVE  InvMail'
        BY <1>2 DEF InvMail
    <1>3. ASSUME NEW i \in Tasks,
                 Dispatch(i) \/ Record(i) \/ Finish(i) \/ Panic(i) \/ AbortTask(i)
          PROVE  InvMail'
        <2>1. Quietly(i)
            BY <1>3, QuietFacts
        <2> QED  BY <1>1, <2>1 DEF Quietly, browser
    <1>4. ASSUME NEW i \in Tasks, Spawn(i) \/ Report(i) \/ ReportPanic(i)
          PROVE  InvMail'
        <2>1. PICK kind \in {"started", "completed", "error"} : Visibly(i, kind)
            BY <1>4, VisibleFacts
        <2>2. wire' # <<>> /\ UNCHANGED <<taken, posted, sending>>
            BY <1>0, <2>1, LastFrame DEF Visibly, browser
        <2> QED  BY <1>2, <2>2
    <1>5. ASSUME NEW i \in Tasks, Forward(i)
          PROVE  InvMail'
        <2>1. PICK f \in Frames : wire' = Append(wire, f) /\ UNCHANGED <<taken, browser>>
            BY <1>5, ForwardedFacts
        <2>2. wire' # <<>> /\ UNCHANGED <<taken, posted, sending>>
            BY <1>0, <2>1, LastFrame DEF browser
        <2> QED  BY <1>2, <2>2
    <1>6. CASE Collect \/ EndTurn \/ FailTurn
        <2>1. PICK f \in Frames : CallSteps(f)
            BY <1>6, CallFacts
        <2>2. wire' # <<>> /\ UNCHANGED <<taken, posted, sending>>
            BY <1>0, <2>1, LastFrame DEF CallSteps, browser
        <2> QED  BY <1>2, <2>2
    <1>7. CASE Steer
        <2>1. PICK f \in Frames : /\ wire' = Append(wire, f) /\ taken' = taken + 1
                                  /\ taken < posted /\ UNCHANGED browser
            BY <1>7, SteerFacts
        <2>2. wire' # <<>> /\ posted' = posted
            BY <1>0, <2>1, LastFrame DEF browser
        <2> QED  BY <1>0, <2>1, <2>2 DEF InvMail
    <1>8. CASE NextTurn
        BY <1>0, <1>8 DEF NextTurn, InvMail, browser
    <1>9. CASE TimeOut
        BY <1>9 DEF TimeOut, InvMail, browser
    <1>10. ASSUME NEW i \in Tasks, ForwarderEnds(i)
           PROVE  InvMail'
        BY <1>1, <1>10 DEF ForwarderEnds, browser
    <1>11. CASE BrowserSteps
        BY <1>0, <1>11, BrowserFacts DEF InvMail, server
    <1>12. CASE Receive
        BY <1>12, ReceiveFacts DEF InvMail, server
    <1>13. CASE UNCHANGED vars
        BY <1>1, <1>13 DEF vars, server, browser
    <1> QED
        BY <1>3, <1>4, <1>5, <1>6, <1>7, <1>8, <1>9, <1>10, <1>11, <1>12, <1>13
        DEF Next, Work, BrowserSteps, Rest

LEMMA Beginning ==
    ASSUME Init
    PROVE  TypeOK /\ Inv
    <1>1. NewRun \in RunStates /\ NoPanel \in Panels /\ Unheard \in Sent
        BY DEF NewRun, NoPanel, Unheard, RunStates, Panels, Sent, Places
    <1>2. [kind |-> "allStarted"] \in Frames
        BY DEF Frames, CallFrames
    <1>3. TypeOK
        <2>1. wire \in Seq(Frames)
            BY <1>2 DEF Init
        <2>2. /\ run \in [Tasks -> RunStates] /\ panel \in [Tasks -> Panels]
              /\ channel \in [Tasks -> Seq(ToolFrames)] /\ sent \in [Tasks -> Sent]
            BY <1>1 DEF Init
        <2>3. chat \in Chats
            BY DEF Init, Chats
        <2> QED  BY <2>1, <2>2, <2>3 DEF Init, TypeOK
    <1>4. \A i \in Tasks :
             /\ run[i].at = "unborn" /\ run[i].verdict = "none" /\ panel[i].home = 0
             /\ sent[i].starts = 0 /\ sent[i].verdicts = 0 /\ ~sent[i].late
        BY DEF Init, NewRun, NoPanel, Unheard
    <1>6. chat.bots = 1
        BY DEF Init
    <1>5. \A k \in DOMAIN wire : wire[k].kind = "allStarted"
        BY DEF Init
    <1> QED
        BY <1>3, <1>4, <1>5, <1>6
        DEF Init, Inv, InvRuns, VerdictIsLast, InvCall, InvWire, InvEnd, InvChat, InvMail,
            Starts, Closes

LEMMA Step ==
    ASSUME TypeOK, Inv, [Next]_vars
    PROVE  TypeOK' /\ Inv'
    BY Typing, RunsKept, CallKept, WireKept, EndKept, ChatKept, MailKept DEF Inv

(***************************************************************************)
(* Theorems                                                                *)
(***************************************************************************)

(* Every variable keeps its type, and the invariant is inductive           *)
(* (subagent.rs, spawn; useChatSession.ts and chatStore.ts).               *)
THEOREM Invariance == Spec => [](TypeOK /\ Inv)
    <1>1. Init => TypeOK /\ Inv
        BY Beginning
    <1>2. TypeOK /\ Inv /\ [Next]_vars => (TypeOK /\ Inv)'
        BY Step
    <1> QED  BY <1>1, <1>2, PTL DEF Spec

(* A sub-agent's verdict is the last that goes to the browser of it, unless *)
(* it panicked: the report waits for the forwarder (subagent.rs).           *)
THEOREM VerdictsAreLast == Spec => []VerdictIsLast
    BY Invariance, PTL DEF Inv

(* When all is over the input is free, unless a call was dropped or a       *)
(* sub-agent panicked (useChatSession.ts, sendMessage).                     *)
THEOREM InputFreed == Spec => []InputIsFree
    <1>1. TypeOK /\ Inv => InputIsFree
        <2>1. ASSUME TypeOK, Inv, Over, ~dropped, \A i \in Tasks : run[i].verdict # "panic"
              PROVE  ~locked /\ ~sending
            <3>1. ~locked
                BY <2>1 DEF Inv, InvEnd, Over, Orphans
            <3>2. ~sending
                BY <2>1 DEF TypeOK, Inv, InvMail, Over
            <3> QED  BY <3>1, <3>2
        <2> QED  BY <2>1 DEF InputIsFree
    <1> QED  BY <1>1, Invariance, PTL

(* When all is over every panel of the last reply shows the verdict of its  *)
(* sub-agent, if the call was not dropped, whatever the user and the timers *)
(* did in between (useChatSession.ts; chatStore.ts, updateSubagent).        *)
THEOREM PanelsEndRight == Spec => []PanelsTellTheVerdict
    <1>1. TypeOK /\ Inv => PanelsTellTheVerdict
        BY DEF Inv, InvCall, InvWire, PanelsTellTheVerdict, Over, Shown
    <1> QED  BY <1>1, Invariance, PTL

(* A call of spawn_subagents implements Fanout: every task is started once  *)
(* and its verdict is sent once, never a second time, and the call returns  *)
(* with all of them or is dropped as a whole (subagent.rs, spawn).          *)
THEOREM CallIsFanout == Spec => FanoutSpec
    <1> DEFINE started  == [i \in Tasks |-> sent[i].starts]
               reported == [i \in Tasks |-> sent[i].verdicts]
               outcome  == IF dropped THEN "dropped"
                           ELSE IF parent \in {"returned", "failing", "ended"}
                                THEN "complete" ELSE "open"
    <1>1. Init => Calls!Init
        BY DEF Init, Calls!Init, Calls!None, Unheard
    <1>2. ASSUME TypeOK, Inv, [Next]_vars
          PROVE  [Calls!Next]_(Calls!fanout)
        <2>0. InvRuns /\ InvCall /\ sent \in [Tasks -> Sent]
            BY <1>2 DEF Inv, TypeOK
        <2> DEFINE Stutters ==
                UNCHANGED started /\ UNCHANGED reported /\ UNCHANGED outcome
        <2>1. Stutters => [Calls!Next]_(Calls!fanout)
            BY DEF Calls!fanout
        <2>2. ASSUME NEW i \in Tasks,
                     Dispatch(i) \/ Record(i) \/ Finish(i) \/ Panic(i) \/ AbortTask(i)
              PROVE  Stutters
            <3>1. Quietly(i)
                BY <1>2, <2>0, <2>2, QuietFacts
            <3> QED  BY <3>1 DEF Quietly
        <2>3. ASSUME NEW i \in Tasks, Spawn(i)
              PROVE  Calls!Start(i)
            <3>1. PICK kind \in {"started", "completed", "error"} : Visibly(i, kind)
                BY <1>2, <2>0, <2>3, VisibleFacts
            <3>2. run[i].at = "unborn" /\ parent = "spawning" /\ ~dropped
                BY <2>0, <2>3 DEF Spawn, InvCall
            <3>3. parent' \in {"spawning", "collecting"} /\ ~dropped'
                BY <3>1, <3>2 DEF Visibly
            <3>4. /\ sent[i].starts = 0 /\ sent'[i].starts = 1
                  /\ sent'[i].verdicts = sent[i].verdicts
                BY <2>0, <3>1, <3>2 DEF Visibly, InvRuns, Sent
            <3>5. \A j \in Tasks \ {i} : sent'[j] = sent[j]
                BY <3>1 DEF Visibly
            <3>6. started' = [started EXCEPT ![i] = 1] /\ reported' = reported
                BY <3>4, <3>5
            <3>7. outcome = "open" /\ outcome' = "open" /\ started[i] = 0
                BY <3>2, <3>3, <3>4
            <3> QED  BY <3>6, <3>7 DEF Calls!Start
        <2>4. ASSUME NEW i \in Tasks, Report(i) \/ ReportPanic(i)
              PROVE  Calls!Report(i)
            <3>1. PICK kind \in {"started", "completed", "error"} : Visibly(i, kind)
                BY <1>2, <2>0, <2>4, VisibleFacts
            <3>2. run[i].at \in {"draining", "panicked"}
                BY <2>4 DEF Report, ReportPanic
            <3>3. parent' = parent /\ dropped' = dropped /\ kind # "started"
                BY <3>1, <3>2 DEF Visibly, Shown
            <3>4. /\ sent[i].verdicts = 0 /\ sent'[i].verdicts = 1
                  /\ sent[i].starts = 1 /\ sent'[i].starts = 1
                BY <2>0, <3>1, <3>2, <3>3 DEF Visibly, InvRuns, Sent
            <3>5. \A j \in Tasks \ {i} : sent'[j] = sent[j]
                BY <3>1 DEF Visibly
            <3>6. reported' = [reported EXCEPT ![i] = 1] /\ started' = started
                BY <3>4, <3>5
            <3>7. outcome' = outcome /\ started[i] = 1 /\ reported[i] = 0
                BY <3>3, <3>4
            <3> QED  BY <3>6, <3>7 DEF Calls!Report
        <2>5. ASSUME NEW i \in Tasks, Forward(i)
              PROVE  Stutters
            <3>1. /\ sent'[i].starts = sent[i].starts /\ sent'[i].verdicts = sent[i].verdicts
                  /\ \A j \in Tasks \ {i} : sent'[j] = sent[j]
                  /\ UNCHANGED <<parent, dropped>>
                BY <1>2, <2>5, ForwardedFacts
            <3> QED  BY <3>1
        <2>6. ASSUME NEW i \in Tasks, ForwarderEnds(i)
              PROVE  Stutters
            BY <2>6 DEF ForwarderEnds
        <2>7. CASE Collect
            <3>1. outcome = "open" /\ outcome' = "complete"
                BY <2>0, <2>7 DEF Collect, InvCall
            <3>2. (\A i \in Tasks : sent[i].verdicts = 1) /\ UNCHANGED sent
                BY <2>0, <2>7 DEF Collect, InvRuns
            <3>3. Calls!Return
                BY <3>1, <3>2 DEF Calls!Return, Calls!Each
            <3> QED  BY <3>3 DEF Calls!Next
        <2>8. CASE EndTurn \/ FailTurn \/ Steer \/ NextTurn
            BY <2>0, <2>1, <2>8 DEF EndTurn, FailTurn, Steer, NextTurn, InvCall
        <2>9. CASE TimeOut
            <3>1. outcome = "open" /\ outcome' = "dropped" /\ UNCHANGED sent
                BY <2>0, <2>9 DEF TimeOut, InvCall
            <3>2. Calls!Drop
                BY <3>1 DEF Calls!Drop
            <3> QED  BY <3>2 DEF Calls!Next
        <2>10. CASE BrowserSteps \/ Receive \/ UNCHANGED vars
            <3>1. UNCHANGED <<parent, dropped, run, sent>>
                BY <1>2, <2>10, BrowserFacts, ReceiveFacts DEF vars, server
            <3> QED  BY <2>1, <3>1
        <2>11. ASSUME NEW i \in Tasks, Work(i)
               PROVE  [Calls!Next]_(Calls!fanout)
            BY <2>1, <2>2, <2>3, <2>4, <2>5, <2>6, <2>11 DEF Work, Calls!Next
        <2> QED  BY <1>2, <2>7, <2>8, <2>9, <2>10, <2>11 DEF Next, BrowserSteps, Rest
    <1> QED  BY <1>1, <1>2, Invariance, PTL DEF Spec, FanoutSpec, Calls!Spec
=============================================================================
