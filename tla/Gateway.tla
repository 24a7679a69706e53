------------------------------- MODULE Gateway ------------------------------
(***************************************************************************)
(* The web gateway around one session id (conga-gateway/src/ws.rs and      *)
(* api.rs): a browser that connects, loses its socket and connects again,  *)
(* the claim of the session by one connection at a time, the connection's  *)
(* loop, the approvals its turns ask the user for, the end of a connection *)
(* with its cleanup of the session's process-wide tools, and the REST      *)
(* delete.  What a turn does is AgentTurn's; here it is the tool calls of  *)
(* concurrent agents (the main one and its subagents) that need a verdict. *)
(***************************************************************************)
EXTENDS Approval, Sequences, FiniteSets

CONSTANTS
    MaxConns,   \* how many connections the browser makes
    Agents,     \* who calls tools during a turn
    Tools, Risk,\* the tools and the risk of each
    Mode,       \* the permission mode of the gateway
    ShellTool,  \* the tool, if any, that uses the session's persistent shell
    MaxAsks,    \* approvals the connections ask for, all together
    MaxInbox,   \* messages under way to the server
    MaxLag,     \* frames the browser may leave unread and still send
    NoConn, NoTool

ASSUME GatewayAssumption ==
    /\ MaxConns \in Nat /\ NoConn \notin 1..MaxConns /\ NoTool \notin Tools
    /\ Risk \in [Tools -> Risks] /\ Mode \in Modes
    /\ MaxAsks \in Nat /\ MaxInbox \in Nat \ {0} /\ MaxLag \in Nat

Conns == 1..MaxConns

VARIABLES
    sessions,  \* AppState.sessions: the connection that holds the session
    stage,     \* where each connection's task is
    inbox,     \* what the browser has sent on each socket
    outbox,    \* what the writer task has sent
    registry,  \* each connection's approvals
    cancelled, \* each connection's cancel signal
    call,      \* the tool call each agent of a connection waits with
    socket,    \* the browser's open socket
    prompts,   \* the approvals the browser shows
    shell,     \* the connection whose turn started the session's shell
    deletion,  \* the REST delete under way
    newcomers  \* history: connections that claimed since the delete's check

server  == <<sessions, stage, registry, cancelled, call>>
browser == <<socket, prompts>>
disk    == <<shell, deletion, newcomers>>
vars    == <<server, inbox, outbox, browser, disk>>

Stages == {"unused", "upgraded", "building", "failing", "idle", "turn", "closing",
           "removed", "ended"}
Serving(c) == stage[c] \in {"building", "failing", "idle", "turn", "closing"}

Message     == [kind |-> "message"]
Cancel      == [kind |-> "cancel"]
Close       == [kind |-> "close"]

\* The message names the request id; the prompt tells what the user was shown.
Answer(p, yes, remember) ==
    [kind |-> "answer", prompt |-> p, id |-> p.id, approved |-> yes,
     remember |-> remember]
Asked(p)    == [kind |-> "approval", prompt |-> p]
Done        == [kind |-> "done"]
Failure     == [kind |-> "error"]

NoCall == [at |-> "idle", tool |-> NoTool, id |-> 0, answer |-> "none", rung |-> FALSE]

Init ==
    /\ sessions = NoConn
    /\ stage = [c \in Conns |-> "unused"]
    /\ inbox = [c \in Conns |-> <<>>]
    /\ outbox = [c \in Conns |-> <<>>]
    /\ registry = [c \in Conns |-> EmptyRegistry]
    /\ cancelled = [c \in Conns |-> FALSE]
    /\ call = [c \in Conns |-> [a \in Agents |-> NoCall]]
    /\ socket = NoConn /\ prompts = {}
    /\ shell = NoConn
    /\ deletion = "none" /\ newcomers = {}

-----------------------------------------------------------------------------
(* The browser *)

\* ws_handler lets an upgrade through while nobody holds the session.
Connect(c) ==
    /\ socket = NoConn
    /\ stage[c] = "unused" /\ \A d \in 1..(c - 1) : stage[d] # "unused"
    /\ sessions = NoConn
    /\ socket' = c
    /\ stage' = [stage EXCEPT ![c] = "upgraded"]
    /\ UNCHANGED <<sessions, registry, cancelled, call, inbox, outbox,
                   prompts, disk>>

Send(m) == inbox' = [inbox EXCEPT ![socket] = Append(@, m)]
MaySend ==
    /\ socket # NoConn
    /\ Len(inbox[socket]) < MaxInbox /\ Len(outbox[socket]) <= MaxLag

\* sendMessage and retryMessage; the second does not wait for the turn to end.
SendMessage ==
    /\ MaySend
    /\ Send(Message)
    /\ UNCHANGED <<server, outbox, browser, disk>>

\* Mutant of AbortTurnState.
PromptsStay == prompts' = prompts

\* abortTurnState: the turn is given up, its prompts with it.
AbortTurnState == prompts' = {}

StopGenerating ==
    /\ MaySend
    /\ Send(Cancel)
    /\ AbortTurnState
    /\ UNCHANGED <<server, outbox, socket, disk>>

\* The user answers a prompt; the answer goes out on whatever socket is open.
SendApprovalResponse(p, yes, remember) ==
    /\ MaySend
    /\ Send(Answer(p, yes, remember))
    /\ prompts' = prompts \ {p}
    /\ UNCHANGED <<server, outbox, socket, disk>>

Receive ==
    /\ socket # NoConn /\ outbox[socket] # <<>>
    /\ outbox' = [outbox EXCEPT ![socket] = Tail(@)]
    /\ LET frame == Head(outbox[socket]) IN
       \/ /\ frame.kind = "approval"
          /\ prompts' = prompts \cup {frame.prompt}
       \/ /\ frame.kind = "done"
          /\ prompts' = {}
       \/ /\ frame.kind = "error"
          /\ prompts' = prompts
    /\ UNCHANGED <<server, inbox, socket, disk>>

\* Frames on a socket that is gone are lost.
Emit(c, frames) ==
    outbox' = IF socket = c THEN [outbox EXCEPT ![c] = @ \o frames] ELSE outbox

\* The socket goes: a reload, another chat, the network.  The server finds the
\* close behind what was sent before; what it has sent and will send is lost.
Disconnect ==
    /\ socket # NoConn
    /\ Send(Close)
    /\ socket' = NoConn
    /\ outbox' = [outbox EXCEPT ![socket] = <<>>]
    /\ AbortTurnState
    /\ UNCHANGED <<server, disk>>

\* The server hangs up on the browser; what was on the socket is gone.
HangUp(c) ==
    /\ IF socket = c THEN socket' = NoConn /\ AbortTurnState
       ELSE UNCHANGED browser
    /\ inbox' = [inbox EXCEPT ![c] = <<>>]
-----------------------------------------------------------------------------
(* A connection's task *)

Step(c, from, to) == stage[c] = from /\ stage' = [stage EXCEPT ![c] = to]

\* Mutant of MayClaim.
TakesOver(c) == TRUE

\* The atomic claim: an occupied entry loses.
MayClaim(c) == sessions = NoConn

Claim(c) ==
    /\ MayClaim(c)
    /\ Step(c, "upgraded", "building")
    /\ sessions' = c
    /\ newcomers' = IF deletion = "checked" THEN newcomers \cup {c} ELSE newcomers
    /\ UNCHANGED <<registry, cancelled, call, inbox, outbox, browser,
                   shell, deletion>>

LoseClaim(c) ==
    /\ ~MayClaim(c)
    /\ Step(c, "upgraded", "ended")
    /\ HangUp(c)
    /\ UNCHANGED <<sessions, registry, cancelled, call, outbox, disk>>

\* SessionAssembly::build.
Built(c) ==
    /\ Step(c, "building", "idle")
    /\ UNCHANGED <<sessions, registry, cancelled, call, inbox, outbox,
                   browser, disk>>

\* Mutant of Released.
EntryStays == sessions

Released == NoConn

\* A build that fails is told to the browser with an error frame and a close; the
\* entry is given back after they are sent.
BuildFails(c) ==
    /\ Step(c, "building", "failing")
    /\ HangUp(c)
    /\ UNCHANGED <<sessions, registry, cancelled, call, outbox, disk>>

GiveBack(c) ==
    /\ Step(c, "failing", "ended")
    /\ sessions' = Released
    /\ UNCHANGED <<registry, cancelled, call, inbox, outbox, browser, disk>>

Open(c) == stage[c] \in {"idle", "turn"}

Take(c, kind) ==
    /\ Open(c)
    /\ inbox[c] # <<>> /\ Head(inbox[c]).kind = kind
    /\ inbox' = [inbox EXCEPT ![c] = Tail(@)]

\* A message outside a turn starts one, which re-arms the cancel signal.
StartTurn(c) ==
    /\ Take(c, "message")
    /\ Step(c, "idle", "turn")
    /\ cancelled' = [cancelled EXCEPT ![c] = FALSE]
    /\ UNCHANGED <<sessions, registry, call, outbox, browser, disk>>

\* A message during a turn is queued for it.
Steer(c) ==
    /\ Take(c, "message")
    /\ stage[c] = "turn"
    /\ UNCHANGED <<server, outbox, browser, disk>>

\* Cancel sets the signal, and rings for the calls that have subscribed by now.
TakeCancel(c) ==
    /\ Take(c, "cancel")
    /\ cancelled' = [cancelled EXCEPT ![c] = TRUE]
    /\ call' = [call EXCEPT ![c] = [a \in Agents |->
            IF @[a].at = "parked" THEN [@[a] EXCEPT !.rung = TRUE] ELSE @[a]]]
    /\ UNCHANGED <<sessions, stage, registry, outbox, browser, disk>>

\* The sender of a pending approval answers whoever still waits with its id.
TakeAnswer(c) ==
    /\ Take(c, "answer")
    /\ LET m == Head(inbox[c])
           known == m.id \in DOMAIN registry[c].pending IN
       /\ registry' = [registry EXCEPT ![c] = Respond(@, m.id, m.approved, m.remember)]
       /\ call' = [call EXCEPT ![c] = [a \in Agents |->
            IF known /\ @[a].at # "idle" /\ @[a].id = m.id
            THEN [@[a] EXCEPT !.answer = IF m.approved THEN "yes" ELSE "no"]
            ELSE @[a]]]
    /\ UNCHANGED <<sessions, stage, cancelled, outbox, browser, disk>>

\* A close during a turn cancels and drops it, and every call that waits in it;
\* between turns it only ends the loop.
TakeClose(c) ==
    /\ Take(c, "close")
    /\ stage' = [stage EXCEPT ![c] = "closing"]
    /\ call' = [call EXCEPT ![c] = [a \in Agents |-> NoCall]]
    /\ \/ /\ stage[c] = "turn"
          /\ registry' = [registry EXCEPT ![c] = ClearPending(@)]
          /\ cancelled' = [cancelled EXCEPT ![c] = TRUE]
       \/ /\ stage[c] = "idle"
          /\ UNCHANGED <<registry, cancelled>>
    /\ UNCHANGED <<sessions, outbox, browser, disk>>

\* The turn is over once no agent waits; what is still pending is cleared.  A turn
\* that failed says so after its end.
EndTurn(c) ==
    /\ \A a \in Agents : call[c][a].at = "idle"
    /\ Step(c, "turn", "idle")
    /\ registry' = [registry EXCEPT ![c] = ClearPending(@)]
    /\ \E frames \in {<<Done>>, <<Done, Failure>>} : Emit(c, frames)
    /\ UNCHANGED <<sessions, cancelled, call, inbox, browser, disk>>

\* The end of a connection: the entry goes first, the cleanup comes after.
Remove(c) ==
    /\ Step(c, "closing", "removed")
    /\ sessions' = Released
    /\ UNCHANGED <<registry, cancelled, call, inbox, outbox, browser, disk>>

\* cleanup_session_resources: whatever shell the session has now.  The Host and
\* its approvals are dropped.
Cleanup(c) ==
    /\ Step(c, "removed", "ended")
    /\ shell' = NoConn
    /\ registry' = [registry EXCEPT ![c] = EmptyRegistry]
    /\ cancelled' = [cancelled EXCEPT ![c] = FALSE]
    /\ UNCHANGED <<sessions, call, inbox, outbox, browser,
                   deletion, newcomers>>

-----------------------------------------------------------------------------
(* The tool calls of a turn *)

\* The call runs; the shell tool starts the session's shell if there is none.
RunTool(c, t) ==
    shell' = IF t = ShellTool /\ shell = NoConn THEN c ELSE shell

MayCall(c, a) == stage[c] = "turn" /\ call[c][a].at = "idle"

AllowedByMode(c, a, t) ==
    /\ MayCall(c, a)
    /\ Verdict(Mode, Risk[t]) = "allow"
    /\ RunTool(c, t)
    /\ UNCHANGED <<server, inbox, outbox, browser, deletion, newcomers>>

\* await_approver looks at the cancel signal before it polls the approver.
MayAsk(c, a, t) ==
    MayCall(c, a) /\ ~cancelled[c] /\ Verdict(Mode, Risk[t]) = "ask"

AllowedByMemory(c, a, t) ==
    /\ MayAsk(c, a, t)
    /\ AllowedAlways(registry[c], t)
    /\ RunTool(c, t)
    /\ UNCHANGED <<server, inbox, outbox, browser, deletion, newcomers>>

\* Registered and shown; the cancel channel is subscribed to next.
Ask(c, a, t) ==
    /\ MayAsk(c, a, t)
    /\ ~Remembers(registry[c], t)
    /\ FoldFunction(LAMBDA reg, n : n + reg.seq, 0, registry) < MaxAsks
    /\ registry' = [registry EXCEPT ![c] = Register(@, t)]
    /\ LET i == registry'[c].seq IN
       /\ call' = [call EXCEPT ![c][a] =
                    [NoCall EXCEPT !.at = "asked", !.tool = t, !.id = i]]
       /\ Emit(c, <<Asked([conn |-> c, id |-> i, tool |-> t])>>)
    /\ UNCHANGED <<sessions, stage, cancelled, inbox, browser, disk>>

Subscribe(c, a) ==
    /\ call[c][a].at = "asked"
    /\ call' = [call EXCEPT ![c][a].at = "parked"]
    /\ UNCHANGED <<sessions, stage, registry, cancelled, inbox, outbox,
                   browser, disk>>

Return(c, a) == call' = [call EXCEPT ![c][a] = NoCall]

\* Mutant of HearsCancel: only the channel is listened to.
HearsRing(c, a) == call[c][a].rung

\* The signal is level-triggered; the channel rings for later cancels only.
HearsCancel(c, a) == cancelled[c] \/ call[c][a].rung

Aborted(c, a) ==
    /\ call[c][a].at = "parked"
    /\ HearsCancel(c, a)
    /\ Return(c, a)
    /\ UNCHANGED <<sessions, stage, registry, cancelled, inbox, outbox,
                   browser, disk>>

\* The answer is there and no cancel was heard first.
Answered(c, a) ==
    /\ call[c][a].at = "parked" /\ call[c][a].answer # "none"
    /\ ~cancelled[c]
    /\ Return(c, a)
    /\ \/ call[c][a].answer = "yes" /\ RunTool(c, call[c][a].tool)
       \/ call[c][a].answer = "no" /\ UNCHANGED shell
    /\ UNCHANGED <<sessions, stage, registry, cancelled, inbox, outbox, browser,
                   deletion, newcomers>>

\* Nobody answered in time; the request stays pending until the turn ends.
TimesOut(c, a) ==
    /\ call[c][a].at = "parked"
    /\ Return(c, a)
    /\ UNCHANGED <<sessions, stage, registry, cancelled, inbox, outbox,
                   browser, disk>>

-----------------------------------------------------------------------------
(* The REST delete *)

\* Mutant of MayDelete.
DeletesAnyway == TRUE

MayDelete == sessions = NoConn

DeleteChecks ==
    /\ deletion = "none"
    /\ MayDelete
    /\ deletion' = "checked"
    /\ UNCHANGED <<server, inbox, outbox, browser, shell, newcomers>>

\* The session's directory is removed, if there is one.
DeleteRemoves ==
    /\ deletion = "checked"
    /\ \E there \in BOOLEAN : deletion' = IF there THEN "removed" ELSE "none"
    /\ newcomers' = {}
    /\ UNCHANGED <<server, inbox, outbox, browser, shell>>

DeleteCleansUp ==
    /\ deletion = "removed"
    /\ shell' = NoConn
    /\ deletion' = "none"
    /\ UNCHANGED <<server, inbox, outbox, browser, newcomers>>

-----------------------------------------------------------------------------
Loop(c) ==
    \/ Claim(c) \/ LoseClaim(c) \/ Built(c) \/ BuildFails(c) \/ GiveBack(c)
    \/ StartTurn(c) \/ Steer(c) \/ TakeCancel(c) \/ TakeAnswer(c) \/ TakeClose(c)
    \/ Remove(c) \/ Cleanup(c)

Waiting(c, a) == Subscribe(c, a) \/ Aborted(c, a) \/ Answered(c, a)

Calling(c, a) ==
    \/ \E t \in Tools : AllowedByMode(c, a, t) \/ AllowedByMemory(c, a, t) \/ Ask(c, a, t)
    \/ Waiting(c, a) \/ TimesOut(c, a)

User ==
    \/ \E c \in Conns : Connect(c)
    \/ SendMessage \/ StopGenerating \/ Receive \/ Disconnect
    \/ \E p \in prompts, yes, remember \in BOOLEAN : SendApprovalResponse(p, yes, remember)

Next ==
    \/ User
    \/ \E c \in Conns : Loop(c) \/ EndTurn(c) \/ \E a \in Agents : Calling(c, a)
    \/ DeleteChecks \/ DeleteRemoves \/ DeleteCleansUp

Spec == Init /\ [][Next]_vars

\* The runtime polls a connection's task and a call that can go on.  Nothing
\* makes a user answer, and no timeout is counted on.
FairSpec ==
    /\ Spec
    /\ \A c \in Conns : WF_vars(Loop(c))
    /\ \A c \in Conns, a \in Agents : WF_vars(Waiting(c, a))

-----------------------------------------------------------------------------
(* Properties *)

TypeOK ==
    /\ sessions \in Conns \cup {NoConn}
    /\ stage \in [Conns -> Stages]
    /\ \A c \in Conns :
        /\ registry[c].seq \in 0..MaxAsks
        /\ DOMAIN registry[c].pending \subseteq 1..registry[c].seq
        /\ DOMAIN registry[c].memory \subseteq Tools
        /\ \A a \in Agents : call[c][a].at # "idle" => stage[c] = "turn"
    /\ cancelled \in [Conns -> BOOLEAN]
    /\ socket \in Conns \cup {NoConn}
    /\ \A p \in prompts : p.conn = socket
    /\ shell \in Conns \cup {NoConn}
    /\ deletion \in {"none", "checked", "removed"}

\* Only one connection serves the session, and it is the one in the map,
\* however upgrades, failed builds, closes and reconnects interleave.
OneConnection == \A c \in Conns : Serving(c) => sessions = c

\* An answer decides what its user was shown: a waiting call gets a yes only from
\* one about its own request, and a tool is remembered as allowed only for one
\* about this tool that asked for it.  Ids start again with every connection.
DecidesWhatWasShown ==
    [][\A c \in Conns :
        /\ \A a \in Agents :
            call[c][a].answer # "yes" /\ call'[c][a].answer = "yes" =>
                LET m == Head(inbox[c]) IN
                m.approved /\ m.prompt = [conn |-> c, id |-> call[c][a].id,
                                         tool |-> call[c][a].tool]
        /\ \A t \in Tools :
            ~AllowedAlways(registry[c], t) /\ AllowedAlways(registry'[c], t) =>
                LET m == Head(inbox[c]) IN
                m.approved /\ m.remember /\ m.prompt.conn = c /\ m.prompt.tool = t]_vars

\* A delete removes the log of a session that is served only if the connection
\* claimed it after the delete had looked.
DeleteHitsOnlyNewcomers ==
    [][DeleteRemoves => \A c \in Conns : Serving(c) => c \in newcomers]_vars

\* After a cancel no call goes on waiting, though its user never answers and no
\* timeout fires: again and again there is a moment when none does.
WaitsInVain == \E c \in Conns, a \in Agents : cancelled[c] /\ call[c][a].at # "idle"
CancelUnparks == []<>~WaitsInVain

\* A session whose browser is gone becomes free, so that it can come back.
ClosedFreesSession == []<>(socket # NoConn \/ sessions = NoConn)

\* A reconnect keeps the shell it started: "the entry is removed on disconnect, so
\* a prompt reconnect still works" (ws.rs, ws_handler).  The code breaks this.
ShellOutlivesPredecessor ==
    [][\A c, d \in Conns : Cleanup(d) /\ Serving(c) /\ shell = c => shell' = c]_vars

-----------------------------------------------------------------------------
(* The inductive invariant behind the theorem on DecidesWhatWasShown *)

Prompts  == [conn : Conns, id : Nat, tool : Tools]
Messages == {Message, Cancel, Close} \cup
            [kind : {"answer"}, prompt : Prompts, id : Nat, approved : BOOLEAN,
             remember : BOOLEAN]
Frames   == {Done, Failure} \cup [kind : {"approval"}, prompt : Prompts]
Calls    == [at : {"idle", "asked", "parked"}, tool : Tools \cup {NoTool}, id : Nat,
             answer : {"none", "yes", "no"}, rung : BOOLEAN]

IsRegistry(reg) ==
    /\ reg = [pending |-> reg.pending, memory |-> reg.memory, seq |-> reg.seq]
    /\ reg.seq \in Nat /\ DOMAIN reg.pending \subseteq 1..reg.seq

AskTyped ==
    /\ stage \in [Conns -> Stages] /\ socket \in Conns \cup {NoConn}
    /\ prompts \subseteq Prompts
    /\ call \in [Conns -> [Agents -> Calls]]
    /\ DOMAIN inbox = Conns /\ DOMAIN outbox = Conns /\ DOMAIN registry = Conns
    /\ \A c \in Conns :
          /\ inbox[c] \in Seq(Messages) /\ outbox[c] \in Seq(Frames)
          /\ IsRegistry(registry[c])

\* The registry of c, if it knows the id at all, knows it for the tool; and it will
\* not give the id out again.
Names(c, id, tool) ==
    /\ stage[c] = "ended" \/ id \in 1..registry[c].seq
    /\ id \in DOMAIN registry[c].pending => registry[c].pending[id] = tool
IsRight(c, p) == p.conn = c /\ Names(c, p.id, p.tool)

RightPrompts == \A p \in prompts : socket # NoConn /\ IsRight(socket, p)
RightFrames == \A c \in Conns : \A k \in DOMAIN outbox[c] :
    LET f == outbox[c][k] IN f.kind = "approval" => IsRight(c, f.prompt)
RightAnswers == \A c \in Conns : \A k \in DOMAIN inbox[c] :
    LET m == inbox[c][k] IN
    m.kind = "answer" => m.id = m.prompt.id /\ IsRight(c, m.prompt)
RightCalls == \A c \in Conns : \A a \in Agents :
    call[c][a].at # "idle" =>
        stage[c] = "turn" /\ Names(c, call[c][a].id, call[c][a].tool)

AskInv == RightPrompts /\ RightFrames /\ RightAnswers /\ RightCalls
=============================================================================
