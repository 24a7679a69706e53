--------------------------------- MODULE Mcp --------------------------------
(***************************************************************************)
(* The stdio MCP client (conga-host/src/mcp/mod.rs, mcp/stdio.rs,          *)
(* mcp/types.rs): sessions that share one server process through a cache   *)
(* of weak references, and the calls of their tools over the pipes of that *)
(* process, one at a time under a FIFO lock, each with a deadline for its  *)
(* answer.  The server is external: it answers late, out of order or       *)
(* never, talks on its own account, dies or stops reading.                 *)
(*                                                                         *)
(* A request is written in two pieces, which is all a pipe promises.  The  *)
(* handshake is one step: nobody shares a process that is not through it.  *)
(* An answer is read as a whole: the part of a line that a timeout takes   *)
(* with it can only belong to an answer nobody waits for any more.         *)
(***************************************************************************)
EXTENDS Naturals, Sequences, SequencesExt

CONSTANTS
    Sessions,  \* connections that load the server's tools
    MaxProcs,  \* processes spawned, all together
    MaxCalls,  \* calls made, all together
    PipeIn,    \* pieces the server's stdin holds
    PipeOut,   \* lines its stdout holds
    MaxEdits,  \* edits of mcp.json
    Nobody

ASSUME McpAssumption ==
    /\ MaxProcs \in Nat /\ MaxCalls \in Nat /\ MaxEdits \in Nat
    /\ PipeIn \in Nat \ {0} /\ PipeOut \in Nat \ {0} /\ Nobody \notin Sessions

Procs == 1..MaxProcs
Calls == 1..MaxCalls  \* numbered as they are made

VARIABLES
    config,  \* the version of the server's entry in mcp.json
    cache,   \* STDIO_SERVERS: the process and the configuration it was for
    session, \* where each session is with the server, and the entry it has read
    server,  \* each process: unborn, alive, wedged or dead
    nextId,  \* of each process
    queue,   \* the calls that wait for a process's lock; the first one has it
    stdin, stdout, \* the pipes
    heard,   \* the request the line a server is in the middle of began with
    todo,    \* requests a server has read and not answered
    call,    \* each call: where it is, who made it, its id, whose answer it got
    garbled, \* history: processes that got a line that is no request
    cut,     \* history: processes a call was dropped in the middle of writing to
    displaced \* history: configurations whose server was in use when its entry went

loading == <<config, cache, session, displaced>>
pipes   == <<stdin, stdout, heard, todo, garbled>>
calls   == <<nextId, queue, call, cut>>
vars    == <<loading, server, pipes, calls>>

NoCall == [at |-> "none", by |-> Nobody, proc |-> 0, id |-> 0, got |-> 0]
Gone   == [at |-> "none", proc |-> 0, config |-> 0]

Init ==
    /\ config = 0 /\ cache = [proc |-> 0, config |-> 0]
    /\ session = [s \in Sessions |-> Gone]
    /\ server = [p \in Procs |-> "unborn"]
    /\ nextId = [p \in Procs |-> 1] /\ queue = [p \in Procs |-> <<>>]
    /\ stdin = [p \in Procs |-> <<>>] /\ stdout = [p \in Procs |-> <<>>]
    /\ heard = [p \in Procs |-> 0] /\ todo = [p \in Procs |-> {}]
    /\ call = [c \in Calls |-> NoCall]
    /\ garbled = {} /\ cut = {} /\ displaced = {}

Running(p) == server[p] \in {"alive", "wedged"}

-----------------------------------------------------------------------------
(* Sessions: acquire_stdio_server *)

EditConfig ==
    /\ config < MaxEdits
    /\ config' = config + 1
    /\ UNCHANGED <<cache, session, displaced, server, pipes, calls>>

\* load_all_mcp reads the file once, then acquires one server after the other.
LoadConfig(s) ==
    /\ session[s].at = "none"
    /\ session' = [session EXCEPT ![s] = [at |-> "loaded", proc |-> 0, config |-> config]]
    /\ UNCHANGED <<config, cache, displaced, server, pipes, calls>>

HasServer(s, at, p) == session' = [session EXCEPT ![s] = [@ EXCEPT !.at = at, !.proc = p]]

\* Weak::upgrade: some session still has the process, running or not.
Held(p) == \E s \in Sessions : session[s].proc = p

\* Mutant of Reusable: an edited entry changes nothing.
ReuseAny(s) == cache.proc # 0 /\ Held(cache.proc)

Reusable(s) ==
    /\ cache.proc # 0 /\ Held(cache.proc)
    /\ cache.config = session[s].config

\* reuse_stdio_server
Reuse(s) ==
    /\ session[s].at = "loaded" /\ Reusable(s)
    /\ HasServer(s, "ready", cache.proc)
    /\ UNCHANGED <<config, cache, displaced, server, pipes, calls>>

\* The look into the cache and the entry that follows it are not one step.
Launch(s) ==
    /\ session[s].at = "loaded" /\ ~Reusable(s)
    /\ \E p \in Procs :
          /\ server[p] = "unborn" /\ \A q \in 1..(p - 1) : server[q] # "unborn"
          /\ server' = [server EXCEPT ![p] = "alive"]
          /\ HasServer(s, "spawning", p)
    /\ UNCHANGED <<config, cache, displaced, pipes, calls>>

\* Handshake and tools/list are through; the entry replaces what is there.
Register(s) ==
    /\ session[s].at = "spawning" /\ server[session[s].proc] = "alive"
    /\ cache' = [proc |-> session[s].proc, config |-> session[s].config]
    /\ HasServer(s, "ready", session[s].proc)
    /\ displaced' = IF cache.proc # 0 /\ Held(cache.proc)
                    THEN displaced \cup {cache.config} ELSE displaced
    /\ UNCHANGED <<config, server, pipes, calls>>

\* What a process has not read or answered is gone with it.
Dies(p) ==
    /\ server' = [server EXCEPT ![p] = "dead"]
    /\ stdin' = [stdin EXCEPT ![p] = <<>>]
    /\ heard' = [heard EXCEPT ![p] = 0]
    /\ todo' = [todo EXCEPT ![p] = {}]
    /\ UNCHANGED <<stdout, garbled>>

\* kill_on_drop: a process nobody holds any more is reaped.
Reap(s) ==
    LET p == session[s].proc IN
    IF \E t \in Sessions \ {s} : session[t].proc = p THEN UNCHANGED <<server, pipes>>
    ELSE Dies(p)

\* The handshake fails or takes too long: the session goes on without the tools.
SpawnFails(s) ==
    /\ session[s].at = "spawning"
    /\ session' = [session EXCEPT ![s] = Gone]
    /\ Reap(s)
    /\ UNCHANGED <<config, cache, displaced, calls>>

\* The connection ends when none of its calls is under way, or takes them along.
Release(s) ==
    /\ session[s].at = "ready" /\ \A c \in Calls : call[c].by # s
    /\ session' = [session EXCEPT ![s] = Gone]
    /\ Reap(s)
    /\ UNCHANGED <<config, cache, displaced, calls>>

-----------------------------------------------------------------------------
(* Calls: McpBridge::call *)

UnderWay(c) == call[c].at \notin {"none", "done"}

\* Mutant of Holds: the lock is gone once the number is taken.
HoldsNumber(c) ==
    Head(SelectSeq(queue[call[c].proc], LAMBDA d : call[d].at = "waiting")) = c

Holds(c) == Head(queue[call[c].proc]) = c

Begin(c, s) ==
    /\ session[s].at = "ready"
    /\ call[c].at = "none" /\ \A d \in 1..(c - 1) : call[d].at # "none"
    /\ LET p == session[s].proc IN
       /\ call' = [call EXCEPT ![c] =
                      [at |-> "waiting", by |-> s, proc |-> p, id |-> 0, got |-> 0]]
       /\ queue' = [queue EXCEPT ![p] = Append(@, c)]
    /\ UNCHANGED <<loading, server, pipes, nextId, cut>>

TakeId(c) ==
    LET p == call[c].proc IN
    /\ call[c].at = "waiting" /\ Holds(c)
    /\ call' = [call EXCEPT ![c] = [@ EXCEPT !.at = "head", !.id = nextId[p]]]
    /\ nextId' = [nextId EXCEPT ![p] = @ + 1]
    /\ UNCHANGED <<loading, server, pipes, queue, cut>>

PlaceIn(q, c) == CHOOSE i \in DOMAIN q : q[i] = c

\* The lock goes with the call, or its place in the line.
Leave(c) ==
    /\ call' = [call EXCEPT ![c] = [NoCall EXCEPT !.at = "done"]]
    /\ queue' = [queue EXCEPT ![call[c].proc] = RemoveAt(@, PlaceIn(@, c))]

Piece(c, part) == [part |-> part, id |-> call[c].id, of |-> c]

\* write_request: no deadline while the pipe is full, an error when it is gone.
Write(c, part, next) ==
    LET p == call[c].proc IN
    /\ call[c].at = part
    /\ \/ /\ Running(p) /\ Len(stdin[p]) < PipeIn
          /\ stdin' = [stdin EXCEPT ![p] = Append(@, Piece(c, part))]
          /\ call' = [call EXCEPT ![c].at = next]
          /\ UNCHANGED queue
       \/ ~Running(p) /\ Leave(c) /\ UNCHANGED stdin
    /\ UNCHANGED <<loading, server, stdout, heard, todo, garbled, nextId, cut>>

WriteHead(c) == Write(c, "head", "tail")
WriteTail(c) == Write(c, "tail", "reading")

\* Mutant of Matches: any answer will do.
AnyAnswer(line, c) == line.id # 0

\* parse_incoming: notifications have no id.
Matches(line, c) == line.id = call[c].id

ReadLine(c) ==
    LET p == call[c].proc IN
    /\ call[c].at = "reading" /\ stdout[p] # <<>>
    /\ LET line == Head(stdout[p]) IN
       call' = IF Matches(line, c)
               THEN [call EXCEPT ![c] = [@ EXCEPT !.at = "answered", !.got = line.of]]
               ELSE call
    /\ stdout' = [stdout EXCEPT ![p] = Tail(@)]
    /\ UNCHANGED <<loading, server, stdin, heard, todo, garbled, nextId, queue, cut>>

\* The call returns what it read.
Return(c) ==
    /\ call[c].at = "answered"
    /\ Leave(c)
    /\ UNCHANGED <<loading, server, pipes, nextId, cut>>

\* The server closed its stdout.
Eof(c) ==
    LET p == call[c].proc IN
    /\ call[c].at = "reading" /\ stdout[p] = <<>> /\ ~Running(p)
    /\ Leave(c)
    /\ UNCHANGED <<loading, server, pipes, nextId, cut>>

\* Mutant of Deadline: it starts anew with every line.
Silence(c) == call[c].at = "reading" /\ stdout[call[c].proc] = <<>>

\* One deadline for the whole wait, lines that are skipped included.
Deadline(c) == call[c].at = "reading"

TimeOut(c) ==
    /\ Deadline(c)
    /\ Leave(c)
    /\ UNCHANGED <<loading, server, pipes, nextId, cut>>

\* The turn or the tool's own timeout drops the call at any await.
Drop(c) ==
    /\ UnderWay(c)
    /\ Leave(c)
    /\ cut' = IF call[c].at = "tail" THEN cut \cup {call[c].proc} ELSE cut
    /\ UNCHANGED <<loading, server, pipes, nextId>>

-----------------------------------------------------------------------------
(* The server (external) *)

Spoiled == MaxCalls + 1

\* What a cut request has left of its line is glued to the next request.
Read(p) ==
    /\ server[p] = "alive" /\ stdin[p] # <<>>
    /\ stdin' = [stdin EXCEPT ![p] = Tail(@)]
    /\ LET piece == Head(stdin[p]) IN
       \/ /\ piece.part = "head"
          /\ heard' = [heard EXCEPT ![p] = IF @ = 0 THEN piece.of ELSE Spoiled]
          /\ UNCHANGED <<todo, garbled>>
       \/ /\ piece.part = "tail"
          /\ heard' = [heard EXCEPT ![p] = 0]
          /\ IF heard[p] = piece.of
             THEN /\ todo' = [todo EXCEPT ![p] =
                                @ \cup {[id |-> piece.id, of |-> piece.of]}]
                  /\ UNCHANGED garbled
             ELSE garbled' = garbled \cup {p} /\ UNCHANGED todo
    /\ UNCHANGED <<loading, server, stdout, calls>>

Say(p, line) ==
    /\ server[p] = "alive" /\ Len(stdout[p]) < PipeOut
    /\ stdout' = [stdout EXCEPT ![p] = Append(@, line)]

Answer(p) ==
    /\ \E r \in todo[p] :
          /\ Say(p, r)
          /\ todo' = [todo EXCEPT ![p] = @ \ {r}]
    /\ UNCHANGED <<loading, server, stdin, heard, garbled, calls>>

Notify(p) ==
    /\ Say(p, [id |-> 0, of |-> 0])
    /\ UNCHANGED <<loading, server, stdin, heard, todo, garbled, calls>>

Stop(p) ==
    /\ server[p] = "alive"
    /\ server' = [server EXCEPT ![p] = "wedged"]
    /\ UNCHANGED <<loading, pipes, calls>>

Die(p) ==
    /\ Running(p)
    /\ Dies(p)
    /\ UNCHANGED <<loading, calls>>

-----------------------------------------------------------------------------

Client(c) ==
    \/ TakeId(c) \/ WriteHead(c) \/ WriteTail(c) \/ ReadLine(c) \/ Return(c)
    \/ Eof(c)

Next ==
    \/ EditConfig
    \/ \E s \in Sessions :
          \/ LoadConfig(s) \/ Reuse(s) \/ Launch(s) \/ Register(s) \/ SpawnFails(s) \/ Release(s)
          \/ \E c \in Calls : Begin(c, s)
    \/ \E c \in Calls : Client(c) \/ TimeOut(c) \/ Drop(c)
    \/ \E p \in Procs : Read(p) \/ Answer(p) \/ Notify(p) \/ Stop(p) \/ Die(p)

\* The runtime polls a call that can go on, its timer included.  All that is asked
\* of the server is that it reads its input until it dies or stops for good.
Fairness ==
    /\ \A c \in Calls : WF_vars(Client(c)) /\ WF_vars(TimeOut(c))
    /\ \A p \in Procs : WF_vars(Read(p))

Spec == Init /\ [][Next]_vars
FairSpec == Spec /\ Fairness

-----------------------------------------------------------------------------
(* Properties *)

\* A call returns the answer to its own request (stdio.rs, recv_response),
\* whatever calls before it timed out, were dropped or are answered late.
OwnAnswer == \A c \in Calls : call[c].at = "answered" => call[c].got = c

\* The server reads whole requests (stdio.rs, call: one lock over the write and
\* the read); only a call dropped in the middle of its write can spoil a line.
RequestsArriveWhole == garbled \subseteq cut

\* A call comes back, in time or not, however much the server talks
\* (stdio.rs, one deadline in recv_response), unless the server has stopped
\* reading and its pipe is full: the write has no deadline.
Clogged(p) == server[p] = "wedged" /\ Len(stdin[p]) = PipeIn
CallsReturn ==
    \A c \in Calls :
        UnderWay(c) ~> ~UnderWay(c) \/ Clogged(call[c].proc)

\* Sessions share one process (mod.rs, "the subprocess is NOT re-spawned per
\* connection") exactly when they loaded the same configuration ("reuse the live
\* server for the SAME command"), unless a slower launch, of the same or of an
\* older configuration, has put its entry in the place of one in use.
OneServer ==
    \A s, t \in Sessions :
        session[s].at = "ready" /\ session[t].at = "ready"
            /\ session[s].config \notin displaced =>
        (session[s].config = session[t].config) <=> (session[s].proc = session[t].proc)

-----------------------------------------------------------------------------
(* The inductive invariant *)

Pieces  == [part : {"head", "tail"}, id : Nat, of : Calls]
Lines   == [id : Nat, of : 0..MaxCalls]
Steps   == {"waiting", "head", "tail", "reading", "answered"}
Entries == [proc : 0..MaxProcs, config : Nat]
SessionStates == [at : {"none", "loaded", "spawning", "ready"},
                  proc : 0..MaxProcs, config : Nat]
CallStates == [at : Steps \cup {"none", "done"}, by : Sessions \cup {Nobody},
               proc : 0..MaxProcs, id : Nat, got : 0..MaxCalls]

TypeOK ==
    /\ config \in Nat /\ cache \in Entries /\ displaced \subseteq Nat
    /\ session \in [Sessions -> SessionStates]
    /\ server \in [Procs -> {"unborn", "alive", "wedged", "dead"}]
    /\ nextId \in [Procs -> Nat \ {0}] /\ queue \in [Procs -> Seq(Calls)]
    /\ stdin \in [Procs -> Seq(Pieces)] /\ stdout \in [Procs -> Seq(Lines)]
    /\ heard \in [Procs -> 0..Spoiled] /\ todo \in [Procs -> SUBSET Lines]
    /\ call \in [Calls -> CallStates]
    /\ garbled \subseteq Procs /\ cut \subseteq Procs

\* What is said of a process and the configuration it was started for.
Claims == {cache} \cup {[proc |-> session[s].proc, config |-> session[s].config] :
                            s \in Sessions}

\* A process was started for one configuration, and the entry of a configuration
\* names the process of its sessions until it is displaced.
InvSessions ==
    /\ \A s \in Sessions :
          session[s].at \in {"spawning", "ready"} <=> session[s].proc # 0
    /\ \A x \in Claims : x.proc # 0 => server[x.proc] # "unborn"
    /\ \A x, y \in Claims : x.proc = y.proc /\ x.proc # 0 => x.config = y.config
    /\ \A s \in Sessions :
          session[s].at = "ready" /\ session[s].config \notin displaced =>
              cache = [proc |-> session[s].proc, config |-> session[s].config]

\* The line for a process's lock holds its calls, each once, and a call that has
\* taken a number is at the front.
InvLock ==
    /\ \A c \in Calls : call[c].at \in Steps =>
          /\ call[c].proc \in Procs /\ server[call[c].proc] # "unborn"
          /\ \E i \in DOMAIN queue[call[c].proc] : queue[call[c].proc][i] = c
          /\ call[c].at # "waiting" => Holds(c) /\ call[c].id # 0
    /\ \A p \in Procs : \A i, j \in DOMAIN queue[p] :
          /\ call[queue[p][i]].at \in Steps /\ call[queue[p][i]].proc = p
          /\ queue[p][i] = queue[p][j] => i = j

\* The numbers of a process that are in use, with the calls they were given to.
Issued(p) ==
    {[id |-> call[c].id, of |-> c] :
        c \in {d \in Calls : call[d].proc = p /\ call[d].id # 0}}
    \cup {[id |-> stdin[p][i].id, of |-> stdin[p][i].of] : i \in DOMAIN stdin[p]}
    \cup todo[p]
    \cup {stdout[p][i] : i \in {k \in DOMAIN stdout[p] : stdout[p][k].id # 0}}

\* A number belongs to one call, wherever it turns up.
InvIds ==
    /\ \A p \in Procs : \A x, y \in Issued(p) :
          x.id \in 1..(nextId[p] - 1) /\ (x.id = y.id => x.of = y.of)
    /\ \A c \in Calls : call[c].at = "answered" => call[c].got = c

\* The call whose line a piece leaves unfinished, 0 if it ends one; and the piece
\* that may follow.
After(x) == IF x.part = "head" THEN x.of ELSE 0
Fits(u, x) == IF u = 0 THEN x.part = "head" ELSE x.part = "tail" /\ x.of = u

\* What a server is in the middle of, and then what is in its pipe, are lines of
\* two pieces each; the last may lack its second.
WholeLines(h, q) ==
    /\ h # Spoiled /\ (q # <<>> => Fits(h, q[1]))
    /\ \A i \in 1..(Len(q) - 1) : Fits(After(q[i]), q[i + 1])
Unfinished(h, q) == IF q = <<>> THEN h ELSE After(q[Len(q)])

\* It is the call that is about to write that piece.
CutOff(p, c) == call[c].proc = p /\ call[c].at = "tail"

InvLines ==
    /\ \A p \in Procs : server[p] # "dead" =>
          \/ p \in cut
          \/ /\ WholeLines(heard[p], stdin[p])
             /\ \A c \in Calls : Unfinished(heard[p], stdin[p]) = c <=> CutOff(p, c)
    /\ garbled \subseteq cut

Inv == TypeOK /\ InvSessions /\ InvLock /\ InvIds /\ InvLines
=============================================================================
