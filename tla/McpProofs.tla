------------------------------ MODULE McpProofs ------------------------------
(***************************************************************************)
(* Proofs about Mcp, for any sessions, processes, calls and edits and any  *)
(* size of the pipes: an answer goes to the call that asked for it, a      *)
(* server reads whole requests, and sessions share a process.              *)
(***************************************************************************)
EXTENDS Mcp, SequenceTheorems, TLAPS

USE McpAssumption

-----------------------------------------------------------------------------
(* A call leaves the line.                                                 *)

LEMMA RemoveAtFacts ==
    ASSUME NEW S, NEW q \in Seq(S), NEW i \in 1..Len(q)
    PROVE  /\ RemoveAt(q, i) \in Seq(S)
           /\ Len(RemoveAt(q, i)) = Len(q) - 1
           /\ \A j \in 1..(Len(q) - 1) :
                 RemoveAt(q, i)[j] = IF j < i THEN q[j] ELSE q[j + 1]
    <1> DEFINE left == SubSeq(q, 1, i - 1)
               right == SubSeq(q, i + 1, Len(q))
    <1>1. left \in Seq(S) /\ Len(left) = i - 1 /\ \A j \in 1..(i - 1) : left[j] = q[j]
        OBVIOUS
    <1>2. /\ right \in Seq(S) /\ Len(right) = Len(q) - i
          /\ \A j \in 1..(Len(q) - i) : right[j] = q[i + j]
        OBVIOUS
    <1> HIDE DEF left, right
    <1>3. RemoveAt(q, i) = left \o right
        BY DEF RemoveAt, left, right
    <1>4. /\ left \o right \in Seq(S) /\ Len(left \o right) = Len(left) + Len(right)
          /\ \A j \in 1..(Len(left) + Len(right)) :
                (left \o right)[j] = IF j <= Len(left) THEN left[j]
                                     ELSE right[j - Len(left)]
        <2>1. left \in Seq(S) /\ right \in Seq(S)
            BY <1>1, <1>2
        <2> QED  BY <2>1, ConcatProperties
    <1>5. ASSUME NEW j \in 1..(Len(q) - 1)
          PROVE  (left \o right)[j] = IF j < i THEN q[j] ELSE q[j + 1]
        <2>1. CASE j < i
            <3>1. j \in 1..(i - 1) /\ j \in 1..(Len(left) + Len(right)) /\ j <= Len(left)
                BY <2>1, <1>1, <1>2
            <3> QED  BY <2>1, <3>1, <1>1, <1>4
        <2>2. CASE ~(j < i)
            <3>1. /\ j - (i - 1) \in 1..(Len(q) - i) /\ i + (j - (i - 1)) = j + 1
                  /\ j \in 1..(Len(left) + Len(right)) /\ ~(j <= Len(left))
                  /\ j - Len(left) = j - (i - 1)
                BY <2>2, <1>1, <1>2
            <3>2. (left \o right)[j] = right[j - (i - 1)]
                BY <3>1, <1>4
            <3>3. right[j - (i - 1)] = q[j + 1]
                BY <3>1, <1>2
            <3> QED  BY <2>2, <3>2, <3>3
        <2> QED  BY <2>1, <2>2
    <1> QED  BY <1>1, <1>2, <1>3, <1>4, <1>5

LEMMA PlaceFacts ==
    ASSUME NEW S, NEW q \in Seq(S), NEW c, \E i \in DOMAIN q : q[i] = c
    PROVE  PlaceIn(q, c) \in 1..Len(q) /\ q[PlaceIn(q, c)] = c
    BY DEF PlaceIn

(* What leaving changes.                                                   *)
LEMMA LeaveFacts ==
    ASSUME TypeOK, InvLock, NEW c \in Calls, call[c].at \in Steps, Leave(c)
    PROVE  /\ call' \in [Calls -> CallStates]
           /\ call'[c].at = "done" /\ call'[c].proc = 0 /\ call'[c].id = 0
           /\ \A d \in Calls \ {c} : call'[d] = call[d]
           /\ queue' \in [Procs -> Seq(Calls)]
    <1>1. PICK i \in 1..Len(queue[call[c].proc]) : i = PlaceIn(queue[call[c].proc], c)
        BY PlaceFacts DEF TypeOK, InvLock
    <1>2. call[c].proc \in Procs
        BY DEF InvLock
    <1>3. RemoveAt(queue[call[c].proc], i) \in Seq(Calls)
        BY <1>2, RemoveAtFacts DEF TypeOK
    <1>4. queue' = [queue EXCEPT ![call[c].proc] = RemoveAt(queue[call[c].proc], i)]
        BY <1>1 DEF Leave
    <1>5. queue' \in [Procs -> Seq(Calls)]
        BY <1>2, <1>3, <1>4 DEF TypeOK
    <1>6. call \in [Calls -> CallStates]
        BY DEF TypeOK, CallStates
    <1>7. [NoCall EXCEPT !.at = "done"] \in CallStates
        BY DEF NoCall, CallStates
    <1> QED  BY <1>5, <1>6, <1>7 DEF Leave, NoCall

LEMMA LeaveKeepsLock ==
    ASSUME TypeOK, InvLock, NEW c \in Calls, call[c].at \in Steps, Leave(c),
           \A p \in Procs : server[p] # "unborn" => server'[p] # "unborn"
    PROVE  InvLock'
    <1> DEFINE p == call[c].proc
               q == queue[p]
               i == PlaceIn(q, c)
               r == queue'[p]
    <1>1. p \in Procs /\ q \in Seq(Calls) /\ queue \in [Procs -> Seq(Calls)]
        BY DEF InvLock, TypeOK
    <1>2. i \in 1..Len(q) /\ q[i] = c
        BY <1>1, PlaceFacts DEF InvLock
    <1>3. r = RemoveAt(q, i) /\ \A o \in Procs \ {p} : queue'[o] = queue[o]
        BY <1>1 DEF Leave
    <1>5. /\ call'[c].at = "done"
          /\ \A d \in Calls \ {c} : call'[d] = call[d]
        BY LeaveFacts
    <1>6. /\ \A j \in 1..Len(q) : call[q[j]].at \in Steps /\ call[q[j]].proc = p
          /\ \A j, k \in 1..Len(q) : q[j] = q[k] => j = k
        <2>1. DOMAIN queue[p] = 1..Len(queue[p])
            BY <1>1
        <2>2. \A o \in Procs : \A j, k \in DOMAIN queue[o] :
                 /\ call[queue[o][j]].at \in Steps /\ call[queue[o][j]].proc = o
                 /\ queue[o][j] = queue[o][k] => j = k
            BY DEF InvLock
        <2> HIDE DEF p
        <2> QED  BY <1>1, <2>1, <2>2
    <1> HIDE DEF p, q, i, r
    <1>4. /\ r \in Seq(Calls) /\ Len(r) = Len(q) - 1
          /\ \A j \in 1..(Len(q) - 1) : r[j] = IF j < i THEN q[j] ELSE q[j + 1]
        BY <1>1, <1>2, <1>3, RemoveAtFacts
    <1>0. Len(q) \in Nat /\ i \in Nat /\ DOMAIN r = 1..(Len(q) - 1)
        BY <1>1, <1>2, <1>4
    <1>7. ASSUME NEW d \in Calls, call'[d].at \in Steps
          PROVE  /\ call'[d].proc \in Procs /\ server'[call'[d].proc] # "unborn"
                 /\ \E k \in DOMAIN queue'[call'[d].proc] : queue'[call'[d].proc][k] = d
                 /\ call'[d].at # "waiting" =>
                        Head(queue'[call'[d].proc]) = d /\ call'[d].id # 0
        <2>1. d # c /\ call'[d] = call[d]
            BY <1>5, <1>7 DEF Steps
        <2>2. /\ call[d].proc \in Procs /\ server[call[d].proc] # "unborn"
              /\ \E k \in DOMAIN queue[call[d].proc] : queue[call[d].proc][k] = d
              /\ call[d].at # "waiting" =>
                     Head(queue[call[d].proc]) = d /\ call[d].id # 0
            BY <1>7, <2>1 DEF InvLock, Holds
        <2>3. CASE call[d].proc # p
            BY <2>1, <2>2, <2>3, <1>3
        <2>4. CASE call[d].proc = p
            <3>1. PICK k \in 1..Len(q) : q[k] = d
                BY <2>2, <2>4, <1>1 DEF q
            <3>2. k # i
                BY <3>1, <2>1, <1>2
            <3>3. \E m \in DOMAIN r : r[m] = d
                <4>1. CASE k < i
                    BY <4>1, <3>1, <1>2, <1>4
                <4>2. CASE k > i
                    <5>1. k - 1 \in 1..(Len(q) - 1) /\ ~(k - 1 < i) /\ (k - 1) + 1 = k
                        BY <4>2, <1>2, <1>1, <3>1
                    <5>2. r[k - 1] = d
                        BY <5>1, <3>1, <1>4
                    <5> QED  BY <5>1, <5>2, <1>4
                <4> QED  BY <4>1, <4>2, <3>2, <1>2
            <3>4. ASSUME call[d].at # "waiting"
                  PROVE  Head(r) = d
                <4>1. q[1] = d
                    BY <3>4, <2>2, <2>4, <1>1, <3>1 DEF q
                <4>2. 1 < i /\ 1 \in 1..(Len(q) - 1)
                    BY <4>1, <1>2, <1>1, <2>1
                <4>3. r[1] = d
                    BY <4>1, <4>2, <1>4
                <4> QED  BY <4>2, <4>3, <1>4
            <3> QED  BY <2>1, <2>2, <2>4, <3>3, <3>4 DEF r
        <2> QED  BY <2>3, <2>4
    <1>8. ASSUME NEW o \in Procs, NEW j \in DOMAIN queue'[o], NEW k \in DOMAIN queue'[o]
          PROVE  /\ call'[queue'[o][j]].at \in Steps /\ call'[queue'[o][j]].proc = o
                 /\ queue'[o][j] = queue'[o][k] => j = k
        <2>1. CASE o # p
            <3>1. queue'[o] = queue[o]
                BY <2>1, <1>3
            <3>2. /\ call[queue[o][j]].at \in Steps /\ call[queue[o][j]].proc = o
                  /\ queue[o][j] = queue[o][k] => j = k
                BY <1>8, <3>1 DEF InvLock
            <3>3. queue[o][j] \in Calls \ {c}
                BY <1>8, <3>1, <3>2, <2>1, <1>1 DEF p
            <3> QED  BY <3>1, <3>2, <3>3, <1>5
        <2>2. CASE o = p
            <3>1. queue'[o] = r /\ j \in 1..(Len(q) - 1) /\ k \in 1..(Len(q) - 1)
                BY <1>8, <2>2, <1>0 DEF r
            <3> DEFINE at(n) == IF n < i THEN n ELSE n + 1
            <3>2. \A n \in 1..(Len(q) - 1) : at(n) \in 1..Len(q) /\ at(n) # i /\ r[n] = q[at(n)]
                BY <1>0, <1>2, <1>4
            <3>3. at(j) = at(k) => j = k
                BY <3>1, <1>0
            <3> HIDE DEF at
            <3>4. r[j] = r[k] => j = k
                BY <3>1, <3>2, <3>3, <1>6
            <3>5. call[q[at(j)]].at \in Steps /\ call[q[at(j)]].proc = p
                BY <3>1, <3>2, <1>6
            <3>6. q[at(j)] \in Calls \ {c}
                <4>1. at(j) \in 1..Len(q) /\ at(j) # i
                    BY <3>1, <3>2
                <4>2. q[at(j)] \in Calls
                    BY <4>1, <1>1
                <4>3. q[at(j)] # c
                    BY <4>1, <1>2, <1>6
                <4> QED  BY <4>2, <4>3
            <3> QED  BY <2>2, <3>1, <3>2, <3>4, <3>5, <3>6, <1>5
        <2> QED  BY <2>1, <2>2
    <1> QED  BY <1>7, <1>8 DEF InvLock, Holds

-----------------------------------------------------------------------------
(* The steps, sorted by what they change.                                  *)

(* A call ends, however it does.                                           *)
Goes(c) ==
    /\ call[c].at \in Steps /\ Leave(c)
    /\ UNCHANGED <<loading, server, pipes, nextId>>
    /\ cut \subseteq cut' /\ cut' \subseteq cut \cup {call[c].proc}
    /\ call[c].at = "tail" => call[c].proc \in cut' \/ ~Running(call[c].proc)

(* A piece goes into the pipe.                                             *)
Pushes(c, part, next) ==
    /\ call[c].at = part /\ Running(call[c].proc)
    /\ stdin' = [stdin EXCEPT ![call[c].proc] = Append(@, Piece(c, part))]
    /\ call' = [call EXCEPT ![c].at = next]
    /\ UNCHANGED <<queue, loading, server, stdout, heard, todo, garbled, nextId, cut>>

(* A session lets go of its process.                                       *)
Yields(s) ==
    /\ session[s].at \in {"spawning", "ready"}
    /\ session' = [session EXCEPT ![s] = Gone] /\ Reap(s)
    /\ UNCHANGED <<config, cache, displaced, calls>>

LEMMA StepsSorted ==
    ASSUME TypeOK, Next
    PROVE  \/ EditConfig
           \/ \E s \in Sessions :
                 LoadConfig(s) \/ Reuse(s) \/ Launch(s) \/ Register(s) \/ Yields(s)
           \/ \E c \in Calls, s \in Sessions : Begin(c, s)
           \/ \E c \in Calls :
                 TakeId(c) \/ ReadLine(c) \/ Goes(c)
                 \/ Pushes(c, "head", "tail") \/ Pushes(c, "tail", "reading")
           \/ \E p \in Procs : Read(p) \/ Answer(p) \/ Notify(p) \/ Stop(p) \/ Die(p)
    <1>1. ASSUME NEW s \in Sessions, SpawnFails(s) \/ Release(s)
          PROVE  Yields(s)
        BY <1>1 DEF SpawnFails, Release, Yields
    <1>2. ASSUME NEW c \in Calls, Write(c, "head", "tail")
          PROVE  Pushes(c, "head", "tail") \/ Goes(c)
        BY <1>2 DEF Write, Pushes, Goes, Steps, pipes
    <1>3. ASSUME NEW c \in Calls, Write(c, "tail", "reading")
          PROVE  Pushes(c, "tail", "reading") \/ Goes(c)
        BY <1>3 DEF Write, Pushes, Goes, Steps, pipes
    <1>4. ASSUME NEW c \in Calls, Return(c) \/ Eof(c) \/ TimeOut(c)
          PROVE  Goes(c)
        BY <1>4 DEF Return, Eof, TimeOut, Deadline, Goes, Steps
    <1>5. ASSUME NEW c \in Calls, Drop(c)
          PROVE  Goes(c)
        <2>1. call[c].at \in Steps
            <3>1. call[c] \in CallStates
                BY DEF TypeOK
            <3>2. call[c].at \in Steps \cup {"none", "done"}
                BY <3>1 DEF CallStates
            <3> QED  BY <1>5, <3>2 DEF Drop, UnderWay
        <2> QED  BY <1>5, <2>1 DEF Drop, Goes
    <1> QED  BY <1>1, <1>2, <1>3, <1>4, <1>5 DEF Next, Client, WriteHead, WriteTail

-----------------------------------------------------------------------------
(* Types.                                                                  *)

LEMMA CallTyped ==
    ASSUME NEW r \in CallStates
    PROVE  /\ r.at \in Steps \cup {"none", "done"} /\ r.proc \in 0..MaxProcs
           /\ r.id \in Nat /\ r.got \in 0..MaxCalls
           /\ \A at \in Steps : [r EXCEPT !.at = at] \in CallStates
           /\ \A id \in Nat : [r EXCEPT !.at = "head", !.id = id] \in CallStates
           /\ \A got \in 0..MaxCalls :
                 [r EXCEPT !.at = "answered", !.got = got] \in CallStates
    BY DEF CallStates, Steps

LEMMA PieceTyped ==
    ASSUME NEW x \in Pieces
    PROVE  /\ x.part \in {"head", "tail"} /\ x.id \in Nat /\ x.of \in Calls
           /\ [id |-> x.id, of |-> x.of] \in Lines /\ x.of \in 0..Spoiled
    BY DEF Pieces, Lines, Calls, Spoiled

LEMMA SessionTyped ==
    ASSUME NEW r \in SessionStates
    PROVE  /\ r.proc \in 0..MaxProcs /\ r.config \in Nat
           /\ [proc |-> r.proc, config |-> r.config] \in Entries
           /\ \A at \in {"ready", "spawning"}, p \in 0..MaxProcs :
                 [r EXCEPT !.at = at, !.proc = p] \in SessionStates
    BY DEF SessionStates, Entries

LEMMA DiesTyped ==
    ASSUME TypeOK, NEW p \in 0..MaxProcs, Dies(p)
    PROVE  /\ server' \in [Procs -> {"unborn", "alive", "wedged", "dead"}]
           /\ stdin' \in [Procs -> Seq(Pieces)]
           /\ heard' \in [Procs -> 0..Spoiled] /\ todo' \in [Procs -> SUBSET Lines]
    <1>1. 0 \in 0..Spoiled /\ <<>> \in Seq(Pieces)
        BY DEF Spoiled
    <1>2. stdin' \in [Procs -> Seq(Pieces)]
        BY <1>1 DEF TypeOK, Dies
    <1>3. heard' \in [Procs -> 0..Spoiled]
        BY <1>1 DEF TypeOK, Dies
    <1> QED  BY <1>2, <1>3 DEF TypeOK, Dies

LEMMA UnderWayAt ==
    ASSUME TypeOK, InvLock, NEW c \in Calls, call[c].at \in Steps
    PROVE  call[c].proc \in Procs
    BY DEF InvLock

LEMMA Typing ==
    ASSUME TypeOK, InvLock, [Next]_vars
    PROVE  TypeOK'
    <1> USE DEF TypeOK, loading, pipes, calls
    <1>0. Procs \subseteq 0..MaxProcs
        BY DEF Procs
    <1>1. CASE EditConfig
        BY <1>1 DEF EditConfig
    <1>2. ASSUME NEW s \in Sessions, LoadConfig(s)
          PROVE  TypeOK'
        <2>1. [at |-> "loaded", proc |-> 0, config |-> config] \in SessionStates
            BY DEF SessionStates
        <2> QED  BY <1>2, <2>1 DEF LoadConfig
    <1>3. ASSUME NEW s \in Sessions, Reuse(s)
          PROVE  TypeOK'
        <2>1. cache.proc \in 0..MaxProcs
            BY DEF Entries
        <2>2. [session[s] EXCEPT !.at = "ready", !.proc = cache.proc] \in SessionStates
            BY <2>1, SessionTyped
        <2> QED  BY <1>3, <2>2 DEF Reuse, HasServer
    <1>4. ASSUME NEW s \in Sessions, Launch(s)
          PROVE  TypeOK'
        <2>1. PICK p \in Procs : /\ server' = [server EXCEPT ![p] = "alive"]
                                 /\ HasServer(s, "spawning", p)
            BY <1>4 DEF Launch
        <2>2. [session[s] EXCEPT !.at = "spawning", !.proc = p] \in SessionStates
            BY <1>0, SessionTyped
        <2> QED  BY <1>4, <2>1, <2>2 DEF Launch, HasServer
    <1>5. ASSUME NEW s \in Sessions, Register(s)
          PROVE  TypeOK'
        <2>1. [session[s] EXCEPT !.at = "ready", !.proc = session[s].proc] \in SessionStates
            BY SessionTyped
        <2>2. session' \in [Sessions -> SessionStates]
            BY <1>5, <2>1 DEF Register, HasServer
        <2>3. cache' \in Entries
            BY <1>5, SessionTyped DEF Register
        <2>4. displaced' \subseteq Nat
            BY <1>5 DEF Register, Entries
        <2> QED  BY <1>5, <2>2, <2>3, <2>4 DEF Register
    <1>6. ASSUME NEW s \in Sessions, Yields(s)
          PROVE  TypeOK'
        <2>1. Gone \in SessionStates
            BY DEF Gone, SessionStates
        <2>2. session' \in [Sessions -> SessionStates]
            BY <1>6, <2>1 DEF Yields
        <2>3. session[s].proc \in 0..MaxProcs
            BY SessionTyped
        <2>4. /\ server' \in [Procs -> {"unborn", "alive", "wedged", "dead"}]
              /\ stdin' \in [Procs -> Seq(Pieces)] /\ stdout' = stdout
              /\ heard' \in [Procs -> 0..Spoiled] /\ todo' \in [Procs -> SUBSET Lines]
              /\ garbled' = garbled
            <3>1. CASE Dies(session[s].proc)
                BY <2>3, <3>1, DiesTyped DEF Dies
            <3>2. CASE UNCHANGED <<server, pipes>>
                BY <3>2
            <3> QED  BY <1>6, <3>1, <3>2 DEF Yields, Reap
        <2> QED  BY <1>6, <2>2, <2>4 DEF Yields
    <1>7. ASSUME NEW c \in Calls, NEW s \in Sessions, Begin(c, s)
          PROVE  TypeOK'
        <2>1. [at |-> "waiting", by |-> s, proc |-> session[s].proc, id |-> 0, got |-> 0]
                  \in CallStates
            <3>1. session[s].proc \in 0..MaxProcs
                BY SessionTyped
            <3>2. 0 \in 0..MaxCalls /\ "waiting" \in Steps
                BY DEF Steps
            <3> QED  BY <3>1, <3>2 DEF CallStates
        <2>2. call' \in [Calls -> CallStates]
            BY <1>7, <2>1 DEF Begin
        <2>3. queue' \in [Procs -> Seq(Calls)]
            <3>1. \A p \in Procs : Append(queue[p], c) \in Seq(Calls)
                OBVIOUS
            <3> QED  BY <1>7, <3>1 DEF Begin
        <2> QED  BY <1>7, <2>2, <2>3 DEF Begin
    <1>8. ASSUME NEW c \in Calls, TakeId(c)
          PROVE  TypeOK'
        <2>1. call[c].proc \in Procs
            BY <1>8, UnderWayAt DEF TakeId, Steps
        <2>2. nextId[call[c].proc] \in Nat \ {0} /\ nextId[call[c].proc] + 1 \in Nat \ {0}
            BY <2>1
        <2>3. [call[c] EXCEPT !.at = "head", !.id = nextId[call[c].proc]] \in CallStates
            BY <2>2, CallTyped
        <2>4. call' \in [Calls -> CallStates]
            BY <1>8, <2>3 DEF TakeId
        <2>5. nextId' \in [Procs -> Nat \ {0}]
            BY <1>8, <2>1, <2>2 DEF TakeId
        <2> QED  BY <1>8, <2>4, <2>5 DEF TakeId
    <1>9. ASSUME NEW c \in Calls, ReadLine(c)
          PROVE  TypeOK'
        <2>1. call[c].proc \in Procs
            BY <1>9, UnderWayAt DEF ReadLine, Steps
        <2>2. stdout[call[c].proc] \in Seq(Lines) /\ stdout[call[c].proc] # <<>>
            BY <1>9, <2>1 DEF ReadLine
        <2>3. Head(stdout[call[c].proc]) \in Lines /\ Tail(stdout[call[c].proc]) \in Seq(Lines)
            BY <2>2
        <2>4. stdout' \in [Procs -> Seq(Lines)]
            BY <1>9, <2>1, <2>3 DEF ReadLine
        <2>5. Head(stdout[call[c].proc]).of \in 0..MaxCalls
            BY <2>3 DEF Lines
        <2>6. call' \in [Calls -> CallStates]
            BY <1>9, <2>5, CallTyped DEF ReadLine
        <2> QED  BY <1>9, <2>4, <2>6 DEF ReadLine
    <1>10. ASSUME NEW c \in Calls, Goes(c)
           PROVE  TypeOK'
        <2>1. call' \in [Calls -> CallStates] /\ queue' \in [Procs -> Seq(Calls)]
            BY <1>10, LeaveFacts DEF Goes
        <2>2. cut' \subseteq Procs
            BY <1>10, UnderWayAt DEF Goes
        <2> QED  BY <1>10, <2>1, <2>2 DEF Goes
    <1>11. ASSUME NEW c \in Calls, NEW part \in {"head", "tail"}, NEW next \in Steps,
                  Pushes(c, part, next)
           PROVE  TypeOK'
        <2>1. call[c].proc \in Procs
            BY <1>11, UnderWayAt DEF Pushes, Steps
        <2>2. Piece(c, part) \in Pieces
            BY CallTyped DEF Piece, Pieces
        <2>3. \A p \in Procs : Append(stdin[p], Piece(c, part)) \in Seq(Pieces)
            BY <2>2
        <2>4. stdin' \in [Procs -> Seq(Pieces)]
            BY <1>11, <2>1, <2>3 DEF Pushes
        <2>5. call' \in [Calls -> CallStates]
            BY <1>11, CallTyped DEF Pushes
        <2> QED  BY <1>11, <2>4, <2>5 DEF Pushes
    <1>12. ASSUME NEW p \in Procs, Read(p)
           PROVE  TypeOK'
        <2>1. stdin[p] \in Seq(Pieces) /\ stdin[p] # <<>>
            BY <1>12 DEF Read
        <2>2. Head(stdin[p]) \in Pieces /\ Tail(stdin[p]) \in Seq(Pieces)
            BY <2>1
        <2>3. stdin' \in [Procs -> Seq(Pieces)]
            BY <1>12, <2>2 DEF Read
        <2>4. /\ Head(stdin[p]).of \in 0..Spoiled /\ Spoiled \in 0..Spoiled /\ 0 \in 0..Spoiled
              /\ [id |-> Head(stdin[p]).id, of |-> Head(stdin[p]).of] \in Lines
            BY <2>2, PieceTyped DEF Spoiled
        <2>5. heard' \in [Procs -> 0..Spoiled]
            BY <1>12, <2>4 DEF Read
        <2>6. todo' \in [Procs -> SUBSET Lines]
            <3> DEFINE x == [id |-> Head(stdin[p]).id, of |-> Head(stdin[p]).of]
            <3>1. todo' = todo \/ todo' = [todo EXCEPT ![p] = @ \cup {x}]
                BY <1>12 DEF Read
            <3>2. x \in Lines
                BY <2>4
            <3> HIDE DEF x
            <3>3. todo[p] \cup {x} \in SUBSET Lines
                BY <3>2
            <3>4. [todo EXCEPT ![p] = @ \cup {x}] \in [Procs -> SUBSET Lines]
                BY <3>3
            <3> QED  BY <3>1, <3>4
        <2>7. garbled' \subseteq Procs
            BY <1>12 DEF Read
        <2> QED  BY <1>12, <2>3, <2>5, <2>6, <2>7 DEF Read
    <1>13. ASSUME NEW p \in Procs, Answer(p)
           PROVE  TypeOK'
        <2>1. PICK r \in todo[p] : Say(p, r) /\ todo' = [todo EXCEPT ![p] = @ \ {r}]
            BY <1>13 DEF Answer
        <2>2. \A o \in Procs : r \in Lines /\ Append(stdout[o], r) \in Seq(Lines)
            OBVIOUS
        <2>3. stdout' \in [Procs -> Seq(Lines)]
            BY <2>1, <2>2 DEF Say
        <2>4. todo' \in [Procs -> SUBSET Lines]
            BY <2>1
        <2> QED  BY <1>13, <2>3, <2>4 DEF Answer
    <1>14. ASSUME NEW p \in Procs, Notify(p)
           PROVE  TypeOK'
        <2>1. [id |-> 0, of |-> 0] \in Lines
            BY DEF Lines
        <2>2. \A o \in Procs : Append(stdout[o], [id |-> 0, of |-> 0]) \in Seq(Lines)
            BY <2>1
        <2>3. stdout' \in [Procs -> Seq(Lines)]
            BY <1>14, <2>2 DEF Notify, Say
        <2> QED  BY <1>14, <2>3 DEF Notify
    <1>15. ASSUME NEW p \in Procs, Stop(p)
           PROVE  TypeOK'
        BY <1>15 DEF Stop
    <1>16. ASSUME NEW p \in Procs, Die(p)
           PROVE  TypeOK'
        <2>1. Dies(p) /\ p \in 0..MaxProcs /\ UNCHANGED <<loading, calls>>
            BY <1>16, <1>0 DEF Die
        <2> QED  BY <2>1, DiesTyped DEF Dies
    <1>17. CASE UNCHANGED vars
        BY <1>17 DEF vars
    <1> HIDE DEF TypeOK, loading, pipes, calls
    <1>18. ASSUME Next
           PROVE  TypeOK'
        BY <1>18, StepsSorted, <1>1, <1>2, <1>3, <1>4, <1>5, <1>6, <1>7, <1>8, <1>9,
           <1>10, <1>11, <1>12, <1>13, <1>14, <1>15, <1>16 DEF Steps
    <1> QED  BY <1>17, <1>18

-----------------------------------------------------------------------------
(* A process lives once.                                                   *)

Born   == \A p \in Procs : server[p] # "unborn" => server'[p] # "unborn"
Buried == \A p \in Procs : server'[p] # "dead" => server[p] # "dead"

LEMMA DiesOnce ==
    ASSUME TypeOK, NEW p, Dies(p)
    PROVE  Born /\ Buried
    BY DEF TypeOK, Dies, Born, Buried

LEMMA LivesOnce ==
    ASSUME TypeOK, [Next]_vars
    PROVE  Born /\ Buried
    <1> USE DEF TypeOK, Born, Buried, loading, pipes, calls
    <1>1. ASSUME UNCHANGED server
          PROVE  Born /\ Buried
        BY <1>1
    <1>2. ASSUME NEW s \in Sessions, Launch(s)
          PROVE  Born /\ Buried
        BY <1>2 DEF Launch
    <1>3. ASSUME NEW s \in Sessions, Yields(s)
          PROVE  Born /\ Buried
        BY <1>1, <1>3, DiesOnce DEF Yields, Reap
    <1>4. ASSUME NEW p \in Procs, Stop(p)
          PROVE  Born /\ Buried
        BY <1>4 DEF Stop
    <1>5. ASSUME NEW p \in Procs, Die(p)
          PROVE  Born /\ Buried
        BY <1>5, DiesOnce DEF Die
    <1>6. CASE UNCHANGED vars
        BY <1>1, <1>6 DEF vars
    <1>7. ASSUME NEW c \in Calls, Pushes(c, "head", "tail") \/ Pushes(c, "tail", "reading")
          PROVE  UNCHANGED server
        BY <1>7 DEF Pushes
    <1>8. ASSUME NEW c \in Calls, TakeId(c) \/ ReadLine(c) \/ Goes(c)
          PROVE  UNCHANGED server
        BY <1>8 DEF TakeId, ReadLine, Goes
    <1>9. ASSUME NEW p \in Procs, Read(p) \/ Answer(p) \/ Notify(p)
          PROVE  UNCHANGED server
        BY <1>9 DEF Read, Answer, Notify
    <1>10. ASSUME NEW s \in Sessions, LoadConfig(s) \/ Reuse(s) \/ Register(s)
           PROVE  UNCHANGED server
        BY <1>10 DEF LoadConfig, Reuse, Register
    <1>11. ASSUME NEW s \in Sessions, NEW c \in Calls, Begin(c, s)
           PROVE  UNCHANGED server
        BY <1>11 DEF Begin
    <1>12. ASSUME EditConfig
           PROVE  UNCHANGED server
        BY <1>12 DEF EditConfig
    <1> HIDE DEF TypeOK, Born, Buried, loading, pipes, calls
    <1> QED  BY <1>1, <1>2, <1>3, <1>4, <1>5, <1>6, <1>7, <1>8, <1>9, <1>10, <1>11,
                <1>12, StepsSorted

-----------------------------------------------------------------------------
(* Sessions.                                                               *)

Claim(s) == [proc |-> session[s].proc, config |-> session[s].config]

LEMMA ClaimsStay ==
    ASSUME InvSessions, Born, cache \in Entries, cache' \in Entries,
           cache' \in Claims,
           \A s \in Sessions : Claim(s)' \in Claims \/ Claim(s)'.proc = 0,
           \A x \in Claims : x.proc \in 0..MaxProcs
    PROVE  /\ \A x \in Claims' : x.proc # 0 => server'[x.proc] # "unborn"
           /\ \A x, y \in Claims' : x.proc = y.proc /\ x.proc # 0 => x.config = y.config
    <1>1. \A x \in Claims' : x \in Claims \/ x.proc = 0
        BY DEF Claims, Claim
    <1>2. \A x \in Claims : x.proc # 0 => x.proc \in Procs
        BY DEF Procs
    <1> QED  BY <1>1, <1>2 DEF InvSessions, Born

LEMMA ClaimsTyped ==
    ASSUME TypeOK
    PROVE  /\ cache \in Entries /\ cache \in Claims
           /\ \A s \in Sessions : Claim(s) \in Entries /\ Claim(s) \in Claims
           /\ \A x \in Claims : x.proc \in 0..MaxProcs
    <1>1. \A s \in Sessions : Claim(s) \in Entries
        BY SessionTyped DEF TypeOK, Claim
    <1>2. \A x \in Entries : x.proc \in 0..MaxProcs
        BY DEF Entries
    <1> QED  BY <1>1, <1>2 DEF TypeOK, Claims, Claim

LEMMA SessionsKept ==
    ASSUME TypeOK, InvSessions, TypeOK', Born, [Next]_vars
    PROVE  InvSessions'
    <1>0. cache' \in Entries
        BY DEF TypeOK
    <1>1. ASSUME UNCHANGED <<cache, session, displaced>>
          PROVE  InvSessions'
        <2>1. \A s \in Sessions : Claim(s)' = Claim(s)
            BY <1>1 DEF Claim
        <2>2. /\ \A x \in Claims' : x.proc # 0 => server'[x.proc] # "unborn"
              /\ \A x, y \in Claims' : x.proc = y.proc /\ x.proc # 0 => x.config = y.config
            BY <1>0, <1>1, <2>1, ClaimsStay, ClaimsTyped
        <2> QED  BY <1>1, <2>2 DEF InvSessions
    <1>2. ASSUME NEW s \in Sessions, LoadConfig(s) \/ Yields(s)
          PROVE  InvSessions'
        <2>1. /\ \A t \in Sessions \ {s} : session'[t] = session[t]
              /\ session'[s].proc = 0 /\ session'[s].at \in {"none", "loaded"}
              /\ cache' = cache /\ displaced' = displaced
            BY <1>2 DEF LoadConfig, Yields, Gone, TypeOK
        <2>2. \A t \in Sessions : Claim(t)' = Claim(t) \/ Claim(t)'.proc = 0
            BY <2>1 DEF Claim
        <2>3. /\ \A x \in Claims' : x.proc # 0 => server'[x.proc] # "unborn"
              /\ \A x, y \in Claims' : x.proc = y.proc /\ x.proc # 0 => x.config = y.config
            BY <1>0, <2>1, <2>2, ClaimsStay, ClaimsTyped
        <2>4. \A t \in Sessions :
                 session'[t].at \in {"spawning", "ready"} <=> session'[t].proc # 0
            BY <2>1 DEF InvSessions
        <2>5. \A t \in Sessions :
                 session'[t].at = "ready" /\ session'[t].config \notin displaced' =>
                     cache' = [proc |-> session'[t].proc, config |-> session'[t].config]
            BY <2>1 DEF InvSessions
        <2> QED  BY <2>3, <2>4, <2>5 DEF InvSessions
    <1>3. ASSUME NEW s \in Sessions, Reuse(s)
          PROVE  InvSessions'
        <2>1. /\ \A t \in Sessions \ {s} : session'[t] = session[t]
              /\ session'[s].proc = cache.proc /\ session'[s].at = "ready"
              /\ session'[s].config = cache.config /\ cache.proc # 0
              /\ cache' = cache /\ displaced' = displaced
            BY <1>3 DEF Reuse, Reusable, HasServer, TypeOK, SessionStates
        <2>2. Claim(s)' = cache
            BY <2>1 DEF Claim, TypeOK, Entries
        <2>3. \A t \in Sessions : Claim(t)' = Claim(t) \/ Claim(t)' = cache
            BY <2>1, <2>2 DEF Claim
        <2>4. /\ \A x \in Claims' : x.proc # 0 => server'[x.proc] # "unborn"
              /\ \A x, y \in Claims' : x.proc = y.proc /\ x.proc # 0 => x.config = y.config
            BY <1>0, <2>1, <2>3, ClaimsStay, ClaimsTyped
        <2>5. \A t \in Sessions :
                 session'[t].at \in {"spawning", "ready"} <=> session'[t].proc # 0
            BY <2>1 DEF InvSessions
        <2>6. \A t \in Sessions :
                 session'[t].at = "ready" /\ session'[t].config \notin displaced' =>
                     cache' = [proc |-> session'[t].proc, config |-> session'[t].config]
            BY <2>1, <2>2 DEF InvSessions, Claim
        <2> QED  BY <2>4, <2>5, <2>6 DEF InvSessions
    <1>4. ASSUME NEW s \in Sessions, Launch(s)
          PROVE  InvSessions'
        <2>1. PICK p \in Procs : /\ server[p] = "unborn"
                                 /\ server' = [server EXCEPT ![p] = "alive"]
                                 /\ HasServer(s, "spawning", p)
            BY <1>4 DEF Launch
        <2>2. /\ \A t \in Sessions \ {s} : session'[t] = session[t]
              /\ session'[s].proc = p /\ session'[s].at = "spawning"
              /\ cache' = cache /\ displaced' = displaced /\ server'[p] = "alive"
            <3>1. cache' = cache /\ displaced' = displaced
                BY <1>4 DEF Launch
            <3>2. server'[p] = "alive"
                BY <2>1 DEF TypeOK
            <3>3. session' = [session EXCEPT ![s] = [@ EXCEPT !.at = "spawning", !.proc = p]]
                BY <2>1 DEF HasServer
            <3>4. session'[s].proc = p /\ session'[s].at = "spawning"
                BY <3>3 DEF TypeOK, SessionStates
            <3>5. \A t \in Sessions \ {s} : session'[t] = session[t]
                BY <3>3 DEF TypeOK
            <3> QED  BY <3>1, <3>2, <3>4, <3>5
        <2>3. p # 0
            BY DEF Procs
        <2>4. \A x \in Claims : x.proc # p
            BY <2>1, <2>3 DEF InvSessions
        <2>5. \A x \in Claims' : x \in Claims \/ x = Claim(s)'
            BY <2>2 DEF Claims, Claim
        <2>6. Claim(s)'.proc = p
            BY <2>2 DEF Claim
        <2>7. \A x \in Claims : x.proc # 0 => server'[x.proc] # "unborn"
            BY ClaimsTyped DEF InvSessions, Born, Procs
        <2>8. \A x \in Claims' : x.proc # 0 => server'[x.proc] # "unborn"
            BY <2>2, <2>5, <2>6, <2>7
        <2>9. \A x, y \in Claims' : x.proc = y.proc /\ x.proc # 0 => x.config = y.config
            BY <2>4, <2>5, <2>6 DEF InvSessions
        <2>10. \A t \in Sessions :
                 session'[t].at \in {"spawning", "ready"} <=> session'[t].proc # 0
            BY <2>2, <2>3 DEF InvSessions
        <2>11. \A t \in Sessions :
                 session'[t].at = "ready" /\ session'[t].config \notin displaced' =>
                     cache' = [proc |-> session'[t].proc, config |-> session'[t].config]
            BY <2>2 DEF InvSessions
        <2> QED  BY <2>8, <2>9, <2>10, <2>11 DEF InvSessions
    <1>5. ASSUME NEW s \in Sessions, Register(s)
          PROVE  InvSessions'
        <2>1. /\ \A t \in Sessions \ {s} : session'[t] = session[t]
              /\ session'[s].proc = session[s].proc /\ session'[s].at = "ready"
              /\ session'[s].config = session[s].config
              /\ cache' = Claim(s) /\ session[s].at = "spawning"
            BY <1>5 DEF Register, HasServer, TypeOK, SessionStates, Claim
        <2>2. \A t \in Sessions : Claim(t)' = Claim(t)
            BY <2>1 DEF Claim
        <2>3. /\ \A x \in Claims' : x.proc # 0 => server'[x.proc] # "unborn"
              /\ \A x, y \in Claims' : x.proc = y.proc /\ x.proc # 0 => x.config = y.config
            BY <1>0, <2>1, <2>2, ClaimsStay, ClaimsTyped
        <2>4. \A t \in Sessions :
                 session'[t].at \in {"spawning", "ready"} <=> session'[t].proc # 0
            BY <2>1 DEF InvSessions
        <2>5. ASSUME NEW t \in Sessions,
                     session'[t].at = "ready", session'[t].config \notin displaced'
              PROVE  cache' = [proc |-> session'[t].proc, config |-> session'[t].config]
            <3>1. CASE t = s
                BY <2>1, <3>1 DEF Claim
            <3>2. CASE t # s
                <4>1. session[t].at = "ready" /\ session[t].config \notin displaced
                    BY <1>5, <2>1, <2>5, <3>2 DEF Register
                <4>2. cache = Claim(t) /\ session[t].proc # 0
                    BY <4>1 DEF InvSessions, Claim
                <4>3. cache.proc = session[t].proc /\ cache.config = session[t].config
                    BY <4>2 DEF Claim
                <4>4. displaced' = displaced \cup {cache.config}
                    BY <1>5, <4>2, <4>3 DEF Register, Held
                <4> QED  BY <2>1, <2>5, <3>2, <4>3, <4>4
            <3> QED  BY <3>1, <3>2
        <2> QED  BY <2>3, <2>4, <2>5 DEF InvSessions
    <1>6. ASSUME \/ EditConfig \/ UNCHANGED vars
                 \/ \E c \in Calls, s \in Sessions : Begin(c, s)
                 \/ \E c \in Calls :
                       TakeId(c) \/ ReadLine(c) \/ Goes(c)
                       \/ Pushes(c, "head", "tail") \/ Pushes(c, "tail", "reading")
                 \/ \E p \in Procs : Read(p) \/ Answer(p) \/ Notify(p) \/ Stop(p) \/ Die(p)
          PROVE  UNCHANGED <<cache, session, displaced>>
        BY <1>6 DEF EditConfig, vars, Begin, TakeId, ReadLine, Goes, Pushes, Read, Answer,
                    Notify, Stop, Die, loading
    <1> QED  BY <1>1, <1>2, <1>3, <1>4, <1>5, <1>6, StepsSorted

-----------------------------------------------------------------------------
(* The line for the lock.                                                  *)

(* A call that holds the lock goes on.                                     *)
LEMMA HolderMoves ==
    ASSUME TypeOK, InvLock, Born, NEW c \in Calls, Holds(c),
           call[c].at \in Steps, call'[c].at \in Steps, call'[c].proc = call[c].proc,
           call'[c].id # 0, \A d \in Calls \ {c} : call'[d] = call[d], queue' = queue
    PROVE  InvLock'
    <1>1. ASSUME NEW d \in Calls, call'[d].at \in Steps
          PROVE  /\ call'[d].proc \in Procs /\ server'[call'[d].proc] # "unborn"
                 /\ \E k \in DOMAIN queue'[call'[d].proc] : queue'[call'[d].proc][k] = d
                 /\ call'[d].at # "waiting" =>
                        Head(queue'[call'[d].proc]) = d /\ call'[d].id # 0
        <2>1. call[d].at \in Steps /\ call'[d].proc = call[d].proc
            BY <1>1
        <2>2. /\ call[d].proc \in Procs /\ server[call[d].proc] # "unborn"
              /\ \E k \in DOMAIN queue[call[d].proc] : queue[call[d].proc][k] = d
              /\ call[d].at # "waiting" => Head(queue[call[d].proc]) = d /\ call[d].id # 0
            BY <2>1 DEF InvLock, Holds
        <2>3. CASE d = c
            BY <2>1, <2>2, <2>3 DEF Born, Holds
        <2>4. CASE d # c
            BY <2>1, <2>2, <2>4 DEF Born
        <2> QED  BY <2>3, <2>4
    <1>2. ASSUME NEW p \in Procs, NEW i \in DOMAIN queue[p], NEW j \in DOMAIN queue[p]
          PROVE  /\ call'[queue[p][i]].at \in Steps /\ call'[queue[p][i]].proc = p
                 /\ queue[p][i] = queue[p][j] => i = j
        <2>1. /\ call[queue[p][i]].at \in Steps /\ call[queue[p][i]].proc = p
              /\ queue[p][i] = queue[p][j] => i = j
            BY DEF InvLock
        <2>2. queue[p][i] \in Calls
            BY DEF TypeOK
        <2> QED  BY <2>1, <2>2
    <1> QED  BY <1>1, <1>2 DEF InvLock, Holds

LEMMA LockKept ==
    ASSUME TypeOK, InvSessions, InvLock, Born, [Next]_vars
    PROVE  InvLock'
    <1>1. ASSUME UNCHANGED <<call, queue>>
          PROVE  InvLock'
        BY <1>1 DEF InvLock, Holds, Born
    <1>2. ASSUME NEW c \in Calls, NEW s \in Sessions, Begin(c, s)
          PROVE  InvLock'
        <2> DEFINE p == session[s].proc
        <2>1. p \in Procs /\ server[p] # "unborn"
            <3>1. p # 0 /\ Claim(s) \in Claims /\ Claim(s).proc = p
                BY <1>2, ClaimsTyped DEF Begin, InvSessions, Claim
            <3>2. p \in 0..MaxProcs
                BY SessionTyped DEF TypeOK
            <3> QED  BY <3>1, <3>2 DEF InvSessions, Procs
        <2>2. /\ call'[c].at = "waiting" /\ call'[c].proc = p
              /\ \A d \in Calls \ {c} : call'[d] = call[d]
              /\ call[c].at = "none"
            BY <1>2 DEF Begin, TypeOK
        <2>3. /\ queue'[p] = Append(queue[p], c)
              /\ \A o \in Procs \ {p} : queue'[o] = queue[o]
            BY <1>2, <2>1 DEF Begin, TypeOK
        <2>4. \A o \in Procs : queue[o] \in Seq(Calls) /\ DOMAIN queue[o] = 1..Len(queue[o])
            BY DEF TypeOK
        <2>5. \A o \in Procs : \A i \in 1..Len(queue[o]) :
                 /\ queue[o][i] \in Calls \ {c}
                 /\ call[queue[o][i]].at \in Steps /\ call[queue[o][i]].proc = o
            BY <2>2, <2>4 DEF InvLock, Steps
        <2> HIDE DEF p
        <2>6. /\ DOMAIN queue'[p] = 1..(Len(queue[p]) + 1) /\ Len(queue[p]) \in Nat
              /\ \A i \in 1..Len(queue[p]) : queue'[p][i] = queue[p][i]
              /\ queue'[p][Len(queue[p]) + 1] = c
            BY <2>1, <2>3, <2>4
        <2>7. ASSUME NEW d \in Calls, call'[d].at \in Steps
              PROVE  /\ call'[d].proc \in Procs /\ server'[call'[d].proc] # "unborn"
                     /\ \E k \in DOMAIN queue'[call'[d].proc] : queue'[call'[d].proc][k] = d
                     /\ call'[d].at # "waiting" =>
                            Head(queue'[call'[d].proc]) = d /\ call'[d].id # 0
            <3>1. CASE d = c
                BY <2>1, <2>2, <2>6, <3>1 DEF Born
            <3>2. CASE d # c
                <4>1. call'[d] = call[d] /\ call[d].at \in Steps
                    BY <2>2, <2>7, <3>2
                <4>2. /\ call[d].proc \in Procs /\ server[call[d].proc] # "unborn"
                      /\ \E k \in 1..Len(queue[call[d].proc]) : queue[call[d].proc][k] = d
                      /\ call[d].at # "waiting" =>
                             Head(queue[call[d].proc]) = d /\ call[d].id # 0
                    BY <4>1, <2>4 DEF InvLock, Holds
                <4>3. CASE call[d].proc # p
                    BY <4>1, <4>2, <4>3, <2>3, <2>4 DEF Born
                <4>4. CASE call[d].proc = p
                    <5>1. PICK k \in 1..Len(queue[p]) : queue[p][k] = d
                        BY <4>2, <4>4
                    <5>2. k \in DOMAIN queue'[p] /\ queue'[p][k] = d
                        BY <5>1, <2>6
                    <5>3. Head(queue'[p]) = Head(queue[p])
                        BY <5>1, <2>1, <2>3, <2>4
                    <5> QED  BY <4>1, <4>2, <4>4, <5>2, <5>3 DEF Born
                <4> QED  BY <4>3, <4>4
            <3> QED  BY <3>1, <3>2
        <2>8. ASSUME NEW o \in Procs, NEW i \in DOMAIN queue'[o], NEW j \in DOMAIN queue'[o]
              PROVE  /\ call'[queue'[o][i]].at \in Steps /\ call'[queue'[o][i]].proc = o
                     /\ queue'[o][i] = queue'[o][j] => i = j
            <3>1. CASE o # p
                <4>1. queue'[o] = queue[o]
                    BY <2>3, <3>1
                <4>2. queue[o][i] = queue[o][j] => i = j
                    BY <2>8, <4>1 DEF InvLock
                <4> QED  BY <2>8, <4>1, <4>2, <2>2, <2>4, <2>5
            <3>2. CASE o = p
                <4>1. \A k \in 1..Len(queue[p]) : \A l \in 1..Len(queue[p]) :
                         queue[p][k] = queue[p][l] => k = l
                    BY <2>1, <2>4 DEF InvLock
                <4>2. \A k \in DOMAIN queue'[p] :
                         \/ k \in 1..Len(queue[p]) /\ queue'[p][k] = queue[p][k]
                            /\ queue[p][k] \in Calls \ {c}
                         \/ k = Len(queue[p]) + 1 /\ queue'[p][k] = c
                    BY <2>1, <2>5, <2>6
                <4>3. queue'[p][i] = queue'[p][j] => i = j
                    BY <2>8, <3>2, <4>1, <4>2
                <4>4. call'[queue'[p][i]].at \in Steps /\ call'[queue'[p][i]].proc = p
                    BY <2>8, <3>2, <4>2, <2>1, <2>2, <2>5 DEF Steps
                <4> QED  BY <3>2, <4>3, <4>4
            <3> QED  BY <3>1, <3>2
        <2> QED  BY <2>7, <2>8 DEF InvLock, Holds
    <1>3. ASSUME NEW c \in Calls, TakeId(c)
          PROVE  InvLock'
        <2>1. call[c].proc \in Procs
            BY <1>3, UnderWayAt DEF TakeId, Steps
        <2>2. nextId[call[c].proc] # 0
            BY <2>1 DEF TypeOK
        <2>3. /\ call'[c].at = "head" /\ call'[c].id = nextId[call[c].proc]
              /\ call'[c].proc = call[c].proc
              /\ \A d \in Calls \ {c} : call'[d] = call[d]
            BY <1>3 DEF TakeId, TypeOK, CallStates
        <2> QED  BY <1>3, <2>2, <2>3, HolderMoves DEF TakeId, Steps
    <1>4. ASSUME NEW c \in Calls, ReadLine(c)
          PROVE  InvLock'
        <2>1. Holds(c) /\ call[c].id # 0 /\ call[c].at \in Steps
            BY <1>4 DEF ReadLine, InvLock, Steps
        <2>2. /\ call'[c].at \in Steps /\ call'[c].id = call[c].id
              /\ call'[c].proc = call[c].proc
              /\ \A d \in Calls \ {c} : call'[d] = call[d]
            BY <1>4 DEF ReadLine, TypeOK, CallStates, Steps
        <2>3. queue' = queue
            BY <1>4 DEF ReadLine
        <2> QED  BY <2>1, <2>2, <2>3, HolderMoves
    <1>5. ASSUME NEW c \in Calls, NEW part \in {"head", "tail"}, NEW next \in Steps,
                 Pushes(c, part, next)
          PROVE  InvLock'
        <2>1. Holds(c) /\ call[c].id # 0 /\ call[c].at \in Steps
            BY <1>5 DEF Pushes, InvLock, Steps
        <2>2. /\ call'[c].at = next /\ call'[c].id = call[c].id
              /\ call'[c].proc = call[c].proc
              /\ \A d \in Calls \ {c} : call'[d] = call[d]
            BY <1>5 DEF Pushes, TypeOK, CallStates
        <2>3. queue' = queue
            BY <1>5 DEF Pushes
        <2> QED  BY <2>1, <2>2, <2>3, HolderMoves
    <1>6. ASSUME NEW c \in Calls, Goes(c)
          PROVE  InvLock'
        BY <1>6, LeaveKeepsLock DEF Goes, Born
    <1>7. ASSUME \/ EditConfig \/ UNCHANGED vars
                 \/ \E s \in Sessions :
                       LoadConfig(s) \/ Reuse(s) \/ Launch(s) \/ Register(s) \/ Yields(s)
                 \/ \E p \in Procs : Read(p) \/ Answer(p) \/ Notify(p) \/ Stop(p) \/ Die(p)
          PROVE  UNCHANGED <<call, queue>>
        BY <1>7 DEF EditConfig, vars, LoadConfig, Reuse, Launch, Register, Yields, Read,
                    Answer, Notify, Stop, Die, calls
    <1> QED  BY <1>1, <1>2, <1>3, <1>4, <1>5, <1>6, <1>7, StepsSorted DEF Steps

-----------------------------------------------------------------------------
(* Numbers.                                                                *)

Number(x) == [id |-> x.id, of |-> x.of]

(* No step but TakeId brings a number into use.                            *)
LEMMA IssuedShrinks ==
    ASSUME NEW p \in Procs,
           \A c \in Calls : call'[c].proc = p /\ call'[c].id # 0 =>
               call[c].proc = p /\ call'[c].id = call[c].id,
           \A i \in DOMAIN stdin'[p] : Number(stdin'[p][i]) \in Issued(p),
           todo'[p] \subseteq Issued(p),
           \A i \in DOMAIN stdout'[p] :
               stdout'[p][i].id # 0 => stdout'[p][i] \in Issued(p)
    PROVE  Issued(p)' \subseteq Issued(p)
    <1>1. \A c \in Calls : call'[c].proc = p /\ call'[c].id # 0 =>
              [id |-> call'[c].id, of |-> c] \in Issued(p)
        BY DEF Issued
    <1> QED  BY <1>1 DEF Issued, Number

LEMMA IssuedHas ==
    ASSUME NEW p \in Procs
    PROVE  /\ \A i \in DOMAIN stdin[p] : Number(stdin[p][i]) \in Issued(p)
           /\ todo[p] \subseteq Issued(p)
           /\ \A i \in DOMAIN stdout[p] :
                 stdout[p][i].id # 0 => stdout[p][i] \in Issued(p)
           /\ \A c \in Calls : call[c].proc = p /\ call[c].id # 0 =>
                 [id |-> call[c].id, of |-> c] \in Issued(p)
    BY DEF Issued, Number

LEMMA IdsStay ==
    ASSUME InvIds, nextId' = nextId, \A p \in Procs : Issued(p)' \subseteq Issued(p),
           \A c \in Calls : call'[c].at = "answered" =>
               call'[c].got = c \/ call'[c] = call[c]
    PROVE  InvIds'
    BY DEF InvIds

(* The pipes lose what they lose, the calls keep their numbers.            *)
LEMMA IdsDropped ==
    ASSUME InvIds, nextId' = nextId,
           \A c \in Calls : \/ call'[c] = call[c]
                            \/ call'[c].id = 0 /\ call'[c].at # "answered",
           \A p \in Procs : /\ stdin'[p] = stdin[p] \/ stdin'[p] = <<>>
                            /\ todo'[p] \subseteq todo[p]
                            /\ stdout'[p] = stdout[p]
    PROVE  InvIds'
    <1>1. ASSUME NEW p \in Procs
          PROVE  Issued(p)' \subseteq Issued(p)
        <2>1. \A i \in DOMAIN stdin'[p] : Number(stdin'[p][i]) \in Issued(p)
            <3>1. CASE stdin'[p] = stdin[p]
                BY <3>1, IssuedHas
            <3>2. CASE stdin'[p] = <<>>
                BY <3>2
            <3> QED  BY <3>1, <3>2
        <2> QED  BY <2>1, IssuedHas, IssuedShrinks
    <1> QED  BY <1>1, IdsStay

LEMMA IdsKept ==
    ASSUME TypeOK, InvLock, InvIds, [Next]_vars
    PROVE  InvIds'
    <1>1. ASSUME UNCHANGED <<call, stdin, todo, stdout, nextId>>
          PROVE  InvIds'
        BY <1>1, IdsDropped
    <1>2. ASSUME NEW p, Dies(p), UNCHANGED <<call, nextId>>
          PROVE  InvIds'
        <2>1. \A o \in Procs : /\ stdin'[o] = stdin[o] \/ stdin'[o] = <<>>
                               /\ todo'[o] \subseteq todo[o] /\ stdout'[o] = stdout[o]
            BY <1>2 DEF Dies, TypeOK
        <2> QED  BY <1>2, <2>1, IdsDropped
    <1>3. ASSUME NEW s \in Sessions, Yields(s)
          PROVE  InvIds'
        BY <1>1, <1>2, <1>3 DEF Yields, Reap, pipes, calls
    <1>4. ASSUME NEW p \in Procs, Die(p)
          PROVE  InvIds'
        BY <1>2, <1>4 DEF Die, calls
    <1>5. ASSUME NEW c \in Calls, NEW s \in Sessions, Begin(c, s)
          PROVE  InvIds'
        <2>1. call'[c].id = 0 /\ call'[c].at # "answered"
              /\ \A d \in Calls \ {c} : call'[d] = call[d]
            BY <1>5 DEF Begin, TypeOK
        <2>2. UNCHANGED <<stdin, todo, stdout, nextId>>
            BY <1>5 DEF Begin, pipes
        <2> QED  BY <2>1, <2>2, IdsDropped
    <1>6. ASSUME NEW c \in Calls, Goes(c)
          PROVE  InvIds'
        <2>1. call'[c].id = 0 /\ call'[c].at # "answered"
              /\ \A d \in Calls \ {c} : call'[d] = call[d]
            BY <1>6, LeaveFacts DEF Goes
        <2>2. UNCHANGED <<stdin, todo, stdout, nextId>>
            BY <1>6 DEF Goes, pipes
        <2> QED  BY <2>1, <2>2, IdsDropped
    <1>7. ASSUME NEW c \in Calls, TakeId(c)
          PROVE  InvIds'
        <2> DEFINE p == call[c].proc
                   n == nextId[p]
        <2>1. p \in Procs /\ n \in Nat \ {0}
            BY <1>7, UnderWayAt DEF TakeId, Steps, TypeOK
        <2>2. /\ call'[c].at = "head" /\ call'[c].id = n /\ call'[c].proc = p
              /\ \A d \in Calls \ {c} : call'[d] = call[d]
              /\ nextId'[p] = n + 1 /\ \A o \in Procs \ {p} : nextId'[o] = nextId[o]
              /\ UNCHANGED <<stdin, todo, stdout>>
            BY <1>7, <2>1 DEF TakeId, TypeOK, CallStates, pipes
        <2> HIDE DEF p, n
        <2>3. ASSUME NEW o \in Procs
              PROVE  \A x \in Issued(o)' :
                         x \in Issued(o) \/ (o = p /\ x = [id |-> n, of |-> c])
            BY <2>2 DEF Issued
        <2>4. ASSUME NEW o \in Procs, NEW x \in Issued(o)', NEW y \in Issued(o)'
              PROVE  x.id \in 1..(nextId'[o] - 1) /\ (x.id = y.id => x.of = y.of)
            <3>1. \A z \in Issued(o) : z.id \in 1..(nextId[o] - 1)
                BY DEF InvIds
            <3>2. CASE o # p
                <4>1. x \in Issued(o) /\ y \in Issued(o) /\ nextId'[o] = nextId[o]
                    BY <2>2, <2>3, <2>4, <3>2
                <4> QED  BY <4>1 DEF InvIds
            <3>3. CASE o = p
                <4>1. nextId[o] = n /\ nextId'[o] = n + 1
                    BY <2>2, <3>3 DEF n, p
                <4>2. \A z \in Issued(o) : z.id \in 1..(n - 1)
                    BY <3>1, <4>1
                <4>3. x \in Issued(o) \/ x = [id |-> n, of |-> c]
                    BY <2>3, <2>4
                <4>4. y \in Issued(o) \/ y = [id |-> n, of |-> c]
                    BY <2>3, <2>4
                <4>5. x.id \in 1..n
                    BY <4>2, <4>3, <2>1
                <4>6. ASSUME x.id = y.id
                      PROVE  x.of = y.of
                    <5>1. CASE x \in Issued(o) /\ y \in Issued(o)
                        BY <4>6, <5>1 DEF InvIds
                    <5>2. CASE x = [id |-> n, of |-> c] /\ y = [id |-> n, of |-> c]
                        BY <5>2
                    <5>3. ~(x \in Issued(o) /\ y = [id |-> n, of |-> c])
                        BY <4>2, <4>6, <2>1
                    <5>4. ~(y \in Issued(o) /\ x = [id |-> n, of |-> c])
                        BY <4>2, <4>6, <2>1
                    <5> QED  BY <4>3, <4>4, <5>1, <5>2, <5>3, <5>4
                <4> QED  BY <4>1, <4>5, <4>6, <2>1
            <3> QED  BY <3>2, <3>3
        <2>5. \A d \in Calls : call'[d].at = "answered" => call'[d].got = d
            BY <2>2 DEF InvIds
        <2> QED  BY <2>4, <2>5 DEF InvIds
    <1>8. ASSUME NEW c \in Calls, NEW part \in {"head", "tail"}, NEW next \in {"tail", "reading"},
                 Pushes(c, part, next)
          PROVE  InvIds'
        <2> DEFINE p == call[c].proc
        <2>1. p \in Procs /\ call[c].id # 0
            BY <1>8 DEF Pushes, InvLock, Steps
        <2>2. /\ call'[c].at = next /\ call'[c].id = call[c].id /\ call'[c].proc = p
              /\ \A d \in Calls \ {c} : call'[d] = call[d]
              /\ UNCHANGED <<todo, stdout, nextId>>
            BY <1>8 DEF Pushes, TypeOK, CallStates
        <2>3. /\ stdin'[p] = Append(stdin[p], Piece(c, part))
              /\ \A o \in Procs \ {p} : stdin'[o] = stdin[o]
            BY <1>8, <2>1 DEF Pushes, TypeOK
        <2>4. Number(Piece(c, part)) \in Issued(p)
            BY <2>1, IssuedHas DEF Number, Piece
        <2>5. stdin[p] \in Seq(Pieces)
            BY <2>1 DEF TypeOK
        <2> HIDE DEF p
        <2>6. ASSUME NEW o \in Procs
              PROVE  Issued(o)' \subseteq Issued(o)
            <3>1. \A i \in DOMAIN stdin'[o] : Number(stdin'[o][i]) \in Issued(o)
                <4>1. CASE o # p
                    BY <4>1, <2>3, IssuedHas
                <4>2. CASE o = p
                    <5>1. \A i \in DOMAIN stdin'[p] :
                             \/ i \in DOMAIN stdin[p] /\ stdin'[p][i] = stdin[p][i]
                             \/ stdin'[p][i] = Piece(c, part)
                        BY <2>3, <2>5
                    <5> QED  BY <4>2, <5>1, <2>1, <2>4, IssuedHas
                <4> QED  BY <4>1, <4>2
            <3>2. \A d \in Calls : call'[d].proc = o /\ call'[d].id # 0 =>
                      call[d].proc = o /\ call'[d].id = call[d].id
                BY <2>2 DEF p
            <3> QED  BY <2>2, <3>1, <3>2, IssuedHas, IssuedShrinks
        <2>7. \A d \in Calls : call'[d].at = "answered" => call'[d] = call[d]
            BY <1>8, <2>2
        <2> QED  BY <2>2, <2>6, <2>7, IdsStay
    <1>9. ASSUME NEW c \in Calls, ReadLine(c)
          PROVE  InvIds'
        <2> DEFINE p == call[c].proc
                   line == Head(stdout[p])
        <2>1. p \in Procs /\ call[c].id # 0
            BY <1>9 DEF ReadLine, InvLock, Steps
        <2>2. stdout[p] \in Seq(Lines) /\ stdout[p] # <<>>
            BY <1>9, <2>1 DEF ReadLine, TypeOK
        <2>3. 1 \in DOMAIN stdout[p] /\ stdout[p][1] = line
            BY <2>2
        <2>4. /\ stdout'[p] = Tail(stdout[p])
              /\ \A o \in Procs \ {p} : stdout'[o] = stdout[o]
              /\ UNCHANGED <<stdin, todo, nextId>>
            BY <1>9, <2>1 DEF ReadLine, TypeOK
        <2>5. /\ \A d \in Calls \ {c} : call'[d] = call[d]
              /\ call'[c].id = call[c].id /\ call'[c].proc = p
              /\ call'[c].at = "answered" =>
                    line.id = call[c].id /\ call'[c].got = line.of
            BY <1>9 DEF ReadLine, Matches, TypeOK, CallStates
        <2> HIDE DEF p, line
        <2>6. line.id = call[c].id => line.of = c
            <3>1. [id |-> call[c].id, of |-> c] \in Issued(p)
                BY <2>1, IssuedHas DEF p
            <3>2. line.id # 0 => line \in Issued(p)
                BY <2>1, <2>3, IssuedHas
            <3> QED  BY <2>1, <3>1, <3>2 DEF InvIds
        <2>7. ASSUME NEW o \in Procs
              PROVE  Issued(o)' \subseteq Issued(o)
            <3>1. \A i \in DOMAIN stdout'[o] :
                      stdout'[o][i].id # 0 => stdout'[o][i] \in Issued(o)
                <4>1. CASE o # p
                    BY <4>1, <2>4, IssuedHas
                <4>2. CASE o = p
                    <5>1. \A i \in DOMAIN stdout'[p] :
                              i + 1 \in DOMAIN stdout[p] /\ stdout'[p][i] = stdout[p][i + 1]
                        BY <2>2, <2>4
                    <5> QED  BY <4>2, <5>1, <2>1, IssuedHas
                <4> QED  BY <4>1, <4>2
            <3>2. \A d \in Calls : call'[d].proc = o /\ call'[d].id # 0 =>
                      call[d].proc = o /\ call'[d].id = call[d].id
                BY <2>5 DEF p
            <3> QED  BY <2>4, <3>1, <3>2, IssuedHas, IssuedShrinks
        <2>8. \A d \in Calls : call'[d].at = "answered" =>
                  call'[d].got = d \/ call'[d] = call[d]
            BY <2>5, <2>6
        <2> QED  BY <2>4, <2>7, <2>8, IdsStay
    <1>10. ASSUME NEW p \in Procs, Read(p)
           PROVE  InvIds'
        <2>1. stdin[p] \in Seq(Pieces) /\ stdin[p] # <<>>
            BY <1>10 DEF Read, TypeOK
        <2> DEFINE piece == Head(stdin[p])
        <2>2. 1 \in DOMAIN stdin[p] /\ stdin[p][1] = piece
            BY <2>1
        <2>3. Number(piece) \in Issued(p)
            BY <2>2, IssuedHas
        <2>4. /\ stdin'[p] = Tail(stdin[p])
              /\ \A o \in Procs \ {p} : stdin'[o] = stdin[o] /\ todo'[o] = todo[o]
              /\ todo'[p] \subseteq todo[p] \cup {Number(piece)}
              /\ UNCHANGED <<stdout, nextId, call>>
            BY <1>10 DEF Read, TypeOK, Number, calls
        <2> HIDE DEF piece
        <2>5. ASSUME NEW o \in Procs
              PROVE  Issued(o)' \subseteq Issued(o)
            <3>1. \A i \in DOMAIN stdin'[o] : Number(stdin'[o][i]) \in Issued(o)
                <4>1. CASE o # p
                    BY <4>1, <2>4, IssuedHas
                <4>2. CASE o = p
                    <5>1. \A i \in DOMAIN stdin'[p] :
                              i + 1 \in DOMAIN stdin[p] /\ stdin'[p][i] = stdin[p][i + 1]
                        BY <2>1, <2>4
                    <5> QED  BY <4>2, <5>1, IssuedHas
                <4> QED  BY <4>1, <4>2
            <3>2. todo'[o] \subseteq Issued(o)
                BY <2>3, <2>4, IssuedHas
            <3> QED  BY <2>4, <3>1, <3>2, IssuedHas, IssuedShrinks
        <2> QED  BY <2>4, <2>5, IdsStay
    <1>11. ASSUME NEW p \in Procs, NEW line, line \in todo[p] \/ line.id = 0, Say(p, line),
                  \A o \in Procs : todo'[o] \subseteq todo[o],
                  UNCHANGED <<stdin, call, nextId>>
           PROVE  InvIds'
        <2>1. /\ stdout'[p] = Append(stdout[p], line)
              /\ \A o \in Procs \ {p} : stdout'[o] = stdout[o]
              /\ stdout[p] \in Seq(Lines)
            BY <1>11 DEF Say, TypeOK
        <2>2. line.id # 0 => line \in Issued(p)
            BY <1>11, IssuedHas
        <2>3. \A i \in DOMAIN stdout'[p] :
                 \/ i \in DOMAIN stdout[p] /\ stdout'[p][i] = stdout[p][i]
                 \/ stdout'[p][i] = line
            BY <2>1
        <2>4. ASSUME NEW o \in Procs
              PROVE  Issued(o)' \subseteq Issued(o)
            <3>1. \A i \in DOMAIN stdout'[o] :
                      stdout'[o][i].id # 0 => stdout'[o][i] \in Issued(o)
                BY <2>1, <2>2, <2>3, IssuedHas
            <3>2. todo'[o] \subseteq Issued(o)
                BY <1>11, IssuedHas
            <3>3. \A d \in Calls : call'[d].proc = o /\ call'[d].id # 0 =>
                      call[d].proc = o /\ call'[d].id = call[d].id
                BY <1>11
            <3>4. \A i \in DOMAIN stdin'[o] : Number(stdin'[o][i]) \in Issued(o)
                BY <1>11, IssuedHas
            <3> QED  BY <3>1, <3>2, <3>3, <3>4, IssuedShrinks
        <2> QED  BY <1>11, <2>4, IdsStay
    <1>12. ASSUME NEW p \in Procs, Answer(p) \/ Notify(p)
           PROVE  InvIds'
        <2>1. CASE Notify(p)
            BY <1>11, <2>1 DEF Notify, calls
        <2>2. CASE Answer(p)
            <3>1. PICK r \in todo[p] : Say(p, r) /\ todo' = [todo EXCEPT ![p] = @ \ {r}]
                BY <2>2 DEF Answer
            <3>2. \A o \in Procs : todo'[o] \subseteq todo[o]
                BY <3>1 DEF TypeOK
            <3> QED  BY <1>11, <2>2, <3>1, <3>2 DEF Answer, calls
        <2> QED  BY <1>12, <2>1, <2>2
    <1>13. ASSUME \/ EditConfig \/ UNCHANGED vars
                  \/ \E s \in Sessions :
                        LoadConfig(s) \/ Reuse(s) \/ Launch(s) \/ Register(s)
                  \/ \E p \in Procs : Stop(p)
           PROVE  UNCHANGED <<call, stdin, todo, stdout, nextId>>
        BY <1>13 DEF EditConfig, vars, LoadConfig, Reuse, Launch, Register, Stop, calls, pipes
    <1> QED  BY <1>1, <1>3, <1>4, <1>5, <1>6, <1>7, <1>8, <1>9, <1>10, <1>12, <1>13,
                StepsSorted

-----------------------------------------------------------------------------
(* Lines.                                                                  *)

LEMMA LinesStay ==
    ASSUME InvLines, Buried, garbled' = garbled, cut \subseteq cut',
           \A p \in Procs : server'[p] # "dead" =>
               \/ p \in cut'
               \/ /\ stdin'[p] = stdin[p] /\ heard'[p] = heard[p]
                  /\ \A c \in Calls : CutOff(p, c)' <=> CutOff(p, c)
    PROVE  InvLines'
    <1>1. ASSUME NEW p \in Procs, server'[p] # "dead", p \notin cut'
          PROVE  /\ WholeLines(heard'[p], stdin'[p])
                 /\ \A c \in Calls : Unfinished(heard'[p], stdin'[p]) = c <=> CutOff(p, c)'
        <2>1. /\ WholeLines(heard[p], stdin[p])
              /\ \A c \in Calls : Unfinished(heard[p], stdin[p]) = c <=> CutOff(p, c)
            BY <1>1 DEF InvLines, Buried
        <2>2. /\ stdin'[p] = stdin[p] /\ heard'[p] = heard[p]
              /\ \A c \in Calls : CutOff(p, c)' <=> CutOff(p, c)
            BY <1>1
        <2> QED  BY <2>1, <2>2
    <1>2. \A p \in Procs : server'[p] # "dead" =>
              \/ p \in cut'
              \/ /\ WholeLines(heard'[p], stdin'[p])
                 /\ \A c \in Calls : Unfinished(heard'[p], stdin'[p]) = c <=> CutOff(p, c)'
        BY <1>1
    <1> QED  BY <1>2 DEF InvLines

(* A piece is added at one end of the pipe and taken at the other.         *)
LEMMA Pushed ==
    ASSUME NEW h, NEW q \in Seq(Pieces), NEW x \in Pieces,
           WholeLines(h, q), Fits(Unfinished(h, q), x)
    PROVE  WholeLines(h, Append(q, x)) /\ Unfinished(h, Append(q, x)) = After(x)
    <1> DEFINE r == Append(q, x)
    <1>1. /\ Len(r) = Len(q) + 1 /\ r # <<>> /\ Len(q) \in Nat
          /\ r[Len(q) + 1] = x /\ \A i \in 1..Len(q) : r[i] = q[i]
          /\ q = <<>> <=> Len(q) = 0
        OBVIOUS
    <1> HIDE DEF r
    <1>2. Fits(h, r[1])
        <2>1. CASE q = <<>>
            BY <1>1, <2>1 DEF Unfinished
        <2>2. CASE q # <<>>
            BY <1>1, <2>2 DEF WholeLines
        <2> QED  BY <2>1, <2>2
    <1>3. ASSUME NEW i \in 1..Len(q)
          PROVE  Fits(After(r[i]), r[i + 1])
        <2>1. CASE i = Len(q)
            BY <1>1, <1>3, <2>1 DEF Unfinished
        <2>2. CASE i # Len(q)
            <3>1. i \in 1..(Len(q) - 1) /\ i + 1 \in 1..Len(q)
                BY <1>1, <1>3, <2>2
            <3>2. r[i] = q[i] /\ r[i + 1] = q[i + 1]
                BY <1>1, <3>1
            <3> QED  BY <3>1, <3>2 DEF WholeLines
        <2> QED  BY <2>1, <2>2
    <1>4. WholeLines(h, r)
        BY <1>1, <1>2, <1>3 DEF WholeLines
    <1>5. Unfinished(h, r) = After(x)
        BY <1>1 DEF Unfinished
    <1> QED  BY <1>4, <1>5 DEF r

LEMMA Taken ==
    ASSUME NEW h, NEW q \in Seq(Pieces), q # <<>>, WholeLines(h, q)
    PROVE  /\ Fits(h, q[1]) /\ WholeLines(After(q[1]), Tail(q))
           /\ Unfinished(After(q[1]), Tail(q)) = Unfinished(h, q)
    <1> DEFINE r == Tail(q)
    <1>1. /\ Len(q) \in Nat \ {0} /\ Len(r) = Len(q) - 1 /\ (r = <<>> <=> Len(q) = 1)
          /\ \A i \in 1..(Len(q) - 1) : r[i] = q[i + 1]
        <2>1. Len(q) \in Nat \ {0}
            BY EmptySeq
        <2>2. r \in Seq(Pieces) /\ Len(r) = Len(q) - 1
              /\ \A i \in 1..(Len(q) - 1) : r[i] = q[i + 1]
            BY HeadTailProperties
        <2>3. r = <<>> <=> Len(r) = 0
            BY <2>2, EmptySeq
        <2> QED  BY <2>1, <2>2, <2>3
    <1> HIDE DEF r
    <1>2. q[1] \in Pieces
        BY <1>1
    <1>3. After(q[1]) # Spoiled
        <2>1. q[1].of \in Calls
            BY <1>2, PieceTyped
        <2> QED  BY <2>1 DEF After, Calls, Spoiled
    <1>4. r # <<>> => Fits(After(q[1]), r[1])
        <2>1. ASSUME r # <<>>
              PROVE  1 \in 1..(Len(q) - 1)
            BY <1>1, <2>1
        <2> QED  BY <1>1, <2>1 DEF WholeLines
    <1>5. ASSUME NEW i \in 1..(Len(r) - 1)
          PROVE  Fits(After(r[i]), r[i + 1])
        <2>1. i + 1 \in 1..(Len(q) - 1) /\ i \in 1..(Len(q) - 1)
            BY <1>1, <1>5
        <2> QED  BY <1>1, <2>1 DEF WholeLines
    <1>6. Unfinished(After(q[1]), r) = Unfinished(h, q)
        <2>1. CASE r = <<>>
            BY <1>1, <2>1 DEF Unfinished
        <2>2. CASE r # <<>>
            <3>1. Len(q) - 1 \in 1..(Len(q) - 1) /\ q # <<>>
                BY <1>1, <2>2
            <3>2. r[Len(r)] = q[Len(q)]
                BY <1>1, <3>1
            <3> QED  BY <2>2, <3>1, <3>2 DEF Unfinished
        <2> QED  BY <2>1, <2>2
    <1> QED  BY <1>3, <1>4, <1>5, <1>6 DEF WholeLines, r

(* Only the call that holds the lock is in the middle of its line.         *)
LEMMA OneCutOff ==
    ASSUME InvLock, NEW p \in Procs, NEW c \in Calls, NEW d \in Calls,
           call[c].proc = p, call[c].at \in {"head", "tail"}, CutOff(p, d)
    PROVE  d = c
    BY DEF InvLock, Holds, CutOff, Steps

LEMMA PushKeepsLines ==
    ASSUME TypeOK, InvLock, InvLines, Buried, NEW c \in Calls,
           Pushes(c, "head", "tail") \/ Pushes(c, "tail", "reading")
    PROVE  InvLines'
    <1>1. PICK p \in Procs : p = call[c].proc
        BY UnderWayAt DEF Pushes, Steps
    <1>2. PICK part \in {"head", "tail"} :
             /\ call[c].at = part /\ stdin'[p] = Append(stdin[p], Piece(c, part))
             /\ part = "head" <=> call'[c].at = "tail"
        <2>1. DOMAIN call = Calls /\ DOMAIN call[c] = {"at", "by", "proc", "id", "got"}
              /\ DOMAIN stdin = Procs
            BY DEF TypeOK, CallStates
        <2>2. ASSUME NEW part, NEW next, Pushes(c, part, next)
              PROVE  /\ call[c].at = part /\ stdin'[p] = Append(stdin[p], Piece(c, part))
                     /\ call'[c].at = next
            BY <1>1, <2>1, <2>2 DEF Pushes
        <2>3. CASE Pushes(c, "head", "tail")
            BY <2>2, <2>3
        <2>4. CASE Pushes(c, "tail", "reading")
            BY <2>2, <2>4
        <2> QED  BY <2>3, <2>4
    <1>3. /\ \A o \in Procs \ {p} : stdin'[o] = stdin[o]
          /\ UNCHANGED <<heard, garbled, cut>> /\ call'[c].proc = p
          /\ \A d \in Calls \ {c} : call'[d] = call[d]
        <2>1. DOMAIN call = Calls /\ DOMAIN call[c] = {"at", "by", "proc", "id", "got"}
            BY DEF TypeOK, CallStates
        <2>2. DOMAIN stdin = Procs
            BY DEF TypeOK
        <2>3. CASE Pushes(c, "head", "tail")
            BY <1>1, <2>1, <2>2, <2>3 DEF Pushes
        <2>4. CASE Pushes(c, "tail", "reading")
            BY <1>1, <2>1, <2>2, <2>4 DEF Pushes
        <2> QED  BY <2>3, <2>4
    <1>4. ASSUME NEW o \in Procs \ {p}, server'[o] # "dead", o \notin cut
          PROVE  /\ WholeLines(heard'[o], stdin'[o])
                 /\ \A d \in Calls : Unfinished(heard'[o], stdin'[o]) = d <=> CutOff(o, d)'
        <2>1. \A d \in Calls : CutOff(o, d)' <=> CutOff(o, d)
            BY <1>1, <1>3 DEF CutOff
        <2>2. /\ WholeLines(heard[o], stdin[o])
              /\ \A d \in Calls : Unfinished(heard[o], stdin[o]) = d <=> CutOff(o, d)
            BY <1>4 DEF InvLines, Buried
        <2> QED  BY <1>3, <2>1, <2>2
    <1>5. ASSUME server'[p] # "dead", p \notin cut
          PROVE  /\ WholeLines(heard'[p], stdin'[p])
                 /\ \A d \in Calls : Unfinished(heard'[p], stdin'[p]) = d <=> CutOff(p, d)'
        <2> DEFINE u == Unfinished(heard[p], stdin[p])
                   x == Piece(c, part)
        <2>1. /\ WholeLines(heard[p], stdin[p])
              /\ \A d \in Calls : u = d <=> CutOff(p, d)
            BY <1>5 DEF InvLines, Buried
        <2>2. u \in Calls \cup {0}
            <3>1. CASE stdin[p] = <<>>
                <4>1. heard[p] \in 0..Spoiled /\ heard[p] # Spoiled /\ u = heard[p]
                    BY <2>1, <3>1 DEF TypeOK, Unfinished, WholeLines
                <4>2. MaxCalls \in Nat
                    BY McpAssumption
                <4> QED  BY <4>1, <4>2 DEF Calls, Spoiled
            <3>2. CASE stdin[p] # <<>>
                <4>1. stdin[p][Len(stdin[p])] \in Pieces
                    BY <3>2 DEF TypeOK
                <4> QED  BY <3>2, <4>1, PieceTyped DEF Unfinished, After
            <3> QED  BY <3>1, <3>2
        <2>3. x \in Pieces /\ x.part = part /\ x.of = c
            <3>1. call[c].id \in Nat
                BY CallTyped DEF TypeOK
            <3> QED  BY <3>1 DEF Piece, Pieces
        <2>4. stdin[p] \in Seq(Pieces)
            BY DEF TypeOK
        <2>5. u = IF part = "head" THEN 0 ELSE c
            <3>1. \A d \in Calls : CutOff(p, d) => d = c
                BY <1>1, <1>2, OneCutOff
            <3>2. CASE part = "head"
                <4>1. ~CutOff(p, c)
                    BY <1>2, <3>2 DEF CutOff
                <4> QED  BY <2>1, <2>2, <3>1, <3>2, <4>1
            <3>3. CASE part = "tail"
                <4>1. CutOff(p, c)
                    BY <1>1, <1>2, <3>3 DEF CutOff
                <4> QED  BY <2>1, <3>3, <4>1
            <3> QED  BY <3>2, <3>3
        <2> HIDE DEF u, x
        <2>6. 0 \notin Calls
            BY DEF Calls
        <2>7. Fits(u, x)
            BY <2>3, <2>5, <2>6 DEF Fits
        <2>8. WholeLines(heard'[p], stdin'[p]) /\ Unfinished(heard'[p], stdin'[p]) = After(x)
            BY <1>2, <1>3, <2>1, <2>3, <2>4, <2>7, Pushed DEF u, x
        <2>9. ASSUME NEW d \in Calls
              PROVE  After(x) = d <=> CutOff(p, d)'
            <3>1. CASE d = c
                BY <1>2, <1>3, <2>3, <2>6, <3>1 DEF After, CutOff
            <3>2. CASE d # c
                <4>1. ~CutOff(p, d)
                    BY <1>1, <1>2, <3>2, OneCutOff
                <4> QED  BY <1>3, <2>3, <2>6, <3>2, <4>1 DEF After, CutOff
            <3> QED  BY <3>1, <3>2
        <2> QED  BY <2>8, <2>9
    <1>6. \A o \in Procs : server'[o] # "dead" =>
              \/ o \in cut
              \/ /\ WholeLines(heard'[o], stdin'[o])
                 /\ \A d \in Calls : Unfinished(heard'[o], stdin'[o]) = d <=> CutOff(o, d)'
        BY <1>4, <1>5
    <1> QED  BY <1>3, <1>6 DEF InvLines

LEMMA ReadKeepsLines ==
    ASSUME TypeOK, InvLines, NEW p \in Procs, Read(p)
    PROVE  InvLines'
    <1> DEFINE piece == Head(stdin[p])
    <1>1. /\ stdin[p] \in Seq(Pieces) /\ stdin[p] # <<>> /\ server[p] = "alive"
          /\ UNCHANGED <<call, server, cut>>
        BY DEF Read, TypeOK, calls
    <1>2. piece = stdin[p][1] /\ piece \in Pieces
        BY <1>1
    <1>3. /\ stdin'[p] = Tail(stdin[p])
          /\ \A o \in Procs \ {p} : stdin'[o] = stdin[o] /\ heard'[o] = heard[o]
          /\ piece.part = "head" => heard'[p] = IF heard[p] = 0 THEN piece.of ELSE Spoiled
          /\ piece.part = "tail" => heard'[p] = 0
          /\ garbled' = garbled
             \/ /\ garbled' = garbled \cup {p}
                /\ piece.part = "tail" /\ heard[p] # piece.of
        BY DEF Read, TypeOK
    <1> HIDE DEF piece
    <1>4. \A o \in Procs, c \in Calls : CutOff(o, c)' <=> CutOff(o, c)
        BY <1>1 DEF CutOff
    <1>5. ASSUME p \notin cut
          PROVE  /\ WholeLines(heard'[p], stdin'[p]) /\ garbled' = garbled
                 /\ \A c \in Calls : Unfinished(heard'[p], stdin'[p]) = c <=> CutOff(p, c)'
        <2>1. /\ WholeLines(heard[p], stdin[p])
              /\ \A c \in Calls : Unfinished(heard[p], stdin[p]) = c <=> CutOff(p, c)
            BY <1>1, <1>5 DEF InvLines
        <2>2. /\ Fits(heard[p], piece) /\ WholeLines(After(piece), Tail(stdin[p]))
              /\ Unfinished(After(piece), Tail(stdin[p])) = Unfinished(heard[p], stdin[p])
            BY <1>1, <1>2, <2>1, Taken
        <2>3. piece.part \in {"head", "tail"} /\ piece.of \in Calls
            BY <1>2, PieceTyped
        <2>4. heard'[p] = After(piece) /\ garbled' = garbled
            BY <1>3, <2>2, <2>3 DEF Fits, After
        <2> QED  BY <1>3, <1>4, <2>1, <2>2, <2>4
    <1>6. ASSUME NEW o \in Procs, server'[o] # "dead", o \notin cut
          PROVE  /\ WholeLines(heard'[o], stdin'[o])
                 /\ \A c \in Calls : Unfinished(heard'[o], stdin'[o]) = c <=> CutOff(o, c)'
        <2>1. CASE o = p
            BY <1>5, <1>6, <2>1
        <2>2. CASE o # p
            <3>1. /\ WholeLines(heard[o], stdin[o])
                  /\ \A c \in Calls : Unfinished(heard[o], stdin[o]) = c <=> CutOff(o, c)
                BY <1>1, <1>6 DEF InvLines
            <3>2. stdin'[o] = stdin[o] /\ heard'[o] = heard[o]
                BY <1>3, <2>2
            <3> QED  BY <1>4, <3>1, <3>2
        <2> QED  BY <2>1, <2>2
    <1>7. garbled' \subseteq cut
        BY <1>3, <1>5 DEF InvLines
    <1>8. \A o \in Procs : server'[o] # "dead" =>
              \/ o \in cut
              \/ /\ WholeLines(heard'[o], stdin'[o])
                 /\ \A c \in Calls : Unfinished(heard'[o], stdin'[o]) = c <=> CutOff(o, c)'
        BY <1>6
    <1> QED  BY <1>1, <1>7, <1>8 DEF InvLines

LEMMA LinesKept ==
    ASSUME TypeOK, InvLock, InvLines, Buried, [Next]_vars
    PROVE  InvLines'
    <1>1. ASSUME UNCHANGED <<stdin, heard, garbled, cut>>,
                 \A p \in Procs, c \in Calls : CutOff(p, c)' <=> CutOff(p, c)
          PROVE  InvLines'
        BY <1>1, LinesStay
    <1>2. ASSUME NEW p, Dies(p), UNCHANGED <<call, cut>>
          PROVE  InvLines'
        <2>1. \A o \in Procs : \/ server'[o] = "dead"
                               \/ stdin'[o] = stdin[o] /\ heard'[o] = heard[o]
            BY <1>2 DEF Dies, TypeOK
        <2>2. \A o \in Procs, c \in Calls : CutOff(o, c)' <=> CutOff(o, c)
            BY <1>2 DEF CutOff
        <2>3. garbled' = garbled
            BY <1>2 DEF Dies
        <2> QED  BY <1>2, <2>1, <2>2, <2>3, LinesStay
    <1>3. ASSUME UNCHANGED <<stdin, heard, garbled, cut, call>>
          PROVE  InvLines'
        BY <1>1, <1>3 DEF CutOff
    <1>4. ASSUME NEW s \in Sessions, Yields(s)
          PROVE  InvLines'
        BY <1>2, <1>3, <1>4 DEF Yields, Reap, pipes, calls
    <1>5. ASSUME NEW p \in Procs, Die(p)
          PROVE  InvLines'
        BY <1>2, <1>5 DEF Die, calls
    <1>6. ASSUME NEW c \in Calls, UNCHANGED <<stdin, heard, garbled, cut>>,
                 \A d \in Calls \ {c} : call'[d] = call[d],
                 call[c].at # "tail", call'[c].at # "tail"
          PROVE  InvLines'
        BY <1>1, <1>6 DEF CutOff
    <1>7. ASSUME NEW c \in Calls, NEW s \in Sessions, Begin(c, s)
          PROVE  InvLines'
        <2>1. /\ \A d \in Calls \ {c} : call'[d] = call[d]
              /\ call[c].at # "tail" /\ call'[c].at # "tail"
            BY <1>7 DEF Begin, TypeOK
        <2> QED  BY <1>6, <1>7, <2>1 DEF Begin, pipes
    <1>8. ASSUME NEW c \in Calls, TakeId(c) \/ ReadLine(c)
          PROVE  InvLines'
        <2>1. /\ \A d \in Calls \ {c} : call'[d] = call[d]
              /\ call[c].at # "tail" /\ call'[c].at # "tail"
            <3>1. DOMAIN call = Calls /\ DOMAIN call[c] = {"at", "by", "proc", "id", "got"}
                BY DEF TypeOK, CallStates
            <3>2. CASE TakeId(c)
                BY <3>1, <3>2 DEF TakeId
            <3>3. CASE ReadLine(c)
                BY <3>1, <3>3 DEF ReadLine
            <3> QED  BY <1>8, <3>2, <3>3
        <2> QED  BY <1>6, <1>8, <2>1 DEF TakeId, ReadLine, pipes
    <1>9. ASSUME NEW c \in Calls, Goes(c)
          PROVE  InvLines'
        <2>1. call[c].proc \in Procs /\ server[call[c].proc] # "unborn"
            BY <1>9 DEF Goes, InvLock
        <2>2. call'[c].at = "done" /\ \A d \in Calls \ {c} : call'[d] = call[d]
            BY <1>9, LeaveFacts DEF Goes
        <2>3. UNCHANGED <<stdin, heard, garbled, server>> /\ cut \subseteq cut'
            BY <1>9 DEF Goes, pipes
        <2>4. ASSUME NEW p \in Procs, server'[p] # "dead", p \notin cut'
              PROVE  \A d \in Calls : CutOff(p, d)' <=> CutOff(p, d)
            <3>1. ~CutOff(p, c)
                <4>1. ASSUME CutOff(p, c)
                      PROVE  FALSE
                    <5>1. server[p] \notin {"alive", "wedged"}
                        BY <1>9, <2>4, <4>1 DEF Goes, CutOff, Running
                    <5> QED  BY <2>1, <2>3, <2>4, <4>1, <5>1 DEF CutOff, TypeOK
                <4> QED  BY <4>1
            <3> QED  BY <2>2, <3>1 DEF CutOff
        <2> QED  BY <2>3, <2>4, LinesStay
    <1>10. ASSUME \/ EditConfig \/ UNCHANGED vars
                  \/ \E s \in Sessions :
                        LoadConfig(s) \/ Reuse(s) \/ Launch(s) \/ Register(s)
                  \/ \E p \in Procs : Answer(p) \/ Notify(p) \/ Stop(p)
           PROVE  UNCHANGED <<stdin, heard, garbled, cut, call>>
        BY <1>10 DEF EditConfig, vars, LoadConfig, Reuse, Launch, Register, Answer, Notify,
                     Stop, calls, pipes
    <1> QED  BY <1>3, <1>4, <1>5, <1>7, <1>8, <1>9, <1>10, PushKeepsLines, ReadKeepsLines,
                StepsSorted

-----------------------------------------------------------------------------
(* The theorems.                                                           *)

LEMMA InitInv == Init => Inv
    <1> SUFFICES ASSUME Init
                 PROVE  Inv
        OBVIOUS
    <1>1. TypeOK
        <2>1. NoCall \in CallStates /\ Gone \in SessionStates
            BY DEF NoCall, CallStates, Gone, SessionStates
        <2>2. /\ <<>> \in Seq(Calls) /\ <<>> \in Seq(Pieces) /\ <<>> \in Seq(Lines)
              /\ 0 \in 0..Spoiled /\ cache \in Entries
            BY DEF Spoiled, Entries, Init
        <2> QED  BY <2>1, <2>2 DEF Init, TypeOK
    <1>2. InvSessions
        <2>1. \A x \in Claims : x.proc = 0
            BY DEF Init, Claims, Gone
        <2> QED  BY <2>1 DEF Init, InvSessions, Gone
    <1>3. InvLock
        BY DEF Init, InvLock, NoCall, Steps
    <1>4. InvIds
        <2>1. \A p \in Procs : Issued(p) = {}
            BY DEF Init, Issued, NoCall
        <2> QED  BY <2>1 DEF Init, InvIds, NoCall
    <1>5. InvLines
        <2>1. \A p \in Procs : WholeLines(heard[p], stdin[p])
                               /\ Unfinished(heard[p], stdin[p]) = 0
            BY DEF Init, WholeLines, Unfinished, Spoiled
        <2> QED  BY <2>1 DEF Init, InvLines, CutOff, NoCall, Calls
    <1> QED  BY <1>1, <1>2, <1>3, <1>4, <1>5 DEF Inv

LEMMA NextInv == Inv /\ [Next]_vars => Inv'
    <1> SUFFICES ASSUME Inv, [Next]_vars
                 PROVE  Inv'
        OBVIOUS
    <1> USE DEF Inv
    <1>1. Born /\ Buried
        BY LivesOnce
    <1>2. TypeOK'
        BY Typing
    <1>3. InvSessions' /\ InvLock' /\ InvIds' /\ InvLines'
        BY <1>1, <1>2, SessionsKept, LockKept, IdsKept, LinesKept
    <1> QED  BY <1>2, <1>3

(* Every reachable state satisfies the inductive invariant.                *)
THEOREM Invariance == Spec => []Inv
    BY InitInv, NextInv, PTL DEF Spec

(* A call is given the answer to its own request, whatever calls before it  *)
(* timed out, were dropped or are answered late.                           *)
THEOREM AnswersMatched == Spec => []OwnAnswer
    <1>1. Inv => OwnAnswer
        BY DEF Inv, InvIds, OwnAnswer
    <1> QED  BY <1>1, Invariance, PTL

(* Only a call dropped in the middle of its write spoils a line.           *)
THEOREM RequestsKeptWhole == Spec => []RequestsArriveWhole
    <1>1. Inv => RequestsArriveWhole
        BY DEF Inv, InvLines, RequestsArriveWhole
    <1> QED  BY <1>1, Invariance, PTL

(* Sessions of one configuration share its process until its entry is      *)
(* displaced, and those of two configurations never do.                    *)
THEOREM ServersShared == Spec => []OneServer
    <1>1. Inv => OneServer
        <2> SUFFICES ASSUME Inv, NEW s \in Sessions, NEW t \in Sessions,
                            session[s].at = "ready", session[t].at = "ready",
                            session[s].config \notin displaced
                     PROVE  session[s].config = session[t].config
                            <=> session[s].proc = session[t].proc
            BY DEF OneServer
        <2>1. Claim(s) \in Claims /\ Claim(t) \in Claims
            BY ClaimsTyped DEF Inv
        <2>2. session[s].proc # 0
            BY DEF Inv, InvSessions
        <2>3. session[s].proc = session[t].proc => session[s].config = session[t].config
            BY <2>1, <2>2 DEF Inv, InvSessions, Claim
        <2>4. ASSUME session[s].config = session[t].config
              PROVE  session[s].proc = session[t].proc
            <3>1. Claim(s) = cache /\ Claim(t) = cache
                BY <2>4 DEF Inv, InvSessions, Claim
            <3> QED  BY <3>1 DEF Claim
        <2> QED  BY <2>3, <2>4
    <1> QED  BY <1>1, Invariance, PTL
=============================================================================
