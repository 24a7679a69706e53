---------------------------- MODULE GatewayProofs ----------------------------
(***************************************************************************)
(* Proofs about Gateway, for every number of connections and agents, every *)
(* set of tools and every mode: a session is served by one connection, a   *)
(* delete hits none but those that claimed the session after its check,    *)
(* and an answer decides what its user was shown.                          *)
(***************************************************************************)
EXTENDS Gateway, SequenceTheorems, TLAPS

(* What the claim needs to know of the map and of the stages.              *)
ClaimTyped ==
    /\ sessions \in Conns \cup {NoConn}
    /\ stage \in [Conns -> Stages]

(* Between the check of a delete and its removal, who serves came in then. *)
NewcomersKnown ==
    deletion = "checked" => \A c \in Conns : Serving(c) => c \in newcomers

ClaimInv == ClaimTyped /\ OneConnection /\ NewcomersKnown

(* A step that neither claims nor gives back, and lets nobody start to     *)
(* serve.                                                                  *)
NobodyEnters ==
    /\ sessions' = sessions
    /\ stage' \in [Conns -> Stages]
    /\ \A c \in Conns : Serving(c)' => Serving(c)

LEMMA ClaimStays ==
    ASSUME ClaimInv, NobodyEnters, deletion' = deletion, newcomers' = newcomers
    PROVE  ClaimInv'
    BY DEF ClaimInv, ClaimTyped, OneConnection, NewcomersKnown, NobodyEnters

(* Only the connection in the map gives the session back, so nobody serves *)
(* it from then on.                                                        *)
LEMMA ClaimReleased ==
    ASSUME ClaimInv, NEW c \in Conns, Serving(c), sessions' = Released,
           NEW to \in Stages, stage' = [stage EXCEPT ![c] = to],
           to \in {"removed", "ended"},
           deletion' = deletion, newcomers' = newcomers
    PROVE  ClaimInv'
    <1>1. ClaimTyped'
        BY DEF ClaimInv, ClaimTyped, Released
    <1>2. \A d \in Conns : ~Serving(d)'
        BY DEF ClaimInv, ClaimTyped, OneConnection, Serving
    <1> QED  BY <1>1, <1>2 DEF ClaimInv, OneConnection, NewcomersKnown

(* A connection that moves on within its service, or ends without it.      *)
LEMMA StageMoves ==
    ASSUME ClaimInv, NEW c \in Conns, NEW to \in Stages,
           stage' = [stage EXCEPT ![c] = to],
           Serving(c) \/ to \in {"upgraded", "removed", "ended"},
           sessions' = sessions, deletion' = deletion, newcomers' = newcomers
    PROVE  ClaimInv'
    <1>1. stage' \in [Conns -> Stages]
        BY DEF ClaimInv, ClaimTyped
    <1>2. \A d \in Conns : Serving(d)' => Serving(d)
        BY DEF ClaimInv, ClaimTyped, Serving
    <1>3. NobodyEnters
        BY <1>1, <1>2 DEF NobodyEnters
    <1> QED  BY <1>3, ClaimStays

-----------------------------------------------------------------------------
(* One step of each part. *)

LEMMA LoopKeepsClaim ==
    ASSUME GatewayAssumption, ClaimInv, NEW c \in Conns, Loop(c)
    PROVE  ClaimInv'
    <1> USE DEF Stages
    <1>1. CASE Claim(c)
        <2> USE <1>1 DEF Claim, MayClaim, Step
        <2>1. NoConn \notin Conns
            BY DEF GatewayAssumption, Conns
        <2>2. \A d \in Conns : ~Serving(d)
            BY <2>1 DEF ClaimInv, OneConnection
        <2>3. \A d \in Conns : Serving(d)' => d = c
            BY <2>2 DEF ClaimInv, ClaimTyped, Serving
        <2>4. ClaimTyped'
            BY DEF ClaimInv, ClaimTyped
        <2>5. OneConnection'
            BY <2>3 DEF OneConnection
        <2>6. NewcomersKnown'
            BY <2>3 DEF NewcomersKnown
        <2> QED  BY <2>4, <2>5, <2>6 DEF ClaimInv
    <1>2. CASE LoseClaim(c)
        BY <1>2, StageMoves DEF LoseClaim, Step, disk
    <1>3. CASE Built(c)
        BY <1>3, StageMoves DEF Built, Step, Serving, disk
    <1>4. CASE BuildFails(c)
        BY <1>4, StageMoves DEF BuildFails, Step, Serving, disk
    <1>10. CASE GiveBack(c)
        BY <1>10, ClaimReleased DEF GiveBack, Step, Serving, disk
    <1>5. CASE StartTurn(c)
        BY <1>5, StageMoves DEF StartTurn, Step, Serving, disk
    <1>6. CASE Steer(c) \/ TakeCancel(c) \/ TakeAnswer(c)
        <2>1. UNCHANGED <<sessions, stage, deletion, newcomers>>
            BY <1>6 DEF Steer, TakeCancel, TakeAnswer, server, disk
        <2>2. NobodyEnters
            BY <2>1 DEF NobodyEnters, Serving, ClaimInv, ClaimTyped
        <2> QED  BY <2>1, <2>2, ClaimStays
    <1>7. CASE TakeClose(c)
        BY <1>7, StageMoves DEF TakeClose, Take, Open, Serving, disk
    <1>8. CASE Remove(c)
        BY <1>8, ClaimReleased DEF Remove, Step, Serving, disk
    <1>9. CASE Cleanup(c)
        BY <1>9, StageMoves DEF Cleanup, Step
    <1> QED
        BY <1>1, <1>2, <1>3, <1>4, <1>5, <1>6, <1>7, <1>8, <1>9, <1>10 DEF Loop

LEMMA CallsKeepClaim ==
    ASSUME ClaimInv, NEW c \in Conns, NEW a \in Agents, Calling(c, a)
    PROVE  ClaimInv'
    <1>1. UNCHANGED <<sessions, stage, deletion, newcomers>>
        <2>1. CASE \E t \in Tools : AllowedByMode(c, a, t)
            BY <2>1 DEF AllowedByMode, server
        <2>2. CASE \E t \in Tools : AllowedByMemory(c, a, t)
            BY <2>2 DEF AllowedByMemory, server
        <2>3. CASE \E t \in Tools : Ask(c, a, t)
            BY <2>3 DEF Ask, disk
        <2>4. CASE Waiting(c, a) \/ TimesOut(c, a)
            BY <2>4 DEF Waiting, Subscribe, Aborted, Answered, TimesOut, disk
        <2> QED  BY <2>1, <2>2, <2>3, <2>4 DEF Calling
    <1>2. NobodyEnters
        BY <1>1 DEF NobodyEnters, Serving, ClaimInv, ClaimTyped
    <1> QED  BY <1>1, <1>2, ClaimStays

LEMMA UserKeepsClaim ==
    ASSUME ClaimInv, User
    PROVE  ClaimInv'
    <1>1. ASSUME NEW c \in Conns, Connect(c) PROVE ClaimInv'
        BY <1>1, StageMoves DEF Connect, Stages, disk
    <1>2. CASE SendMessage \/ StopGenerating \/ Receive \/ Disconnect
               \/ \E p \in prompts, yes, remember \in BOOLEAN :
                    SendApprovalResponse(p, yes, remember)
        <2>1. UNCHANGED <<sessions, stage, deletion, newcomers>>
            BY <1>2 DEF SendMessage, StopGenerating, Receive, Disconnect,
                        SendApprovalResponse, server, disk
        <2>2. NobodyEnters
            BY <2>1 DEF NobodyEnters, Serving, ClaimInv, ClaimTyped
        <2> QED  BY <2>1, <2>2, ClaimStays
    <1> QED  BY <1>1, <1>2 DEF User

LEMMA DeleteKeepsClaim ==
    ASSUME GatewayAssumption, ClaimInv, DeleteChecks \/ DeleteRemoves \/ DeleteCleansUp
    PROVE  ClaimInv'
    <1>1. ClaimTyped' /\ OneConnection'
        BY DEF DeleteChecks, DeleteRemoves, DeleteCleansUp, server, ClaimInv,
               ClaimTyped, OneConnection, Serving
    <1>2. CASE DeleteChecks
        <2>1. \A c \in Conns : ~Serving(c)
            BY <1>2 DEF DeleteChecks, MayDelete, ClaimInv, OneConnection,
                        GatewayAssumption, Conns
        <2>2. \A c \in Conns : ~Serving(c)'
            BY <1>2, <2>1 DEF DeleteChecks, server, Serving
        <2> QED  BY <1>1, <2>2 DEF ClaimInv, NewcomersKnown
    <1>3. CASE DeleteRemoves \/ DeleteCleansUp
        <2>1. deletion' # "checked"
            BY <1>3 DEF DeleteRemoves, DeleteCleansUp
        <2> QED  BY <1>1, <2>1 DEF ClaimInv, NewcomersKnown
    <1> QED  BY <1>2, <1>3

-----------------------------------------------------------------------------
LEMMA NextKeepsClaim ==
    ASSUME GatewayAssumption, ClaimInv, [Next]_vars
    PROVE  ClaimInv'
    <1>1. CASE User
        BY <1>1, UserKeepsClaim
    <1>2. ASSUME NEW c \in Conns, Loop(c) PROVE ClaimInv'
        BY <1>2, LoopKeepsClaim
    <1>3. ASSUME NEW c \in Conns, EndTurn(c) PROVE ClaimInv'
        BY <1>3, StageMoves DEF EndTurn, Step, Serving, Stages, disk
    <1>4. ASSUME NEW c \in Conns, NEW a \in Agents, Calling(c, a) PROVE ClaimInv'
        BY <1>4, CallsKeepClaim
    <1>5. CASE DeleteChecks \/ DeleteRemoves \/ DeleteCleansUp
        BY <1>5, DeleteKeepsClaim
    <1>6. CASE UNCHANGED vars
        <2>1. UNCHANGED <<sessions, stage, deletion, newcomers>>
            BY <1>6 DEF vars, server, disk
        <2>2. NobodyEnters
            BY <2>1 DEF NobodyEnters, Serving, ClaimInv, ClaimTyped
        <2> QED  BY <2>1, <2>2, ClaimStays
    <1> QED  BY <1>1, <1>2, <1>3, <1>4, <1>5, <1>6 DEF Next

(* In every reachable state the map names whoever serves the session, and  *)
(* a delete between its two steps knows who has come in since.             *)
THEOREM ClaimInvariance == Spec => []ClaimInv
    <1>1. Init => ClaimInv
        BY DEF Init, ClaimInv, ClaimTyped, OneConnection, NewcomersKnown, Serving, Stages
    <1>2. ClaimInv /\ [Next]_vars => ClaimInv'
        BY GatewayAssumption, NextKeepsClaim
    <1> QED  BY <1>1, <1>2, PTL DEF Spec

(* Only one connection serves the session, and it is the one in the map:   *)
(* the atomic claim of handle_ws, its failed build and its end.            *)
THEOREM OnlyOneServes == Spec => []OneConnection
    <1>1. ClaimInv => OneConnection
        BY DEF ClaimInv
    <1> QED  BY <1>1, ClaimInvariance, PTL

(* delete_session removes under nobody but a connection that claimed the   *)
(* session after the check.                                                *)
THEOREM DeleteSparesTheConnected == Spec => DeleteHitsOnlyNewcomers
    <1>1. ClaimInv /\ [Next]_vars =>
            [DeleteRemoves => \A c \in Conns : Serving(c) => c \in newcomers]_vars
        BY DEF ClaimInv, NewcomersKnown, DeleteRemoves
    <1> QED  BY <1>1, ClaimInvariance, PTL DEF Spec, DeleteHitsOnlyNewcomers

-----------------------------------------------------------------------------
(* Answers and what they are about: the registry of approvals. *)

(* A new request gets the next id.                                         *)
LEMMA RegisterFacts ==
    ASSUME NEW reg, IsRegistry(reg), NEW t
    PROVE  /\ IsRegistry(Register(reg, t))
           /\ Register(reg, t).seq = reg.seq + 1 /\ Register(reg, t).memory = reg.memory
           /\ DOMAIN Register(reg, t).pending = DOMAIN reg.pending \cup {reg.seq + 1}
           /\ Register(reg, t).pending[reg.seq + 1] = t
           /\ \A id \in DOMAIN reg.pending :
                 Register(reg, t).pending[id] = reg.pending[id]
    <1> DEFINE pending == With(reg.pending, reg.seq + 1, t)
    <1>1. /\ DOMAIN pending = DOMAIN reg.pending \cup {reg.seq + 1}
          /\ \A id \in DOMAIN pending :
                pending[id] = IF id = reg.seq + 1 THEN t ELSE reg.pending[id]
        BY DEF With
    <1>2. Register(reg, t) =
            [pending |-> pending, memory |-> reg.memory, seq |-> reg.seq + 1]
        <2>1. DOMAIN reg = {"pending", "memory", "seq"}
            BY DEF IsRegistry
        <2>2. Register(reg, t) = [reg EXCEPT !.seq = reg.seq + 1, !.pending = pending]
            BY <2>1 DEF Register
        <2> HIDE DEF pending
        <2> QED  BY <2>1, <2>2
    <1> HIDE DEF pending
    <1>3. reg.seq \in Nat /\ reg.seq + 1 \notin DOMAIN reg.pending
        BY DEF IsRegistry
    <1>4. DOMAIN pending \subseteq 1..(reg.seq + 1)
        BY <1>1, <1>3 DEF IsRegistry
    <1> QED  BY <1>1, <1>2, <1>3, <1>4 DEF IsRegistry

(* An answer takes its request off the list, and may remember its tool.    *)
LEMMA RespondFacts ==
    ASSUME NEW reg, IsRegistry(reg), NEW id, NEW approved, NEW remember
    PROVE  /\ IsRegistry(Respond(reg, id, approved, remember))
           /\ Respond(reg, id, approved, remember).seq = reg.seq
           /\ \A i \in DOMAIN Respond(reg, id, approved, remember).pending :
                 /\ i \in DOMAIN reg.pending
                 /\ Respond(reg, id, approved, remember).pending[i] = reg.pending[i]
           /\ Respond(reg, id, approved, remember).memory =
                 IF id \in DOMAIN reg.pending /\ remember
                 THEN With(reg.memory, reg.pending[id], approved) ELSE reg.memory
    <1>1. CASE id \notin DOMAIN reg.pending
        BY <1>1 DEF Respond
    <1>2. CASE id \in DOMAIN reg.pending
        <2> DEFINE pending == Without(reg.pending, id)
                   memory == IF remember THEN With(reg.memory, reg.pending[id], approved)
                             ELSE reg.memory
                   new == Respond(reg, id, approved, remember)
        <2>1. new = [pending |-> pending, memory |-> memory, seq |-> reg.seq]
            BY <1>2 DEF Respond, IsRegistry
        <2>2. /\ DOMAIN pending = DOMAIN reg.pending \ {id}
              /\ \A i \in DOMAIN pending : pending[i] = reg.pending[i]
            BY DEF Without, Restrict
        <2> HIDE DEF pending
        <2>3. IsRegistry(new)
            BY <2>1, <2>2 DEF IsRegistry
        <2> QED  BY <1>2, <2>1, <2>2, <2>3
    <1> QED  BY <1>1, <1>2

(* Clearing keeps the last id and the memory.                              *)
LEMMA ClearFacts ==
    ASSUME NEW reg, IsRegistry(reg)
    PROVE  /\ IsRegistry(ClearPending(reg)) /\ ClearPending(reg).seq = reg.seq
           /\ ClearPending(reg).memory = reg.memory
           /\ DOMAIN ClearPending(reg).pending = {}
    <1>1. ClearPending(reg) = [pending |-> NoFunction, memory |-> reg.memory, seq |-> reg.seq]
        BY DEF ClearPending, IsRegistry
    <1>2. DOMAIN NoFunction = {}
        BY DEF NoFunction
    <1> QED  BY <1>1, <1>2 DEF IsRegistry

LEMMA EmptyFacts ==
    /\ IsRegistry(EmptyRegistry) /\ EmptyRegistry.seq = 0
    /\ DOMAIN EmptyRegistry.pending = {} /\ DOMAIN EmptyRegistry.memory = {}
    BY DEF EmptyRegistry, NoFunction, IsRegistry

(* How a connection moves on: an id that is not given out yet stays so, and *)
(* none is given out again.                                                 *)
MovesOn(c) ==
    /\ IsRegistry(registry'[c])
    /\ stage[c] = "ended" => stage'[c] = "ended"
    /\ stage'[c] = "ended" \/ registry[c].seq <= registry'[c].seq
    /\ \A id \in DOMAIN registry'[c].pending :
          \/ /\ id \in DOMAIN registry[c].pending
             /\ registry'[c].pending[id] = registry[c].pending[id]
          \/ id > registry[c].seq /\ stage[c] # "ended"

LEMMA NamesKept ==
    ASSUME AskTyped, NEW c \in Conns, MovesOn(c), NEW id \in Nat, NEW t, Names(c, id, t)
    PROVE  Names(c, id, t)'
    <1>1. registry[c].seq \in Nat /\ registry'[c].seq \in Nat
        BY DEF AskTyped, MovesOn, IsRegistry
    <1> QED  BY <1>1 DEF MovesOn, Names

LEMMA RightKept ==
    ASSUME AskTyped, NEW c \in Conns, MovesOn(c), NEW p \in Prompts, IsRight(c, p)
    PROVE  IsRight(c, p)'
    BY NamesKept DEF IsRight, Prompts

(* The registry of one connection changes in one way.                      *)
ChangesTo(c, reg) ==
    /\ registry' = [registry EXCEPT ![c] = reg] /\ IsRegistry(reg)
    /\ stage[c] # "ended" \/ DOMAIN reg.pending = {}
    /\ stage[c] = "ended" => stage'[c] = "ended"
    /\ stage'[c] = "ended" \/ registry[c].seq <= reg.seq
    /\ \A id \in DOMAIN reg.pending :
          \/ id \in DOMAIN registry[c].pending /\ reg.pending[id] = registry[c].pending[id]
          \/ id > registry[c].seq
    /\ \A d \in Conns \ {c} : stage'[d] = stage[d]

LEMMA OneMoves ==
    ASSUME AskTyped, NEW c \in Conns, NEW reg, ChangesTo(c, reg)
    PROVE  DOMAIN registry' = Conns /\ \A d \in Conns : MovesOn(d)
    <1> USE DEF ChangesTo
    <1>1. /\ DOMAIN registry' = Conns /\ registry'[c] = reg
          /\ \A d \in Conns \ {c} : registry'[d] = registry[d]
        BY DEF AskTyped
    <1>2. MovesOn(c)
        BY <1>1 DEF MovesOn
    <1>3. ASSUME NEW d \in Conns \ {c} PROVE MovesOn(d)
        BY <1>1 DEF MovesOn, AskTyped, IsRegistry
    <1> QED  BY <1>1, <1>2, <1>3

LEMMA NoneMoves ==
    ASSUME AskTyped, registry' = registry,
           \A d \in Conns : stage[d] = "ended" => stage'[d] = "ended"
    PROVE  DOMAIN registry' = Conns /\ \A d \in Conns : MovesOn(d)
    BY DEF MovesOn, AskTyped, IsRegistry

(* A connection's task at its next stage.                                  *)
LEMMA StageFacts ==
    ASSUME AskTyped, NEW c \in Conns, NEW from, NEW to \in Stages, Step(c, from, to)
    PROVE  /\ stage[c] = from /\ stage'[c] = to /\ stage' \in [Conns -> Stages]
           /\ \A d \in Conns \ {c} : stage'[d] = stage[d]
    BY DEF AskTyped, Step

-----------------------------------------------------------------------------
(* What a step does to the registries. *)

Moved == DOMAIN registry' = Conns /\ \A d \in Conns : MovesOn(d)

(* The steps that leave registries and stages alone.                       *)
Elsewhere == registry' = registry /\ stage' = stage

LEMMA ElsewhereMoves ==
    ASSUME AskTyped, Elsewhere
    PROVE  Moved /\ stage' \in [Conns -> Stages]
    BY NoneMoves DEF Elsewhere, Moved, AskTyped

LEMMA LoopMoves ==
    ASSUME AskTyped, NEW c \in Conns, Loop(c)
    PROVE  Moved /\ stage' \in [Conns -> Stages]
    <1> USE DEF Stages
    <1>1. CASE Claim(c) \/ LoseClaim(c) \/ Built(c) \/ BuildFails(c) \/ GiveBack(c)
               \/ StartTurn(c) \/ Remove(c)
        <2>1. PICK from \in Stages \ {"ended"}, to \in Stages : Step(c, from, to)
            BY <1>1 DEF Claim, LoseClaim, Built, BuildFails, GiveBack, StartTurn, Remove
        <2>2. registry' = registry
            BY <1>1 DEF Claim, LoseClaim, Built, BuildFails, GiveBack, StartTurn, Remove
        <2> QED  BY <2>1, <2>2, StageFacts, NoneMoves DEF Moved
    <1>2. CASE Steer(c) \/ TakeCancel(c)
        BY <1>2, ElsewhereMoves DEF Steer, TakeCancel, server, Elsewhere
    <1>3. CASE TakeAnswer(c)
        <2> DEFINE m == Head(inbox[c])
                   reg == Respond(registry[c], m.id, m.approved, m.remember)
        <2>1. inbox[c] \in Seq(Messages) /\ inbox[c] # <<>> /\ m.kind = "answer"
            BY <1>3 DEF TakeAnswer, Take, AskTyped
        <2>2. m \in Messages
            BY <2>1
        <2>4. registry' = [registry EXCEPT ![c] = reg] /\ stage' = stage /\ stage[c] # "ended"
            BY <1>3 DEF TakeAnswer, Take, Open, AskTyped
        <2>5. IsRegistry(registry[c])
            BY DEF AskTyped
        <2>6. /\ IsRegistry(reg) /\ reg.seq = registry[c].seq
              /\ \A i \in DOMAIN reg.pending :
                    i \in DOMAIN registry[c].pending /\ reg.pending[i] = registry[c].pending[i]
            BY <2>5, RespondFacts
        <2> HIDE DEF reg
        <2>7. registry[c].seq \in Nat
            BY <2>5 DEF IsRegistry
        <2>8. ChangesTo(c, reg)
            BY <2>4, <2>6, <2>7 DEF ChangesTo
        <2> QED  BY <2>4, <2>8, OneMoves DEF Moved, AskTyped
    <1>4. CASE TakeClose(c)
        <2>1. /\ \/ registry' = [registry EXCEPT ![c] = ClearPending(registry[c])]
                 \/ registry' = registry
              /\ stage' = [stage EXCEPT ![c] = "closing"] /\ stage[c] # "ended"
            BY <1>4 DEF TakeClose, Take, Open, AskTyped
        <2>2. IsRegistry(registry[c]) /\ registry[c].seq \in Nat
            BY DEF AskTyped, IsRegistry
        <2>3. stage' \in [Conns -> Stages] /\ \A d \in Conns \ {c} : stage'[d] = stage[d]
            BY <2>1 DEF AskTyped
        <2>4. CASE registry' = [registry EXCEPT ![c] = ClearPending(registry[c])]
            <3>1. ChangesTo(c, ClearPending(registry[c]))
                BY <2>1, <2>2, <2>3, <2>4, ClearFacts DEF ChangesTo, AskTyped
            <3> QED  BY <2>3, <3>1, OneMoves DEF Moved
        <2>5. CASE registry' = registry
            BY <2>1, <2>3, <2>5, NoneMoves DEF Moved
        <2> QED  BY <2>1, <2>4, <2>5
    <1>5. CASE Cleanup(c)
        <2>1. /\ registry' = [registry EXCEPT ![c] = EmptyRegistry]
              /\ Step(c, "removed", "ended")
            BY <1>5 DEF Cleanup
        <2>2. ChangesTo(c, EmptyRegistry)
            BY <2>1, StageFacts, EmptyFacts DEF ChangesTo
        <2> QED  BY <2>1, <2>2, StageFacts, OneMoves DEF Moved
    <1> QED  BY <1>1, <1>2, <1>3, <1>4, <1>5 DEF Loop

LEMMA CallingMoves ==
    ASSUME AskTyped, NEW c \in Conns, NEW a \in Agents, Calling(c, a)
    PROVE  Moved /\ stage' \in [Conns -> Stages]
    <1>1. CASE \E t \in Tools : AllowedByMode(c, a, t) \/ AllowedByMemory(c, a, t)
        BY <1>1, ElsewhereMoves DEF AllowedByMode, AllowedByMemory, server, Elsewhere
    <1>2. CASE Waiting(c, a) \/ TimesOut(c, a)
        BY <1>2, ElsewhereMoves
        DEF Waiting, Subscribe, Aborted, Answered, TimesOut, Elsewhere
    <1>3. ASSUME NEW t \in Tools, Ask(c, a, t)
          PROVE  Moved /\ stage' \in [Conns -> Stages]
        <2>1. /\ registry' = [registry EXCEPT ![c] = Register(registry[c], t)]
              /\ stage' = stage /\ stage[c] = "turn"
            BY <1>3 DEF Ask, MayAsk, MayCall, AskTyped
        <2>2. IsRegistry(registry[c]) /\ registry[c].seq \in Nat
            BY DEF AskTyped, IsRegistry
        <2>3. ChangesTo(c, Register(registry[c], t))
            BY <2>1, <2>2, RegisterFacts DEF ChangesTo
        <2> QED  BY <2>1, <2>3, OneMoves DEF Moved, AskTyped
    <1> QED  BY <1>1, <1>2, <1>3 DEF Calling

LEMMA RegistriesMove ==
    ASSUME AskTyped, [Next]_vars
    PROVE  Moved /\ stage' \in [Conns -> Stages]
    <1>1. ASSUME NEW c \in Conns, Connect(c)
          PROVE  Moved /\ stage' \in [Conns -> Stages]
        <2>1. Step(c, "unused", "upgraded") /\ registry' = registry /\ "upgraded" \in Stages
            BY <1>1 DEF Connect, Step, Stages
        <2> QED  BY <2>1, StageFacts, NoneMoves DEF Moved
    <1>2. CASE SendMessage \/ StopGenerating \/ Receive \/ Disconnect
               \/ \E p \in prompts, yes, remember \in BOOLEAN :
                    SendApprovalResponse(p, yes, remember)
        BY <1>2, ElsewhereMoves DEF SendMessage, StopGenerating, Receive, Disconnect,
                        SendApprovalResponse, server, Elsewhere
    <1>3. ASSUME NEW c \in Conns, EndTurn(c)
          PROVE  Moved /\ stage' \in [Conns -> Stages]
        <2>1. /\ registry' = [registry EXCEPT ![c] = ClearPending(registry[c])]
              /\ Step(c, "turn", "idle") /\ "idle" \in Stages
            BY <1>3 DEF EndTurn, AskTyped, Stages
        <2>2. IsRegistry(registry[c]) /\ registry[c].seq \in Nat
            BY DEF AskTyped, IsRegistry
        <2>3. ChangesTo(c, ClearPending(registry[c]))
            BY <2>1, <2>2, StageFacts, ClearFacts DEF ChangesTo
        <2> QED  BY <2>1, <2>3, StageFacts, OneMoves DEF Moved
    <1>4. CASE DeleteChecks \/ DeleteRemoves \/ DeleteCleansUp \/ UNCHANGED vars
        BY <1>4, ElsewhereMoves
        DEF DeleteChecks, DeleteRemoves, DeleteCleansUp, vars, server, Elsewhere
    <1> QED  BY <1>1, <1>2, <1>3, <1>4, LoopMoves, CallingMoves DEF Next, User

-----------------------------------------------------------------------------
(* What a step does to the channels and the prompts. *)

(* A prompt reaches the browser from the socket's frames, and leaves it     *)
(* with the socket, the turn or its answer.                                 *)
Prompted ==
    \/ prompts' \subseteq prompts /\ socket' = socket
    \/ prompts' = {}
    \/ /\ socket' = socket /\ socket \in Conns /\ outbox[socket] # <<>>
       /\ Head(outbox[socket]).kind = "approval"
       /\ prompts' = prompts \cup {Head(outbox[socket]).prompt}

Wired(c) ==
    \/ outbox'[c] = outbox[c]
    \/ outbox'[c] = <<>>
    \/ outbox[c] # <<>> /\ outbox'[c] = Tail(outbox[c])
    \/ \E frames \in {<<Done>>, <<Done, Failure>>} : outbox'[c] = outbox[c] \o frames
    \/ \E p \in Prompts :
          /\ outbox'[c] = outbox[c] \o <<Asked(p)>>
          /\ IsRight(c, p)'

Posted(c) ==
    \/ inbox'[c] = inbox[c]
    \/ inbox'[c] = <<>>
    \/ inbox[c] # <<>> /\ inbox'[c] = Tail(inbox[c])
    \/ \E m \in {Message, Cancel, Close} : inbox'[c] = Append(inbox[c], m)
    \/ \E p \in prompts, yes, remember \in BOOLEAN :
          socket = c /\ inbox'[c] = Append(inbox[c], Answer(p, yes, remember))

Channelled ==
    /\ Prompted /\ socket' \in Conns \cup {NoConn}
    /\ DOMAIN inbox' = Conns /\ \A c \in Conns : Posted(c)
    /\ DOMAIN outbox' = Conns /\ \A c \in Conns : Wired(c)

LEMMA BrowserChannels ==
    ASSUME AskTyped, RightPrompts, User
    PROVE  Channelled
    <1> USE DEF AskTyped
    <1>1. ASSUME NEW c \in Conns, Connect(c) PROVE Channelled
        BY <1>1 DEF Connect, RightPrompts, Channelled, Prompted, Posted, Wired
    <1>2. ASSUME NEW m \in {Message, Cancel, Close}, MaySend, Send(m)
          PROVE  DOMAIN inbox' = Conns /\ \A c \in Conns : Posted(c)
        BY <1>2 DEF MaySend, Send, Posted
    <1>3. CASE SendMessage
        BY <1>2, <1>3 DEF SendMessage, browser, Channelled, Prompted, Wired
    <1>4. CASE StopGenerating
        BY <1>2, <1>4 DEF StopGenerating, AbortTurnState, Channelled, Prompted, Wired
    <1>5. ASSUME NEW p \in prompts, NEW yes \in BOOLEAN, NEW remember \in BOOLEAN,
                 SendApprovalResponse(p, yes, remember)
          PROVE  Channelled
        <2>1. DOMAIN inbox' = Conns /\ \A c \in Conns : Posted(c)
            BY <1>5 DEF SendApprovalResponse, MaySend, Send, Posted
        <2> QED  BY <1>5, <2>1 DEF SendApprovalResponse, Channelled, Prompted, Wired
    <1>6. CASE Receive
        <2>1. /\ DOMAIN outbox' = Conns /\ \A c \in Conns : Wired(c)
              /\ socket' = socket /\ socket \in Conns /\ inbox' = inbox
            BY <1>6 DEF Receive, Wired
        <2>2. Prompted
            BY <1>6, <2>1 DEF Receive, Prompted
        <2> QED  BY <2>1, <2>2 DEF Channelled, Posted
    <1>7. CASE Disconnect
        <2>1. /\ socket \in Conns
              /\ inbox' = [inbox EXCEPT ![socket] = Append(@, Close)]
              /\ outbox' = [outbox EXCEPT ![socket] = <<>>]
              /\ prompts' = {} /\ socket' = NoConn
            BY <1>7 DEF Disconnect, Send, AbortTurnState
        <2>2. DOMAIN inbox' = Conns /\ \A c \in Conns : Posted(c)
            BY <2>1 DEF Posted
        <2>3. DOMAIN outbox' = Conns /\ \A c \in Conns : Wired(c)
            BY <2>1 DEF Wired
        <2> QED  BY <2>1, <2>2, <2>3 DEF Channelled, Prompted
    <1> QED  BY <1>1, <1>3, <1>4, <1>5, <1>6, <1>7 DEF User

LEMMA LoopChannels ==
    ASSUME AskTyped, NEW c \in Conns, Loop(c) \/ EndTurn(c)
    PROVE  Channelled
    <1> USE DEF AskTyped
    <1>1. ASSUME UNCHANGED <<inbox, outbox, browser>>
          PROVE  Channelled
        BY <1>1 DEF browser, Channelled, Prompted, Posted, Wired
    <1>2. CASE Claim(c) \/ Built(c) \/ GiveBack(c) \/ Remove(c) \/ Cleanup(c)
        BY <1>1, <1>2 DEF Claim, Built, GiveBack, Remove, Cleanup
    <1>3. CASE LoseClaim(c) \/ BuildFails(c)
        <2>1. HangUp(c) /\ outbox' = outbox
            BY <1>3 DEF LoseClaim, BuildFails
        <2> QED  BY <2>1
            DEF HangUp, AbortTurnState, browser, Channelled, Prompted, Posted, Wired
    <1>4. CASE StartTurn(c) \/ Steer(c) \/ TakeCancel(c) \/ TakeAnswer(c) \/ TakeClose(c)
        <2>1. /\ inbox[c] # <<>> /\ inbox' = [inbox EXCEPT ![c] = Tail(@)]
              /\ UNCHANGED <<outbox, browser>>
            BY <1>4 DEF StartTurn, Steer, TakeCancel, TakeAnswer, TakeClose, Take
        <2> QED  BY <2>1 DEF browser, Channelled, Prompted, Posted, Wired
    <1>5. CASE EndTurn(c)
        <2>1. /\ \E frames \in {<<Done>>, <<Done, Failure>>} : Emit(c, frames)
              /\ UNCHANGED <<inbox, browser>>
            BY <1>5 DEF EndTurn
        <2>2. DOMAIN outbox' = Conns /\ \A d \in Conns : Wired(d)
            BY <2>1 DEF Emit, Wired
        <2> QED  BY <2>1, <2>2 DEF browser, Channelled, Prompted, Posted
    <1> QED  BY <1>2, <1>3, <1>4, <1>5 DEF Loop

LEMMA CallingChannels ==
    ASSUME AskTyped, NEW c \in Conns, NEW a \in Agents, Calling(c, a)
    PROVE  Channelled
    <1> USE DEF AskTyped
    <1>1. ASSUME UNCHANGED <<inbox, outbox, browser>>
          PROVE  Channelled
        BY <1>1 DEF browser, Channelled, Prompted, Posted, Wired
    <1>2. CASE \E t \in Tools : AllowedByMode(c, a, t) \/ AllowedByMemory(c, a, t)
        BY <1>1, <1>2 DEF AllowedByMode, AllowedByMemory
    <1>3. CASE Waiting(c, a) \/ TimesOut(c, a)
        BY <1>1, <1>3 DEF Waiting, Subscribe, Aborted, Answered, TimesOut
    <1>4. ASSUME NEW t \in Tools, Ask(c, a, t)
          PROVE  Channelled
        <2>1. IsRegistry(registry[c]) /\ registry[c].seq \in Nat
            BY DEF IsRegistry
        <2>2. PICK i \in Nat : i = registry[c].seq + 1
            BY <2>1
        <2>3. registry'[c] = Register(registry[c], t)
            BY <1>4 DEF Ask
        <2>4. registry'[c].seq = i /\ registry'[c].pending[i] = t /\ i \in 1..i
            BY <2>1, <2>2, <2>3, RegisterFacts
        <2>5. PICK p \in Prompts : p = [conn |-> c, id |-> i, tool |-> t]
            BY DEF Prompts
        <2>7. IsRight(c, p)'
            BY <2>4, <2>5 DEF IsRight, Names
        <2>8. Emit(c, <<Asked(p)>>) /\ UNCHANGED <<inbox, browser>>
            BY <1>4, <2>4, <2>5 DEF Ask
        <2>6. DOMAIN outbox' = Conns /\ \A d \in Conns : Wired(d)
            BY <2>7, <2>8 DEF Emit, Wired
        <2> QED  BY <2>6, <2>8 DEF browser, Channelled, Prompted, Posted
    <1> QED  BY <1>2, <1>3, <1>4 DEF Calling

LEMMA ChannelsMove ==
    ASSUME AskTyped, RightPrompts, [Next]_vars
    PROVE  Channelled
    <1>1. CASE DeleteChecks \/ DeleteRemoves \/ DeleteCleansUp \/ UNCHANGED vars
        BY <1>1 DEF DeleteChecks, DeleteRemoves, DeleteCleansUp, vars, browser, AskTyped,
                    Channelled, Prompted, Posted, Wired
    <1> QED  BY <1>1, BrowserChannels, LoopChannels, CallingChannels DEF Next

-----------------------------------------------------------------------------
(* What is under way stays right. *)

LEMMA SeqIn ==
    ASSUME NEW S, NEW T, NEW q \in Seq(S), \A k \in DOMAIN q : q[k] \in T
    PROVE  q \in Seq(T)
    OBVIOUS

(* What a queue becomes: taken from, added to, or emptied.                 *)
LEMMA QueueFacts ==
    ASSUME NEW T, NEW q \in Seq(T), NEW r,
           \/ r = q \/ r = <<>>
           \/ q # <<>> /\ r = Tail(q)
           \/ \E e \in T : r = Append(q, e)
           \/ \E s \in Seq(T) : r = q \o s
    PROVE  r \in Seq(T)
    <1>1. CASE q # <<>> /\ r = Tail(q)
        BY <1>1, HeadTailProperties
    <1>2. ASSUME NEW e \in T, r = Append(q, e)
          PROVE  r \in Seq(T)
        BY <1>2
    <1>3. CASE r = <<>>
        BY <1>3, EmptySeq
    <1>4. ASSUME NEW s \in Seq(T), r = q \o s
          PROVE  r \in Seq(T)
        BY <1>4
    <1> QED  BY <1>1, <1>2, <1>3, <1>4

FramesOf(c) == {f \in Frames : f.kind = "approval" => IsRight(c, f.prompt)}
AnswersOf(c) == {m \in Messages :
                    m.kind = "answer" => m.id = m.prompt.id /\ IsRight(c, m.prompt)}

LEMMA FramesStayRight ==
    ASSUME AskTyped, Moved, NEW c \in Conns
    PROVE  FramesOf(c) \subseteq FramesOf(c)'
    <1>1. ASSUME NEW f \in FramesOf(c)
          PROVE  f \in FramesOf(c)'
        <2>1. f.kind = "approval" => f.prompt \in Prompts
            BY DEF FramesOf, Frames, Done, Failure
        <2>2. CASE f.kind = "approval"
            <3>1. PICK p \in Prompts : p = f.prompt
                BY <2>1, <2>2
            <3>2. IsRight(c, p)'
                BY <2>2, <3>1, RightKept DEF FramesOf, Moved
            <3> QED  BY <3>1, <3>2 DEF FramesOf
        <2>3. CASE f.kind # "approval"
            BY <2>3 DEF FramesOf
        <2> QED  BY <2>2, <2>3
    <1> QED  BY <1>1

LEMMA AnswersStayRight ==
    ASSUME AskTyped, Moved, NEW c \in Conns
    PROVE  AnswersOf(c) \subseteq AnswersOf(c)'
    <1>1. ASSUME NEW m \in AnswersOf(c)
          PROVE  m \in AnswersOf(c)'
        <2>1. m.kind = "answer" => m.prompt \in Prompts
            BY DEF AnswersOf, Messages, Message, Cancel, Close
        <2>2. CASE m.kind = "answer"
            <3>1. PICK p \in Prompts : p = m.prompt
                BY <2>1, <2>2
            <3>2. IsRight(c, p)' /\ m.id = p.id
                BY <2>2, <3>1, RightKept DEF AnswersOf, Moved
            <3> QED  BY <3>1, <3>2 DEF AnswersOf
        <2>3. CASE m.kind # "answer"
            BY <2>3 DEF AnswersOf
        <2> QED  BY <2>2, <2>3
    <1> QED  BY <1>1

LEMMA FramesKept ==
    ASSUME AskTyped, RightFrames, Moved, Channelled
    PROVE  (\A c \in Conns : outbox'[c] \in Seq(Frames)) /\ RightFrames'
    <1>1. ASSUME NEW c \in Conns
          PROVE  outbox'[c] \in Seq(FramesOf(c)')
        <2> DEFINE T == FramesOf(c)'
        <2>1. outbox[c] \in Seq(Frames)
            BY DEF AskTyped
        <2>2. \A k \in DOMAIN outbox[c] : outbox[c][k] \in FramesOf(c)
            BY <2>1 DEF FramesOf, RightFrames
        <2>3. \A k \in DOMAIN outbox[c] : outbox[c][k] \in T
            BY <2>2, FramesStayRight
        <2>4. Done \in T /\ Failure \in T
            BY DEF FramesOf, Frames, Done, Failure
        <2>5. \A p \in Prompts : IsRight(c, p)' => Asked(p) \in T
            BY DEF FramesOf, Frames, Asked
        <2> HIDE DEF T
        <2>6. outbox[c] \in Seq(T)
            BY <2>1, <2>3, SeqIn
        <2>7. \/ outbox'[c] = outbox[c] \/ outbox'[c] = <<>>
              \/ outbox[c] # <<>> /\ outbox'[c] = Tail(outbox[c])
              \/ \E s \in Seq(T) : outbox'[c] = outbox[c] \o s
            <3>1. <<Done>> \in Seq(T) /\ <<Done, Failure>> \in Seq(T)
                BY <2>4
            <3>2. \A p \in Prompts : IsRight(c, p)' => <<Asked(p)>> \in Seq(T)
                BY <2>5
            <3>3. Wired(c)
                BY DEF Channelled
            <3> QED  BY <3>1, <3>2, <3>3, Zenon DEF Wired
        <2>8. outbox'[c] \in Seq(T)
            BY <2>6, <2>7, QueueFacts
        <2> QED  BY <2>8 DEF T
    <1>2. \A c \in Conns : \A k \in DOMAIN outbox'[c] : outbox'[c][k] \in FramesOf(c)'
        BY <1>1
    <1>3. RightFrames'
        BY <1>2 DEF RightFrames, FramesOf
    <1>4. \A c \in Conns : outbox'[c] \in Seq(Frames)
        <2>1. \A c \in Conns : FramesOf(c)' \subseteq Frames
            BY DEF FramesOf
        <2> QED  BY <1>1, <2>1
    <1> QED  BY <1>3, <1>4

LEMMA AnswersKept ==
    ASSUME AskTyped, RightAnswers, RightPrompts, Moved, Channelled
    PROVE  (\A c \in Conns : inbox'[c] \in Seq(Messages)) /\ RightAnswers'
    <1>1. ASSUME NEW c \in Conns
          PROVE  inbox'[c] \in Seq(AnswersOf(c)')
        <2> DEFINE T == AnswersOf(c)'
        <2>1. inbox[c] \in Seq(Messages)
            BY DEF AskTyped
        <2>2. \A k \in DOMAIN inbox[c] : inbox[c][k] \in AnswersOf(c)
            BY <2>1 DEF AnswersOf, RightAnswers
        <2>3. \A k \in DOMAIN inbox[c] : inbox[c][k] \in T
            BY <2>2, AnswersStayRight
        <2>4. Message \in T /\ Cancel \in T /\ Close \in T
            BY DEF AnswersOf, Messages, Message, Cancel, Close
        <2>5. ASSUME NEW p \in prompts, NEW yes \in BOOLEAN, NEW remember \in BOOLEAN,
                     socket = c
              PROVE  Answer(p, yes, remember) \in T
            <3>1. p \in Prompts
                BY DEF AskTyped
            <3>2. Answer(p, yes, remember) \in AnswersOf(c)
                BY <2>5, <3>1 DEF AnswersOf, Messages, Answer, RightPrompts, Prompts
            <3> QED  BY <3>2, AnswersStayRight
        <2> HIDE DEF T
        <2>6. inbox[c] \in Seq(T)
            BY <2>1, <2>3, SeqIn
        <2>7. \/ inbox'[c] = inbox[c] \/ inbox'[c] = <<>>
              \/ inbox[c] # <<>> /\ inbox'[c] = Tail(inbox[c])
              \/ \E e \in T : inbox'[c] = Append(inbox[c], e)
            BY <2>4, <2>5 DEF Channelled, Posted
        <2>8. inbox'[c] \in Seq(T)
            BY <2>6, <2>7, QueueFacts
        <2> QED  BY <2>8 DEF T
    <1>2. \A c \in Conns : \A k \in DOMAIN inbox'[c] : inbox'[c][k] \in AnswersOf(c)'
        BY <1>1
    <1>3. RightAnswers'
        BY <1>2 DEF RightAnswers, AnswersOf
    <1>4. \A c \in Conns : inbox'[c] \in Seq(Messages)
        <2>1. \A c \in Conns : AnswersOf(c)' \subseteq Messages
            BY DEF AnswersOf
        <2> QED  BY <1>1, <2>1
    <1> QED  BY <1>3, <1>4

LEMMA PromptsKept ==
    ASSUME AskTyped, RightPrompts, RightFrames, Moved, Channelled
    PROVE  prompts' \subseteq Prompts /\ RightPrompts'
    <1>1. ASSUME NEW p \in prompts
          PROVE  p \in Prompts /\ socket \in Conns /\ IsRight(socket, p)
        BY DEF AskTyped, RightPrompts
    <1>2. ASSUME NEW c \in Conns, NEW p \in Prompts, IsRight(c, p)
          PROVE  IsRight(c, p)'
        BY <1>2, RightKept DEF Moved
    <1>3. CASE prompts' \subseteq prompts /\ socket' = socket
        <2>1. ASSUME NEW p \in prompts'
              PROVE  p \in Prompts /\ (socket # NoConn /\ IsRight(socket, p))'
            <3>1. PICK c \in Conns : c = socket /\ IsRight(c, p) /\ p \in Prompts /\ c # NoConn
                BY <1>1, <1>3, <2>1 DEF RightPrompts
            <3>2. IsRight(c, p)'
                BY <1>2, <3>1
            <3> QED  BY <1>3, <3>1, <3>2 DEF IsRight, Names
        <2> QED  BY <2>1 DEF RightPrompts
    <1>4. CASE prompts' = {}
        BY <1>4 DEF RightPrompts
    <1>5. CASE /\ socket' = socket /\ socket \in Conns /\ outbox[socket] # <<>>
               /\ Head(outbox[socket]).kind = "approval"
               /\ prompts' = prompts \cup {Head(outbox[socket]).prompt}
        <2>1. PICK c \in Conns : c = socket
            BY <1>5
        <2>2. PICK f \in Frames : f = Head(outbox[c]) /\ f = outbox[c][1] /\ 1 \in DOMAIN outbox[c]
            BY <1>5, <2>1 DEF AskTyped
        <2>3. PICK q \in Prompts : q = f.prompt
            BY <1>5, <2>1, <2>2 DEF Frames, Done, Failure
        <2>4. IsRight(c, q)
            BY <1>5, <2>1, <2>2, <2>3 DEF RightFrames
        <2>5. c # NoConn
            BY GatewayAssumption DEF Conns
        <2>6. ASSUME NEW p \in prompts'
              PROVE  p \in Prompts /\ (socket # NoConn /\ IsRight(socket, p))'
            <3>1. p \in Prompts /\ IsRight(c, p)
                BY <1>1, <1>5, <2>1, <2>2, <2>3, <2>4, <2>6
            <3>2. IsRight(c, p)'
                BY <1>2, <3>1
            <3> QED  BY <1>5, <2>1, <2>5, <3>1, <3>2 DEF IsRight, Names
        <2> QED  BY <2>6 DEF RightPrompts
    <1> QED  BY <1>3, <1>4, <1>5 DEF Channelled, Prompted

-----------------------------------------------------------------------------
(* The calls that wait, and the answers they are given. *)

(* One call of a connection changes.                                       *)
LEMMA CallFacts ==
    ASSUME AskTyped, NEW c \in Conns, NEW a \in Agents, NEW new \in Calls,
           call' = [call EXCEPT ![c][a] = new]
    PROVE  /\ call' \in [Conns -> [Agents -> Calls]]
           /\ call'[c][a] = new
           /\ \A d \in Conns, b \in Agents : d # c \/ b # a => call'[d][b] = call[d][b]
    BY DEF AskTyped

(* All calls of a connection change.                                       *)
LEMMA AllCallFacts ==
    ASSUME AskTyped, NEW c \in Conns, NEW new \in [Agents -> Calls],
           call' = [call EXCEPT ![c] = new]
    PROVE  /\ call' \in [Conns -> [Agents -> Calls]]
           /\ call'[c] = new
           /\ \A d \in Conns : d # c => call'[d] = call[d]
    BY DEF AskTyped

LEMMA NoCallTyped == NoCall \in Calls /\ NoCall.at = "idle" /\ NoCall.answer = "none"
    BY DEF NoCall, Calls

(* What becomes of a call that waits: it is still the same call, or it is   *)
(* over; and a yes it gets is the answer at the head of its inbox.          *)
Waits(c, a) ==
    /\ call'[c][a].at # "idle" =>
          \/ /\ call[c][a].at # "idle" /\ call'[c][a].id = call[c][a].id
             /\ call'[c][a].tool = call[c][a].tool
          \/ /\ call'[c][a].id = registry[c].seq + 1 /\ call'[c][a].tool \in Tools
             /\ registry' = [registry EXCEPT ![c] =
                                Register(registry[c], call'[c][a].tool)]
             /\ stage' = stage /\ stage[c] = "turn"
    /\ call'[c][a].answer = "yes" =>
          \/ call[c][a].answer = "yes"
          \/ /\ inbox[c] # <<>> /\ Head(inbox[c]).kind = "answer"
             /\ Head(inbox[c]).approved = TRUE /\ call[c][a].at # "idle"
             /\ Head(inbox[c]).id \in DOMAIN registry[c].pending
             /\ Head(inbox[c]).id = call[c][a].id

Waited == call' \in [Conns -> [Agents -> Calls]] /\ \A c \in Conns, a \in Agents : Waits(c, a)

LEMMA SameCalls ==
    ASSUME AskTyped, call' = call
    PROVE  Waited
    BY DEF AskTyped, Waited, Waits

LEMMA OneWaits ==
    ASSUME AskTyped, NEW c \in Conns, NEW a \in Agents, NEW new \in Calls,
           call' = [call EXCEPT ![c][a] = new], Waits(c, a)
    PROVE  Waited
    <1>1. ASSUME NEW d \in Conns, NEW b \in Agents, d # c \/ b # a
          PROVE  Waits(d, b)
        BY <1>1, CallFacts DEF Waits
    <1>2. ASSUME NEW d \in Conns, NEW b \in Agents
          PROVE  Waits(d, b)
        <2>1. CASE d = c /\ b = a
            BY <2>1
        <2> QED  BY <1>1, <2>1
    <1> QED  BY <1>2, CallFacts DEF Waited

LEMMA AllWait ==
    ASSUME AskTyped, NEW c \in Conns, NEW new \in [Agents -> Calls],
           call' = [call EXCEPT ![c] = new], \A a \in Agents : Waits(c, a)
    PROVE  Waited
    <1>1. ASSUME NEW d \in Conns, NEW b \in Agents, d # c
          PROVE  Waits(d, b)
        BY <1>1, AllCallFacts DEF Waits
    <1>2. ASSUME NEW d \in Conns, NEW b \in Agents
          PROVE  Waits(d, b)
        <2>1. CASE d = c
            BY <2>1
        <2> QED  BY <1>1, <2>1
    <1> QED  BY <1>2, AllCallFacts DEF Waited

LEMMA LoopCalls ==
    ASSUME AskTyped, NEW c \in Conns, Loop(c) \/ EndTurn(c)
    PROVE  Waited
    <1>1. CASE \/ Claim(c) \/ LoseClaim(c) \/ Built(c) \/ BuildFails(c) \/ GiveBack(c)
               \/ StartTurn(c) \/ Steer(c) \/ Remove(c) \/ Cleanup(c) \/ EndTurn(c)
        BY <1>1, SameCalls DEF Claim, LoseClaim, Built, BuildFails, GiveBack, StartTurn, Steer,
                               Remove, Cleanup, EndTurn, server
    <1>2. CASE TakeCancel(c)
        <2> DEFINE new == [a \in Agents |->
                IF call[c][a].at = "parked" THEN [call[c][a] EXCEPT !.rung = TRUE]
                ELSE call[c][a]]
        <2>1. ASSUME NEW a \in Agents
              PROVE  /\ new[a] \in Calls /\ new[a].at = call[c][a].at
                     /\ new[a].id = call[c][a].id /\ new[a].tool = call[c][a].tool
                     /\ new[a].answer = call[c][a].answer
            <3>1. call[c][a] \in Calls
                BY DEF AskTyped
            <3> QED  BY <3>1 DEF Calls
        <2>2. new \in [Agents -> Calls]
            BY <2>1
        <2>3. call' = [call EXCEPT ![c] = new]
            BY <1>2 DEF TakeCancel, AskTyped
        <2> HIDE DEF new
        <2>4. \A a \in Agents : Waits(c, a)
            BY <2>1, <2>2, <2>3, AllCallFacts DEF Waits
        <2> QED  BY <2>2, <2>3, <2>4, AllWait
    <1>3. CASE TakeAnswer(c)
        <2> DEFINE m == Head(inbox[c])
                   known == m.id \in DOMAIN registry[c].pending
                   new == [a \in Agents |->
                IF known /\ call[c][a].at # "idle" /\ call[c][a].id = m.id
                THEN [call[c][a] EXCEPT !.answer = IF m.approved THEN "yes" ELSE "no"]
                ELSE call[c][a]]
        <2>1. inbox[c] # <<>> /\ m.kind = "answer" /\ m.approved \in BOOLEAN
            <3>1. inbox[c] # <<>> /\ m.kind = "answer" /\ inbox[c] \in Seq(Messages)
                BY <1>3 DEF TakeAnswer, Take, AskTyped
            <3>2. m \in Messages
                BY <3>1
            <3> QED  BY <3>1, <3>2 DEF Messages, Message, Cancel, Close
        <2>2. ASSUME NEW a \in Agents
              PROVE  /\ new[a] \in Calls /\ new[a].at = call[c][a].at
                     /\ new[a].id = call[c][a].id /\ new[a].tool = call[c][a].tool
                     /\ new[a].answer = "yes" =>
                            \/ call[c][a].answer = "yes"
                            \/ /\ m.approved = TRUE /\ known
                               /\ call[c][a].at # "idle" /\ call[c][a].id = m.id
            <3>1. call[c][a] \in Calls
                BY DEF AskTyped
            <3> HIDE DEF m
            <3> QED  BY <2>1, <3>1 DEF Calls
        <2>3. new \in [Agents -> Calls]
            BY <2>2
        <2>4. call' = [call EXCEPT ![c] = new]
            BY <1>3 DEF TakeAnswer, AskTyped
        <2> HIDE DEF new
        <2>5. ASSUME NEW a \in Agents
              PROVE  Waits(c, a)
            <3>1. call'[c][a] = new[a]
                BY <2>3, <2>4, AllCallFacts
            <3> QED  BY <2>1, <2>2, <3>1 DEF Waits
        <2> QED  BY <2>3, <2>4, <2>5, AllWait
    <1>4. CASE TakeClose(c)
        <2>1. PICK new \in [Agents -> Calls] : new = [a \in Agents |-> NoCall]
            BY NoCallTyped
        <2>2. call' = [call EXCEPT ![c] = new]
            BY <1>4, <2>1 DEF TakeClose
        <2>3. \A a \in Agents : Waits(c, a)
            BY <2>1, <2>2, AllCallFacts, NoCallTyped DEF Waits
        <2> QED  BY <2>2, <2>3, AllWait
    <1> QED  BY <1>1, <1>2, <1>3, <1>4 DEF Loop

LEMMA CallingCalls ==
    ASSUME AskTyped, NEW c \in Conns, NEW a \in Agents, Calling(c, a)
    PROVE  Waited
    <1>0. call[c][a] \in Calls
        BY DEF AskTyped
    <1>1. CASE \E t \in Tools : AllowedByMode(c, a, t) \/ AllowedByMemory(c, a, t)
        BY <1>1, SameCalls DEF AllowedByMode, AllowedByMemory, server
    <1>2. CASE Subscribe(c, a)
        <2>1. PICK new \in Calls : new = [call[c][a] EXCEPT !.at = "parked"]
            BY <1>0 DEF Calls
        <2>2. /\ new.at = "parked" /\ new.id = call[c][a].id /\ new.tool = call[c][a].tool
              /\ new.answer = call[c][a].answer /\ call[c][a].at # "idle"
            BY <1>0, <1>2, <2>1 DEF Subscribe, Calls
        <2>3. call' = [call EXCEPT ![c][a] = new]
            BY <1>2, <2>1 DEF Subscribe, AskTyped
        <2>4. Waits(c, a)
            BY <2>2, <2>3, CallFacts DEF Waits
        <2> QED  BY <2>3, <2>4, OneWaits
    <1>3. CASE Aborted(c, a) \/ Answered(c, a) \/ TimesOut(c, a)
        <2>1. call' = [call EXCEPT ![c][a] = NoCall]
            BY <1>3 DEF Aborted, Answered, TimesOut, Return
        <2>2. Waits(c, a)
            BY <2>1, NoCallTyped, CallFacts DEF Waits
        <2> QED  BY <2>1, <2>2, NoCallTyped, OneWaits
    <1>4. ASSUME NEW t \in Tools, Ask(c, a, t)
          PROVE  Waited
        <2>1. IsRegistry(registry[c]) /\ registry[c].seq \in Nat
            BY DEF AskTyped, IsRegistry
        <2>2. /\ registry' = [registry EXCEPT ![c] = Register(registry[c], t)]
              /\ stage' = stage /\ stage[c] = "turn"
            BY <1>4 DEF Ask, MayAsk, MayCall
        <2>3. registry'[c].seq = registry[c].seq + 1
            BY <2>1, <2>2, RegisterFacts DEF AskTyped
        <2>4. PICK new \in Calls :
                new = [NoCall EXCEPT !.at = "asked", !.tool = t, !.id = registry[c].seq + 1]
            <3>1. PICK i \in Nat : i = registry[c].seq + 1
                BY <2>1
            <3>2. [NoCall EXCEPT !.at = "asked", !.tool = t, !.id = i] \in Calls
                BY DEF NoCall, Calls
            <3> QED  BY <3>1, <3>2
        <2>5. /\ new.at = "asked" /\ new.tool = t /\ new.id = registry[c].seq + 1
              /\ new.answer = "none"
            BY <2>4 DEF NoCall
        <2>6. call' = [call EXCEPT ![c][a] = new]
            BY <1>4, <2>3, <2>4 DEF Ask
        <2>7. Waits(c, a)
            BY <2>2, <2>5, <2>6, CallFacts DEF Waits
        <2> QED  BY <2>6, <2>7, OneWaits
    <1> QED  BY <1>1, <1>2, <1>3, <1>4 DEF Calling, Waiting

LEMMA CallsMove ==
    ASSUME AskTyped, [Next]_vars
    PROVE  Waited
    <1>1. CASE User
        BY <1>1, SameCalls DEF User, Connect, SendMessage, StopGenerating, Receive,
                               Disconnect, SendApprovalResponse, server
    <1>2. CASE DeleteChecks \/ DeleteRemoves \/ DeleteCleansUp \/ UNCHANGED vars
        BY <1>2, SameCalls DEF DeleteChecks, DeleteRemoves, DeleteCleansUp, vars, server
    <1> QED  BY <1>1, <1>2, LoopCalls, CallingCalls DEF Next

(* A call waits in a turn, and a turn ends with no call waiting.           *)
LEMMA TurnsKept ==
    ASSUME AskTyped, RightCalls, [Next]_vars,
           NEW c \in Conns, stage[c] = "turn", stage'[c] # "turn", NEW a \in Agents
    PROVE  call'[c][a].at = "idle"
    <1>0. call \in [Conns -> [Agents -> Calls]] /\ stage \in [Conns -> Stages]
        BY DEF AskTyped
    <1>1. CASE EndTurn(c)
        BY <1>0, <1>1 DEF EndTurn
    <1>2. CASE TakeClose(c)
        BY <1>0, <1>2, NoCallTyped DEF TakeClose
    <1>3. ASSUME NEW d \in Conns, EndTurn(d) \/ TakeClose(d)
          PROVE  d = c
        BY <1>0, <1>3 DEF EndTurn, TakeClose, Step
    <1>4. ASSUME NEW d \in Conns, Connect(d) PROVE FALSE
        BY <1>0, <1>4 DEF Connect
    <1>5. ASSUME NEW d \in Conns, NEW to,
                 Step(d, "upgraded", to) \/ Step(d, "building", to)
                 \/ Step(d, "failing", to) \/ Step(d, "idle", to)
                 \/ Step(d, "closing", to) \/ Step(d, "removed", to)
          PROVE  FALSE
        BY <1>0, <1>5 DEF Step
    <1>6. ASSUME NEW d \in Conns, Loop(d), ~TakeClose(d)
          PROVE  FALSE
        <2>1. \/ \E to : Step(d, "upgraded", to) \/ Step(d, "building", to)
                         \/ Step(d, "failing", to) \/ Step(d, "idle", to) \/ Step(d, "closing", to)
                         \/ Step(d, "removed", to)
              \/ stage' = stage
            BY <1>6 DEF Loop, Claim, LoseClaim, Built, BuildFails, GiveBack, StartTurn, Steer,
                        TakeCancel, TakeAnswer, Remove, Cleanup, server
        <2> QED  BY <1>5, <2>1
    <1>7. ASSUME NEW d \in Conns, NEW b \in Agents, Calling(d, b)
          PROVE  FALSE
        BY <1>7 DEF Calling, AllowedByMode, AllowedByMemory, Ask, Waiting, Subscribe, Aborted,
                    Answered, TimesOut, server
    <1>8. CASE \/ SendMessage \/ StopGenerating \/ Receive \/ Disconnect
               \/ \E p \in prompts, yes, remember \in BOOLEAN :
                    SendApprovalResponse(p, yes, remember)
               \/ DeleteChecks \/ DeleteRemoves \/ DeleteCleansUp \/ UNCHANGED vars
        BY <1>8 DEF SendMessage, StopGenerating, Receive, Disconnect, SendApprovalResponse,
                    DeleteChecks, DeleteRemoves, DeleteCleansUp, vars, server
    <1> QED
        BY <1>1, <1>2, <1>3, <1>4, <1>6, <1>7, <1>8 DEF Next, User

LEMMA CallsKept ==
    ASSUME AskTyped, RightCalls, [Next]_vars, Moved, Waited
    PROVE  RightCalls'
    <1>1. SUFFICES ASSUME NEW c \in Conns, NEW a \in Agents, call'[c][a].at # "idle"
                   PROVE  /\ stage'[c] = "turn"
                          /\ Names(c, call[c][a].id, call[c][a].tool)'
        BY DEF RightCalls
    <1>2. CASE /\ call[c][a].at # "idle" /\ call'[c][a].id = call[c][a].id
               /\ call'[c][a].tool = call[c][a].tool
        <2>1. stage[c] = "turn" /\ Names(c, call[c][a].id, call[c][a].tool)
            BY <1>2 DEF RightCalls
        <2>2. stage'[c] = "turn"
            BY <1>1, <2>1, TurnsKept
        <2>3. PICK i \in Nat, t \in Tools \cup {NoTool} :
                i = call[c][a].id /\ t = call[c][a].tool
            BY DEF AskTyped, Calls
        <2>4. Names(c, i, t)'
            BY <2>1, <2>3, NamesKept DEF Moved
        <2> QED  BY <1>2, <2>2, <2>3, <2>4 DEF Names
    <1>3. CASE /\ call'[c][a].id = registry[c].seq + 1 /\ call'[c][a].tool \in Tools
               /\ registry' = [registry EXCEPT ![c] =
                                  Register(registry[c], call'[c][a].tool)]
               /\ stage' = stage /\ stage[c] = "turn"
        <2>1. PICK i, t : i = call'[c][a].id /\ t = call'[c][a].tool
            OBVIOUS
        <2>2. IsRegistry(registry[c]) /\ registry[c].seq \in Nat
            BY DEF AskTyped, IsRegistry
        <2>3. registry'[c] = Register(registry[c], t)
            BY <1>3, <2>1 DEF AskTyped
        <2>4. registry'[c].seq = i /\ registry'[c].pending[i] = t /\ i \in 1..i
            BY <1>3, <2>1, <2>2, <2>3, RegisterFacts
        <2> QED  BY <1>3, <2>1, <2>4 DEF Names
    <1> QED  BY <1>1, <1>2, <1>3 DEF Waited, Waits

(* Whose tools are remembered: the answer at the head of the inbox says so. *)
Recalls(c, t) ==
    /\ inbox[c] # <<>> /\ Head(inbox[c]).kind = "answer"
    /\ Head(inbox[c]).approved = TRUE /\ Head(inbox[c]).remember = TRUE
    /\ Head(inbox[c]).id \in DOMAIN registry[c].pending
    /\ t = registry[c].pending[Head(inbox[c]).id]

(* A step that keeps every memory, or empties it.                          *)
LEMMA SameMemory ==
    ASSUME NEW c, NEW t, AllowedAlways(registry[c], t)',
           registry'[c].memory = registry[c].memory \/ DOMAIN registry'[c].memory = {}
    PROVE  AllowedAlways(registry[c], t)
    BY DEF AllowedAlways, Remembers

LEMMA AnswerRecalls ==
    ASSUME AskTyped, NEW c \in Conns, NEW t, TakeAnswer(c),
           ~AllowedAlways(registry[c], t), AllowedAlways(registry[c], t)'
    PROVE  Recalls(c, t)
    <1> DEFINE m == Head(inbox[c])
    <1>1. inbox[c] # <<>> /\ m.kind = "answer" /\ m.approved \in BOOLEAN /\ m.remember \in BOOLEAN
        <2>1. inbox[c] # <<>> /\ m.kind = "answer" /\ inbox[c] \in Seq(Messages)
            BY DEF TakeAnswer, Take, AskTyped
        <2>2. m \in Messages
            BY <2>1
        <2> QED  BY <2>1, <2>2 DEF Messages, Message, Cancel, Close
    <1>2. registry'[c] = Respond(registry[c], m.id, m.approved, m.remember)
        BY DEF TakeAnswer, AskTyped
    <1>3. registry'[c].memory =
            IF m.id \in DOMAIN registry[c].pending /\ m.remember
            THEN With(registry[c].memory, registry[c].pending[m.id], m.approved)
            ELSE registry[c].memory
        BY <1>2, RespondFacts DEF AskTyped
    <1>4. m.id \in DOMAIN registry[c].pending /\ m.remember = TRUE
        <2>1. ASSUME ~(m.id \in DOMAIN registry[c].pending /\ m.remember = TRUE)
              PROVE  FALSE
            <3>1. registry'[c].memory = registry[c].memory
                BY <1>1, <1>3, <2>1
            <3> QED  BY <3>1, SameMemory
        <2> QED  BY <2>1
    <1>5. PICK memory, tool :
            /\ memory = registry'[c].memory /\ tool = registry[c].pending[m.id]
            /\ memory = With(registry[c].memory, tool, m.approved)
        BY <1>1, <1>3, <1>4
    <1>6. t \in DOMAIN memory /\ memory[t] = TRUE
        <2>1. AllowedAlways(registry'[c], t)
            OBVIOUS
        <2> QED  BY <1>5, <2>1 DEF AllowedAlways, Remembers
    <1>7. t = tool
        <2>1. ASSUME t # tool PROVE FALSE
            <3>1. t \in DOMAIN registry[c].memory /\ memory[t] = registry[c].memory[t]
                <4>1. PICK old : old = registry[c].memory
                    OBVIOUS
                <4>2. memory = With(old, tool, m.approved)
                    BY <1>5, <4>1
                <4>3. t \in DOMAIN old /\ memory[t] = old[t]
                    BY <1>6, <2>1, <4>2 DEF With
                <4> QED  BY <4>1, <4>3
            <3> QED  BY <1>6, <3>1 DEF AllowedAlways, Remembers
        <2> QED  BY <2>1
    <1>8. m.approved = TRUE
        BY <1>5, <1>6, <1>7 DEF With
    <1> QED  BY <1>1, <1>4, <1>5, <1>7, <1>8 DEF Recalls

LEMMA MemoryMoves ==
    ASSUME AskTyped, [Next]_vars, NEW c \in Conns, NEW t,
           ~AllowedAlways(registry[c], t), AllowedAlways(registry[c], t)'
    PROVE  Recalls(c, t)
    <1>1. ASSUME NEW d \in Conns, TakeAnswer(d)
          PROVE  Recalls(c, t)
        <2>1. d # c => registry'[c] = registry[c]
            BY <1>1 DEF TakeAnswer, AskTyped
        <2> QED  BY <1>1, <2>1, AnswerRecalls, SameMemory
    <1>2. ASSUME NEW d \in Conns, NEW reg, registry' = [registry EXCEPT ![d] = reg],
                 reg.memory = registry[d].memory \/ DOMAIN reg.memory = {}
          PROVE  FALSE
        <2>1. \/ registry'[c].memory = registry[c].memory
              \/ DOMAIN registry'[c].memory = {}
            BY <1>2 DEF AskTyped
        <2> QED  BY <2>1, SameMemory
    <1>3. ASSUME NEW d \in Conns, TakeClose(d) \/ EndTurn(d) \/ Cleanup(d)
          PROVE  FALSE
        <2>1. \/ registry' = [registry EXCEPT ![d] = ClearPending(registry[d])]
              \/ registry' = [registry EXCEPT ![d] = EmptyRegistry]
              \/ registry' = registry
            BY <1>3 DEF TakeClose, EndTurn, Cleanup
        <2>2. ClearPending(registry[d]).memory = registry[d].memory
            BY ClearFacts DEF AskTyped
        <2> QED  BY <1>2, <2>1, <2>2, EmptyFacts, SameMemory
    <1>4. ASSUME NEW d \in Conns, NEW a \in Agents, NEW tool \in Tools, Ask(d, a, tool)
          PROVE  FALSE
        <2>1. registry' = [registry EXCEPT ![d] = Register(registry[d], tool)]
            BY <1>4 DEF Ask
        <2>2. Register(registry[d], tool).memory = registry[d].memory
            BY RegisterFacts DEF AskTyped
        <2> QED  BY <1>2, <2>1, <2>2
    <1>5. ASSUME registry' = registry PROVE FALSE
        BY <1>5, SameMemory
    <1>6. CASE User \/ DeleteChecks \/ DeleteRemoves \/ DeleteCleansUp \/ UNCHANGED vars
        BY <1>5, <1>6 DEF User, Connect, SendMessage, StopGenerating, Receive, Disconnect,
                          SendApprovalResponse, DeleteChecks, DeleteRemoves, DeleteCleansUp,
                          vars, server
    <1>7. ASSUME NEW d \in Conns, Loop(d)
          PROVE  Recalls(c, t)
        <2>1. CASE \/ Claim(d) \/ LoseClaim(d) \/ Built(d) \/ BuildFails(d) \/ GiveBack(d)
                   \/ StartTurn(d) \/ Steer(d) \/ TakeCancel(d) \/ Remove(d)
            BY <1>5, <2>1 DEF Claim, LoseClaim, Built, BuildFails, GiveBack, StartTurn, Steer,
                              TakeCancel, Remove, server
        <2> QED  BY <1>1, <1>3, <1>7, <2>1 DEF Loop
    <1>8. ASSUME NEW d \in Conns, NEW a \in Agents, Calling(d, a)
          PROVE  FALSE
        <2>1. CASE ~\E tool \in Tools : Ask(d, a, tool)
            BY <1>5, <1>8, <2>1 DEF Calling, AllowedByMode, AllowedByMemory, Waiting,
                                    Subscribe, Aborted, Answered, TimesOut, server
        <2> QED  BY <1>4, <2>1
    <1> QED  BY <1>3, <1>6, <1>7, <1>8 DEF Next

-----------------------------------------------------------------------------
LEMMA AskStep ==
    ASSUME AskTyped, AskInv, [Next]_vars
    PROVE  AskTyped' /\ AskInv'
    <1>1. RightPrompts /\ RightFrames /\ RightAnswers /\ RightCalls
        BY DEF AskInv
    <1>2. Moved /\ stage' \in [Conns -> Stages] /\ Channelled /\ Waited
        BY <1>1, RegistriesMove, ChannelsMove, CallsMove
    <1>3. AskInv'
        BY <1>1, <1>2, PromptsKept, FramesKept, AnswersKept, CallsKept DEF AskInv
    <1>4. AskTyped'
        BY <1>1, <1>2, PromptsKept, FramesKept, AnswersKept
        DEF AskTyped, Moved, MovesOn, Channelled, Waited
    <1> QED  BY <1>3, <1>4

(* In every reachable state a request id that a connection's registry knows *)
(* names one tool, for the call that waits with it, for the frame and the   *)
(* prompt that show it and for the answer that is under way.                *)
THEOREM AskInvariance == Spec => [](AskTyped /\ AskInv)
    <1>1. Init => AskTyped /\ AskInv
        <2>1. ASSUME Init PROVE AskTyped
            BY <2>1, EmptyFacts, NoCallTyped DEF Init, AskTyped, Stages
        <2>2. ASSUME Init PROVE AskInv
            BY <2>2, NoCallTyped
            DEF Init, AskInv, RightPrompts, RightFrames, RightAnswers, RightCalls
        <2> QED  BY <2>1, <2>2
    <1>2. AskTyped /\ AskInv /\ [Next]_vars => (AskTyped /\ AskInv)'
        BY AskStep
    <1> QED  BY <1>1, <1>2, PTL DEF Spec

(* An answer decides what its user was shown: a call gets a yes only from an *)
(* answer about its own request, and a tool is remembered as allowed only    *)
(* for an answer about this tool that asked for it (approval.rs, respond;    *)
(* ws.rs, the approval response).                                            *)
THEOREM AnswersDecideWhatWasShown == Spec => DecidesWhatWasShown
    <1> DEFINE Decides ==
            \A c \in Conns :
                /\ \A a \in Agents :
                    call[c][a].answer # "yes" /\ call'[c][a].answer = "yes" =>
                        LET m == Head(inbox[c]) IN
                        m.approved /\ m.prompt = [conn |-> c, id |-> call[c][a].id,
                                                  tool |-> call[c][a].tool]
                /\ \A t \in Tools :
                    ~AllowedAlways(registry[c], t) /\ AllowedAlways(registry'[c], t) =>
                        LET m == Head(inbox[c]) IN
                        m.approved /\ m.remember /\ m.prompt.conn = c /\ m.prompt.tool = t
    <1>1. ASSUME AskTyped, AskInv, [Next]_vars
          PROVE  Decides
        <2>1. ASSUME NEW c \in Conns, inbox[c] # <<>>, Head(inbox[c]).kind = "answer",
                     Head(inbox[c]).id \in DOMAIN registry[c].pending
              PROVE  /\ Head(inbox[c]).prompt \in Prompts
                     /\ Head(inbox[c]).prompt.conn = c
                     /\ Head(inbox[c]).prompt.id = Head(inbox[c]).id
                     /\ Head(inbox[c]).prompt.tool = registry[c].pending[Head(inbox[c]).id]
            <3>1. inbox[c] \in Seq(Messages)
                BY <1>1 DEF AskTyped
            <3>2. PICK m \in Messages :
                    m = Head(inbox[c]) /\ m = inbox[c][1] /\ 1 \in DOMAIN inbox[c]
                BY <2>1, <3>1
            <3>3. m.id = m.prompt.id /\ IsRight(c, m.prompt) /\ m.prompt \in Prompts
                BY <1>1, <2>1, <3>2
                DEF AskInv, RightAnswers, Messages, Message, Cancel, Close
            <3> QED  BY <2>1, <3>2, <3>3 DEF IsRight, Names
        <2>2. ASSUME NEW c \in Conns, NEW a \in Agents,
                     call[c][a].answer # "yes", call'[c][a].answer = "yes"
              PROVE  /\ Head(inbox[c]).approved
                     /\ Head(inbox[c]).prompt = [conn |-> c, id |-> call[c][a].id,
                                                 tool |-> call[c][a].tool]
            <3>1. /\ inbox[c] # <<>> /\ Head(inbox[c]).kind = "answer"
                  /\ Head(inbox[c]).approved = TRUE /\ call[c][a].at # "idle"
                  /\ Head(inbox[c]).id \in DOMAIN registry[c].pending
                  /\ Head(inbox[c]).id = call[c][a].id
                BY <1>1, <2>2, CallsMove DEF Waited, Waits
            <3>2. call[c][a].tool = registry[c].pending[call[c][a].id]
                BY <1>1, <3>1 DEF AskInv, RightCalls, Names
            <3>3. PICK p \in Prompts : p = Head(inbox[c]).prompt
                BY <2>1, <3>1
            <3>4. p.conn = c /\ p.id = call[c][a].id /\ p.tool = call[c][a].tool
                BY <2>1, <3>1, <3>2, <3>3
            <3>5. p = [conn |-> c, id |-> call[c][a].id, tool |-> call[c][a].tool]
                BY <3>4 DEF Prompts
            <3> QED  BY <3>1, <3>3, <3>5
        <2>3. ASSUME NEW c \in Conns, NEW t \in Tools,
                     ~AllowedAlways(registry[c], t), AllowedAlways(registry'[c], t)
              PROVE  /\ Head(inbox[c]).approved /\ Head(inbox[c]).remember
                     /\ Head(inbox[c]).prompt.conn = c /\ Head(inbox[c]).prompt.tool = t
            <3>1. Recalls(c, t)
                BY <1>1, <2>3, MemoryMoves
            <3> QED  BY <2>1, <3>1 DEF Recalls
        <2> QED  BY <2>2, <2>3
    <1>2. AskTyped /\ AskInv /\ [Next]_vars => [Decides]_vars
        BY <1>1
    <1> QED  BY <1>2, AskInvariance, PTL DEF Spec, DecidesWhatWasShown
=============================================================================
