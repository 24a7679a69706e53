------------------------------ MODULE Approval ------------------------------
(***************************************************************************)
(* Who decides about a tool call: the permission policy of a mode          *)
(* (conga-host/src/permission.rs), and the registry of approvals that a    *)
(* human was asked for (conga-host/src/approval.rs).  A registry is a      *)
(* record: pending maps a request id to the tool it is about, memory a     *)
(* tool to the decision remembered for it, seq is the last id given out.   *)
(***************************************************************************)
EXTENDS Naturals, Functions

Modes == {"suggest", "autoEdit", "fullAuto", "plan"}
Risks == {"low", "medium", "high"}

\* before_tool_call: allow, block, or ask the approver.
Verdict(mode, risk) ==
    IF mode = "fullAuto" \/ risk = "low" \/ (mode = "autoEdit" /\ risk = "medium")
    THEN "allow"
    ELSE IF mode = "autoEdit" THEN "ask" ELSE "block"

NoFunction == [i \in {} |-> i]
EmptyRegistry == [pending |-> NoFunction, memory |-> NoFunction, seq |-> 0]

With(f, x, y)  == [z \in DOMAIN f \cup {x} |-> IF z = x THEN y ELSE f[z]]
Without(f, x)  == Restrict(f, DOMAIN f \ {x})

Remembers(reg, tool) == tool \in DOMAIN reg.memory
AllowedAlways(reg, tool) == Remembers(reg, tool) /\ reg.memory[tool]

\* register, when nothing is remembered for the tool: a new id, never reused.
Register(reg, tool) ==
    [reg EXCEPT !.seq = @ + 1, !.pending = With(@, reg.seq + 1, tool)]

\* respond: an id that is not pending is ignored.
Respond(reg, id, approved, remember) ==
    IF id \notin DOMAIN reg.pending THEN reg
    ELSE [reg EXCEPT !.pending = Without(@, id),
                     !.memory = IF remember THEN With(@, reg.pending[id], approved)
                                ELSE @]

ClearPending(reg) == [reg EXCEPT !.pending = NoFunction]
=============================================================================
