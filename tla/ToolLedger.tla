----------------------------- MODULE ToolLedger -----------------------------
(***************************************************************************)
(* What the agent loop promises about tool calls, across turns, crashes    *)
(* and storage failures, said without a log or a loop: a call is asked by  *)
(* the model, may then be run, and may be answered once; a call is never   *)
(* run before it is on record, never run twice, and never run once it has  *)
(* been answered.                                                          *)
(***************************************************************************)
VARIABLES
    asked,     \* calls on record in the session's log
    ran,       \* calls a tool was started for
    answered   \* calls with a result in the session's log

ledger == <<asked, ran, answered>>

Init == asked = {} /\ ran = {} /\ answered = {}

(* The model declares the calls of one message.                            *)
Ask ==
    /\ asked \subseteq asked'
    /\ UNCHANGED <<ran, answered>>

(* A batch of recorded calls is started; each is new.                      *)
Run ==
    /\ ran \subseteq ran'
    /\ ran' \ ran \subseteq asked \ answered
    /\ UNCHANGED <<asked, answered>>

(* One call gets its result.                                               *)
Answer ==
    /\ \E c \in asked \ answered : answered' = answered \cup {c}
    /\ UNCHANGED <<asked, ran>>

Next == Ask \/ Run \/ Answer

Spec == Init /\ [][Next]_ledger
=============================================================================
