------------------------------- MODULE Fanout -------------------------------
(***************************************************************************)
(* What one call of spawn_subagents promises (subagent_types.rs,           *)
(* SubagentSpawner): every task is started once and reported once, and the *)
(* call returns with a result for each of them or is dropped as a whole.   *)
(***************************************************************************)
EXTENDS Naturals

CONSTANT Tasks

VARIABLES
    started,  \* how often each task was started
    reported, \* how often its verdict went out
    outcome   \* of the call

fanout == <<started, reported, outcome>>

None == [t \in Tasks |-> 0]
Each == [t \in Tasks |-> 1]

Init == started = None /\ reported = None /\ outcome = "open"

Start(t) ==
    /\ outcome = "open" /\ started[t] = 0
    /\ started' = [started EXCEPT ![t] = 1]
    /\ UNCHANGED <<reported, outcome>>

Report(t) ==
    /\ started[t] = 1 /\ reported[t] = 0
    /\ reported' = [reported EXCEPT ![t] = 1]
    /\ UNCHANGED <<started, outcome>>

Return ==
    /\ outcome = "open" /\ reported = Each
    /\ outcome' = "complete"
    /\ UNCHANGED <<started, reported>>

Drop ==
    /\ outcome = "open"
    /\ outcome' = "dropped"
    /\ UNCHANGED <<started, reported>>

Next == Return \/ Drop \/ \E t \in Tasks : Start(t) \/ Report(t)

Spec == Init /\ [][Next]_fanout
=============================================================================
