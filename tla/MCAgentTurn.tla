----------------------------- MODULE MCAgentTurn -----------------------------
(* Bounded instances of AgentTurn for TLC.                                 *)
EXTENDS AgentTurn

(* Token reports: no usage, under the threshold, over it.                  *)
NoUsage == {0}
AllReports == {0, 5, 20}
=============================================================================
