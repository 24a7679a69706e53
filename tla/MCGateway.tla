----------------------------- MODULE MCGateway -----------------------------
(***************************************************************************)
(* Connections of one browser for TLC, and tools of each risk.             *)
(***************************************************************************)
EXTENDS Gateway

CONSTANTS main, sub, bash, read

MCAgents == {main, sub}
MainAgent == {main}
MCTools == {bash, read}
MCRisk == [t \in {bash, read} |-> IF t = bash THEN "high" ELSE "low"]
=============================================================================
