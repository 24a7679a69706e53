---------------------------- MODULE MCSubagents -----------------------------
(***************************************************************************)
(* Two sub-agents for TLC.                                                 *)
(***************************************************************************)
EXTENDS Subagents

CONSTANTS read, grep

MCTools == {read, grep}
OneTool == {read}
=============================================================================
