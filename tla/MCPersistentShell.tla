------------------------- MODULE MCPersistentShell -------------------------
(***************************************************************************)
(* Two bash calls of one session for TLC.                                  *)
(***************************************************************************)
EXTENDS PersistentShell

CONSTANTS c1, c2

TwoCalls == {c1, c2}
OneLong  == {c2}
=============================================================================
