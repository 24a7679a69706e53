------------------------------- MODULE MCMcp --------------------------------
(***************************************************************************)
(* Sessions for TLC.                                                       *)
(***************************************************************************)
EXTENDS Mcp

CONSTANTS s1, s2

MCSessions == {s1, s2}
=============================================================================
