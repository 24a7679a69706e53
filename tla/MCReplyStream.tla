--------------------------- MODULE MCReplyStream ---------------------------
(***************************************************************************)
(* Provider styles and formats of bodies for TLC.                          *)
(***************************************************************************)
EXTENDS ReplyStream

AllStyles == {"indexed", "byId", "sequential"}
TwoFormats == {[eol |-> <<LF>>, named |-> TRUE], [eol |-> <<CR, LF>>, named |-> FALSE]}
=============================================================================
