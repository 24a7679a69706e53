---------------------------- MODULE MCSessionLog ----------------------------
(***************************************************************************)
(* Legacy transcripts for the runs: none, two rows, a torn second row, and *)
(* one whose second row is a message no event can express.                 *)
(***************************************************************************)
EXTENDS SessionLog

MCLegacyFiles == {<<>>,
                  Lines(<<1, 2>>),
                  Line(1) \o <<Part(2)>>,
                  Line(1) \o Line(3)}
MCCustom == {3}
=============================================================================
