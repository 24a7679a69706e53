-------------------------- MODULE MCSessionCatalog --------------------------
(***************************************************************************)
(* Sessions, names and interchangeable workers for TLC.                    *)
(***************************************************************************)
EXTENDS SessionCatalog, TLC

CONSTANTS w1, w2, a, b

MCWorkers == {w1, w2}
MCNames == {a, b}
\* A clear is also a row without text.
MCRows == {"text", "cleared"}
MCSymmetry == Permutations(MCWorkers) \cup Permutations(MCNames)
=============================================================================
