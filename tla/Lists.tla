------------------------------- MODULE Lists -------------------------------
(***************************************************************************)
(* Sequences as the modules of the log use them, in forms the proofs can   *)
(* reason about: neither asks what the elements are.                       *)
(***************************************************************************)
EXTENDS Sequences, SequencesExt

(* A sequence, whatever its elements.                                      *)
IsSequence(s) == s \in Seq(Range(s))

(* The elements of a sequence that stand at the positions in P, in order.  *)
ElementsAt(s, P) ==
    FlattenSeq([k \in DOMAIN s |-> IF k \in P THEN <<s[k]>> ELSE <<>>])
=============================================================================
