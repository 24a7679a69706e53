------------------------------ MODULE Journal ------------------------------
(***************************************************************************)
(* What the files of a session promise, said without files: a session is a *)
(* sequence of rows that starts with its legacy transcript, and a row that *)
(* is written comes behind all the others.  Nothing else ever happens to   *)
(* the rows, unless a mishap spoils them.                                  *)
(***************************************************************************)
EXTENDS Naturals, SequencesExt

VARIABLES
    rows,    \* the complete rows of the session, by number
    spoiled  \* there was a mishap

journal == <<rows, spoiled>>

Init == rows \in Seq(Nat) /\ ~spoiled

Write ==
    /\ ~spoiled /\ ~spoiled'
    /\ rows' # <<>> /\ Front(rows') = rows
    /\ \A i \in DOMAIN rows : rows[i] < Last(rows')

Spoil == spoiled'

Next == Write \/ Spoil

Spec == Init /\ [][Next]_journal
=============================================================================
