------------------------------- MODULE Jsonl -------------------------------
(***************************************************************************)
(* The file format of a session's logs and the scanner that reads it       *)
(* (conga/conga/src/storage/mod.rs).                                       *)
(*                                                                         *)
(* A file is a sequence of tokens, cut where an interrupted write can cut  *)
(* it: a whole row, the first part of a row, or a line terminator.  A row  *)
(* written by a newer version, which this reader's vocabulary does not     *)
(* hold, is "foreign".  Offsets are token indexes.                         *)
(***************************************************************************)
EXTENDS Naturals, Lists

Whole(r)   == [is |-> "row", row |-> r]
Part(r)    == [is |-> "part", row |-> r]
Foreign(r) == [is |-> "foreign", row |-> r]
NL         == [is |-> "newline", row |-> 0]

Tokens == [is : {"row", "part", "foreign"}, row : Nat] \cup {NL}

\* The rows of a file are numbered in the order they were written.
InOrder(bytes) ==
    \A i, j \in DOMAIN bytes :
        i < j /\ bytes[i] # NL /\ bytes[j] # NL => bytes[i].row < bytes[j].row

\* One record as the writer lays it out: the row and its terminator.
Line(r) == <<Whole(r), NL>>
Lines(rows) == FlattenSeq([i \in DOMAIN rows |-> Line(rows[i])])

Terminated(bytes) == bytes # <<>> => Last(bytes) = NL

-----------------------------------------------------------------------------
\* Where the non-blank lines start.
Starts(bytes) ==
    {i \in DOMAIN bytes : bytes[i] # NL /\ (i = 1 \/ bytes[i - 1] = NL)}

\* A line is one record when a whole known row is all there is on it; two rows
\* glued on one line, or a fragment, are a syntax error.
Parses(bytes, i) ==
    bytes[i].is = "row" /\ (i = Len(bytes) \/ bytes[i + 1] = NL)

\* The tag of a foreign row is refused before what follows it is looked at: a
\* data error, never a syntax error.
DataError(bytes, i) == bytes[i].is = "foreign"

BadLines(bytes) == {i \in Starts(bytes) : ~Parses(bytes, i)}

\* A bad line is a torn tail only when no line follows it.
MidFileDamage(bytes) ==
    \E i \in BadLines(bytes) : \E j \in Starts(bytes) : j > i

\* The rows of the lines that are records, in order.
Records(bytes) == Starts(bytes) \ BadLines(bytes)
RowsIn(bytes) == ElementsAt([i \in DOMAIN bytes |-> bytes[i].row], Records(bytes))

\* Mutants of Scan.
ScanHealingForeign(bytes, failClosed) ==
    [ok   |-> ~MidFileDamage(bytes),
     rows |-> RowsIn(bytes),
     torn |-> IF BadLines(bytes) = {} THEN 0
              ELSE CHOOSE i \in BadLines(bytes) : TRUE]
ScanStrict(bytes, failClosed) ==
    [ok   |-> BadLines(bytes) = {}, rows |-> RowsIn(bytes), torn |-> 0]

\* The verdict on a file: does it load, which rows, and where a torn tail
\* starts (0: nowhere).
Scan(bytes, failClosed) ==
    [ok   |-> /\ ~MidFileDamage(bytes)
              /\ failClosed => \A i \in Starts(bytes) : ~DataError(bytes, i),
     rows |-> RowsIn(bytes),
     torn |-> IF BadLines(bytes) = {} THEN 0
              ELSE CHOOSE i \in BadLines(bytes) : TRUE]

\* Mutant of HealAt.
HealKeepingTail(bytes, torn) == bytes

\* The file cut off at the start of its torn tail.
HealAt(bytes, torn) ==
    IF torn = 0 THEN bytes ELSE SubSeq(bytes, 1, torn - 1)
=============================================================================
