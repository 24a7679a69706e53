-------------------------- MODULE SessionLogProofs --------------------------
(***************************************************************************)
(* Proofs about SessionLog, for every legacy transcript and every number   *)
(* of rows, crashes, failures, foreign rows and reads: what the scanner of *)
(* Jsonl makes of a file that is extended or cut at the end of a line, the *)
(* inductive invariant Inv, and from it what an open of the session finds. *)
(* The lemmas about sequences are those of TranscriptProofs.               *)
(***************************************************************************)
EXTENDS SessionLog, TranscriptProofs

-----------------------------------------------------------------------------
(* Tokens and lines.                                                       *)

LEMMA TokenFacts ==
    /\ NL \in Tokens /\ NL.is = "newline"
    /\ \A r \in Nat : {Whole(r), Part(r), Foreign(r)} \subseteq Tokens
    /\ \A r : /\ Whole(r).is = "row" /\ Whole(r).row = r /\ Whole(r) # NL
              /\ Part(r).is = "part" /\ Part(r).row = r /\ Part(r) # NL
              /\ Foreign(r).is = "foreign" /\ Foreign(r).row = r /\ Foreign(r) # NL
    /\ \A t \in Tokens : /\ t.is \in {"row", "part", "foreign", "newline"}
                         /\ t = NL <=> t.is = "newline"
                         /\ t.row \in Nat
    BY DEF Tokens, NL, Whole, Part, Foreign

LEMMA FileIs ==
    ASSUME NEW s, IsSequence(s), \A i \in DOMAIN s : s[i] \in Tokens
    PROVE  s \in Seq(Tokens)
    <1>1. s \in Seq(Range(s)) /\ Range(s) \subseteq Tokens
        BY DEF IsSequence, Range
    <1> QED  BY <1>1, SequenceWidens

LEMMA FileFacts ==
    ASSUME NEW s \in Seq(Tokens)
    PROVE  /\ IsSequence(s) /\ Len(s) \in Nat /\ DOMAIN s = 1 .. Len(s)
           /\ \A i \in 1 .. Len(s) : s[i] \in Tokens
    BY TypedIsSequence

(* Files that follow one another.                                          *)
LEMMA FilesJoin ==
    ASSUME NEW s \in Seq(Tokens), NEW t \in Seq(Tokens)
    PROVE  s \o t \in Seq(Tokens) /\ Joins(s \o t, s, t)
    BY TypedIsSequence, ConcatJoins

LEMMA PlaceInJoin ==
    ASSUME NEW m \in Nat, NEW n \in Nat, NEW i \in 1 .. (m + n)
    PROVE  i \in 1 .. m \/ \E k \in 1 .. n : i = m + k
    <1>1. i > m => i - m \in 1 .. n /\ i = m + (i - m)
        OBVIOUS
    <1> QED  BY <1>1

LEMMA JoinFacts ==
    ASSUME NEW s \in Seq(Tokens), NEW t \in Seq(Tokens), NEW u, Joins(u, s, t)
    PROVE  /\ u \in Seq(Tokens) /\ Len(u) = Len(s) + Len(t)
           /\ DOMAIN u = 1 .. (Len(s) + Len(t))
           /\ \A i \in 1 .. Len(s) : u[i] = s[i]
           /\ \A i \in 1 .. Len(t) : u[Len(s) + i] = t[i]
           /\ \A i \in 1 .. Len(u) :
                 i \in 1 .. Len(s) \/ \E k \in 1 .. Len(t) : i = Len(s) + k
    <1>1. PICK m \in Nat : m = Len(s) /\ DOMAIN s = 1 .. m
        BY FileFacts
    <1>2. PICK n \in Nat : n = Len(t) /\ DOMAIN t = 1 .. n
        BY FileFacts
    <1>3. /\ IsSequence(u) /\ Len(u) = m + n
          /\ \A i \in 1 .. m : u[i] = s[i]
          /\ \A i \in 1 .. n : u[m + i] = t[i]
        BY <1>1, <1>2 DEF Joins
    <1>4. DOMAIN u = 1 .. (m + n)
        BY <1>3, SequenceDomain
    <1>5. \A i \in 1 .. (m + n) : i \in 1 .. m \/ \E k \in 1 .. n : i = m + k
        BY PlaceInJoin
    <1>6. \A i \in DOMAIN u : u[i] \in Tokens
        <2> SUFFICES ASSUME NEW i \in DOMAIN u PROVE u[i] \in Tokens
            OBVIOUS
        <2>1. CASE i \in 1 .. m
            BY <1>1, <1>3, <2>1
        <2>2. ASSUME NEW k \in 1 .. n, i = m + k PROVE u[i] \in Tokens
            BY <1>2, <1>3, <2>2
        <2> QED  BY <1>4, <1>5, <2>1, <2>2
    <1>7. u \in Seq(Tokens)
        BY <1>3, <1>6, FileIs
    <1>8. Len(u) = Len(s) + Len(t) /\ DOMAIN u = 1 .. (Len(s) + Len(t))
        BY <1>1, <1>2, <1>3, <1>4, Zenon
    <1>9. /\ \A i \in 1 .. Len(s) : u[i] = s[i]
          /\ \A i \in 1 .. Len(t) : u[Len(s) + i] = t[i]
        BY <1>1, <1>2, <1>3, Zenon
    <1>10. \A i \in 1 .. Len(u) :
                i \in 1 .. Len(s) \/ \E k \in 1 .. Len(t) : i = Len(s) + k
        <2> TAKE i \in 1 .. Len(u)
        <2>1. i \in 1 .. (m + n)
            BY <1>3
        <2>2. i \in 1 .. m \/ \E k \in 1 .. n : i = m + k
            BY <1>5, <2>1
        <2> QED  BY <1>1, <1>2, <2>2, Zenon
    <1> QED  BY <1>7, <1>8, <1>9, <1>10

(* The lines of two files, the first of which ends with a line.            *)
LEMMA LinesJoin ==
    ASSUME NEW s \in Seq(Tokens), NEW t \in Seq(Tokens), NEW u, Joins(u, s, t), Terminated(s)
    PROVE  /\ \A i \in 1 .. Len(s) : /\ i \in Starts(u) <=> i \in Starts(s)
                                     /\ i \in BadLines(u) <=> i \in BadLines(s)
           /\ \A k \in 1 .. Len(t) : /\ Len(s) + k \in Starts(u) <=> k \in Starts(t)
                                     /\ Len(s) + k \in BadLines(u) <=> k \in BadLines(t)
    <1>1. PICK m \in Nat : m = Len(s) /\ DOMAIN s = 1 .. m
        BY FileFacts
    <1>2. PICK n \in Nat : n = Len(t) /\ DOMAIN t = 1 .. n
        BY FileFacts
    <1>3. /\ Len(u) = m + n /\ DOMAIN u = 1 .. (m + n)
          /\ \A i \in 1 .. m : u[i] = s[i]
          /\ \A i \in 1 .. n : u[m + i] = t[i]
        <2>1. /\ Len(u) = Len(s) + Len(t) /\ DOMAIN u = 1 .. (Len(s) + Len(t))
              /\ \A i \in 1 .. Len(s) : u[i] = s[i]
              /\ \A i \in 1 .. Len(t) : u[Len(s) + i] = t[i]
            BY JoinFacts
        <2> QED  BY <1>1, <1>2, <2>1
    <1>4. m > 0 => s[m] = NL
        BY <1>1 DEF Terminated, Last
    <1>5. ASSUME NEW i \in 1 .. m
          PROVE  /\ i \in Starts(u) <=> i \in Starts(s)
                 /\ i \in Starts(s) => (Parses(u, i) <=> Parses(s, i))
        <2>1. i \in DOMAIN u /\ u[i] = s[i] /\ (i > 1 => u[i - 1] = s[i - 1])
            BY <1>3
        <2>2. i \in Starts(u) <=> i \in Starts(s)
            BY <1>1, <2>1 DEF Starts
        <2>3. ASSUME i \in Starts(s)
              PROVE  Parses(u, i) <=> Parses(s, i)
            <3>1. i < m /\ i # Len(u) /\ i # Len(s)
                BY <1>1, <1>3, <1>4, <2>3 DEF Starts
            <3>2. u[i + 1] = s[i + 1]
                BY <1>3, <3>1
            <3> QED  BY <2>1, <3>1, <3>2 DEF Parses
        <2> QED  BY <2>2, <2>3
    <1>6. ASSUME NEW k \in 1 .. n
          PROVE  /\ m + k \in Starts(u) <=> k \in Starts(t)
                 /\ k \in Starts(t) => (Parses(u, m + k) <=> Parses(t, k))
        <2>1. m + k \in DOMAIN u /\ u[m + k] = t[k]
            BY <1>3
        <2>2. (m + k = 1 \/ u[(m + k) - 1] = NL) <=> (k = 1 \/ t[k - 1] = NL)
            <3>1. CASE k = 1
                <4>1. m + k = 1 \/ (m > 0 /\ (m + k) - 1 = m)
                    BY <3>1
                <4>2. m > 0 => u[m] = NL
                    BY <1>3, <1>4
                <4> QED  BY <3>1, <4>1, <4>2
            <3>2. CASE k # 1
                <4>1. k - 1 \in 1 .. n /\ (m + k) - 1 = m + (k - 1) /\ m + k # 1
                    BY <3>2
                <4>2. u[m + (k - 1)] = t[k - 1]
                    BY <1>3, <4>1
                <4> QED  BY <3>2, <4>1, <4>2
            <3> QED  BY <3>1, <3>2
        <2>3. m + k \in Starts(u) <=> k \in Starts(t)
            BY <1>2, <2>1, <2>2 DEF Starts
        <2>4. Parses(u, m + k) <=> Parses(t, k)
            <3>1. CASE k = n
                BY <1>2, <1>3, <2>1, <3>1 DEF Parses
            <3>2. CASE k # n
                <4>1. k + 1 \in 1 .. n /\ (m + k) + 1 = m + (k + 1) /\ m + k # m + n
                    BY <3>2
                <4>2. u[m + (k + 1)] = t[k + 1]
                    BY <1>3, <4>1
                <4> QED  BY <1>2, <1>3, <2>1, <3>2, <4>1, <4>2 DEF Parses
            <3> QED  BY <3>1, <3>2
        <2> QED  BY <2>3, <2>4
    <1> QED  BY <1>1, <1>2, <1>5, <1>6 DEF BadLines

-----------------------------------------------------------------------------
(* The rows of a file.                                                     *)

RowMap(s) == [i \in DOMAIN s |-> s[i].row]

LEMMA RowMapIs ==
    ASSUME NEW s \in Seq(Tokens)
    PROVE  /\ IsSequence(RowMap(s)) /\ Len(RowMap(s)) = Len(s)
           /\ DOMAIN RowMap(s) = 1 .. Len(s)
           /\ \A i \in 1 .. Len(s) : RowMap(s)[i] = s[i].row
           /\ RowsIn(s) = ElementsAt(RowMap(s), Records(s))
    <1>1. Len(s) \in Nat /\ DOMAIN s = 1 .. Len(s)
        BY FileFacts
    <1>2. \A i \in 1 .. Len(s) : RowMap(s)[i] = s[i].row
        BY <1>1 DEF RowMap
    <1>3. RowMap(s) = [i \in 1 .. Len(s) |-> RowMap(s)[i]]
        BY <1>1 DEF RowMap
    <1>4. IsSequence(RowMap(s)) /\ Len(RowMap(s)) = Len(s)
        BY <1>1, <1>3, ListIsSequence
    <1>5. RowsIn(s) = ElementsAt(RowMap(s), Records(s))
        BY Zenon DEF RowsIn, RowMap
    <1> QED  BY <1>2, <1>4, <1>5, SequenceDomain

LEMMA ElementsSame ==
    ASSUME NEW s, IsSequence(s), NEW P, NEW Q, \A k \in DOMAIN s : k \in P <=> k \in Q
    PROVE  ElementsAt(s, P) = ElementsAt(s, Q)
    <1>1. Picked(s, P) = Picked(s, Q)
        BY DEF Picked
    <1> QED  BY <1>1, PickedIsList

(* The positions P of p \o q: those of p in R, those of q in Q.             *)
Divides(P, p, R, q, Q) ==
    /\ \A k \in DOMAIN p : k \in P <=> k \in R
    /\ \A k \in DOMAIN q : k \in Q <=> Len(p) + k \in P

Concat(v, p, q) == v = p \o q

LEMMA ElementsJoin ==
    ASSUME NEW p, IsSequence(p), NEW q, IsSequence(q), NEW v, v = p \o q,
           NEW P, NEW R, NEW Q, Divides(P, p, R, q, Q)
    PROVE  Concat(ElementsAt(v, P), ElementsAt(p, R), ElementsAt(q, Q))
    <1>1. /\ \A k \in DOMAIN p : k \in P <=> k \in R
          /\ \A k \in DOMAIN q : k \in Q <=> Len(p) + k \in P
        BY DEF Divides
    <1>2. ElementsAt(p \o q, P) = ElementsAt(p, P) \o ElementsAt(q, Q)
        <2>1. ElementsFollow(p, q, P, Q)
            BY <1>1, ElementsConcat
        <2> QED  BY <2>1, Zenon DEF ElementsFollow
    <1>3. ElementsAt(p, P) = ElementsAt(p, R)
        BY <1>1, ElementsSame
    <1>4. ElementsAt(v, P) = ElementsAt(p, R) \o ElementsAt(q, Q)
        BY <1>2, <1>3
    <1> QED  BY <1>4, Zenon DEF Concat

LEMMA RowMapsJoin ==
    ASSUME NEW s \in Seq(Tokens), NEW t \in Seq(Tokens), NEW u, Joins(u, s, t)
    PROVE  Concat(RowMap(u), RowMap(s), RowMap(t))
    <1>1. PICK m \in Nat : m = Len(s)
        BY FileFacts
    <1>2. PICK n \in Nat : n = Len(t)
        BY FileFacts
    <1>3. PICK p : p = RowMap(s)
        OBVIOUS
    <1>4. PICK q : q = RowMap(t)
        OBVIOUS
    <1>5. PICK r : r = RowMap(u)
        OBVIOUS
    <1>6. /\ u \in Seq(Tokens) /\ Len(u) = m + n
          /\ \A i \in 1 .. m : u[i] = s[i]
          /\ \A i \in 1 .. n : u[m + i] = t[i]
        BY <1>1, <1>2, JoinFacts
    <1>7. /\ IsSequence(p) /\ Len(p) = m /\ DOMAIN p = 1 .. m
          /\ \A i \in 1 .. m : p[i] = s[i].row
        BY <1>1, <1>3, RowMapIs
    <1>8. /\ IsSequence(q) /\ Len(q) = n /\ DOMAIN q = 1 .. n
          /\ \A i \in 1 .. n : q[i] = t[i].row
        BY <1>2, <1>4, RowMapIs
    <1>9. /\ IsSequence(r) /\ Len(r) = m + n /\ DOMAIN r = 1 .. (m + n)
          /\ \A i \in 1 .. (m + n) : r[i] = u[i].row
        BY <1>5, <1>6, RowMapIs
    <1>10. PICK v : v = p \o q
        OBVIOUS
    <1>11. /\ IsSequence(v) /\ Len(v) = m + n
           /\ \A i \in 1 .. m : v[i] = p[i]
           /\ \A i \in 1 .. n : v[m + i] = q[i]
        <2>1. Joins(v, p, q)
            BY <1>7, <1>8, <1>10, ConcatJoins
        <2> QED  BY <1>7, <1>8, <2>1 DEF Joins
    <1>12. r = v
        <2>1. ASSUME NEW i \in 1 .. (m + n)
              PROVE  r[i] = v[i]
            <3>1. CASE i <= m
                BY <1>6, <1>7, <1>9, <1>11, <3>1
            <3>2. CASE i > m
                <4>1. PICK k \in 1 .. n : i = m + k
                    <5>1. i - m \in 1 .. n /\ i = m + (i - m)
                        BY <3>2
                    <5> QED  BY <5>1
                <4>2. u[m + k] = t[k] /\ v[m + k] = q[k] /\ q[k] = t[k].row
                    BY <1>6, <1>8, <1>11
                <4>3. r[m + k] = u[m + k].row
                    BY <1>9, <4>1
                <4> QED  BY <4>1, <4>2, <4>3
            <3> QED  BY <3>1, <3>2
        <2> QED  BY <1>9, <1>11, <2>1, SameSequence
    <1> QED  BY <1>3, <1>4, <1>5, <1>10, <1>12, Zenon DEF Concat

LEMMA RowsJoin ==
    ASSUME NEW s \in Seq(Tokens), NEW t \in Seq(Tokens), NEW u, Joins(u, s, t), Terminated(s)
    PROVE  RowsIn(u) = RowsIn(s) \o RowsIn(t)
    <1>1. PICK m \in Nat : m = Len(s)
        BY FileFacts
    <1>2. PICK n \in Nat : n = Len(t)
        BY FileFacts
    <1>3. PICK p : p = RowMap(s)
        OBVIOUS
    <1>4. PICK q : q = RowMap(t)
        OBVIOUS
    <1>5. PICK v : v = RowMap(u)
        OBVIOUS
    <1>6. Concat(v, p, q)
        BY <1>3, <1>4, <1>5, RowMapsJoin
    <1>7. u \in Seq(Tokens)
        BY JoinFacts
    <1>8. /\ IsSequence(p) /\ Len(p) = m /\ DOMAIN p = 1 .. m
          /\ RowsIn(s) = ElementsAt(p, Records(s))
        BY <1>1, <1>3, RowMapIs
    <1>9. IsSequence(q) /\ DOMAIN q = 1 .. n /\ RowsIn(t) = ElementsAt(q, Records(t))
        BY <1>2, <1>4, RowMapIs
    <1>10. RowsIn(u) = ElementsAt(v, Records(u))
        BY <1>5, <1>7, RowMapIs
    <1>11. /\ \A k \in 1 .. m : k \in Records(u) <=> k \in Records(s)
           /\ \A k \in 1 .. n : m + k \in Records(u) <=> k \in Records(t)
        BY <1>1, <1>2, LinesJoin DEF Records
    <1>12. Divides(Records(u), p, Records(s), q, Records(t))
        <2>1. /\ \A k \in DOMAIN p : k \in Records(u) <=> k \in Records(s)
              /\ \A k \in DOMAIN q : k \in Records(t) <=> Len(p) + k \in Records(u)
            BY <1>8, <1>9, <1>11
        <2> QED  BY <2>1 DEF Divides
    <1>13. v = p \o q
        BY <1>6, Zenon DEF Concat
    <1>14. Concat(ElementsAt(v, Records(u)), ElementsAt(p, Records(s)), ElementsAt(q, Records(t)))
        BY <1>8, <1>9, <1>12, <1>13, ElementsJoin
    <1>15. ElementsAt(v, Records(u)) = ElementsAt(p, Records(s)) \o ElementsAt(q, Records(t))
        BY <1>14, Zenon DEF Concat
    <1> QED  BY <1>8, <1>9, <1>10, <1>15, Zenon

(* Files of at most one line.                                              *)
LEMMA NoLine ==
    /\ <<>> \in Seq(Tokens) /\ Len(<<>>) = 0 /\ DOMAIN <<>> = {}
    /\ Terminated(<<>>) /\ Starts(<<>>) = {} /\ BadLines(<<>>) = {} /\ RowsIn(<<>>) = <<>>
    <1>1. <<>> \in Seq(Tokens) /\ Len(<<>>) = 0 /\ DOMAIN <<>> = {}
        BY EmptyIsSequence
    <1>2. Terminated(<<>>) /\ Starts(<<>>) = {} /\ BadLines(<<>>) = {}
        BY <1>1 DEF Terminated, Starts, BadLines
    <1>3. PICK p : p = RowMap(<<>>)
        OBVIOUS
    <1>4. IsSequence(p) /\ DOMAIN p = 1 .. 0 /\ RowsIn(<<>>) = ElementsAt(p, Records(<<>>))
        BY <1>1, <1>3, RowMapIs
    <1> QED  BY <1>1, <1>2, <1>4, ElementsNone

LEMMA OneToken ==
    ASSUME NEW x \in Tokens
    PROVE  /\ <<x>> \in Seq(Tokens) /\ Len(<<x>>) = 1 /\ <<x>>[1] = x
           /\ Starts(<<x>>) = {i \in {1} : x # NL}
           /\ BadLines(<<x>>) = {i \in {1} : x # NL /\ x.is # "row"}
           /\ RowsIn(<<x>>) = IF x.is = "row" THEN <<x.row>> ELSE <<>>
    <1>1. PICK s : s = <<x>>
        OBVIOUS
    <1>2. s \in Seq(Tokens) /\ Len(s) = 1 /\ s[1] = x /\ DOMAIN s = {1}
        BY <1>1
    <1>3. Starts(s) = {i \in {1} : x # NL}
        BY <1>2 DEF Starts
    <1>4. BadLines(s) = {i \in {1} : x # NL /\ x.is # "row"}
        BY <1>2, <1>3 DEF BadLines, Parses
    <1>5. Records(s) = {i \in {1} : x.is = "row"}
        BY <1>3, <1>4, TokenFacts DEF Records
    <1>6. PICK p : p = RowMap(s)
        OBVIOUS
    <1>7. /\ IsSequence(p) /\ Len(p) = 1 /\ DOMAIN p = {1} /\ p[1] = x.row
          /\ RowsIn(s) = ElementsAt(p, Records(s))
        BY <1>2, <1>6, RowMapIs
    <1>8. p = <<x.row>>
        <2>1. PICK q : q = <<x.row>>
            OBVIOUS
        <2>2. IsSequence(q) /\ Len(q) = 1 /\ q[1] = x.row
            BY <2>1, SingletonIsSequence
        <2> QED  BY <1>7, <2>1, <2>2, SameSequence
    <1>9. CASE x.is = "row"
        <2>1. ElementsAt(p, Records(s)) = p
            BY <1>5, <1>7, <1>9, ElementsAll
        <2> QED  BY <1>1, <1>2, <1>3, <1>4, <1>7, <1>8, <1>9, <2>1
    <1>10. CASE x.is # "row"
        <2>1. ElementsAt(p, Records(s)) = <<>>
            BY <1>5, <1>7, <1>10, ElementsNone
        <2> QED  BY <1>1, <1>2, <1>3, <1>4, <1>7, <1>10, <2>1
    <1> QED  BY <1>9, <1>10

(* A token that starts a line, and its terminator.                         *)
LEMMA OneLine ==
    ASSUME NEW x \in Tokens, x # NL
    PROVE  /\ <<x, NL>> \in Seq(Tokens) /\ Len(<<x, NL>>) = 2
           /\ <<x, NL>>[1] = x /\ <<x, NL>>[2] = NL
           /\ Terminated(<<x, NL>>) /\ Starts(<<x, NL>>) = {1}
           /\ BadLines(<<x, NL>>) = {i \in {1} : x.is # "row"}
           /\ RowsIn(<<x, NL>>) = IF x.is = "row" THEN <<x.row>> ELSE <<>>
    <1>1. PICK s : s = <<x, NL>>
        OBVIOUS
    <1>2. NL \in Tokens
        BY TokenFacts
    <1>3. s \in Seq(Tokens) /\ Len(s) = 2 /\ s[1] = x /\ s[2] = NL /\ DOMAIN s = {1, 2}
        BY <1>1, <1>2
    <1>4. Terminated(s) /\ Starts(s) = {1}
        BY <1>3 DEF Terminated, Last, Starts
    <1>5. BadLines(s) = {i \in {1} : x.is # "row"}
        BY <1>3, <1>4 DEF BadLines, Parses
    <1>6. Records(s) = {i \in {1} : x.is = "row"}
        BY <1>4, <1>5 DEF Records
    <1>7. PICK p : p = RowMap(s)
        OBVIOUS
    <1>8. /\ IsSequence(p) /\ Len(p) = 2 /\ p[1] = x.row /\ p[2] = NL.row
          /\ RowsIn(s) = ElementsAt(p, Records(s))
        BY <1>3, <1>7, RowMapIs
    <1>9. PICK q : q = <<x.row>>
        OBVIOUS
    <1>10. IsSequence(q) /\ Len(q) = 1 /\ q[1] = x.row /\ DOMAIN q = {1}
        BY <1>9, SingletonIsSequence, SequenceDomain
    <1>11. PICK y : y = NL.row
        OBVIOUS
    <1>12. ElementsAt(p, Records(s)) = ElementsAt(q, Records(s))
        <2>1. PICK z : z = Append(q, y)
            OBVIOUS
        <2>2. IsSequence(z) /\ Len(z) = 2 /\ z[1] = x.row /\ z[2] = y
            <3>1. IsSequence(q)
                BY <1>10
            <3>2. /\ IsSequence(z) /\ Len(z) = Len(q) + 1 /\ z[Len(q) + 1] = y
                  /\ \A i \in DOMAIN q : z[i] = q[i]
                BY <2>1, <3>1, AppendIsSequence, Zenon
            <3> QED  BY <1>10, <3>2
        <2>3. \A i \in 1 .. Len(p) : p[i] = z[i]
            BY <1>8, <1>11, <2>2
        <2>4. p = z
            BY <1>8, <2>2, <2>3, SameSequence
        <2>5. Len(q) + 1 \notin Records(s)
            BY <1>6, <1>10
        <2> QED  BY <1>10, <2>1, <2>4, <2>5, ElementsAppend
    <1>13. CASE x.is = "row"
        <2>1. ElementsAt(q, Records(s)) = q
            BY <1>6, <1>10, <1>13, ElementsAll
        <2> QED  BY <1>1, <1>3, <1>4, <1>5, <1>8, <1>9, <1>12, <1>13, <2>1
    <1>14. CASE x.is # "row"
        <2>1. ElementsAt(q, Records(s)) = <<>>
            BY <1>6, <1>10, <1>14, ElementsNone
        <2> QED  BY <1>1, <1>3, <1>4, <1>5, <1>8, <1>12, <1>14, <2>1
    <1> QED  BY <1>13, <1>14


-----------------------------------------------------------------------------
(* Files cut at the end of a line.                                         *)

(* c is the first n tokens of s, which end with a line.                     *)
Cuts(c, s, n) ==
    /\ n \in 0 .. Len(s) /\ c \in Seq(Tokens) /\ Len(c) = n
    /\ \A i \in 1 .. n : c[i] = s[i]
    /\ n > 0 => s[n] = NL

(* What is left of a file behind its first n tokens.                       *)
Splits(s, c, n) ==
    \E t \in Seq(Tokens) : /\ Joins(s, c, t) /\ Len(t) = Len(s) - n
                           /\ \A i \in 1 .. Len(t) : t[i] = s[n + i]

LEMMA CutSplits ==
    ASSUME NEW s \in Seq(Tokens), NEW c, NEW n, Cuts(c, s, n)
    PROVE  Terminated(c) /\ c \in Seq(Tokens) /\ Splits(s, c, n)
    <1>1. PICK m \in Nat : m = Len(s) /\ DOMAIN s = 1 .. m
        BY FileFacts
    <1>2. /\ n \in 0 .. m /\ c \in Seq(Tokens) /\ Len(c) = n
          /\ \A i \in 1 .. n : c[i] = s[i]
          /\ n > 0 => s[n] = NL
        BY <1>1 DEF Cuts
    <1>3. DOMAIN c = 1 .. n /\ IsSequence(c) /\ IsSequence(s)
        BY <1>2, FileFacts
    <1>4. Terminated(c)
        BY <1>2 DEF Terminated, Last
    <1>5. PICK t : t = [i \in 1 .. (m - n) |-> s[n + i]]
        OBVIOUS
    <1>6. /\ t \in Seq(Tokens) /\ Len(t) = m - n /\ DOMAIN t = 1 .. (m - n)
          /\ \A i \in 1 .. (m - n) : t[i] = s[n + i]
        <2>1. m - n \in Nat
            BY <1>2
        <2>2. \A i \in 1 .. (m - n) : n + i \in 1 .. m /\ s[n + i] \in Tokens
            BY <1>1, <1>2, FileFacts
        <2> QED  BY <1>5, <2>1, <2>2
    <1>7. Joins(s, c, t)
        <2>1. Len(s) = Len(c) + Len(t)
            BY <1>1, <1>2, <1>6
        <2> QED  BY <1>2, <1>3, <1>6, <2>1 DEF Joins
    <1>8. Splits(s, c, n)
        BY <1>1, <1>6, <1>7 DEF Splits
    <1> QED  BY <1>2, <1>4, <1>8

LEMMA CutKeeps ==
    ASSUME NEW s \in Seq(Tokens), NEW c, NEW n, Cuts(c, s, n)
    PROVE  /\ Tidy(s) => Tidy(c)
           /\ InOrder(s) => InOrder(c)
           /\ \A i \in 1 .. n : i \in BadLines(c) <=> i \in BadLines(s)
    <1>1. PICK m \in Nat : m = Len(s) /\ DOMAIN s = 1 .. m
        BY FileFacts
    <1>2. /\ n \in 0 .. m /\ c \in Seq(Tokens) /\ Len(c) = n
          /\ \A i \in 1 .. n : c[i] = s[i]
          /\ n > 0 => s[n] = NL
        BY <1>1 DEF Cuts
    <1>3. DOMAIN c = 1 .. n
        BY <1>2, FileFacts
    <1>4. ASSUME Tidy(s)
          PROVE  Tidy(c)
        <2> SUFFICES ASSUME NEW i \in 1 .. n
                     PROVE  TidyAt(c, i)
            BY <1>3 DEF Tidy
        <2>1. TidyAt(s, i)
            BY <1>1, <1>2, <1>4 DEF Tidy
        <2>2. c[i] = s[i] /\ (i > 1 => c[i - 1] = s[i - 1]) /\ (i < n => c[i + 1] = s[i + 1])
            BY <1>2
        <2>3. i = n => s[i] = NL /\ s[i].is = "newline"
            BY <1>2, TokenFacts
        <2> QED  BY <1>1, <1>2, <2>1, <2>2, <2>3 DEF TidyAt
    <1>5. InOrder(s) => InOrder(c)
        BY <1>1, <1>2, <1>3 DEF InOrder
    <1>6. PICK t \in Seq(Tokens) : Joins(s, c, t)
        <2>1. Splits(s, c, n)
            BY CutSplits
        <2> QED  BY <2>1 DEF Splits
    <1>7. \A i \in 1 .. n : i \in BadLines(c) <=> i \in BadLines(s)
        BY <1>2, <1>6, CutSplits, LinesJoin
    <1> QED  BY <1>4, <1>5, <1>7

(* A file is cut at an offset taken from another file, with which it agrees up to there. *)
LEMMA HealCuts ==
    ASSUME NEW s \in Seq(Tokens), NEW t \in Seq(Tokens), NEW torn \in Starts(s),
           torn <= Len(t) + 1, \A i \in 1 .. (torn - 1) : t[i] = s[i]
    PROVE  torn \in 1 .. Len(s) /\ Cuts(HealAt(t, torn), t, torn - 1)
    <1>1. PICK m \in Nat : m = Len(s) /\ DOMAIN s = 1 .. m
        BY FileFacts
    <1>2. PICK n \in Nat : n = Len(t) /\ DOMAIN t = 1 .. n
        BY FileFacts
    <1>3. torn \in 1 .. m /\ (torn = 1 \/ s[torn - 1] = NL)
        BY <1>1 DEF Starts
    <1>4. PICK k \in 0 .. n : k = torn - 1
        BY <1>2, <1>3
    <1>5. HealAt(t, torn) = SubSeq(t, 1, k)
        BY <1>3, <1>4 DEF HealAt
    <1>6. PICK c : c = SubSeq(t, 1, k)
        OBVIOUS
    <1>7. /\ c \in Seq(Tokens) /\ Len(c) = k
          /\ \A i \in 1 .. k : c[i] = t[i]
        BY <1>2, <1>4, <1>6
    <1>8. k > 0 => t[k] = NL
        BY <1>3, <1>4
    <1>9. Cuts(c, t, k)
        BY <1>2, <1>4, <1>7, <1>8 DEF Cuts
    <1> QED  BY <1>1, <1>3, <1>4, <1>5, <1>6, <1>9


(* Torn tails.                                                              *)
Torn(s) == IF BadLines(s) = {} THEN 0 ELSE CHOOSE i \in BadLines(s) : TRUE

LEMMA ScanIs ==
    ASSUME NEW s, NEW f
    PROVE  /\ Scan(s, f).rows = RowsIn(s) /\ Scan(s, f).torn = Torn(s)
           /\ Scan(s, f).ok <=> /\ ~MidFileDamage(s)
                                /\ f => \A i \in Starts(s) : ~DataError(s, i)
    BY DEF Scan, Torn

LEMMA TornIs ==
    ASSUME NEW s \in Seq(Tokens)
    PROVE  /\ BadLines(s) = {} => Torn(s) = 0
           /\ BadLines(s) # {} => Torn(s) \in BadLines(s) /\ Torn(s) # 0
           /\ BadLines(s) \subseteq Starts(s) /\ Starts(s) \subseteq 1 .. Len(s)
    <1>1. BadLines(s) \subseteq Starts(s) /\ Starts(s) \subseteq 1 .. Len(s) /\ Len(s) \in Nat
        BY FileFacts DEF BadLines, Starts
    <1>2. BadLines(s) # {} => Torn(s) \in BadLines(s)
        BY DEF Torn
    <1> QED  BY <1>1, <1>2 DEF Torn

LEMMA HealIs ==
    ASSUME NEW s \in Seq(Tokens), ~MidFileDamage(s), NEW torn \in BadLines(s)
    PROVE  /\ torn \in 1 .. Len(s) /\ Cuts(HealAt(s, torn), s, torn - 1)
           /\ BadLines(HealAt(s, torn)) = {}
           /\ RowsIn(HealAt(s, torn)) = RowsIn(s)
    <1>1. PICK m \in Nat : m = Len(s)
        BY FileFacts
    <1>2. torn \in Starts(s) /\ torn \in 1 .. m /\ torn <= Len(s) + 1
        BY <1>1, TornIs
    <1>3. Cuts(HealAt(s, torn), s, torn - 1)
        BY <1>2, HealCuts
    <1>4. PICK c : c = HealAt(s, torn)
        OBVIOUS
    <1>5. PICK n \in 0 .. m : n = torn - 1
        BY <1>2
    <1>6. Cuts(c, s, n)
        BY <1>3, <1>4, <1>5
    <1>7. c \in Seq(Tokens) /\ Len(c) = n /\ Terminated(c)
        BY <1>6, CutSplits DEF Cuts
    <1>8. \A j \in Starts(s) : j <= torn
        <2>1. \A j \in Starts(s) : j \in Nat /\ ~(j > torn)
            BY <1>1, TornIs DEF MidFileDamage
        <2> QED  BY <1>2, <2>1
    <1>9. BadLines(c) = {}
        <2> SUFFICES ASSUME NEW i \in BadLines(c) PROVE FALSE
            OBVIOUS
        <2>1. i \in 1 .. n
            BY <1>7, TornIs
        <2>2. i \in BadLines(s)
            BY <1>6, <2>1, CutKeeps
        <2> QED  BY <1>2, <1>5, <2>1, <2>2 DEF MidFileDamage
    <1>10. PICK t \in Seq(Tokens) : Joins(s, c, t) /\ Len(t) = m - n
        <2>1. Splits(s, c, n)
            BY <1>6, CutSplits
        <2> QED  BY <1>1, <2>1 DEF Splits
    <1>11. RowsIn(t) = <<>>
        <2>1. \A k \in 1 .. (m - n) : k \notin Records(t)
            <3> SUFFICES ASSUME NEW k \in 1 .. (m - n), k \in Records(t) PROVE FALSE
                OBVIOUS
            <3>1. /\ n + k \in Starts(s) <=> k \in Starts(t)
                  /\ n + k \in BadLines(s) <=> k \in BadLines(t)
                BY <1>7, <1>10, LinesJoin
            <3>2. n + k \in Starts(s) /\ n + k \notin BadLines(s)
                BY <3>1 DEF Records
            <3>3. n + k = torn
                BY <1>2, <1>5, <1>8, <3>2
            <3> QED  BY <3>2, <3>3
        <2>2. PICK p : p = RowMap(t)
            OBVIOUS
        <2>3. /\ IsSequence(p) /\ DOMAIN p = 1 .. (m - n)
              /\ RowsIn(t) = ElementsAt(p, Records(t))
            BY <1>10, <2>2, RowMapIs
        <2> QED  BY <2>1, <2>3, ElementsNone
    <1>12. RowsIn(s) = RowsIn(c) \o RowsIn(t)
        BY <1>7, <1>10, RowsJoin
    <1>13. IsSequence(RowsIn(c))
        BY <1>7, RowMapIs, ElementsRange
    <1>14. RowsIn(s) = RowsIn(c)
        BY <1>11, <1>12, <1>13, EmptyConcat
    <1> QED  BY <1>1, <1>2, <1>3, <1>4, <1>9, <1>14

-----------------------------------------------------------------------------
(* Tidy files, and files in order.                                         *)

LEMMA TidyJoin ==
    ASSUME NEW s \in Seq(Tokens), NEW t \in Seq(Tokens), NEW u, Joins(u, s, t),
           Terminated(s), Tidy(s), Tidy(t)
    PROVE  Tidy(u)
    <1>1. PICK m \in Nat : m = Len(s) /\ DOMAIN s = 1 .. m
        BY FileFacts
    <1>2. PICK n \in Nat : n = Len(t) /\ DOMAIN t = 1 .. n
        BY FileFacts
    <1>3. /\ Len(u) = m + n /\ DOMAIN u = 1 .. (m + n)
          /\ \A i \in 1 .. m : u[i] = s[i]
          /\ \A i \in 1 .. n : u[m + i] = t[i]
        BY <1>1, <1>2, JoinFacts
    <1>0. \A i \in 1 .. (m + n) : i \in 1 .. m \/ \E k \in 1 .. n : i = m + k
        BY PlaceInJoin
    <1>4. m > 0 => s[m] = NL /\ NL.is = "newline"
        BY <1>1, TokenFacts DEF Terminated, Last
    <1>5. ASSUME NEW i \in 1 .. m
          PROVE  TidyAt(u, i)
        <2>1. TidyAt(s, i)
            BY <1>1 DEF Tidy
        <2>2. u[i] = s[i] /\ (i > 1 => u[i - 1] = s[i - 1]) /\ (i < m => u[i + 1] = s[i + 1])
            <3>1. (i > 1 => i - 1 \in 1 .. m) /\ (i < m => i + 1 \in 1 .. m)
                OBVIOUS
            <3> QED  BY <1>3, <3>1
        <2>3. i = m => s[i] = NL /\ s[i].is = "newline"
            BY <1>4
        <2> QED  BY <1>1, <1>3, <2>1, <2>2, <2>3 DEF TidyAt
    <1>6. ASSUME NEW k \in 1 .. n
          PROVE  TidyAt(u, m + k)
        <2>1. TidyAt(t, k)
            BY <1>2 DEF Tidy
        <2>2. u[m + k] = t[k]
            BY <1>3
        <2>3. CASE k = 1
            <3>1. m > 0 => u[m + k - 1] = NL
                <4>1. m > 0 => m + k - 1 = m /\ m \in 1 .. m
                    BY <2>3
                <4> QED  BY <1>3, <1>4, <4>1
            <3>2. k < n => u[m + k + 1] = t[k + 1]
                <4>1. k < n => k + 1 \in 1 .. n /\ m + k + 1 = m + (k + 1)
                    OBVIOUS
                <4> QED  BY <1>3, <4>1
            <3>3. m + k > 1 => m > 0
                BY <2>3
            <3>4. t[k] # NL
                BY <2>1, <2>3 DEF TidyAt
            <3> QED  BY <1>2, <1>3, <2>1, <2>2, <2>3, <3>1, <3>2, <3>3, <3>4 DEF TidyAt
        <2>4. CASE k # 1
            <3>1. k - 1 \in 1 .. n /\ m + k - 1 = m + (k - 1)
                BY <2>4
            <3>2. u[m + k - 1] = t[k - 1]
                BY <1>3, <3>1
            <3>3. k < n => u[m + k + 1] = t[k + 1] /\ k + 1 \in 1 .. n
                <4>1. k < n => k + 1 \in 1 .. n /\ m + k + 1 = m + (k + 1)
                    OBVIOUS
                <4> QED  BY <1>3, <4>1
            <3>4. /\ t[k] # NL => t[k - 1] = NL
                  /\ t[k] = NL => t[k - 1].is \in {"row", "foreign"}
                  /\ t[k].is \in {"row", "foreign"} => k < n /\ t[k + 1] = NL
                  /\ t[k].is = "part" => k = n
                BY <1>2, <2>1, <2>4 DEF TidyAt
            <3>5. /\ u[m + k] # NL => u[m + k - 1] = NL
                  /\ u[m + k] = NL => m + k > 1 /\ u[m + k - 1].is \in {"row", "foreign"}
                  /\ u[m + k].is \in {"row", "foreign"} => m + k < m + n /\ u[m + k + 1] = NL
                  /\ u[m + k].is = "part" => m + k = m + n
                BY <2>2, <2>4, <3>2, <3>3, <3>4
            <3> QED  BY <1>3, <3>5 DEF TidyAt
        <2> QED  BY <2>3, <2>4
    <1>7. ASSUME NEW i \in 1 .. (m + n)
          PROVE  TidyAt(u, i)
        <2>1. ASSUME NEW k \in 1 .. n, i = m + k PROVE TidyAt(u, i)
            BY <1>6, <2>1
        <2> QED  BY <1>0, <1>5, <2>1
    <1> QED  BY <1>3, <1>7 DEF Tidy

LEMMA OrderJoin ==
    ASSUME NEW s \in Seq(Tokens), NEW t \in Seq(Tokens), NEW u, Joins(u, s, t),
           InOrder(s), InOrder(t),
           \A i \in DOMAIN s : \A j \in DOMAIN t : s[i] # NL /\ t[j] # NL => s[i].row < t[j].row
    PROVE  InOrder(u)
    <1>1. PICK m \in Nat : m = Len(s) /\ DOMAIN s = 1 .. m
        BY FileFacts
    <1>2. PICK n \in Nat : n = Len(t) /\ DOMAIN t = 1 .. n
        BY FileFacts
    <1>3. /\ Len(u) = m + n /\ DOMAIN u = 1 .. (m + n)
          /\ \A i \in 1 .. m : u[i] = s[i]
          /\ \A i \in 1 .. n : u[m + i] = t[i]
        BY <1>1, <1>2, JoinFacts
    <1>0. \A i \in 1 .. (m + n) : i \in 1 .. m \/ \E k \in 1 .. n : i = m + k
        BY PlaceInJoin
    <1> SUFFICES ASSUME NEW i \in 1 .. (m + n), NEW j \in 1 .. (m + n), i < j,
                        u[i] # NL, u[j] # NL
                 PROVE  u[i].row < u[j].row
        BY <1>3 DEF InOrder
    <1>4. CASE i \in 1 .. m /\ j \in 1 .. m
        BY <1>1, <1>3, <1>4 DEF InOrder
    <1>5. ASSUME NEW k \in 1 .. n, j = m + k, i \in 1 .. m
          PROVE  u[i].row < u[j].row
        <2>1. u[i] = s[i] /\ u[j] = t[k] /\ i \in DOMAIN s /\ k \in DOMAIN t
            BY <1>1, <1>2, <1>3, <1>5
        <2> QED  BY <2>1
    <1>6. ASSUME NEW h \in 1 .. n, i = m + h, NEW k \in 1 .. n, j = m + k
          PROVE  u[i].row < u[j].row
        <2>1. u[i] = t[h] /\ u[j] = t[k]
            BY <1>3, <1>6
        <2>2. h < k
            BY <1>6
        <2>3. h \in DOMAIN t /\ k \in DOMAIN t /\ t[h] # NL /\ t[k] # NL
            BY <1>2, <1>6, <2>1
        <2>4. t[h].row < t[k].row
            BY <2>2, <2>3 DEF InOrder
        <2> QED  BY <2>1, <2>4
    <1>7. i \in 1 .. m \/ j \notin 1 .. m
        OBVIOUS
    <1> QED  BY <1>0, <1>4, <1>5, <1>6, <1>7

(* In a tidy file only what is last can be a fragment.                     *)
LEMMA TidyFacts ==
    ASSUME NEW s \in Seq(Tokens), Tidy(s)
    PROVE  /\ \A i \in BadLines(s) : s[i].is \in {"part", "foreign"}
           /\ \A i \in DOMAIN s : s[i].is = "part" => i = Len(s)
           /\ \A i \in DOMAIN s : s[i] # NL => i \in Starts(s)
           /\ BadLines(s) = {} => Terminated(s)
    <1>1. PICK m \in Nat : m = Len(s) /\ DOMAIN s = 1 .. m
        BY FileFacts
    <1>2. \A i \in 1 .. m : TidyAt(s, i) /\ s[i] \in Tokens
        BY <1>1, FileFacts DEF Tidy
    <1>3. \A i \in 1 .. m : s[i].is = "part" => i = Len(s)
        BY <1>2 DEF TidyAt
    <1>4. \A i \in 1 .. m : s[i] # NL => i \in Starts(s)
        BY <1>1, <1>2 DEF TidyAt, Starts
    <1>5. ASSUME NEW i \in BadLines(s)
          PROVE  s[i].is \in {"part", "foreign"}
        <2>1. i \in 1 .. m /\ s[i] # NL /\ ~Parses(s, i)
            BY <1>1 DEF BadLines, Starts
        <2>2. s[i].is = "row" => Parses(s, i)
            BY <1>2, <2>1 DEF TidyAt, Parses
        <2>3. s[i].is \in {"row", "part", "foreign", "newline"} /\ s[i].is # "newline"
            BY <1>2, <2>1, TokenFacts
        <2> QED  BY <2>1, <2>2, <2>3
    <1>6. ASSUME BadLines(s) = {}, m > 0
          PROVE  s[m] = NL
        <2>1. SUFFICES ASSUME s[m] # NL PROVE FALSE
            OBVIOUS
        <2>2. m \in Starts(s) /\ TidyAt(s, m) /\ s[m] \in Tokens
            BY <1>2, <1>4, <1>6, <2>1
        <2>3. ~(s[m].is \in {"row", "foreign"})
            BY <1>1, <2>2 DEF TidyAt
        <2>4. ~Parses(s, m)
            BY <2>3 DEF Parses
        <2> QED  BY <1>6, <2>2, <2>4 DEF BadLines
    <1>7. BadLines(s) = {} => Terminated(s)
        <2>1. s # <<>> => m > 0
            BY <1>1, NoElements, FileFacts
        <2> QED  BY <1>1, <1>6, <2>1 DEF Terminated, Last
    <1> QED  BY <1>1, <1>3, <1>4, <1>5, <1>7

(* A tidy file whose last token is a fragment, without it.                 *)
LEMMA FrontFacts ==
    ASSUME NEW s \in Seq(Tokens), s # <<>>
    PROVE  /\ Front(s) \in Seq(Tokens) /\ Len(s) \in Nat \ {0} /\ Len(Front(s)) = Len(s) - 1
           /\ \A i \in 1 .. (Len(s) - 1) : Front(s)[i] = s[i]
           /\ Joins(s, Front(s), <<Last(s)>>) /\ Last(s) = s[Len(s)] /\ Last(s) \in Tokens
           /\ InOrder(s) => InOrder(Front(s))
           /\ Tidy(s) /\ Last(s).is = "part" => Tidy(Front(s)) /\ Terminated(Front(s))
    <1>1. PICK m \in Nat : m = Len(s) /\ DOMAIN s = 1 .. m
        BY FileFacts
    <1>2. m > 0 /\ s[m] \in Tokens
        BY <1>1, NoElements, FileFacts
    <1>3. PICK a : a = Front(s)
        OBVIOUS
    <1>4. a \in Seq(Tokens) /\ Len(a) = m - 1 /\ \A i \in 1 .. (m - 1) : a[i] = s[i]
        BY <1>1, <1>2, <1>3 DEF Front
    <1>5. PICK x : x = s[m]
        OBVIOUS
    <1>6. Last(s) = x
        BY <1>1, <1>5 DEF Last
    <1>7. IsSequence(<<x>>) /\ Len(<<x>>) = 1 /\ <<x>>[1] = x /\ DOMAIN <<x>> = {1}
        BY SingletonIsSequence, SequenceDomain
    <1>8. Joins(s, a, <<x>>)
        <2>1. DOMAIN a = 1 .. (m - 1)
            BY <1>2, <1>4, FileFacts
        <2>2. Len(s) = Len(a) + Len(<<x>>) /\ IsSequence(s)
            BY <1>1, <1>2, <1>4, <1>7, FileFacts
        <2>3. \A i \in {1} : s[Len(a) + i] = <<x>>[i]
            BY <1>2, <1>4, <1>5, <1>7
        <2>4. \A i \in DOMAIN a : s[i] = a[i]
            BY <1>4, <2>1
        <2>5. \A i \in DOMAIN <<x>> : s[Len(a) + i] = <<x>>[i]
            BY <1>7, <2>3
        <2> QED  BY <2>2, <2>4, <2>5 DEF Joins
    <1>9. InOrder(s) => InOrder(a)
        <2>1. DOMAIN a = 1 .. (m - 1)
            BY <1>2, <1>4, FileFacts
        <2> QED  BY <1>1, <1>2, <1>4, <2>1 DEF InOrder
    <1>10. ASSUME Tidy(s), x.is = "part"
           PROVE  Tidy(a) /\ Terminated(a)
        <2>1. x # NL
            BY <1>10, TokenFacts
        <2>2. TidyAt(s, m)
            BY <1>1, <1>2, <1>10 DEF Tidy
        <2>3. m - 1 > 0 => s[m - 1] = NL
            BY <1>2, <1>5, <2>1, <2>2 DEF TidyAt
        <2>4. Cuts(a, s, m - 1)
            BY <1>1, <1>2, <1>4, <2>3 DEF Cuts
        <2> QED  BY <1>10, <2>4, CutKeeps, CutSplits
    <1> QED  BY <1>1, <1>2, <1>3, <1>4, <1>5, <1>6, <1>8, <1>9, <1>10


(* The rows a scan returns are rows of the file, in its order.             *)
LEMMA RowsFacts ==
    ASSUME NEW s \in Seq(Tokens)
    PROVE  /\ RowsIn(s) \in Seq(Nat)
           /\ \A k \in DOMAIN RowsIn(s) :
                 \E i \in DOMAIN s : s[i] # NL /\ RowsIn(s)[k] = s[i].row
           /\ InOrder(s) => Increasing(RowsIn(s))
    <1>1. PICK m \in Nat : m = Len(s) /\ DOMAIN s = 1 .. m
        BY FileFacts
    <1>2. \A i \in 1 .. m : s[i] \in Tokens /\ s[i].row \in Nat
        BY <1>1, FileFacts, TokenFacts
    <1>3. PICK p : p = RowMap(s)
        OBVIOUS
    <1>4. /\ IsSequence(p) /\ DOMAIN p = 1 .. m
          /\ \A i \in 1 .. m : p[i] = s[i].row
          /\ RowsIn(s) = ElementsAt(p, Records(s))
        BY <1>1, <1>3, RowMapIs
    <1>5. \A i \in 1 .. m : i \in Records(s) => s[i] # NL
        BY DEF Records, Starts
    <1>6. PICK e : e = RowsIn(s)
        OBVIOUS
    <1>7. IsSequence(e) /\ Range(e) = {p[k] : k \in {i \in DOMAIN p : i \in Records(s)}}
        BY <1>4, <1>6, ElementsRange
    <1>8. ASSUME NEW k \in DOMAIN e
          PROVE  \E i \in DOMAIN s : s[i] # NL /\ e[k] = s[i].row
        <2>1. e[k] \in Range(e)
            BY DEF Range
        <2>2. PICK i \in 1 .. m : i \in Records(s) /\ e[k] = p[i]
            BY <1>4, <1>7, <2>1
        <2> QED  BY <1>1, <1>4, <1>5, <2>2
    <1>9. e \in Seq(Nat)
        <2>1. Range(e) \subseteq Nat
            BY <1>2, <1>4, <1>7
        <2> QED  BY <1>7, <2>1, SequenceWidens DEF IsSequence
    <1>10. ASSUME InOrder(s)
           PROVE  Increasing(e)
        <2>1. \A i \in DOMAIN p : i \in Records(s) => p[i] \in Int
            BY <1>2, <1>4
        <2>2. \A i, j \in DOMAIN p : i \in Records(s) /\ j \in Records(s) /\ i < j => p[i] < p[j]
            BY <1>1, <1>4, <1>5, <1>10 DEF InOrder
        <2> QED  BY <1>4, <1>6, <2>1, <2>2, ElementsIncreasing
    <1> QED  BY <1>6, <1>8, <1>9, <1>10

(* One token, or one line, at the end of a file.                           *)
LEMMA EndFacts ==
    ASSUME NEW x \in Tokens, x # NL
    PROVE  /\ <<x>> \in Seq(Tokens) /\ <<x, NL>> \in Seq(Tokens)
           /\ InOrder(<<x>>) /\ InOrder(<<x, NL>>)
           /\ \A j \in DOMAIN <<x>> : <<x>>[j] = x
           /\ \A j \in DOMAIN <<x, NL>> : <<x, NL>>[j] \in {x, NL}
           /\ x.is = "part" => Tidy(<<x>>)
           /\ x.is \in {"row", "foreign"} => Tidy(<<x, NL>>)
    <1>1. PICK s : s = <<x>>
        OBVIOUS
    <1>2. s \in Seq(Tokens) /\ Len(s) = 1 /\ DOMAIN s = {1} /\ s[1] = x
        BY <1>1
    <1>3. PICK t : t = <<x, NL>>
        OBVIOUS
    <1>4. t \in Seq(Tokens) /\ Len(t) = 2 /\ DOMAIN t = {1, 2} /\ t[1] = x /\ t[2] = NL
        BY <1>3, TokenFacts
    <1>5. NL.is = "newline" /\ x.is # "newline"
        BY TokenFacts
    <1>6. InOrder(s) /\ InOrder(t)
        BY <1>2, <1>4 DEF InOrder
    <1>7. x.is = "part" => Tidy(s)
        BY <1>2 DEF Tidy, TidyAt
    <1>8. ASSUME x.is \in {"row", "foreign"}
          PROVE  Tidy(t)
        <2>1. TidyAt(t, 1)
            BY <1>4, <1>8 DEF TidyAt
        <2>2. TidyAt(t, 2)
            BY <1>4, <1>5, <1>8 DEF TidyAt
        <2> QED  BY <1>4, <2>1, <2>2 DEF Tidy
    <1> QED  BY <1>1, <1>2, <1>3, <1>4, <1>6, <1>7, <1>8

-----------------------------------------------------------------------------
(* A file written line by line.                                            *)

(* A file whose lines are the rows of a sequence and nothing else.         *)
Holds(b, rows) ==
    /\ b \in Seq(Tokens) /\ Terminated(b) /\ Tidy(b) /\ BadLines(b) = {}
    /\ RowsIn(b) = rows
    /\ \A i \in DOMAIN b : b[i] # NL => \E k \in DOMAIN rows : b[i].row = rows[k]
    /\ Increasing(rows) => InOrder(b)

LEMMA HoldsNothing == Holds(<<>>, <<>>)
    BY NoLine DEF Holds, Tidy, InOrder

LEMMA HoldsLine ==
    ASSUME NEW rows \in Seq(Nat), NEW r \in Nat, NEW b, Holds(b, rows)
    PROVE  Holds(b \o Line(r), Append(rows, r))
    <1>1. /\ b \in Seq(Tokens) /\ Terminated(b) /\ Tidy(b) /\ BadLines(b) = {}
          /\ RowsIn(b) = rows
          /\ \A i \in DOMAIN b : b[i] # NL => \E k \in DOMAIN rows : b[i].row = rows[k]
          /\ Increasing(rows) => InOrder(b)
        BY DEF Holds
    <1>2. PICK x : x = Whole(r)
        OBVIOUS
    <1>3. x \in Tokens /\ x # NL /\ x.is = "row" /\ x.row = r
        BY <1>2, TokenFacts
    <1>4. PICK l : l = <<x, NL>>
        OBVIOUS
    <1>5. /\ l \in Seq(Tokens) /\ Len(l) = 2 /\ l[1] = x /\ l[2] = NL /\ Terminated(l)
          /\ BadLines(l) = {} /\ RowsIn(l) = <<r>>
        BY <1>3, <1>4, OneLine
    <1>6. InOrder(l) /\ Tidy(l) /\ \A j \in DOMAIN l : l[j] \in {x, NL}
        BY <1>3, <1>4, EndFacts
    <1>7. PICK u : u = b \o l
        OBVIOUS
    <1>8. Joins(u, b, l)
        BY <1>1, <1>5, <1>7, FilesJoin
    <1>9. PICK m \in Nat : m = Len(b) /\ DOMAIN b = 1 .. m
        BY <1>1, FileFacts
    <1>10. /\ u \in Seq(Tokens) /\ Len(u) = m + 2 /\ DOMAIN u = 1 .. (m + 2)
           /\ \A i \in 1 .. m : u[i] = b[i]
           /\ \A i \in 1 .. 2 : u[m + i] = l[i]
        <2>1. /\ u \in Seq(Tokens) /\ Len(u) = Len(b) + Len(l)
              /\ DOMAIN u = 1 .. (Len(b) + Len(l))
              /\ \A i \in 1 .. Len(b) : u[i] = b[i]
              /\ \A i \in 1 .. Len(l) : u[Len(b) + i] = l[i]
            <3>1. b \in Seq(Tokens) /\ l \in Seq(Tokens)
                BY <1>1, <1>5
            <3> QED  BY <1>8, <3>1, JoinFacts
        <2> QED  BY <1>5, <1>9, <2>1
    <1>11. Tidy(u)
        BY <1>1, <1>5, <1>6, <1>8, TidyJoin
    <1>12. Terminated(u)
        <2>1. u[m + 2] = NL
            BY <1>5, <1>10
        <2> QED  BY <1>10, <2>1 DEF Terminated, Last
    <1>13. BadLines(u) = {}
        <2> SUFFICES ASSUME NEW i \in BadLines(u) PROVE FALSE
            OBVIOUS
        <2>1. i \in 1 .. (m + 2)
            BY <1>10, TornIs
        <2>2. ASSUME NEW k \in 1 .. 2, i = m + k PROVE FALSE
            <3>1. m + k \in BadLines(u) <=> k \in BadLines(l)
                BY <1>1, <1>5, <1>8, <1>9, LinesJoin
            <3> QED  BY <1>5, <2>2, <3>1
        <2>3. ASSUME i \in 1 .. m PROVE FALSE
            <3>1. i \in BadLines(u) <=> i \in BadLines(b)
                BY <1>1, <1>5, <1>8, <1>9, <2>3, LinesJoin
            <3> QED  BY <1>1, <3>1
        <2> QED  BY <2>1, <2>2, <2>3, PlaceInJoin
    <1>14. RowsIn(u) = Append(rows, r)
        <2>1. RowsIn(u) = rows \o <<r>>
            BY <1>1, <1>5, <1>8, RowsJoin
        <2>2. IsSequence(rows)
            BY TypedIsSequence
        <2> QED  BY <2>1, <2>2, AppendOne
    <1>15. PICK n \in Nat : n = Len(rows) /\ DOMAIN rows = 1 .. n
        BY TypedIsSequence, SequenceDomain
    <1>16. PICK q : q = Append(rows, r)
        OBVIOUS
    <1>17. /\ IsSequence(q) /\ DOMAIN q = 1 .. (n + 1) /\ q[n + 1] = r
           /\ \A i \in 1 .. n : q[i] = rows[i]
        <2>1. IsSequence(rows)
            BY TypedIsSequence
        <2>2. IsSequence(q) /\ Len(q) = n + 1
            BY <1>15, <1>16, <2>1, AppendIsSequence
        <2> QED  BY <1>15, <1>16, <2>1, <2>2, AppendIsSequence, SequenceDomain
    <1>18. ASSUME NEW i \in DOMAIN u, u[i] # NL
           PROVE  \E k \in DOMAIN q : u[i].row = q[k]
        <2>1. CASE i \in 1 .. m
            <3>1. PICK k \in 1 .. n : b[i].row = rows[k]
                BY <1>1, <1>9, <1>10, <1>15, <1>18, <2>1
            <3>2. u[i] = b[i]
                BY <1>10, <2>1
            <3>3. k \in DOMAIN q /\ q[k] = rows[k]
                BY <1>15, <1>17
            <3> QED  BY <3>1, <3>2, <3>3
        <2>2. ASSUME NEW k \in 1 .. 2, i = m + k PROVE u[i].row = r
            <3>1. u[i] = l[k] /\ l[k] \in {x, NL}
                BY <1>5, <1>10, <2>2
            <3> QED  BY <1>3, <1>18, <3>1
        <2>3. i \in 1 .. m \/ u[i].row = r
            BY <1>10, <2>2, PlaceInJoin
        <2> QED  BY <1>17, <2>1, <2>3
    <1>19. ASSUME Increasing(q)
           PROVE  InOrder(u)
        <2>1. \A i \in 1 .. n : rows[i] < r
            BY <1>17, <1>19 DEF Increasing
        <2>2. Increasing(rows)
            BY <1>15, <1>17, <1>19 DEF Increasing
        <2>3. \A i \in DOMAIN b : \A j \in DOMAIN l : b[i] # NL /\ l[j] # NL => b[i].row < l[j].row
            <3> SUFFICES ASSUME NEW i \in DOMAIN b, NEW j \in DOMAIN l, b[i] # NL, l[j] # NL
                         PROVE  b[i].row < l[j].row
                OBVIOUS
            <3>1. l[j] = x
                BY <1>6
            <3>2. PICK k \in 1 .. n : b[i].row = rows[k]
                BY <1>1, <1>15
            <3> QED  BY <1>3, <2>1, <3>1, <3>2
        <2> QED  BY <1>1, <1>5, <1>6, <1>8, <2>2, <2>3, OrderJoin
    <1>20. Holds(u, q)
        BY <1>10, <1>11, <1>12, <1>13, <1>14, <1>16, <1>18, <1>19 DEF Holds
    <1> QED  BY <1>2, <1>4, <1>7, <1>16, <1>20 DEF Line


LEMMA LinesHold ==
    ASSUME NEW rows \in Seq(Nat)
    PROVE  Holds(Lines(rows), rows)
    <1>1. IsSequence(rows) /\ Len(rows) \in Nat /\ DOMAIN rows = 1 .. Len(rows)
        BY TypedIsSequence, SequenceDomain
    <1>2. PICK n \in Nat : n = Len(rows)
        BY <1>1
    <1>3. PICK q : q = [i \in DOMAIN rows |-> Line(rows[i])]
        OBVIOUS
    <1>4. /\ IsSequence(q) /\ Len(q) = n /\ DOMAIN q = 1 .. n
          /\ \A i \in 1 .. n : q[i] = Line(rows[i])
        <2>1. DOMAIN q = 1 .. n /\ \A i \in 1 .. n : q[i] = Line(rows[i])
            BY <1>1, <1>2, <1>3
        <2>2. q = [i \in 1 .. n |-> q[i]]
            BY <1>1, <1>2, <1>3
        <2> QED  BY <2>1, <2>2, ListIsSequence
    <1>5. \A i \in 1 .. n : rows[i] \in Nat /\ IsSequence(Line(rows[i]))
        <2> SUFFICES ASSUME NEW i \in 1 .. n PROVE rows[i] \in Nat /\ IsSequence(Line(rows[i]))
            OBVIOUS
        <2>1. rows[i] \in Nat
            BY <1>1, <1>2
        <2>2. PICK x : x = Whole(rows[i])
            OBVIOUS
        <2>3. x \in Tokens /\ x # NL
            BY <2>1, <2>2, TokenFacts
        <2>4. <<x, NL>> \in Seq(Tokens)
            BY <2>3, OneLine
        <2>5. Line(rows[i]) \in Seq(Tokens)
            BY <2>2, <2>4 DEF Line
        <2> QED  BY <2>1, <2>5, TypedIsSequence
    <1>6. IsList(q)
        BY <1>4, <1>5 DEF IsList
    <1> DEFINE F(k) == FlattenSeq(Take(q, k))
               G == {k \in Nat : k <= n => Holds(F(k), Take(rows, k))}
    <1>7. 0 \in G
        <2>1. Take(q, 0) = <<>> /\ Take(rows, 0) = <<>>
            BY <1>1, <1>4, TakeEnds
        <2>2. Holds(F(0), Take(rows, 0))
            BY <2>1, FlattenNone, HoldsNothing
        <2> QED  BY <2>2
    <1>8. ASSUME NEW k \in G
          PROVE  k + 1 \in G
        <2>1. k \in Nat /\ k + 1 \in Nat
            OBVIOUS
        <2>2. ASSUME k + 1 <= n
              PROVE  Holds(F(k + 1), Take(rows, k + 1))
            <3>1. Holds(F(k), Take(rows, k))
                BY <2>1, <2>2
            <3> HIDE DEF G
            <3>2. k + 1 \in 1 .. n /\ k < n
                BY <2>1, <2>2
            <3>3. F(k + 1) = F(k) \o Line(rows[k + 1])
                <4>1. FlattenSeq(Take(q, k + 1)) = FlattenSeq(Take(q, k)) \o q[k + 1]
                    BY <1>4, <1>6, <2>1, <3>2, FlattenTakes
                <4>2. q[k + 1] = Line(rows[k + 1])
                    BY <1>4, <3>2
                <4> QED  BY <4>1, <4>2
            <3>4. Take(rows, k + 1) = Append(Take(rows, k), rows[k + 1])
                BY <1>1, <1>2, <2>1, <3>2, TakeEnds
            <3>5. Take(rows, k) \in Seq(Nat)
                <4>1. /\ IsSequence(Take(rows, k)) /\ DOMAIN Take(rows, k) = 1 .. k
                      /\ \A i \in 1 .. k : Take(rows, k)[i] = rows[i]
                    BY <1>1, <1>2, <2>1, <3>2, TakeProperties
                <4>2. \A i \in 1 .. k : rows[i] \in Nat
                    BY <1>5, <2>1, <3>2
                <4>3. Range(Take(rows, k)) \subseteq Nat
                    BY <4>1, <4>2 DEF Range
                <4> QED  BY <4>1, <4>3, SequenceWidens DEF IsSequence
            <3>6. rows[k + 1] \in Nat
                BY <1>5, <3>2
            <3> HIDE DEF F
            <3>7. Holds(F(k) \o Line(rows[k + 1]), Append(Take(rows, k), rows[k + 1]))
                BY <3>1, <3>5, <3>6, HoldsLine
            <3> QED  BY <3>3, <3>4, <3>7
        <2> QED  BY <2>1, <2>2
    <1>9. n \in G
        <2>1. G \in SUBSET Nat
            OBVIOUS
        <2> HIDE DEF G
        <2> QED  BY <1>7, <1>8, <2>1, NaturalInduction
    <1>10. Holds(F(n), Take(rows, n))
        BY <1>9
    <1>11. F(n) = Lines(rows) /\ Take(rows, n) = rows
        <2>1. Take(q, n) = q /\ Take(rows, n) = rows
            BY <1>1, <1>2, <1>4, TakeEnds
        <2>2. Lines(rows) = FlattenSeq(q)
            BY <1>3, Zenon DEF Lines
        <2> QED  BY <2>1, <2>2
    <1> QED  BY <1>10, <1>11

(* A file that begins with those lines.                                    *)
LEMMA LinesFirst ==
    ASSUME NEW rows \in Seq(Nat), NEW s \in Seq(Tokens),
           \A i \in DOMAIN Lines(rows) : i \in DOMAIN s /\ s[i] = Lines(rows)[i]
    PROVE  Cuts(Lines(rows), s, Len(Lines(rows)))
    <1>1. PICK b : b = Lines(rows)
        OBVIOUS
    <1>2. b \in Seq(Tokens) /\ Terminated(b)
        BY <1>1, LinesHold DEF Holds
    <1>3. PICK n \in Nat : n = Len(b) /\ DOMAIN b = 1 .. n
        BY <1>2, FileFacts
    <1>4. PICK m \in Nat : m = Len(s) /\ DOMAIN s = 1 .. m
        BY FileFacts
    <1>5. \A i \in 1 .. n : i \in 1 .. m /\ s[i] = b[i]
        BY <1>1, <1>3, <1>4
    <1>6. n > 0 => n \in 1 .. n /\ b[n] = NL
        BY <1>2, <1>3 DEF Terminated, Last
    <1>7. n <= m
        BY <1>5, <1>6
    <1>8. Cuts(b, s, n)
        BY <1>2, <1>3, <1>4, <1>5, <1>6, <1>7 DEF Cuts
    <1> QED  BY <1>1, <1>3, <1>8


-----------------------------------------------------------------------------
(* What a repair does to a file, and what an append does.                  *)

Mended(h, s) ==
    /\ h \in Seq(Tokens) /\ RowsIn(h) = RowsIn(s) /\ Torn(h) = 0
    /\ DOMAIN h \subseteq DOMAIN s /\ \A i \in DOMAIN h : h[i] = s[i]
    /\ InOrder(s) => InOrder(h)
    /\ Tidy(s) => Tidy(h) /\ Terminated(h)
    /\ Torn(s) = 0 => h = s
    /\ Torn(s) # 0 => /\ Cuts(h, s, Torn(s) - 1) /\ Terminated(h)
                      /\ HealAt(h, Torn(s)) = h

LEMMA HealedFacts ==
    ASSUME NEW s \in Seq(Tokens), ~MidFileDamage(s), NEW h, h = HealAt(s, Torn(s))
    PROVE  Mended(h, s)
    <1>1. PICK m \in Nat : m = Len(s) /\ DOMAIN s = 1 .. m
        BY FileFacts
    <1>2. PICK torn : torn = Torn(s)
        OBVIOUS
    <1>3. CASE BadLines(s) = {}
        <2>1. torn = 0 /\ h = s
            BY <1>2, <1>3 DEF HealAt, Torn
        <2> QED  BY <1>2, <1>3, <2>1, TidyFacts DEF Mended
    <1>4. CASE BadLines(s) # {}
        <2>1. torn \in BadLines(s) /\ torn # 0
            BY <1>2, <1>4, TornIs
        <2>2. h = HealAt(s, torn)
            BY <1>2
        <2>3. /\ torn \in 1 .. m /\ Cuts(h, s, torn - 1) /\ BadLines(h) = {}
              /\ RowsIn(h) = RowsIn(s)
            BY <1>1, <2>1, <2>2, HealIs
        <2>4. PICK n \in 0 .. m : n = torn - 1
            BY <2>3
        <2>5. /\ h \in Seq(Tokens) /\ Len(h) = n
              /\ \A i \in 1 .. n : h[i] = s[i]
            BY <2>3, <2>4 DEF Cuts
        <2>6. DOMAIN h = 1 .. n
            BY <2>5, FileFacts
        <2>7. Terminated(h) /\ (InOrder(s) => InOrder(h)) /\ (Tidy(s) => Tidy(h))
            BY <2>3, CutSplits, CutKeeps
        <2>8. HealAt(h, torn) = h
            <3>1. torn \in Starts(s) /\ torn <= Len(h) + 1 /\ \A i \in 1 .. (torn - 1) : h[i] = s[i]
                BY <2>1, <2>3, <2>4, <2>5, TornIs
            <3>2. Cuts(HealAt(h, torn), h, torn - 1)
                BY <2>5, <3>1, HealCuts
            <3>3. PICK g : g = HealAt(h, torn)
                OBVIOUS
            <3>4. g \in Seq(Tokens) /\ Len(g) = n /\ \A i \in 1 .. n : g[i] = h[i]
                BY <2>4, <3>2, <3>3 DEF Cuts
            <3>5. IsSequence(g) /\ IsSequence(h)
                BY <2>5, <3>4, TypedIsSequence
            <3> QED  BY <2>5, <3>3, <3>4, <3>5, SameSequence
        <2>9. Torn(h) = 0
            BY <2>3 DEF Torn
        <2> QED  BY <1>1, <1>2, <2>1, <2>3, <2>4, <2>5, <2>6, <2>7, <2>8, <2>9 DEF Mended
    <1> QED  BY <1>3, <1>4

(* The tail found in one file is no earlier than the one found before in   *)
(* a file with the same beginning.                                         *)
LEMMA TornStays ==
    ASSUME NEW s \in Seq(Tokens), NEW t \in Seq(Tokens), ~MidFileDamage(s),
           NEW torn \in BadLines(s), torn <= Len(t) + 1,
           \A i \in 1 .. (torn - 1) : t[i] = s[i]
    PROVE  Torn(t) # 0 => torn <= Torn(t)
    <1>1. PICK m \in Nat : m = Len(s) /\ DOMAIN s = 1 .. m
        BY FileFacts
    <1>2. torn \in Starts(s) /\ torn \in 1 .. m
        BY <1>1, TornIs
    <1>3. PICK n \in 0 .. m : n = torn - 1
        BY <1>2
    <1>4. PICK c : c = HealAt(t, torn)
        OBVIOUS
    <1>5. Cuts(c, t, n)
        BY <1>2, <1>3, <1>4, HealCuts
    <1>6. PICK d : d = HealAt(s, torn)
        OBVIOUS
    <1>7. Cuts(d, s, n) /\ BadLines(d) = {}
        BY <1>3, <1>6, HealIs
    <1>8. c = d
        <2>1. c \in Seq(Tokens) /\ Len(c) = n /\ \A i \in 1 .. n : c[i] = t[i]
            BY <1>5 DEF Cuts
        <2>2. d \in Seq(Tokens) /\ Len(d) = n /\ \A i \in 1 .. n : d[i] = s[i]
            BY <1>7 DEF Cuts
        <2>3. \A i \in 1 .. n : c[i] = d[i]
            BY <1>3, <2>1, <2>2
        <2>4. IsSequence(c) /\ IsSequence(d)
            BY <2>1, <2>2, TypedIsSequence
        <2> QED  BY <2>1, <2>2, <2>3, <2>4, SameSequence
    <1>9. \A i \in 1 .. n : i \notin BadLines(t)
        BY <1>5, <1>7, <1>8, CutKeeps
    <1> SUFFICES ASSUME Torn(t) # 0, ~(torn <= Torn(t)) PROVE FALSE
        OBVIOUS
    <1>10. Torn(t) \in BadLines(t) /\ Torn(t) \in 1 .. Len(t) /\ Len(t) \in Nat
        BY TornIs, FileFacts
    <1>11. Torn(t) \in 1 .. n
        BY <1>2, <1>3, <1>10
    <1> QED  BY <1>9, <1>10, <1>11

(* A file extended by nothing, by a token or by a line.                    *)
Added(u, a, x, b) ==
    /\ u \in Seq(Tokens) /\ Len(a) \in Nat /\ Len(u) \in Nat /\ Len(a) <= Len(u)
    /\ \A i \in 1 .. Len(a) : u[i] = a[i]
    /\ \A i \in DOMAIN u :
          u[i] # NL => (i \in 1 .. Len(a) \/ (i = Len(a) + 1 /\ u[i] = x))
    /\ InOrder(a) /\ (\A i \in DOMAIN a : a[i] # NL => a[i].row < x.row) => InOrder(u)
    /\ b = <<>> => u = a
    /\ b = <<x>> => Len(u) = Len(a) + 1 /\ u[Len(a) + 1] = x
    /\ b = <<x, NL>> => Terminated(u)
    /\ Terminated(a) =>
          RowsIn(u) = IF b # <<>> /\ x.is = "row" THEN Append(RowsIn(a), x.row)
                                                 ELSE RowsIn(a)
    /\ Terminated(a) /\ Tidy(a) =>
          /\ b = <<x>> /\ x.is = "part" => Tidy(u)
          /\ b = <<x, NL>> /\ x.is \in {"row", "foreign"} => Tidy(u)

LEMMA AddFacts ==
    ASSUME NEW a \in Seq(Tokens), NEW x \in Tokens, x # NL,
           NEW b \in {<<>>, <<x>>, <<x, NL>>}, NEW u, Concat(u, a, b)
    PROVE  Added(u, a, x, b)
    <1>1. /\ b \in Seq(Tokens) /\ InOrder(b) /\ (\A j \in DOMAIN b : b[j] \in {x, NL})
          /\ \/ b = <<>>
             \/ b = <<x>> /\ Len(b) = 1 /\ b[1] = x
             \/ b = <<x, NL>> /\ Len(b) = 2 /\ b[1] = x /\ b[2] = NL
        <2>1. CASE b = <<>>
            BY <2>1, NoLine DEF InOrder
        <2>2. CASE b = <<x>>
            BY <2>2, EndFacts, OneToken
        <2>3. CASE b = <<x, NL>>
            BY <2>3, EndFacts, OneLine
        <2> QED  BY <2>1, <2>2, <2>3
    <1>2. Joins(u, a, b)
        <2>1. u = a \o b
            BY Zenon DEF Concat
        <2>2. Joins(a \o b, a, b)
            BY <1>1, FilesJoin
        <2> QED  BY <2>1, <2>2
    <1>3. PICK m \in Nat : m = Len(a) /\ DOMAIN a = 1 .. m
        BY FileFacts
    <1>4. PICK n \in Nat : n = Len(b) /\ DOMAIN b = 1 .. n
        BY <1>1, FileFacts
    <1>5. /\ u \in Seq(Tokens) /\ Len(u) = m + n
          /\ DOMAIN u = 1 .. (m + n)
          /\ \A i \in 1 .. m : u[i] = a[i]
          /\ \A i \in 1 .. n : u[m + i] = b[i]
        <2>1. /\ u \in Seq(Tokens) /\ Len(u) = Len(a) + Len(b)
              /\ DOMAIN u = 1 .. (Len(a) + Len(b))
              /\ \A i \in 1 .. Len(a) : u[i] = a[i]
              /\ \A i \in 1 .. Len(b) : u[Len(a) + i] = b[i]
            <3>1. b \in Seq(Tokens)
                BY <1>1
            <3> QED  BY <1>2, <3>1, JoinFacts
        <2> QED  BY <1>3, <1>4, <2>1
    <1>6. ASSUME NEW i \in DOMAIN u, u[i] # NL
          PROVE  i \in 1 .. m \/ (i = m + 1 /\ u[i] = x)
        <2>1. ASSUME NEW k \in 1 .. n, i = m + k PROVE i = m + 1 /\ u[i] = x
            <3>1. u[i] = b[k] /\ b[k] = x
                BY <1>1, <1>4, <1>5, <1>6, <2>1
            <3>2. k = 1
                BY <1>1, <1>4, <1>6, <3>1, NoLine
            <3> QED  BY <2>1, <3>1, <3>2
        <2>2. i \in 1 .. (m + n)
            BY <1>5
        <2>3. i \in 1 .. m \/ \E k \in 1 .. n : i = m + k
            BY <2>2, PlaceInJoin
        <2> QED  BY <2>1, <2>3
    <1>7. ASSUME InOrder(a), \A i \in DOMAIN a : a[i] # NL => a[i].row < x.row
          PROVE  InOrder(u)
        <2>1. \A i \in DOMAIN a : \A j \in DOMAIN b : a[i] # NL /\ b[j] # NL => a[i].row < b[j].row
            BY <1>1, <1>7
        <2> QED  BY <1>1, <1>2, <1>7, <2>1, OrderJoin
    <1>8. b = <<>> => u = a
        <2>1. b = <<>> => u = a \o <<>>
            BY Zenon DEF Concat
        <2> QED  BY <2>1, TypedIsSequence, EmptyConcat
    <1>9. b = <<x>> => Len(u) = m + 1 /\ u[m + 1] = x
        BY <1>1, <1>4, <1>5, OneToken
    <1>10. ASSUME b = <<x, NL>>
           PROVE  Terminated(u)
        <2>1. n = 2 /\ b[2] = NL
            BY <1>4, <1>10, OneLine
        <2>2. Len(u) = m + 2 /\ u[m + 2] = NL
            BY <1>5, <2>1
        <2> QED  BY <2>2 DEF Terminated, Last
    <1>11. ASSUME Terminated(a)
           PROVE  RowsIn(u) = IF b # <<>> /\ x.is = "row" THEN Append(RowsIn(a), x.row)
                                                        ELSE RowsIn(a)
        <2>1. RowsIn(u) = RowsIn(a) \o RowsIn(b)
            BY <1>1, <1>2, <1>11, RowsJoin
        <2>2. IsSequence(RowsIn(a))
            BY RowsFacts, TypedIsSequence
        <2>3. CASE b = <<>>
            BY <2>1, <2>2, <2>3, NoLine, EmptyConcat
        <2>4. CASE b # <<>>
            <3>1. RowsIn(b) = IF x.is = "row" THEN <<x.row>> ELSE <<>>
                BY <2>4, OneToken, OneLine
            <3>2. CASE x.is = "row"
                <4>1. RowsIn(u) = RowsIn(a) \o <<x.row>>
                    BY <2>1, <3>1, <3>2
                <4> QED  BY <2>2, <2>4, <3>2, <4>1, AppendOne
            <3>3. CASE x.is # "row"
                <4>1. RowsIn(u) = RowsIn(a) \o <<>>
                    BY <2>1, <3>1, <3>3
                <4> QED  BY <2>2, <3>3, <4>1, EmptyConcat
            <3> QED  BY <3>2, <3>3
        <2> QED  BY <2>3, <2>4
    <1>12. ASSUME Terminated(a), Tidy(a)
           PROVE  /\ b = <<x>> /\ x.is = "part" => Tidy(u)
                  /\ b = <<x, NL>> /\ x.is \in {"row", "foreign"} => Tidy(u)
        <2>1. Tidy(b) => Tidy(u)
            BY <1>1, <1>2, <1>12, TidyJoin
        <2>2. b = <<x>> /\ x.is = "part" => Tidy(b)
            BY EndFacts
        <2>3. b = <<x, NL>> /\ x.is \in {"row", "foreign"} => Tidy(b)
            BY EndFacts
        <2> QED  BY <2>1, <2>2, <2>3
    <1>13. \A i \in DOMAIN u : u[i] # NL => (i \in 1 .. m \/ (i = m + 1 /\ u[i] = x))
        BY <1>6
    <1>14. m <= m + n
        BY <1>5
    <1> QED  BY <1>3, <1>5, <1>7, <1>8, <1>9, <1>10, <1>11, <1>12, <1>13, <1>14 DEF Added


(* The first part of a row at the end of a file.                           *)
Begun(u, e, r) ==
    /\ u \in Seq(Tokens) /\ u # <<>> /\ Last(u) = Part(r)
    /\ Len(e) \in Nat /\ Len(u) = Len(e) + 1
    /\ \A i \in 1 .. Len(e) : u[i] = e[i]
    /\ \A i \in DOMAIN u :
          u[i] # NL => (i \in 1 .. Len(e) \/ (i = Len(u) /\ u[i] = Part(r)))
    /\ InOrder(e) /\ (\A i \in DOMAIN e : e[i] # NL => e[i].row < r) => InOrder(u)
    /\ Terminated(e) => RowsIn(u) = RowsIn(e)
    /\ Terminated(e) /\ Tidy(e) => Tidy(u)

LEMMA BeginFacts ==
    ASSUME NEW e \in Seq(Tokens), NEW r \in Nat, NEW u, u = Append(e, Part(r))
    PROVE  Begun(u, e, r)
    <1>1. PICK x : x = Part(r)
        OBVIOUS
    <1>2. x \in Tokens /\ x # NL /\ x.is = "part" /\ x.row = r
        BY <1>1, TokenFacts
    <1>3. PICK b : b = <<x>>
        OBVIOUS
    <1>4. Concat(u, e, b)
        <2>1. Append(e, x) = e \o <<x>>
            BY TypedIsSequence, AppendOne
        <2>2. u = e \o b
            BY <1>1, <1>3, <2>1
        <2> QED  BY <2>2, Zenon DEF Concat
    <1>5. b \in {<<>>, <<x>>, <<x, NL>>} /\ b = <<x>> /\ b # <<>>
        BY <1>3, SingletonIsSequence, NoLine
    <1>6. /\ u \in Seq(Tokens) /\ Len(e) \in Nat
          /\ \A i \in 1 .. Len(e) : u[i] = e[i]
          /\ \A i \in DOMAIN u :
                u[i] # NL => (i \in 1 .. Len(e) \/ (i = Len(e) + 1 /\ u[i] = x))
          /\ InOrder(e) /\ (\A i \in DOMAIN e : e[i] # NL => e[i].row < x.row) => InOrder(u)
          /\ Len(u) = Len(e) + 1 /\ u[Len(e) + 1] = x
          /\ Terminated(e) => RowsIn(u) = RowsIn(e)
          /\ Terminated(e) /\ Tidy(e) => Tidy(u)
        <2>1. Added(u, e, x, b)
            BY <1>2, <1>4, <1>5, AddFacts
        <2> QED  BY <1>2, <1>5, <2>1 DEF Added
    <1>7. u # <<>> /\ Last(u) = x
        BY <1>6, NoLine DEF Last
    <1> QED  BY <1>1, <1>2, <1>6, <1>7 DEF Begun

(* The row that follows a file whose last line is complete.                *)
Followed(u, e, r) ==
    /\ u \in Seq(Tokens)
    /\ Len(e) \in Nat /\ Len(u) \in Nat /\ Len(e) <= Len(u)
    /\ \A i \in 1 .. Len(e) : u[i] = e[i]
    /\ \A i \in DOMAIN u : u[i] # NL => (i \in 1 .. Len(e) \/ u[i] = Foreign(r))
    /\ InOrder(e) /\ (\A i \in DOMAIN e : e[i] # NL => e[i].row < r) => InOrder(u)
    /\ Terminated(e) => RowsIn(u) = RowsIn(e)
    /\ Terminated(e) /\ Tidy(e) => Tidy(u)

LEMMA ForeignFacts ==
    ASSUME NEW e \in Seq(Tokens), NEW r \in Nat, NEW u, u = e \o <<Foreign(r), NL>>
    PROVE  Followed(u, e, r)
    <1>1. PICK x : x = Foreign(r)
        OBVIOUS
    <1>2. x \in Tokens /\ x # NL /\ x.is = "foreign" /\ x.row = r
        BY <1>1, TokenFacts
    <1>3. PICK b : b = <<x, NL>>
        OBVIOUS
    <1>4. Concat(u, e, b)
        <2>1. u = e \o b
            BY <1>1, <1>3
        <2> QED  BY <2>1, Zenon DEF Concat
    <1>5. b \in {<<>>, <<x>>, <<x, NL>>} /\ b = <<x, NL>>
        BY <1>3
    <1>6. /\ u \in Seq(Tokens) /\ Len(e) \in Nat /\ Len(u) \in Nat /\ Len(e) <= Len(u)
          /\ \A i \in 1 .. Len(e) : u[i] = e[i]
          /\ \A i \in DOMAIN u :
                u[i] # NL => (i \in 1 .. Len(e) \/ (i = Len(e) + 1 /\ u[i] = x))
          /\ InOrder(e) /\ (\A i \in DOMAIN e : e[i] # NL => e[i].row < x.row) => InOrder(u)
          /\ Terminated(e) => RowsIn(u) = RowsIn(e)
          /\ Terminated(e) /\ Tidy(e) => Tidy(u)
        <2>1. Added(u, e, x, b)
            BY <1>2, <1>4, <1>5, AddFacts
        <2> QED  BY <1>2, <1>5, <2>1 DEF Added
    <1> QED  BY <1>1, <1>2, <1>6 DEF Followed

(* What is in the file when a row that had begun to land stops landing.    *)
Stopped(u, e, r, b) ==
    /\ u \in Seq(Tokens)
    /\ Len(e) \in Nat \ {0} /\ Len(u) \in Nat /\ Len(e) - 1 <= Len(u)
    /\ e[Len(e)] = Part(r)
    /\ \A i \in 1 .. (Len(e) - 1) : u[i] = e[i]
    /\ \A i \in DOMAIN u :
          u[i] # NL => (i \in 1 .. (Len(e) - 1) \/ u[i].row = r)
    /\ InOrder(e) /\ (\A i \in DOMAIN e : e[i] # NL /\ i < Len(e) => e[i].row < r)
          => InOrder(u)
    /\ Tidy(e) => RowsIn(u) = IF b \in {<<Whole(r)>>, Line(r)} THEN Append(RowsIn(e), r)
                                                           ELSE RowsIn(e)
    /\ Tidy(e) /\ b \in {<<>>, Line(r)} => Tidy(u) /\ Terminated(u)
    /\ Tidy(e) /\ b = <<Part(r)>> => Tidy(u)

LEMMA StopFacts ==
    ASSUME NEW e \in Seq(Tokens), e # <<>>, NEW r \in Nat, Last(e) = Part(r),
           NEW b \in {<<>>, <<Part(r)>>, <<Whole(r)>>, Line(r)},
           NEW u, Concat(u, Front(e), b)
    PROVE  Stopped(u, e, r, b)
    <1>1. PICK a : a = Front(e)
        OBVIOUS
    <1>2. PICK m \in Nat \ {0} : m = Len(e) /\ DOMAIN e = 1 .. m
        BY FrontFacts, FileFacts
    <1>3. Last(e).is = "part" /\ Last(e).row = r /\ Last(e) = e[m] /\ Last(e) \in Tokens
        <2>1. Last(e) = e[m] /\ Last(e) \in Tokens
            BY <1>2, FrontFacts
        <2>2. Part(r).is = "part" /\ Part(r).row = r
            BY TokenFacts
        <2>3. Last(e) = Part(r)
            OBVIOUS
        <2> QED  BY <2>1, <2>2, <2>3
    <1>4. /\ a \in Seq(Tokens) /\ Len(a) = m - 1
          /\ \A i \in 1 .. (m - 1) : a[i] = e[i]
          /\ Joins(e, a, <<Last(e)>>)
          /\ InOrder(e) => InOrder(a)
          /\ Tidy(e) => Tidy(a) /\ Terminated(a)
        BY <1>1, <1>2, <1>3, FrontFacts
    <1>5. DOMAIN a = 1 .. (m - 1)
        BY <1>2, <1>4, FileFacts
    <1>6. PICK x : x = IF b = <<Part(r)>> THEN Part(r) ELSE Whole(r)
        OBVIOUS
    <1>7. /\ x \in Tokens /\ x # NL /\ x.row = r
          /\ b = <<Part(r)>> => x = Part(r) /\ x.is = "part"
          /\ b # <<Part(r)>> => x = Whole(r) /\ x.is = "row"
        BY <1>6, TokenFacts
    <1>8. b \in {<<>>, <<x>>, <<x, NL>>}
        BY <1>7 DEF Line
    <1>9. Concat(u, a, b)
        BY <1>1
    <1>10. /\ u \in Seq(Tokens) /\ Len(u) \in Nat /\ Len(a) <= Len(u)
           /\ \A i \in 1 .. Len(a) : u[i] = a[i]
           /\ \A i \in DOMAIN u :
                 u[i] # NL => (i \in 1 .. Len(a) \/ (i = Len(a) + 1 /\ u[i] = x))
           /\ InOrder(a) /\ (\A i \in DOMAIN a : a[i] # NL => a[i].row < x.row) => InOrder(u)
           /\ b = <<>> => u = a
           /\ b = <<x, NL>> => Terminated(u)
           /\ Terminated(a) =>
                 RowsIn(u) = IF b # <<>> /\ x.is = "row" THEN Append(RowsIn(a), x.row)
                                                        ELSE RowsIn(a)
           /\ Terminated(a) /\ Tidy(a) =>
                 /\ b = <<x>> /\ x.is = "part" => Tidy(u)
                 /\ b = <<x, NL>> /\ x.is \in {"row", "foreign"} => Tidy(u)
        <2>1. Added(u, a, x, b)
            BY <1>4, <1>7, <1>8, <1>9, AddFacts
        <2> QED  BY <2>1 DEF Added
    <1>11. ASSUME InOrder(e), \A i \in DOMAIN e : e[i] # NL /\ i < Len(e) => e[i].row < r
           PROVE  InOrder(u)
        <2>1. \A i \in DOMAIN a : a[i] # NL => a[i].row < x.row
            BY <1>2, <1>4, <1>5, <1>7, <1>11
        <2> QED  BY <1>4, <1>10, <1>11, <2>1
    <1>12. ASSUME Tidy(e)
           PROVE  RowsIn(e) = RowsIn(a)
        <2>1. PICK l : l = Last(e)
            OBVIOUS
        <2>2. l \in Tokens /\ l.is = "part"
            BY <1>3, <2>1
        <2>3. <<l>> \in Seq(Tokens) /\ RowsIn(<<l>>) = <<>>
            BY <2>2, OneToken
        <2>4. RowsIn(e) = RowsIn(a) \o RowsIn(<<l>>)
            <3>1. Joins(e, a, <<l>>)
                BY <1>4, <2>1
            <3> QED  BY <1>4, <1>12, <2>3, <3>1, RowsJoin
        <2>5. IsSequence(RowsIn(a))
            BY <1>4, RowsFacts, TypedIsSequence
        <2> QED  BY <2>3, <2>4, <2>5, EmptyConcat
    <1>13. ASSUME Tidy(e)
           PROVE  RowsIn(u) = IF b \in {<<Whole(r)>>, Line(r)} THEN Append(RowsIn(e), r)
                                                             ELSE RowsIn(e)
        <2>1. RowsIn(u) = IF b # <<>> /\ x.is = "row" THEN Append(RowsIn(e), r)
                                                      ELSE RowsIn(e)
            BY <1>4, <1>7, <1>10, <1>12, <1>13
        <2>2. (b # <<>> /\ x.is = "row") <=> b \in {<<Whole(r)>>, Line(r)}
            <3>1. Whole(r) # Part(r)
                BY TokenFacts
            <3>2. <<Whole(r)>> # <<>> /\ <<Whole(r)>> # <<Part(r)>>
                BY <3>1
            <3>3. Line(r) # <<>> /\ Line(r) # <<Part(r)>>
                BY DEF Line
            <3> QED  BY <1>7, <3>2, <3>3
        <2> QED  BY <2>1, <2>2
    <1>14. ASSUME Tidy(e)
           PROVE  /\ b \in {<<>>, Line(r)} => Tidy(u) /\ Terminated(u)
                  /\ b = <<Part(r)>> => Tidy(u)
        <2>1. b = <<>> => Tidy(u) /\ Terminated(u)
            BY <1>4, <1>10, <1>14
        <2>2. b = Line(r) => b # <<Part(r)>> /\ b = <<Whole(r), NL>>
            BY DEF Line
        <2>3. b = Line(r) => Tidy(u) /\ Terminated(u)
            BY <1>4, <1>7, <1>10, <1>14, <2>2
        <2>4. b = <<Part(r)>> => Tidy(u)
            BY <1>4, <1>7, <1>10, <1>14
        <2> QED  BY <2>1, <2>3, <2>4
    <1>15. /\ m - 1 <= Len(u) /\ e[m] = Part(r)
           /\ \A i \in 1 .. (m - 1) : u[i] = e[i]
           /\ \A i \in DOMAIN u : u[i] # NL => (i \in 1 .. (m - 1) \/ u[i].row = r)
        BY <1>3, <1>4, <1>7, <1>10
    <1> QED  BY <1>2, <1>10, <1>11, <1>13, <1>14, <1>15 DEF Stopped


-----------------------------------------------------------------------------
(* The legacy transcript.                                                  *)

LEMMA RepresentableFacts ==
    ASSUME NEW rows \in Seq(Nat)
    PROVE  /\ Representable(rows) \in Seq(Nat)
           /\ \A k \in DOMAIN Representable(rows) :
                 /\ Representable(rows)[k] \notin Custom
                 /\ \E i \in DOMAIN rows : Representable(rows)[k] = rows[i]
           /\ Increasing(rows) => Increasing(Representable(rows))
           /\ (\A i \in DOMAIN rows : rows[i] \notin Custom) => Representable(rows) = rows
    <1>1. IsSequence(rows) /\ \A i \in DOMAIN rows : rows[i] \in Nat
        BY TypedIsSequence
    <1>2. PICK P : P = {k \in DOMAIN rows : rows[k] \notin Custom}
        OBVIOUS
    <1>3. PICK e : e = Representable(rows)
        OBVIOUS
    <1>4. e = ElementsAt(rows, P)
        BY <1>2, <1>3 DEF Representable
    <1>5. IsSequence(e) /\ Range(e) = {rows[k] : k \in {i \in DOMAIN rows : i \in P}}
        BY <1>1, <1>4, ElementsRange
    <1>6. ASSUME NEW k \in DOMAIN e
          PROVE  e[k] \notin Custom /\ \E i \in DOMAIN rows : e[k] = rows[i]
        <2>1. e[k] \in Range(e)
            BY DEF Range
        <2> QED  BY <1>2, <1>5, <2>1
    <1>7. e \in Seq(Nat)
        <2>1. Range(e) \subseteq Nat
            BY <1>1, <1>5
        <2> QED  BY <1>5, <2>1, SequenceWidens DEF IsSequence
    <1>8. ASSUME Increasing(rows)
          PROVE  Increasing(e)
        <2>1. \A i \in DOMAIN rows : i \in P => rows[i] \in Int
            BY <1>1
        <2>2. \A i, j \in DOMAIN rows : i \in P /\ j \in P /\ i < j => rows[i] < rows[j]
            BY <1>8 DEF Increasing
        <2> QED  BY <1>1, <1>4, <2>1, <2>2, ElementsIncreasing
    <1>9. ASSUME \A i \in DOMAIN rows : rows[i] \notin Custom
          PROVE  e = rows
        <2>1. \A i \in DOMAIN rows : i \in P
            BY <1>2, <1>9
        <2> QED  BY <1>1, <1>4, <2>1, ElementsAll
    <1> QED  BY <1>3, <1>6, <1>7, <1>8, <1>9

LEMMA OfLegacyFacts ==
    ASSUME NEW rows \in Seq(Nat)
    PROVE  /\ (\A k \in DOMAIN rows : rows[k] < FirstRow) => OfLegacy(rows) = rows
           /\ (\A k \in DOMAIN rows : rows[k] >= FirstRow) => OfLegacy(rows) = <<>>
    <1>1. IsSequence(rows) /\ \A i \in DOMAIN rows : rows[i] \in Nat
        BY TypedIsSequence
    <1>2. PICK P : P = {k \in DOMAIN rows : rows[k] < FirstRow}
        OBVIOUS
    <1>3. OfLegacy(rows) = ElementsAt(rows, P)
        BY <1>2 DEF OfLegacy
    <1>4. ASSUME \A k \in DOMAIN rows : rows[k] < FirstRow
          PROVE  ElementsAt(rows, P) = rows
        <2>1. \A k \in DOMAIN rows : k \in P
            BY <1>2, <1>4
        <2> QED  BY <1>1, <2>1, ElementsAll
    <1>5. ASSUME \A k \in DOMAIN rows : rows[k] >= FirstRow
          PROVE  ElementsAt(rows, P) = <<>>
        <2>1. \A k \in DOMAIN rows : k \notin P
            BY <1>1, <1>2, <1>5, RowAssumption
        <2> QED  BY <1>1, <2>1, ElementsNone
    <1> QED  BY <1>3, <1>4, <1>5

LEMMA OfLegacyConcat ==
    ASSUME NEW rows \in Seq(Nat), NEW more \in Seq(Nat), NEW all, Concat(all, rows, more)
    PROVE  Concat(OfLegacy(all), OfLegacy(rows), OfLegacy(more))
    <1>1. IsSequence(rows) /\ IsSequence(more)
        BY TypedIsSequence
    <1>2. all = rows \o more
        BY Zenon DEF Concat
    <1>3. Joins(all, rows, more)
        BY <1>1, <1>2, ConcatJoins
    <1>4. PICK P : P = {k \in DOMAIN all : all[k] < FirstRow}
        OBVIOUS
    <1>5. PICK R : R = {k \in DOMAIN rows : rows[k] < FirstRow}
        OBVIOUS
    <1>6. PICK Q : Q = {k \in DOMAIN more : more[k] < FirstRow}
        OBVIOUS
    <1>7. PICK m \in Nat : m = Len(rows) /\ DOMAIN rows = 1 .. m
        BY <1>1, SequenceDomain
    <1>8. PICK n \in Nat : n = Len(more) /\ DOMAIN more = 1 .. n
        BY <1>1, SequenceDomain
    <1>9. /\ IsSequence(all) /\ Len(all) = m + n
          /\ \A i \in 1 .. m : all[i] = rows[i]
          /\ \A i \in 1 .. n : all[m + i] = more[i]
        BY <1>3, <1>7, <1>8 DEF Joins
    <1>10. DOMAIN all = 1 .. (m + n)
        BY <1>9, SequenceDomain
    <1>11. \A k \in DOMAIN rows : k \in P <=> k \in R
        <2> SUFFICES ASSUME NEW k \in 1 .. m PROVE k \in P <=> k \in R
            BY <1>7
        <2>1. k \in 1 .. (m + n) /\ all[k] = rows[k]
            BY <1>9
        <2> QED  BY <1>4, <1>5, <1>7, <1>10, <2>1
    <1>12. \A k \in DOMAIN more : k \in Q <=> Len(rows) + k \in P
        <2> SUFFICES ASSUME NEW k \in 1 .. n PROVE k \in Q <=> m + k \in P
            BY <1>7, <1>8
        <2>1. m + k \in 1 .. (m + n) /\ all[m + k] = more[k]
            BY <1>9
        <2> QED  BY <1>4, <1>6, <1>8, <1>10, <2>1
    <1>13. Divides(P, rows, R, more, Q)
        BY <1>11, <1>12 DEF Divides
    <1>14. Concat(ElementsAt(all, P), ElementsAt(rows, R), ElementsAt(more, Q))
        BY <1>1, <1>2, <1>13, ElementsJoin
    <1> QED  BY <1>4, <1>5, <1>6, <1>14 DEF OfLegacy

LEMMA LinesFacts ==
    ASSUME NEW rows \in Seq(Nat)
    PROVE  /\ Lines(rows) \in Seq(Tokens) /\ Len(Lines(rows)) \in Nat
           /\ DOMAIN Lines(rows) = 1 .. Len(Lines(rows))
           /\ Terminated(Lines(rows)) /\ Tidy(Lines(rows)) /\ BadLines(Lines(rows)) = {}
           /\ RowsIn(Lines(rows)) = rows
    BY LinesHold, FileFacts DEF Holds

LEMMA FollowsCuts ==
    ASSUME NEW rows \in Seq(Nat), NEW s \in Seq(Tokens), Follows(s, rows)
    PROVE  /\ Cuts(Lines(rows), s, Len(Lines(rows)))
           /\ \A i \in 1 .. Len(Lines(rows)) : s[i] = Lines(rows)[i]
           /\ \A i \in DOMAIN s : i > Len(Lines(rows)) /\ s[i] # NL => s[i].row >= FirstRow
    BY LinesFirst, LinesFacts DEF Follows

LEMMA FollowsItself ==
    ASSUME NEW rows \in Seq(Nat)
    PROVE  Follows(Lines(rows), rows)
    BY LinesFacts DEF Follows

LEMMA FollowsGrows ==
    ASSUME NEW rows \in Seq(Nat), NEW e \in Seq(Tokens), Follows(e, rows),
           NEW u \in Seq(Tokens), NEW n \in 0 .. Len(e), n <= Len(u),
           \A i \in 1 .. n : u[i] = e[i],
           \A i \in DOMAIN u : u[i] # NL => (i \in 1 .. n \/ u[i].row >= FirstRow),
           Len(Lines(rows)) <= n
    PROVE  Follows(u, rows)
    <1>1. PICK m \in Nat : m = Len(Lines(rows)) /\ DOMAIN Lines(rows) = 1 .. m
        BY LinesFacts
    <1>2. DOMAIN e = 1 .. Len(e) /\ DOMAIN u = 1 .. Len(u) /\ Len(e) \in Nat /\ Len(u) \in Nat
        BY FileFacts
    <1>3. \A i \in 1 .. m : i \in DOMAIN u /\ u[i] = Lines(rows)[i]
        <2> SUFFICES ASSUME NEW i \in 1 .. m PROVE i \in DOMAIN u /\ u[i] = Lines(rows)[i]
            OBVIOUS
        <2>1. e[i] = Lines(rows)[i]
            BY <1>1, FollowsCuts
        <2>2. i \in 1 .. n
            BY <1>1, <1>2
        <2> QED  BY <1>2, <2>1, <2>2
    <1>4. \A i \in DOMAIN u : i > m /\ u[i] # NL => u[i].row >= FirstRow
        <2> SUFFICES ASSUME NEW i \in DOMAIN u, i > m, u[i] # NL PROVE u[i].row >= FirstRow
            OBVIOUS
        <2>1. CASE i \in 1 .. n
            <3>1. u[i] = e[i] /\ i \in DOMAIN e
                BY <1>2, <2>1
            <3>2. e[i].row >= FirstRow
                BY <1>1, <3>1, FollowsCuts
            <3> QED  BY <3>1, <3>2
        <2> QED  BY <2>1
    <1> QED  BY <1>1, <1>3, <1>4 DEF Follows

(* The lines a log begins with are none of them torn.                      *)
LEMMA FollowsStays ==
    ASSUME NEW rows \in Seq(Nat), NEW e \in Seq(Tokens), Follows(e, rows)
    PROVE  /\ \A torn \in BadLines(e) : Len(Lines(rows)) <= torn - 1
           /\ e # <<>> /\ Last(e) # NL => Len(Lines(rows)) <= Len(e) - 1
    <1>1. PICK m \in Nat : m = Len(Lines(rows)) /\ DOMAIN Lines(rows) = 1 .. m
        BY LinesFacts
    <1>2. PICK l : l = Lines(rows)
        OBVIOUS
    <1>3. Cuts(l, e, m) /\ BadLines(l) = {}
        BY <1>1, <1>2, FollowsCuts, LinesFacts
    <1>4. PICK n \in Nat : n = Len(e) /\ DOMAIN e = 1 .. n
        BY FileFacts
    <1>5. ASSUME NEW torn \in BadLines(e)
          PROVE  m <= torn - 1
        <2>1. torn \in 1 .. n
            BY <1>4, TornIs
        <2>2. torn \in 1 .. m => torn \in BadLines(l)
            BY <1>3, CutKeeps
        <2> QED  BY <1>3, <2>1, <2>2
    <1>6. ASSUME e # <<>>, Last(e) # NL
          PROVE  m <= n - 1
        <2>1. m <= n /\ (m > 0 => e[m] = NL)
            BY <1>3, <1>4 DEF Cuts
        <2>2. n > 0 /\ e[n] # NL
            BY <1>4, <1>6, NoElements, FileFacts DEF Last
        <2> QED  BY <2>1, <2>2
    <1> QED  BY <1>1, <1>4, <1>5, <1>6

(* What is read of the transcript in a log that begins with it.            *)
LEMMA FollowsReads ==
    ASSUME NEW rows \in Seq(Nat), NEW e \in Seq(Tokens), Follows(e, rows),
           \A k \in DOMAIN rows : rows[k] < FirstRow /\ rows[k] \notin Custom
    PROVE  Representable(OfLegacy(RowsIn(e))) = rows
    <1>1. PICK l : l = Lines(rows)
        OBVIOUS
    <1>2. PICK m \in Nat : m = Len(l)
        BY <1>1, LinesFacts
    <1>3. Cuts(l, e, m) /\ l \in Seq(Tokens) /\ Terminated(l) /\ RowsIn(l) = rows
        BY <1>1, <1>2, FollowsCuts, LinesFacts
    <1>4. PICK n \in Nat : n = Len(e) /\ DOMAIN e = 1 .. n
        BY FileFacts
    <1>5. PICK t \in Seq(Tokens) :
              /\ Joins(e, l, t) /\ Len(t) = n - m
              /\ \A i \in 1 .. Len(t) : t[i] = e[m + i]
        <2>1. Splits(e, l, m)
            BY <1>3, CutSplits
        <2> QED  BY <1>4, <2>1 DEF Splits
    <1>6. RowsIn(e) = rows \o RowsIn(t)
        BY <1>3, <1>5, RowsJoin
    <1>7. PICK more : more = RowsIn(t)
        OBVIOUS
    <1>8. more \in Seq(Nat) /\ \A k \in DOMAIN more : more[k] >= FirstRow
        <2>1. more \in Seq(Nat)
            BY <1>7, RowsFacts
        <2>2. ASSUME NEW k \in DOMAIN more
              PROVE  more[k] >= FirstRow
            <3>1. PICK i \in DOMAIN t : t[i] # NL /\ more[k] = t[i].row
                BY <1>7, RowsFacts
            <3>2. i \in 1 .. (n - m) /\ m <= n
                BY <1>3, <1>4, <1>5, FileFacts DEF Cuts
            <3>3. m + i \in DOMAIN e /\ m + i > m /\ e[m + i] = t[i]
                BY <1>4, <1>5, <3>2
            <3>4. e[m + i].row >= FirstRow
                BY <1>1, <1>2, <3>1, <3>3, FollowsCuts
            <3> QED  BY <3>1, <3>3, <3>4
        <2> QED  BY <2>1, <2>2
    <1>9. PICK all : all = RowsIn(e)
        OBVIOUS
    <1>10. Concat(all, rows, more)
        BY <1>6, <1>7, <1>9, Zenon DEF Concat
    <1>11. Concat(OfLegacy(all), OfLegacy(rows), OfLegacy(more))
        BY <1>8, <1>10, OfLegacyConcat
    <1>12. OfLegacy(rows) = rows /\ OfLegacy(more) = <<>>
        BY <1>8, OfLegacyFacts
    <1>13. OfLegacy(all) = rows \o <<>>
        BY <1>11, <1>12, Zenon DEF Concat
    <1>14. OfLegacy(all) = rows
        BY <1>13, TypedIsSequence, EmptyConcat
    <1>15. Representable(rows) = rows
        BY RepresentableFacts
    <1> QED  BY <1>9, <1>14, <1>15


-----------------------------------------------------------------------------
(* The invariant holds at first.                                           *)

LEMMA InitInv == Init => Inv
    <1> SUFFICES ASSUME Init PROVE Inv
        OBVIOUS
    <1> USE DEF Init
    <1>1. /\ legacy \in Seq(Tokens) /\ InOrder(legacy)
          /\ \A i \in DOMAIN legacy : legacy[i] # NL => legacy[i].row < FirstRow
        BY LegacyAssumption
    <1>2. PICK l : l = legacy
        OBVIOUS
    <1>3. PICK rows : rows = RowsIn(l)
        OBVIOUS
    <1>4. /\ rows \in Seq(Nat) /\ Increasing(rows)
          /\ \A k \in DOMAIN rows : \E i \in DOMAIN l : l[i] # NL /\ rows[k] = l[i].row
        BY <1>1, <1>2, <1>3, RowsFacts
    <1>5. PICK t : t = Representable(rows)
        OBVIOUS
    <1>6. /\ t \in Seq(Nat) /\ Increasing(t)
          /\ \A k \in DOMAIN t : t[k] \notin Custom /\ \E i \in DOMAIN rows : t[k] = rows[i]
        BY <1>4, <1>5, RepresentableFacts
    <1>7. transcript = t
        BY <1>2, <1>3, <1>5
    <1>8. TypeOK
        <2>1. row \in FirstRow .. (MaxRow + 1)
            BY RowAssumption
        <2>2. used \in [Bounds -> Nat] /\ \A b \in Bounds : used[b] <= Limit[b]
            BY RowAssumption DEF Bounds, Limit
        <2>3. reader.at = "idle"
              /\ reader \in [at : {"idle", "checked", "healing"}, of : {"events", "legacy"},
                            bytes : Seq(Tokens)]
            <3>1. <<>> \in Seq(Tokens)
                OBVIOUS
            <3> QED  BY <3>1 DEF NoReader
        <2> QED  BY <2>1, <2>2, <2>3 DEF TypeOK, WriterAt
    <1>9. InvFiles
        <2>1. <<>> \in Seq(Tokens) /\ <<>> \in Seq(Nat)
            OBVIOUS
        <2> QED  BY <1>1, <1>6, <1>7, <2>1 DEF InvFiles, NoReader, Writing
    <1>10. InvReader
        BY DEF InvReader, NoReader
    <1>11. InvOrder
        <2>1. DOMAIN events = {} /\ InOrder(events)
            BY NoLine DEF InOrder
        <2>2. \A k \in DOMAIN t : t[k] < FirstRow
            BY <1>1, <1>2, <1>4, <1>6
        <2>3. \A i, j \in DOMAIN t : i < j => t[i] < t[j]
            BY <1>6 DEF Increasing
        <2> QED  BY <1>1, <1>6, <1>7, <2>1, <2>2, <2>3 DEF InvOrder
    <1>12. InvTidy
        BY HoldsNothing DEF InvTidy, Holds
    <1>13. InvLanded
        BY NoLine DEF InvLanded
    <1>14. InvLegacy
        BY DEF InvLegacy
    <1> QED  BY <1>8, <1>9, <1>10, <1>11, <1>12, <1>13, <1>14 DEF Inv

-----------------------------------------------------------------------------
(* Every step keeps it.                                                    *)

LEMMA Numbers ==
    ASSUME Inv
    PROVE  /\ row \in Nat /\ FirstRow \in Nat \ {0} /\ FirstRow <= row
           /\ {events, tmp, legacy, reader.bytes} \subseteq Seq(Tokens)
           /\ {plan, landed, transcript} \subseteq Seq(Nat)
    BY RowAssumption DEF Inv, TypeOK, InvFiles

(* What a step that closes a write leaves, whichever of the four it is.    *)
LEMMA StopStep ==
    ASSUME Inv, NEW b \in {<<>>, <<Part(row)>>, <<Whole(row)>>, Line(row)}, Stop(b)
    PROVE  Stopped(events', events, row, b)
    <1>1. /\ events # <<>> /\ Last(events) = Part(row) /\ events \in Seq(Tokens) /\ row \in Nat
        BY Numbers DEF Inv, InvFiles, Stop
    <1>2. PICK u : u = events'
        OBVIOUS
    <1>3. PICK e : e = events
        OBVIOUS
    <1>4. PICK r : r = row
        OBVIOUS
    <1>5. PICK c : c = b
        OBVIOUS
    <1>6. u = Front(e) \o c
        BY <1>2, <1>3, <1>5 DEF Stop
    <1>7. Concat(u, Front(e), c)
        BY <1>6, Zenon DEF Concat
    <1>8. Stopped(u, e, r, c)
        <2>1. e # <<>> /\ Last(e) = Part(r) /\ e \in Seq(Tokens) /\ r \in Nat
            BY <1>1, <1>3, <1>4
        <2>2. c \in {<<>>, <<Part(r)>>, <<Whole(r)>>, Line(r)}
            BY <1>4, <1>5
        <2> QED  BY <1>7, <2>1, <2>2, StopFacts
    <1> QED  BY <1>2, <1>3, <1>4, <1>5, <1>8

LEMMA BeginStep ==
    ASSUME Inv, NEW home, NEW pc, Begin(home, pc)
    PROVE  Begun(events', events, row)
    <1>1. events \in Seq(Tokens) /\ row \in Nat
        BY Numbers
    <1>2. PICK u : u = events'
        OBVIOUS
    <1>3. PICK e : e = events
        OBVIOUS
    <1>4. PICK r : r = row
        OBVIOUS
    <1>5. u = Append(e, Part(r))
        BY <1>2, <1>3, <1>4 DEF Begin
    <1>6. Begun(u, e, r)
        BY <1>1, <1>3, <1>4, <1>5, BeginFacts
    <1> QED  BY <1>2, <1>3, <1>4, <1>6

LEMMA ForeignStep ==
    ASSUME Inv, NewerVersionAppends
    PROVE  Followed(events', events, row)
    <1>1. events \in Seq(Tokens) /\ row \in Nat
        BY Numbers
    <1>2. PICK u : u = events'
        OBVIOUS
    <1>3. PICK e : e = events
        OBVIOUS
    <1>4. PICK r : r = row
        OBVIOUS
    <1>5. u = e \o <<Foreign(r), NL>>
        BY <1>2, <1>3, <1>4 DEF NewerVersionAppends
    <1>6. Followed(u, e, r)
        BY <1>1, <1>3, <1>4, <1>5, ForeignFacts
    <1> QED  BY <1>2, <1>3, <1>4, <1>6


LEMMA OpenStep ==
    ASSUME Inv, OpenLog
    PROVE  /\ Mended(events', events) /\ ~MidFileDamage(events)
           /\ \A i \in Starts(events) : ~DataError(events, i)
    <1>1. PICK e : e = events
        OBVIOUS
    <1>2. e \in Seq(Tokens)
        BY <1>1, Numbers
    <1>3. PICK u : u = events'
        OBVIOUS
    <1>4. Scan(e, TRUE).ok /\ u = HealAt(e, Scan(e, TRUE).torn)
        BY <1>1, <1>3 DEF OpenLog
    <1>5. ~MidFileDamage(e) /\ \A i \in Starts(e) : ~DataError(e, i)
        BY <1>4, ScanIs
    <1>6. Scan(e, TRUE).torn = Torn(e)
        BY ScanIs
    <1>7. u = HealAt(e, Torn(e))
        BY <1>4, <1>6
    <1>8. Mended(u, e)
        BY <1>2, <1>5, <1>7, HealedFacts
    <1> QED  BY <1>1, <1>3, <1>5, <1>8

LEMMA OpenLegacyStep ==
    ASSUME Inv, OpenLegacy
    PROVE  Mended(legacy', legacy) /\ plan' = Representable(RowsIn(legacy))
    <1>1. PICK e : e = legacy
        OBVIOUS
    <1>2. e \in Seq(Tokens)
        BY <1>1, Numbers
    <1>3. PICK u : u = legacy'
        OBVIOUS
    <1>4. /\ Scan(e, FALSE).ok /\ u = HealAt(e, Scan(e, FALSE).torn)
          /\ plan' = Representable(Scan(e, FALSE).rows)
        BY <1>1, <1>3 DEF OpenLegacy
    <1>5. ~MidFileDamage(e)
        BY <1>4, ScanIs
    <1>6. Scan(e, FALSE).torn = Torn(e) /\ Scan(e, FALSE).rows = RowsIn(e)
        BY ScanIs
    <1>7. u = HealAt(e, Torn(e)) /\ plan' = Representable(RowsIn(e))
        BY <1>4, <1>6
    <1>8. Mended(u, e)
        BY <1>2, <1>5, <1>7, HealedFacts
    <1> QED  BY <1>1, <1>3, <1>7, <1>8

(* What a reader about to cut the log knows of it.                         *)
LEMMA ReaderFacts ==
    ASSUME Inv, reader.at = "healing"
    PROVE  /\ reader.bytes \in Seq(Tokens) /\ ~MidFileDamage(reader.bytes)
           /\ Torn(reader.bytes) \in BadLines(reader.bytes)
           /\ reader.of = "events" =>
                 /\ hasEvents /\ Torn(reader.bytes) <= Len(events) + 1
                 /\ \A i \in 1 .. (Torn(reader.bytes) - 1) : events[i] = reader.bytes[i]
                 /\ \A i \in Starts(reader.bytes) : ~DataError(reader.bytes, i)
           /\ reader.of = "legacy" =>
                 legacy \in {<<>>, reader.bytes, HealAt(reader.bytes, Torn(reader.bytes))}
    <1>1. PICK e : e = reader.bytes
        OBVIOUS
    <1>2. PICK f : f = (reader.of = "events")
        OBVIOUS
    <1>3. e \in Seq(Tokens)
        BY <1>1, Numbers
    <1>4. /\ Scan(e, f).torn = Torn(e)
          /\ Scan(e, f).ok <=> /\ ~MidFileDamage(e)
                               /\ f => \A i \in Starts(e) : ~DataError(e, i)
        BY ScanIs
    <1>5. InvReader
        BY DEF Inv
    <1>6. /\ Scan(e, f).ok /\ Scan(e, f).torn \in DOMAIN e
          /\ reader.of = "events" =>
                /\ hasEvents /\ Scan(e, f).torn <= Len(events) + 1
                /\ \A i \in 1..(Scan(e, f).torn - 1) : events[i] = e[i]
          /\ reader.of = "legacy" => legacy \in {<<>>, e, HealAt(e, Scan(e, f).torn)}
        BY <1>1, <1>2, <1>5 DEF InvReader
    <1>7. ~MidFileDamage(e) /\ (reader.of = "events" => \A i \in Starts(e) : ~DataError(e, i))
        BY <1>2, <1>4, <1>6
    <1>8. Torn(e) \in BadLines(e)
        <2>1. Torn(e) \in 1 .. Len(e)
            BY <1>3, <1>4, <1>6, FileFacts
        <2>2. Torn(e) # 0
            BY <1>3, <2>1, FileFacts
        <2> QED  BY <1>3, <2>2, TornIs
    <1> QED  BY <1>1, <1>3, <1>4, <1>6, <1>7, <1>8

LEMMA ReaderHealsLog ==
    ASSUME Inv, ReaderHeals, reader.of = "events"
    PROVE  /\ Cuts(events', events, Torn(reader.bytes) - 1) /\ hasEvents /\ legacy' = legacy
           /\ mishaps' = mishaps \cup {m \in {"raced"} : events # reader.bytes}
           /\ events = reader.bytes => Mended(events', events)
    <1>1. reader.at = "healing"
        BY DEF ReaderHeals
    <1>2. PICK s : s = reader.bytes
        OBVIOUS
    <1>3. PICK e : e = events
        OBVIOUS
    <1>4. PICK u : u = events'
        OBVIOUS
    <1>5. PICK torn : torn = Torn(s)
        OBVIOUS
    <1>6. e \in Seq(Tokens)
        BY <1>3, Numbers
    <1>7. /\ s \in Seq(Tokens) /\ ~MidFileDamage(s) /\ torn \in BadLines(s)
          /\ torn <= Len(e) + 1 /\ \A i \in 1 .. (torn - 1) : e[i] = s[i]
          /\ hasEvents
        BY <1>1, <1>2, <1>3, <1>5, ReaderFacts
    <1>8. /\ u = HealAt(e, torn) /\ legacy' = legacy
          /\ mishaps' = mishaps \cup {m \in {"raced"} : events # reader.bytes}
        <2>1. PICK f : f = (reader.of = "events")
            OBVIOUS
        <2>2. Scan(s, f).torn = torn
            BY <1>5, ScanIs
        <2> QED  BY <1>2, <1>3, <1>4, <2>1, <2>2 DEF ReaderHeals
    <1>9. Cuts(u, e, torn - 1)
        <2>1. torn \in Starts(s)
            BY <1>7, TornIs
        <2> QED  BY <1>6, <1>7, <1>8, <2>1, HealCuts
    <1>10. e = s => Mended(u, e)
        BY <1>5, <1>6, <1>7, <1>8, HealedFacts
    <1> QED  BY <1>2, <1>3, <1>4, <1>5, <1>7, <1>8, <1>9, <1>10

LEMMA ReaderHealsLegacy ==
    ASSUME Inv, ReaderHeals, reader.of # "events"
    PROVE  /\ reader.of = "legacy" /\ events' = events /\ mishaps' = mishaps
           /\ legacy' = legacy \/ Mended(legacy', legacy)
    <1>1. reader.at = "healing"
        BY DEF ReaderHeals
    <1>2. reader.of = "legacy" /\ events' = events /\ mishaps' = mishaps
        BY DEF ReaderHeals
    <1>3. PICK s : s = reader.bytes
        OBVIOUS
    <1>4. PICK e : e = legacy
        OBVIOUS
    <1>5. PICK u : u = legacy'
        OBVIOUS
    <1>6. PICK torn : torn = Torn(s)
        OBVIOUS
    <1>7. s \in Seq(Tokens) /\ ~MidFileDamage(s) /\ torn \in BadLines(s)
        BY <1>1, <1>3, <1>6, ReaderFacts
    <1>8. e \in {<<>>, s, HealAt(s, torn)}
        BY <1>1, <1>2, <1>3, <1>4, <1>6, ReaderFacts
    <1>9. u = IF e = <<>> THEN e ELSE HealAt(e, torn)
        <2>1. PICK f : f = (reader.of = "events")
            OBVIOUS
        <2>2. Scan(s, f).torn = torn
            BY <1>6, ScanIs
        <2> QED  BY <1>2, <1>3, <1>4, <1>5, <2>1, <2>2 DEF ReaderHeals
    <1>10. CASE e = <<>>
        BY <1>2, <1>4, <1>5, <1>9, <1>10
    <1>11. CASE e # <<>> /\ e = s
        <2>1. Mended(u, e)
            BY <1>6, <1>7, <1>9, <1>11, HealedFacts
        <2> QED  BY <1>2, <1>4, <1>5, <2>1
    <1>12. CASE e # <<>> /\ e = HealAt(s, torn)
        <2>1. Mended(e, s)
            BY <1>6, <1>7, <1>12, HealedFacts
        <2>2. torn # 0
            BY <1>6, <1>7, TornIs
        <2>3. HealAt(e, torn) = e
            BY <1>6, <2>1, <2>2 DEF Mended
        <2> QED  BY <1>2, <1>4, <1>5, <1>9, <1>12, <2>3
    <1> QED  BY <1>8, <1>10, <1>11, <1>12


LEMMA ReadingFacts ==
    ASSUME NEW r, DOMAIN r = {"at", "of", "bytes"}, NEW b
    PROVE  /\ [r EXCEPT !.at = "healing", !.bytes = b].at = "healing"
           /\ [r EXCEPT !.at = "healing", !.bytes = b].of = r.of
           /\ [r EXCEPT !.at = "healing", !.bytes = b].bytes = b
    OBVIOUS

LEMMA FilesKept ==
    ASSUME Inv, Next
    PROVE  InvFiles'
    <1>1. /\ InvFiles /\ hasEvents \in BOOLEAN /\ writer \in WriterAt
          /\ row \in Nat /\ DOMAIN reader = {"at", "of", "bytes"}
          /\ {events, tmp, legacy, reader.bytes} \subseteq Seq(Tokens)
          /\ {plan, landed, transcript} \subseteq Seq(Nat)
        <2>1. DOMAIN reader = {"at", "of", "bytes"}
            BY DEF Inv, TypeOK
        <2> QED  BY <2>1, Numbers DEF Inv, TypeOK
    <1>2. <<>> \in Seq(Tokens) /\ <<>> \in Seq(Nat)
        OBVIOUS
    <1>3. CASE OpenLog
        <2>1. events' \in Seq(Tokens)
            BY <1>3, OpenStep DEF Mended
        <2> QED  BY <1>1, <1>3, <2>1 DEF OpenLog, InvFiles, Writing
    <1>4. CASE OpenLegacy
        <2>1. legacy' \in Seq(Tokens) /\ plan' = Representable(RowsIn(legacy)) /\ ~hasEvents
            BY <1>4, OpenLegacyStep DEF Mended, OpenLegacy
        <2>2. plan' = transcript
            BY <2>1 DEF Inv, InvLegacy
        <2>3. Scan(legacy, FALSE).rows = RowsIn(legacy)
            BY ScanIs
        <2>4. writer' = IF plan' = <<>> THEN "turn" ELSE "staging"
            BY <1>4, <2>1, <2>3 DEF OpenLegacy
        <2>5. UNCHANGED <<hasEvents, events, tmp, reader, row, transcript, landed>>
            BY <1>4 DEF OpenLegacy
        <2> QED  BY <1>1, <2>1, <2>2, <2>4, <2>5 DEF InvFiles, Writing
    <1>5. CASE StageFirst
        <2>1. plan # <<>> /\ ~hasEvents /\ plan = transcript
            BY <1>1, <1>5 DEF StageFirst, InvFiles
        <2>2. plan[1] \in Nat
            <3>1. PICK p : p = plan
                OBVIOUS
            <3>2. p \in Seq(Nat) /\ p # <<>>
                BY <1>1, <2>1, <3>1
            <3>3. p[1] \in Nat
                BY <3>2
            <3> QED  BY <3>1, <3>3
        <2>3. PICK x : x = Part(plan[1])
            OBVIOUS
        <2>4. x \in Tokens
            BY <2>2, <2>3, TokenFacts
        <2>5. tmp' = <<x>>
            BY <1>5, <2>3 DEF StageFirst, Staging
        <2>6. tmp' \in Seq(Tokens)
            BY <2>4, <2>5
        <2> QED  BY <1>1, <1>5, <2>1, <2>3, <2>5, <2>6 DEF StageFirst, InvFiles, Writing
    <1>6. CASE StageRest
        <2>1. tmp = <<Part(plan[1])>> /\ ~hasEvents /\ plan = transcript
            BY <1>1, <1>6 DEF StageRest, InvFiles
        <2>2. PICK l : l = Lines(plan)
            OBVIOUS
        <2>3. l \in Seq(Tokens)
            BY <1>1, <2>2, LinesFacts
        <2>4. Front(tmp) = <<>>
            <3>1. PICK t : t = tmp
                OBVIOUS
            <3>2. t \in Seq(Tokens) /\ t # <<>> /\ Len(t) = 1
                BY <1>1, <2>1, <3>1
            <3>3. Front(t) \in Seq(Tokens) /\ Len(Front(t)) = 0
                <4>1. Front(t) \in Seq(Tokens) /\ Len(Front(t)) = Len(t) - 1
                    BY <3>2, FrontFacts
                <4> QED  BY <3>2, <4>1
            <3>4. Front(t) = <<>>
                BY <3>3, NoElements, TypedIsSequence
            <3> QED  BY <3>1, <3>4
        <2>5. tmp' = l
            <3>1. tmp' = Front(tmp) \o l
                BY <1>6, <2>2 DEF StageRest
            <3>2. <<>> \o l = l
                BY <2>3, TypedIsSequence, EmptyConcat
            <3> QED  BY <2>4, <3>1, <3>2
        <2>6. UNCHANGED <<hasEvents, events, legacy, plan, reader, row, transcript, landed>>
              /\ writer' = "staged"
            BY <1>6 DEF StageRest
        <2>7. tmp' = Lines(plan)' /\ tmp' \in Seq(Tokens)
            BY <2>2, <2>3, <2>5, <2>6
        <2> QED  BY <1>1, <2>1, <2>6, <2>7 DEF InvFiles, Writing
    <1>7. CASE Install
        BY <1>1, <1>2, <1>7 DEF Install, InvFiles, Writing
    <1>8. CASE DeleteLegacy
        BY <1>1, <1>2, <1>8 DEF DeleteLegacy, InvFiles, Writing
    <1>9. CASE FailMigration
        BY <1>1, <1>2, <1>9 DEF FailMigration, InvFiles, Writing, Migrating, files
    <1>10. ASSUME NEW home, NEW pc \in Writing, Begin(home, pc), UNCHANGED reader
           PROVE  InvFiles'
        <2>1. events' \in Seq(Tokens) /\ events' # <<>> /\ Last(events') = Part(row)
            BY <1>10, BeginStep DEF Begun
        <2>2. hasEvents' /\ writer' = pc /\ row' = row /\ row <= MaxRow
              /\ UNCHANGED <<tmp, legacy, plan, transcript, landed>>
            BY <1>10 DEF Begin
        <2> QED  BY <1>1, <1>10, <2>1, <2>2 DEF InvFiles, Writing
    <1>11. ASSUME NEW b \in {<<>>, <<Part(row)>>, <<Whole(row)>>, Line(row)}, Stop(b),
                  writer' \in {"idle", "turn"}, reader'.bytes \in Seq(Tokens),
                  plan' \in Seq(Nat)
           PROVE  InvFiles'
        <2>1. events' \in Seq(Tokens)
            BY <1>11, StopStep DEF Stopped
        <2>2. hasEvents /\ UNCHANGED <<hasEvents, tmp, legacy, transcript>>
            BY <1>1, <1>11 DEF Stop, InvFiles
        <2>3. landed' \in Seq(Nat)
            <3>1. landed' = landed \/ landed' = Append(landed, row)
                BY <1>11 DEF Stop
            <3>2. landed \in Seq(Nat) /\ row \in Nat
                BY <1>1
            <3>3. Append(landed, row) \in Seq(Nat)
                BY <3>2
            <3> QED  BY <3>1, <3>2, <3>3
        <2> QED  BY <1>1, <1>11, <2>1, <2>2, <2>3 DEF InvFiles, Writing
    <1>12. CASE EndTurn
        BY <1>1, <1>12 DEF EndTurn, InvFiles, Writing, files
    <1>13. CASE ReaderChecks
        <2>1. reader'.bytes = <<>>
            BY <1>13 DEF ReaderChecks, NoReader
        <2> QED  BY <1>1, <1>2, <1>13, <2>1 DEF ReaderChecks, InvFiles, Writing, files
    <1>14. CASE ReaderReads
        <2>1. reader'.bytes \in {<<>>, events, legacy}
            <3>1. PICK bytes : bytes = IF reader.of = "events" THEN events ELSE legacy
                OBVIOUS
            <3>2. reader' \in {[reader EXCEPT !.at = "healing", !.bytes = bytes], NoReader}
                BY <1>14, <3>1 DEF ReaderReads
            <3>3. reader'.bytes \in {bytes, <<>>}
                <4>1. PICK rd : rd = [reader EXCEPT !.at = "healing", !.bytes = bytes]
                    OBVIOUS
                <4>2. rd.bytes = bytes
                    BY <1>1, <4>1, ReadingFacts
                <4>3. NoReader.bytes = <<>>
                    BY DEF NoReader
                <4>4. reader' = rd \/ reader' = NoReader
                    BY <3>2, <4>1
                <4> QED  BY <4>2, <4>3, <4>4
            <3> QED  BY <3>1, <3>3
        <2> QED  BY <1>1, <1>2, <1>14, <2>1 DEF ReaderReads, InvFiles, Writing, files
    <1>15. CASE ReaderHeals
        <2>1. events' \in Seq(Tokens) /\ legacy' \in Seq(Tokens)
              /\ (events' = events \/ hasEvents)
              /\ (writer \in Writing => events' = events)
            <3>1. CASE reader.of = "events"
                <4>1. events' \in Seq(Tokens) /\ hasEvents /\ legacy' = legacy
                    BY <1>15, <3>1, ReaderHealsLog DEF Cuts
                <4>2. writer \notin Writing
                    BY <1>15, <3>1 DEF ReaderHeals
                <4> QED  BY <1>1, <4>1, <4>2
            <3>2. CASE reader.of # "events"
                BY <1>1, <1>15, <3>2, ReaderHealsLegacy DEF Mended
            <3> QED  BY <3>1, <3>2
        <2>2. reader'.bytes = <<>>
              /\ UNCHANGED <<hasEvents, tmp, writer, plan, row, transcript, landed>>
            BY <1>15 DEF ReaderHeals, NoReader
        <2> QED  BY <1>1, <1>2, <2>1, <2>2 DEF InvFiles, Writing
    <1>16. CASE NewerVersionAppends
        <2>1. events' \in Seq(Tokens)
            BY <1>16, ForeignStep DEF Followed
        <2> QED  BY <1>1, <1>16, <2>1 DEF NewerVersionAppends, InvFiles, Writing
    <1>17. CASE Crash
        BY <1>1, <1>2, <1>17 DEF Crash, Restarted, NoReader, InvFiles, Writing, files
    <1>18. CASE BeginRow
        BY <1>10, <1>18 DEF BeginRow, Begin, Writing
    <1>19. CASE BeginClear
        BY <1>10, <1>19 DEF BeginClear, Begin, Writing
    <1>20. CASE Finish
        BY <1>1, <1>11, <1>20 DEF Finish, Home
    <1>21. CASE FailWrite
        <2>1. PICK b \in {<<>>, <<Part(row)>>, <<Whole(row)>>} : Stop(b)
            BY <1>21 DEF FailWrite
        <2>2. writer' \in {"idle", "turn"} /\ UNCHANGED <<plan, reader>>
            BY <1>21 DEF FailWrite, Home
        <2> QED  BY <1>1, <1>11, <2>1, <2>2
    <1>22. CASE CrashInWrite
        <2>1. PICK b \in {<<>>, <<Part(row)>>, <<Whole(row)>>, Line(row)} : Stop(b)
            BY <1>22 DEF CrashInWrite
        <2>2. writer' = "idle" /\ plan' = <<>> /\ reader'.bytes = <<>>
            BY <1>22 DEF CrashInWrite, Restarted, NoReader
        <2> QED  BY <1>2, <1>11, <2>1, <2>2
    <1> QED  BY <1>3, <1>4, <1>5, <1>6, <1>7, <1>8, <1>9, <1>12, <1>13, <1>14, <1>15,
                <1>16, <1>17, <1>18, <1>19, <1>20, <1>21, <1>22 DEF Next


(* InvReader, in terms of the reader and of the files it looks at.         *)
ReaderAt(r, he, ev, lg) ==
    LET found == Scan(r.bytes, r.of = "events") IN
    /\ r.at = "checked" /\ r.of = "events" => he
    /\ r.at = "healing" =>
          /\ found.ok /\ found.torn \in DOMAIN r.bytes
          /\ r.of = "events" =>
                /\ he /\ found.torn <= Len(ev) + 1
                /\ \A i \in 1..(found.torn - 1) : ev[i] = r.bytes[i]
          /\ r.of = "legacy" => lg \in {<<>>, r.bytes, HealAt(r.bytes, found.torn)}

LEMMA ReaderAtIs ==
    ASSUME NEW r, NEW he, NEW ev, NEW lg,
           r.at = "checked" /\ r.of = "events" => he,
           r.at = "healing" =>
                 Scan(r.bytes, r.of = "events").ok /\ Torn(r.bytes) \in DOMAIN r.bytes,
           r.at = "healing" /\ r.of = "events" =>
                 /\ he /\ Torn(r.bytes) <= Len(ev) + 1
                 /\ \A i \in 1 .. (Torn(r.bytes) - 1) : ev[i] = r.bytes[i],
           r.at = "healing" /\ r.of = "legacy" =>
                 lg \in {<<>>, r.bytes, HealAt(r.bytes, Torn(r.bytes))}
    PROVE  ReaderAt(r, he, ev, lg)
    <1>1. PICK f : f = (r.of = "events")
        OBVIOUS
    <1>2. PICK found : found = Scan(r.bytes, f)
        OBVIOUS
    <1>3. found.torn = Torn(r.bytes)
        BY <1>2, ScanIs
    <1> QED  BY <1>1, <1>2, <1>3 DEF ReaderAt

LEMMA ReaderKept ==
    ASSUME Inv, Next
    PROVE  InvReader'
    <1> DEFINE torn == Torn(reader.bytes)
    <1>1. InvReader /\ reader \in [at : {"idle", "checked", "healing"},
                                   of : {"events", "legacy"}, bytes : Seq(Tokens)]
        BY DEF Inv, TypeOK
    <1>2. /\ events \in Seq(Tokens) /\ legacy \in Seq(Tokens) /\ row \in Nat
          /\ Len(events) \in Nat /\ DOMAIN events = 1 .. Len(events)
        BY Numbers, FileFacts
    <1>3. /\ reader.at = "checked" /\ reader.of = "events" => hasEvents
          /\ reader.at = "healing" =>
                Scan(reader.bytes, reader.of = "events").ok /\ torn \in DOMAIN reader.bytes
        <2>1. PICK f : f = (reader.of = "events")
            OBVIOUS
        <2>2. Scan(reader.bytes, f).torn = torn
            BY ScanIs
        <2> HIDE DEF torn
        <2> QED  BY <1>1, <2>1, <2>2 DEF InvReader
    <1>4. reader.at = "healing" =>
             /\ torn \in BadLines(reader.bytes) /\ torn \in Nat \ {0}
             /\ reader.bytes \in Seq(Tokens) /\ ~MidFileDamage(reader.bytes)
             /\ reader.of = "events" =>
                   /\ hasEvents /\ torn <= Len(events) + 1
                   /\ \A i \in 1 .. (torn - 1) : events[i] = reader.bytes[i]
                   /\ torn > 1 => events[torn - 1] = NL
             /\ reader.of = "legacy" =>
                   legacy \in {<<>>, reader.bytes, HealAt(reader.bytes, torn)}
        <2> SUFFICES ASSUME reader.at = "healing"
                     PROVE  /\ torn \in BadLines(reader.bytes) /\ torn \in Nat \ {0}
                            /\ reader.bytes \in Seq(Tokens) /\ ~MidFileDamage(reader.bytes)
                            /\ reader.of = "events" =>
                                  /\ hasEvents /\ torn <= Len(events) + 1
                                  /\ \A i \in 1 .. (torn - 1) : events[i] = reader.bytes[i]
                                  /\ torn > 1 => events[torn - 1] = NL
                            /\ reader.of = "legacy" =>
                                  legacy \in {<<>>, reader.bytes, HealAt(reader.bytes, torn)}
            OBVIOUS
        <2>1. PICK s : s = reader.bytes
            OBVIOUS
        <2>2. s \in Seq(Tokens) /\ torn \in BadLines(s)
            BY <2>1, ReaderFacts
        <2>3. torn \in Starts(s) /\ torn \in Nat \ {0}
            BY <2>2, TornIs, FileFacts
        <2>4. torn > 1 => s[torn - 1] = NL
            BY <2>3 DEF Starts
        <2> HIDE DEF torn
        <2>5. /\ ~MidFileDamage(s)
              /\ reader.of = "events" =>
                    /\ hasEvents /\ torn <= Len(events) + 1
                    /\ \A i \in 1 .. (torn - 1) : events[i] = s[i]
              /\ reader.of = "legacy" => legacy \in {<<>>, s, HealAt(s, torn)}
            BY <2>1, ReaderFacts DEF torn
        <2>6. torn > 1 => torn - 1 \in 1 .. (torn - 1)
            BY <2>3
        <2> QED  BY <2>1, <2>2, <2>3, <2>4, <2>5, <2>6
    <1>5. ASSUME reader'.at \notin {"checked", "healing"}
          PROVE  InvReader'
        BY <1>5 DEF InvReader
    <1>6. ASSUME reader' = reader, hasEvents => hasEvents',
                 reader.at = "healing" /\ reader.of = "events" =>
                     /\ torn <= Len(events') + 1
                     /\ \A i \in 1 .. (torn - 1) : events'[i] = events[i],
                 reader.at = "healing" /\ reader.of = "legacy" =>
                     legacy' \in {<<>>, reader.bytes, HealAt(reader.bytes, torn)}
          PROVE  InvReader'
        <2>1. PICK r : r = reader
            OBVIOUS
        <2>2. PICK he : he = hasEvents'
            OBVIOUS
        <2>3. PICK ev : ev = events'
            OBVIOUS
        <2>4. PICK lg : lg = legacy'
            OBVIOUS
        <2>5. PICK t : t = Torn(r.bytes)
            OBVIOUS
        <2>6. t = torn
            BY <2>1, <2>5
        <2> HIDE DEF torn
        <2>7. /\ r.at = "checked" /\ r.of = "events" => he
              /\ r.at = "healing" => Scan(r.bytes, r.of = "events").ok /\ t \in DOMAIN r.bytes
            BY <1>3, <1>6, <2>1, <2>2, <2>6
        <2>8. r.at = "healing" /\ r.of = "events" =>
                 /\ he /\ t <= Len(ev) + 1
                 /\ \A i \in 1 .. (t - 1) : ev[i] = r.bytes[i]
            BY <1>4, <1>6, <2>1, <2>2, <2>3, <2>6
        <2>9. r.at = "healing" /\ r.of = "legacy" => lg \in {<<>>, r.bytes, HealAt(r.bytes, t)}
            BY <1>6, <2>1, <2>4, <2>6
        <2>10. ReaderAt(r, he, ev, lg)
            BY <2>5, <2>7, <2>8, <2>9, ReaderAtIs
        <2> QED  BY <1>6, <2>1, <2>2, <2>3, <2>4, <2>10 DEF InvReader, ReaderAt
    <1> HIDE DEF torn
    <1>7. ASSUME UNCHANGED <<hasEvents, events, legacy, reader>>
          PROVE  InvReader'
        BY <1>1, <1>7 DEF InvReader
    <1>8. CASE OpenLog
        <2>1. /\ UNCHANGED <<hasEvents, legacy, reader>>
              /\ Mended(events', events)
            BY <1>8, OpenStep DEF OpenLog
        <2>2. ASSUME reader.at = "healing", reader.of = "events"
              PROVE  /\ torn <= Len(events') + 1
                     /\ \A i \in 1 .. (torn - 1) : events'[i] = events[i]
            <3>1. PICK u : u = events'
                OBVIOUS
            <3>2. PICK e : e = events
                OBVIOUS
            <3>3. PICK s : s = reader.bytes
                OBVIOUS
            <3>4. /\ s \in Seq(Tokens) /\ ~MidFileDamage(s) /\ torn \in BadLines(s)
                  /\ torn \in Nat \ {0} /\ e \in Seq(Tokens)
                  /\ torn <= Len(e) + 1 /\ \A i \in 1 .. (torn - 1) : e[i] = s[i]
                BY <1>2, <1>4, <2>2, <3>2, <3>3
            <3>5. Torn(e) # 0 => torn <= Torn(e)
                BY <3>4, TornStays
            <3>6. Mended(u, e)
                BY <2>1, <3>1, <3>2
            <3>7. CASE Torn(e) = 0
                <4>1. u = e
                    BY <3>6, <3>7 DEF Mended
                <4> QED  BY <3>1, <3>2, <3>4, <4>1
            <3>8. CASE Torn(e) # 0
                <4>1. Cuts(u, e, Torn(e) - 1)
                    BY <3>6, <3>8 DEF Mended
                <4>2. PICK n \in Nat : n = Torn(e) - 1 /\ torn - 1 <= n
                    <5>1. Torn(e) \in 1 .. Len(e) /\ Len(e) \in Nat
                        BY <3>4, <3>8, TornIs, FileFacts
                    <5> QED  BY <3>4, <3>5, <3>8, <5>1
                <4>3. Len(u) = n /\ \A i \in 1 .. n : u[i] = e[i]
                    BY <4>1, <4>2 DEF Cuts
                <4> QED  BY <3>1, <3>2, <3>4, <4>2, <4>3
            <3> QED  BY <3>7, <3>8
        <2> QED  BY <1>4, <1>6, <2>1, <2>2
    <1>9. CASE OpenLegacy
        <2>1. UNCHANGED <<hasEvents, events, reader>> /\ Mended(legacy', legacy)
              /\ legacy' = HealAt(legacy, Torn(legacy))
            <3>1. Scan(legacy, FALSE).torn = Torn(legacy)
                BY ScanIs
            <3> QED  BY <1>9, <3>1, OpenLegacyStep DEF OpenLegacy
        <2>2. ASSUME reader.at = "healing", reader.of = "legacy"
              PROVE  legacy' \in {<<>>, reader.bytes, HealAt(reader.bytes, torn)}
            <3>1. PICK s : s = reader.bytes
                OBVIOUS
            <3>2. /\ s \in Seq(Tokens) /\ ~MidFileDamage(s) /\ torn = Torn(s)
                  /\ legacy \in {<<>>, s, HealAt(s, torn)}
                BY <1>4, <2>2, <3>1 DEF torn
            <3>3. CASE legacy = <<>>
                <4>1. Torn(legacy) = 0
                    BY <3>3, NoLine DEF Torn
                <4> QED  BY <2>1, <3>3, <4>1 DEF HealAt
            <3>4. CASE legacy = s
                BY <2>1, <3>1, <3>2, <3>4
            <3>5. CASE legacy = HealAt(s, torn)
                <4>1. PICK h : h = HealAt(s, torn)
                    OBVIOUS
                <4>2. Mended(h, s)
                    BY <3>2, <4>1, HealedFacts
                <4>3. Torn(h) = 0
                    BY <4>2 DEF Mended
                <4>4. HealAt(h, 0) = h
                    BY DEF HealAt
                <4> QED  BY <2>1, <3>1, <3>5, <4>1, <4>3, <4>4
            <3> QED  BY <3>2, <3>3, <3>4, <3>5
        <2> QED  BY <1>4, <1>6, <2>1, <2>2
    <1>10. CASE Install
        <2>1. ~hasEvents /\ hasEvents' /\ UNCHANGED <<legacy, reader>>
            BY <1>10 DEF Install, Inv, InvFiles
        <2> QED  BY <1>4, <1>6, <2>1
    <1>11. CASE DeleteLegacy
        <2>1. legacy' = <<>> /\ UNCHANGED <<hasEvents, events, reader>>
            BY <1>11 DEF DeleteLegacy
        <2> QED  BY <1>4, <1>6, <2>1
    <1>12. ASSUME NEW home, NEW pc, Begin(home, pc), UNCHANGED reader
           PROVE  InvReader'
        <2>1. hasEvents' /\ UNCHANGED <<legacy, reader>>
            BY <1>12 DEF Begin
        <2>2. Len(events') = Len(events) + 1 /\ \A i \in 1 .. Len(events) : events'[i] = events[i]
            BY <1>12, BeginStep DEF Begun
        <2>3. Len(events) \in Nat /\ Len(events) <= Len(events')
            BY <2>2, Numbers, FileFacts
        <2> QED  BY <1>2, <1>4, <1>6, <2>1, <2>2, <2>3
    <1>13. ASSUME NEW b \in {<<>>, <<Part(row)>>, <<Whole(row)>>, Line(row)}, Stop(b),
                  UNCHANGED reader
           PROVE  InvReader'
        <2>1. UNCHANGED <<hasEvents, legacy>>
            BY <1>13 DEF Stop
        <2>2. /\ Len(events) \in Nat \ {0} /\ Len(events') \in Nat /\ Len(events) - 1 <= Len(events')
              /\ events[Len(events)] = Part(row)
              /\ \A i \in 1 .. (Len(events) - 1) : events'[i] = events[i]
            BY <1>13, StopStep DEF Stopped
        <2>3. reader.at = "healing" /\ reader.of = "events" => torn - 1 <= Len(events) - 1
            <3>1. Part(row) # NL
                BY TokenFacts
            <3> QED  BY <1>4, <2>2, <3>1
        <2>4. reader.at = "healing" /\ reader.of = "events" =>
                  /\ torn <= Len(events') + 1
                  /\ \A i \in 1 .. (torn - 1) : events'[i] = events[i]
            BY <1>4, <2>2, <2>3
        <2> QED  BY <1>4, <1>6, <1>13, <2>1, <2>4
    <1>14. CASE ReaderChecks
        <2>1. /\ reader'.at = "checked" /\ hasEvents' = hasEvents
              /\ reader'.of = IF hasEvents THEN "events" ELSE "legacy"
            BY <1>14 DEF ReaderChecks, NoReader, files
        <2> QED  BY <2>1 DEF InvReader
    <1>15. CASE ReaderReads
        <2>1. PICK bytes : bytes = IF reader.of = "events" THEN events ELSE legacy
            OBVIOUS
        <2>2. PICK f : f = (reader.of = "events")
            OBVIOUS
        <2>3. bytes \in Seq(Tokens)
            BY <1>2, <2>1
        <2>4. reader' = IF Scan(bytes, f).ok /\ Scan(bytes, f).torn # 0
                        THEN [reader EXCEPT !.at = "healing", !.bytes = bytes]
                        ELSE NoReader
            BY <1>15, <2>1, <2>2 DEF ReaderReads
        <2>5. reader.at = "checked" /\ UNCHANGED <<hasEvents, events, legacy>>
            BY <1>15 DEF ReaderReads, files
        <2>6. CASE ~(Scan(bytes, f).ok /\ Scan(bytes, f).torn # 0)
            <3>1. reader'.at = "idle"
                BY <2>4, <2>6 DEF NoReader
            <3> QED  BY <1>5, <3>1
        <2>7. CASE Scan(bytes, f).ok /\ Scan(bytes, f).torn # 0
            <3>1. PICK r : r = reader'
                OBVIOUS
            <3>2. r.at = "healing" /\ r.of = reader.of /\ r.bytes = bytes
                <4>1. r = [reader EXCEPT !.at = "healing", !.bytes = bytes]
                    BY <2>4, <2>7, <3>1
                <4>2. DOMAIN reader = {"at", "of", "bytes"}
                    BY <1>1
                <4> QED  BY <4>1, <4>2, ReadingFacts
            <3>3. Torn(bytes) # 0 /\ Scan(bytes, f).ok
                BY <2>7, ScanIs
            <3>4. Torn(bytes) \in 1 .. Len(bytes) /\ DOMAIN bytes = 1 .. Len(bytes) /\ Len(bytes) \in Nat
                BY <2>3, <3>3, TornIs, FileFacts
            <3>5. Torn(r.bytes) = Torn(bytes)
                BY <3>2
            <3>6. r.at = "healing" => Scan(r.bytes, r.of = "events").ok /\ Torn(r.bytes) \in DOMAIN r.bytes
                BY <2>2, <3>2, <3>3, <3>4, <3>5
            <3>7. r.of = "events" => hasEvents /\ bytes = events
                BY <1>3, <2>1, <2>5, <3>2
            <3>8. r.of = "legacy" => bytes = legacy
                BY <2>1, <3>2
            <3>9. r.at = "healing" /\ r.of = "events" =>
                     /\ hasEvents /\ Torn(r.bytes) <= Len(events) + 1
                     /\ \A i \in 1 .. (Torn(r.bytes) - 1) : events[i] = r.bytes[i]
                BY <3>2, <3>4, <3>5, <3>7
            <3>10. r.at = "healing" /\ r.of = "legacy" =>
                      legacy \in {<<>>, r.bytes, HealAt(r.bytes, Torn(r.bytes))}
                BY <3>2, <3>8
            <3>11. r.at # "checked"
                BY <3>2
            <3>12. ReaderAt(r, hasEvents, events, legacy)
                <4>1. PICK he : he = hasEvents
                    OBVIOUS
                <4>2. PICK ev : ev = events
                    OBVIOUS
                <4>3. PICK lg : lg = legacy
                    OBVIOUS
                <4>4. ReaderAt(r, he, ev, lg)
                    BY <3>6, <3>9, <3>10, <3>11, <4>1, <4>2, <4>3, ReaderAtIs
                <4> QED  BY <4>1, <4>2, <4>3, <4>4
            <3> QED  BY <2>5, <3>1, <3>12 DEF InvReader, ReaderAt
        <2> QED  BY <2>6, <2>7
    <1>16. CASE ReaderHeals
        <2>1. reader'.at = "idle"
            BY <1>16 DEF ReaderHeals, NoReader
        <2> QED  BY <1>5, <2>1
    <1>17. CASE NewerVersionAppends
        <2>1. UNCHANGED <<hasEvents, legacy, reader>>
            BY <1>17 DEF NewerVersionAppends
        <2>2. /\ Len(events') \in Nat /\ Len(events) <= Len(events')
              /\ \A i \in 1 .. Len(events) : events'[i] = events[i]
            BY <1>17, ForeignStep DEF Followed
        <2> QED  BY <1>2, <1>4, <1>6, <2>1, <2>2
    <1>18. CASE Crash \/ CrashInWrite
        <2>1. reader'.at = "idle"
            BY <1>18 DEF Crash, CrashInWrite, Restarted, NoReader
        <2> QED  BY <1>5, <2>1
    <1>19. CASE BeginRow \/ BeginClear
        <2>1. UNCHANGED reader
            BY <1>19 DEF BeginRow, BeginClear, Begin
        <2> QED  BY <1>12, <1>19, <2>1 DEF BeginRow, BeginClear
    <1>20. CASE Finish
        BY <1>13, <1>20 DEF Finish
    <1>21. CASE FailWrite
        <2>1. PICK b \in {<<>>, <<Part(row)>>, <<Whole(row)>>} : Stop(b)
            BY <1>21 DEF FailWrite
        <2>2. UNCHANGED reader
            BY <1>21 DEF FailWrite
        <2> QED  BY <1>13, <2>1, <2>2
    <1>22. CASE StageFirst \/ StageRest \/ FailMigration \/ EndTurn
        <2>1. UNCHANGED <<hasEvents, events, legacy, reader>>
            BY <1>22 DEF StageFirst, StageRest, FailMigration, EndTurn, files
        <2> QED  BY <1>7, <2>1
    <1> QED  BY <1>8, <1>9, <1>10, <1>11, <1>14, <1>15, <1>16, <1>17, <1>18, <1>19, <1>20,
                <1>21, <1>22 DEF Next


LEMMA OrderKept ==
    ASSUME Inv, Next
    PROVE  InvOrder'
    <1>1. /\ InOrder(events)
          /\ \A i \in DOMAIN events :
                events[i] # NL => (events[i].row < row \/ (writer \in Writing /\ i = Len(events)))
          /\ InOrder(legacy)
          /\ \A i \in DOMAIN legacy : legacy[i] # NL => legacy[i].row < FirstRow
          /\ \A i \in DOMAIN transcript : transcript[i] < FirstRow /\ transcript[i] \notin Custom
          /\ \A i, j \in DOMAIN transcript : i < j => transcript[i] < transcript[j]
        BY DEF Inv, InvOrder
    <1>2. /\ events \in Seq(Tokens) /\ legacy \in Seq(Tokens) /\ transcript \in Seq(Nat)
          /\ row \in Nat /\ FirstRow \in Nat /\ FirstRow <= row
        BY Numbers
    <1>3. Len(events) \in Nat /\ DOMAIN events = 1 .. Len(events)
          /\ \A i \in 1 .. Len(events) : events[i].row \in Nat
        BY <1>2, FileFacts, TokenFacts
    <1>4. transcript' = transcript
        BY DEF Next, OpenLog, OpenLegacy, StageFirst, StageRest, Install, DeleteLegacy,
               FailMigration, BeginRow, BeginClear, Begin, Finish, FailWrite, Stop, EndTurn,
               ReaderChecks, ReaderReads, ReaderHeals, NewerVersionAppends, Crash, CrashInWrite
    <1>5. ASSUME InOrder(events'),
                 \A i \in DOMAIN events' : events'[i] # NL =>
                     (events'[i].row < row' \/ (writer' \in Writing /\ i = Len(events'))),
                 legacy' = legacy \/ legacy' = <<>> \/ Mended(legacy', legacy)
          PROVE  InvOrder'
        <2>1. /\ InOrder(legacy')
              /\ \A i \in DOMAIN legacy' : legacy'[i] # NL => legacy'[i].row < FirstRow
            <3>1. PICK l : l = legacy'
                OBVIOUS
            <3>2. CASE l = <<>>
                <4>1. DOMAIN l = {} /\ InOrder(l)
                    BY <3>2, NoLine DEF InOrder
                <4> QED  BY <3>1, <4>1
            <3>3. CASE l = legacy
                BY <1>1, <3>1, <3>3
            <3>4. CASE Mended(l, legacy)
                <4>1. /\ DOMAIN l \subseteq DOMAIN legacy /\ \A i \in DOMAIN l : l[i] = legacy[i]
                      /\ InOrder(l)
                    BY <1>1, <3>4 DEF Mended
                <4> QED  BY <1>1, <3>1, <4>1
            <3> QED  BY <1>5, <3>1, <3>2, <3>3, <3>4
        <2> QED  BY <1>1, <1>4, <1>5, <2>1 DEF InvOrder
    \* The log is cut.
    <1>6. ASSUME DOMAIN events' \subseteq DOMAIN events,
                 \A i \in DOMAIN events' : events'[i] = events[i], InOrder(events'),
                 writer \notin Writing, row' = row,
                 legacy' = legacy \/ legacy' = <<>> \/ Mended(legacy', legacy)
          PROVE  InvOrder'
        <2>1. \A i \in DOMAIN events' : events'[i] # NL => events'[i].row < row'
            BY <1>1, <1>6
        <2> QED  BY <1>5, <1>6, <2>1
    \* It stays as it is.
    <1>7. ASSUME events' = events, writer \in Writing => writer' \in Writing, row' = row,
                 legacy' = legacy \/ legacy' = <<>> \/ Mended(legacy', legacy)
          PROVE  InvOrder'
        <2>1. \A i \in DOMAIN events' : events'[i] # NL =>
                  (events'[i].row < row' \/ (writer' \in Writing /\ i = Len(events')))
            BY <1>1, <1>7
        <2>2. InOrder(events')
            BY <1>1, <1>7
        <2> QED  BY <1>5, <1>7, <2>1, <2>2
    <1>8. CASE OpenLog
        <2>1. Mended(events', events) /\ legacy' = legacy /\ row' = row /\ writer \notin Writing
            BY <1>8, OpenStep DEF OpenLog, Writing
        <2>2. /\ DOMAIN events' \subseteq DOMAIN events
              /\ \A i \in DOMAIN events' : events'[i] = events[i]
              /\ InOrder(events')
            BY <1>1, <2>1 DEF Mended
        <2> QED  BY <1>6, <2>1, <2>2
    <1>9. CASE OpenLegacy
        <2>1. Mended(legacy', legacy) /\ events' = events /\ row' = row /\ writer \notin Writing
            BY <1>9, OpenLegacyStep DEF OpenLegacy, Writing
        <2> QED  BY <1>7, <2>1
    <1>10. CASE Install
        <2>1. events' = Lines(transcript) /\ legacy' = legacy /\ row' = row
            BY <1>10 DEF Install, Inv, InvFiles
        <2>2. PICK l : l = Lines(transcript)
            OBVIOUS
        <2>3. Holds(l, transcript)
            BY <1>2, <2>2, LinesHold
        <2>4. Increasing(transcript)
            BY <1>1 DEF Increasing
        <2>5. InOrder(l) /\ \A i \in DOMAIN l : l[i] # NL => l[i].row < row
            <3>1. InOrder(l)
                BY <2>3, <2>4 DEF Holds
            <3>2. ASSUME NEW i \in DOMAIN l, l[i] # NL
                  PROVE  l[i].row < row
                <4>1. PICK k \in DOMAIN transcript : l[i].row = transcript[k]
                    BY <2>3, <3>2 DEF Holds
                <4>2. transcript[k] \in Nat /\ transcript[k] < FirstRow
                    BY <1>1, <1>2
                <4> QED  BY <1>2, <4>1, <4>2
            <3> QED  BY <3>1, <3>2
        <2>6. events' = l
            BY <2>1, <2>2
        <2> QED  BY <1>5, <2>1, <2>5, <2>6
    <1>11. CASE DeleteLegacy
        <2>1. events' = events /\ legacy' = <<>> /\ row' = row /\ writer \notin Writing
            BY <1>11 DEF DeleteLegacy, Writing
        <2> QED  BY <1>7, <2>1
    <1>12. ASSUME NEW home, NEW pc \in Writing, Begin(home, pc), home \notin Writing
           PROVE  InvOrder'
        <2>1. legacy' = legacy /\ writer' = pc /\ row' = row /\ writer = home
            BY <1>12 DEF Begin
        <2>2. /\ Len(events') = Len(events) + 1
              /\ \A i \in 1 .. Len(events) : events'[i] = events[i]
              /\ \A i \in DOMAIN events' : events'[i] # NL =>
                    (i \in 1 .. Len(events) \/ (i = Len(events') /\ events'[i] = Part(row)))
              /\ InOrder(events) /\ (\A i \in DOMAIN events : events[i] # NL => events[i].row < row)
                    => InOrder(events')
            BY <1>12, BeginStep DEF Begun
        <2>3. \A i \in DOMAIN events : events[i] # NL => events[i].row < row
            BY <1>1, <1>12, <2>1
        <2>4. \A i \in DOMAIN events' : events'[i] # NL =>
                  (events'[i].row < row' \/ (writer' \in Writing /\ i = Len(events')))
            BY <1>3, <1>12, <2>1, <2>2, <2>3
        <2>5. InOrder(events')
            BY <1>1, <2>2, <2>3
        <2> QED  BY <1>5, <2>1, <2>4, <2>5
    <1>13. ASSUME NEW b \in {<<>>, <<Part(row)>>, <<Whole(row)>>, Line(row)}, Stop(b)
           PROVE  InvOrder'
        <2>1. legacy' = legacy /\ row' = row + 1
            BY <1>13 DEF Stop
        <2>2. /\ Len(events) \in Nat \ {0}
              /\ \A i \in 1 .. (Len(events) - 1) : events'[i] = events[i]
              /\ \A i \in DOMAIN events' : events'[i] # NL =>
                    (i \in 1 .. (Len(events) - 1) \/ events'[i].row = row)
              /\ InOrder(events)
                 /\ (\A i \in DOMAIN events : events[i] # NL /\ i < Len(events) => events[i].row < row)
                    => InOrder(events')
            BY <1>13, StopStep DEF Stopped
        <2>3. \A i \in DOMAIN events : events[i] # NL /\ i < Len(events) => events[i].row < row
            BY <1>1, <1>3
        <2>4. \A i \in DOMAIN events' : events'[i] # NL => events'[i].row < row'
            <3> SUFFICES ASSUME NEW i \in DOMAIN events', events'[i] # NL
                         PROVE  events'[i].row < row + 1
                BY <2>1
            <3>1. CASE events'[i].row = row
                BY <1>2, <3>1
            <3>2. CASE i \in 1 .. (Len(events) - 1)
                <4>1. i \in 1 .. Len(events) /\ i < Len(events) /\ events'[i] = events[i]
                    BY <2>2, <3>2
                <4>2. events[i].row < row /\ events[i].row \in Nat
                    BY <1>3, <2>3, <4>1
                <4> QED  BY <1>2, <4>1, <4>2
            <3> QED  BY <2>2, <3>1, <3>2
        <2>5. InOrder(events')
            BY <1>1, <2>2, <2>3
        <2> QED  BY <1>5, <2>1, <2>4, <2>5
    <1>14. CASE ReaderHeals
        <2>1. row' = row /\ writer' = writer
            BY <1>14 DEF ReaderHeals
        <2>2. CASE reader.of = "events"
            <3>1. PICK u : u = events'
                OBVIOUS
            <3>2. PICK n : n = Torn(reader.bytes) - 1
                OBVIOUS
            <3>3. Cuts(u, events, n) /\ legacy' = legacy
                BY <1>14, <2>2, <3>1, <3>2, ReaderHealsLog
            <3>4. writer \notin Writing
                BY <1>14, <2>2 DEF ReaderHeals
            <3>5. InOrder(u)
                BY <1>1, <1>2, <3>3, CutKeeps
            <3>6. DOMAIN u \subseteq DOMAIN events /\ \A i \in DOMAIN u : u[i] = events[i]
                <4>1. /\ n \in 0 .. Len(events) /\ u \in Seq(Tokens) /\ Len(u) = n
                      /\ \A i \in 1 .. n : u[i] = events[i]
                    BY <3>3 DEF Cuts
                <4>2. DOMAIN u = 1 .. n
                    BY <4>1, FileFacts
                <4> QED  BY <1>3, <4>1, <4>2
            <3> QED  BY <1>6, <2>1, <3>1, <3>3, <3>4, <3>5, <3>6
        <2>3. CASE reader.of # "events"
            <3>1. events' = events /\ (legacy' = legacy \/ Mended(legacy', legacy))
                BY <1>14, <2>3, ReaderHealsLegacy
            <3> QED  BY <1>7, <2>1, <3>1
        <2> QED  BY <2>2, <2>3
    <1>15. CASE NewerVersionAppends
        <2>1. legacy' = legacy /\ row' = row + 1 /\ writer \notin Writing
            BY <1>15 DEF NewerVersionAppends, Writing
        <2>2. /\ \A i \in 1 .. Len(events) : events'[i] = events[i]
              /\ \A i \in DOMAIN events' : events'[i] # NL =>
                    (i \in 1 .. Len(events) \/ events'[i] = Foreign(row))
              /\ InOrder(events) /\ (\A i \in DOMAIN events : events[i] # NL => events[i].row < row)
                    => InOrder(events')
            BY <1>15, ForeignStep DEF Followed
        <2>3. \A i \in DOMAIN events : events[i] # NL => events[i].row < row
            BY <1>1, <2>1
        <2>4. Foreign(row).row = row
            BY TokenFacts
        <2>5. \A i \in DOMAIN events' : events'[i] # NL => events'[i].row < row'
            <3> SUFFICES ASSUME NEW i \in DOMAIN events', events'[i] # NL
                         PROVE  events'[i].row < row + 1
                BY <2>1
            <3>1. CASE i \in 1 .. Len(events)
                BY <1>2, <1>3, <2>2, <2>3, <3>1
            <3>2. CASE events'[i] = Foreign(row)
                BY <1>2, <2>4, <3>2
            <3> QED  BY <2>2, <3>1, <3>2
        <2>6. InOrder(events')
            BY <1>1, <2>2, <2>3
        <2> QED  BY <1>5, <2>1, <2>5, <2>6
    <1>16. CASE BeginRow
        BY <1>12, <1>16 DEF BeginRow, Writing
    <1>17. CASE BeginClear
        BY <1>12, <1>17 DEF BeginClear, Writing
    <1>18. CASE Finish
        BY <1>13, <1>18 DEF Finish
    <1>19. CASE FailWrite
        BY <1>13, <1>19 DEF FailWrite
    <1>20. CASE CrashInWrite
        BY <1>13, <1>20 DEF CrashInWrite
    <1>21. CASE StageFirst \/ StageRest \/ FailMigration \/ EndTurn \/ ReaderChecks
                \/ ReaderReads \/ Crash
        <2>1. events' = events /\ legacy' = legacy /\ row' = row
              /\ (writer \in Writing => writer' \in Writing)
            BY <1>21 DEF StageFirst, StageRest, FailMigration, EndTurn, ReaderChecks, ReaderReads,
                         Crash, files, Writing, Migrating
        <2> QED  BY <1>7, <2>1
    <1> QED  BY <1>8, <1>9, <1>10, <1>11, <1>14, <1>15, <1>16, <1>17, <1>18, <1>19, <1>20,
                <1>21 DEF Next


LEMMA MishapsGrow ==
    ASSUME Next
    PROVE  mishaps \subseteq mishaps'
    BY DEF Next, OpenLog, OpenLegacy, StageFirst, StageRest, Install, DeleteLegacy,
           FailMigration, BeginRow, BeginClear, Begin, Finish, FailWrite, Stop, EndTurn,
           ReaderChecks, ReaderReads, ReaderHeals, NewerVersionAppends, Crash, CrashInWrite

LEMMA TidyKept ==
    ASSUME Inv, Next
    PROVE  InvTidy'
    <1> SUFFICES ASSUME mishaps' \cap Gluing = {}
                 PROVE  /\ Tidy(events')
                        /\ writer' \in {"turn", "installed"} => Terminated(events')
        BY DEF InvTidy, Gluing
    <1>1. mishaps \cap Gluing = {}
        BY MishapsGrow
    <1>2. Tidy(events) /\ (writer \in {"turn", "installed"} => Terminated(events))
        BY <1>1 DEF Inv, InvTidy
    <1>3. events \in Seq(Tokens) /\ transcript \in Seq(Nat)
        BY Numbers
    <1>4. ASSUME Mended(events', events)
          PROVE  Tidy(events') /\ Terminated(events')
        BY <1>2, <1>4 DEF Mended
    <1>5. CASE OpenLog
        BY <1>4, <1>5, OpenStep
    <1>6. CASE OpenLegacy
        <2>1. events = <<>> /\ events' = events
            BY <1>6 DEF OpenLegacy, Inv, InvFiles
        <2> QED  BY <1>2, <2>1 DEF Terminated
    <1>7. CASE Install
        <2>1. events' = Lines(transcript)
            BY <1>7 DEF Install, Inv, InvFiles
        <2>2. Tidy(Lines(transcript)) /\ Terminated(Lines(transcript))
            BY <1>3, LinesFacts
        <2> QED  BY <2>1, <2>2
    <1>8. ASSUME NEW home, NEW pc \in Writing, Begin(home, pc), Terminated(events)
          PROVE  /\ Tidy(events')
                 /\ writer' \in {"turn", "installed"} => Terminated(events')
        <2>1. Tidy(events')
            BY <1>2, <1>8, BeginStep DEF Begun
        <2>2. writer' \in Writing
            BY <1>8 DEF Begin
        <2> QED  BY <2>1, <2>2 DEF Writing
    <1>9. CASE BeginRow
        <2>1. Terminated(events)
            BY <1>2, <1>9 DEF BeginRow, Begin
        <2> QED  BY <1>8, <1>9, <2>1 DEF BeginRow, Writing
    <1>10. CASE BeginClear
        <2>1. Terminated(events)
            BY <1>10 DEF BeginClear, Gluing
        <2> QED  BY <1>8, <1>10, <2>1 DEF BeginClear, Writing
    <1>11. CASE Finish
        <2>1. Stopped(events', events, row, Line(row))
            BY <1>11, StopStep DEF Finish
        <2> QED  BY <1>2, <2>1 DEF Stopped
    <1>12. CASE FailWrite
        <2>1. PICK b \in {<<>>, <<Part(row)>>, <<Whole(row)>>} :
                  Stop(b) /\ mishaps' = mishaps \cup Unterminated(b) \cup Residue(b)
            BY <1>12 DEF FailWrite
        <2>2. b = <<>>
            BY <2>1 DEF Unterminated, Residue, Gluing
        <2>3. Stopped(events', events, row, b)
            BY <2>1, StopStep
        <2> QED  BY <1>2, <2>2, <2>3 DEF Stopped
    <1>13. CASE CrashInWrite
        <2>1. PICK b \in {<<>>, <<Part(row)>>, <<Whole(row)>>, Line(row)} :
                  Stop(b) /\ mishaps' = mishaps \cup Unterminated(b)
            BY <1>13 DEF CrashInWrite
        <2>2. b = <<>> \/ b = <<Part(row)>> \/ b = Line(row)
            BY <2>1 DEF Unterminated, Gluing
        <2>3. Stopped(events', events, row, b)
            BY <2>1, StopStep
        <2>4. writer' = "idle"
            BY <1>13 DEF CrashInWrite, Restarted
        <2> QED  BY <1>2, <2>2, <2>3, <2>4 DEF Stopped
    <1>14. CASE ReaderHeals
        <2>1. writer' = writer
            BY <1>14 DEF ReaderHeals
        <2>2. CASE reader.of = "events"
            <3>1. PICK u : u = events'
                OBVIOUS
            <3>2. PICK n : n = Torn(reader.bytes) - 1
                OBVIOUS
            <3>3. Cuts(u, events, n)
                BY <1>14, <2>2, <3>1, <3>2, ReaderHealsLog
            <3>4. Tidy(u) /\ Terminated(u)
                BY <1>2, <1>3, <3>3, CutKeeps, CutSplits
            <3> QED  BY <3>1, <3>4
        <2>3. CASE reader.of # "events"
            BY <1>2, <1>14, <2>1, <2>3, ReaderHealsLegacy
        <2> QED  BY <2>2, <2>3
    <1>15. CASE NewerVersionAppends
        <2>1. Terminated(events) /\ writer' = "idle"
            BY <1>15 DEF NewerVersionAppends
        <2>2. Tidy(events')
            BY <1>2, <1>15, <2>1, ForeignStep DEF Followed
        <2> QED  BY <2>1, <2>2
    <1>16. CASE DeleteLegacy
        BY <1>2, <1>16 DEF DeleteLegacy
    <1>17. CASE StageFirst \/ StageRest \/ FailMigration \/ EndTurn \/ ReaderChecks
                \/ ReaderReads \/ Crash
        <2>1. events' = events
              /\ (writer' \in {"turn", "installed"} => writer \in {"turn", "installed"})
            BY <1>17 DEF StageFirst, StageRest, FailMigration, EndTurn, ReaderChecks, ReaderReads,
                         Crash, Restarted, files
        <2> QED  BY <1>2, <2>1
    <1> QED  BY <1>5, <1>6, <1>7, <1>9, <1>10, <1>11, <1>12, <1>13, <1>14, <1>15, <1>16,
                <1>17 DEF Next

LEMMA LandedKept ==
    ASSUME Inv, Next
    PROVE  InvLanded'
    <1> SUFFICES ASSUME mishaps' \cap (Gluing \cup {"raced"}) = {}
                 PROVE  RowsIn(events') = landed'
        BY DEF InvLanded, Gluing
    <1>1. mishaps \cap (Gluing \cup {"raced"}) = {} /\ mishaps \cap Gluing = {}
        BY MishapsGrow
    <1>2. /\ Tidy(events) /\ (writer \in {"turn", "installed"} => Terminated(events))
          /\ RowsIn(events) = landed
        BY <1>1 DEF Inv, InvTidy, InvLanded
    <1>3. events \in Seq(Tokens) /\ transcript \in Seq(Nat)
        BY Numbers
    <1>4. CASE OpenLog
        <2>1. landed' = landed /\ Mended(events', events)
            BY <1>4, OpenStep DEF OpenLog
        <2> QED  BY <1>2, <2>1 DEF Mended
    <1>5. CASE Install
        <2>1. events' = Lines(transcript) /\ landed' = transcript
            BY <1>5 DEF Install, Inv, InvFiles
        <2> QED  BY <1>3, <2>1, LinesFacts
    <1>6. ASSUME NEW home, NEW pc, Begin(home, pc), Terminated(events)
          PROVE  RowsIn(events') = landed'
        <2>1. landed' = landed
            BY <1>6 DEF Begin
        <2>2. RowsIn(events') = RowsIn(events)
            BY <1>6, BeginStep DEF Begun
        <2> QED  BY <1>2, <2>1, <2>2
    <1>7. CASE BeginRow
        <2>1. Terminated(events)
            BY <1>2, <1>7 DEF BeginRow, Begin
        <2> QED  BY <1>6, <1>7, <2>1 DEF BeginRow
    <1>8. CASE BeginClear
        <2>1. Terminated(events)
            BY <1>8 DEF BeginClear, Gluing
        <2> QED  BY <1>6, <1>8, <2>1 DEF BeginClear
    <1>9. ASSUME NEW b \in {<<>>, <<Part(row)>>, <<Whole(row)>>, Line(row)}, Stop(b)
          PROVE  RowsIn(events') = landed'
        <2>1. RowsIn(events') = IF b \in {<<Whole(row)>>, Line(row)}
                                THEN Append(RowsIn(events), row) ELSE RowsIn(events)
            BY <1>2, <1>9, StopStep DEF Stopped
        <2>2. landed' = IF b \in {<<Whole(row)>>, Line(row)} THEN Append(landed, row) ELSE landed
            BY <1>9 DEF Stop
        <2> QED  BY <1>2, <2>1, <2>2
    <1>10. CASE Finish
        BY <1>9, <1>10 DEF Finish
    <1>11. CASE FailWrite
        BY <1>9, <1>11 DEF FailWrite
    <1>12. CASE CrashInWrite
        BY <1>9, <1>12 DEF CrashInWrite
    <1>13. CASE ReaderHeals
        <2>1. landed' = landed
            BY <1>13 DEF ReaderHeals
        <2>2. CASE reader.of = "events"
            <3>1. /\ mishaps' = mishaps \cup {m \in {"raced"} : events # reader.bytes}
                  /\ events = reader.bytes => Mended(events', events)
                BY <1>13, <2>2, ReaderHealsLog
            <3>2. events = reader.bytes
                BY <3>1
            <3> QED  BY <1>2, <2>1, <3>1, <3>2 DEF Mended
        <2>3. CASE reader.of # "events"
            BY <1>2, <1>13, <2>1, <2>3, ReaderHealsLegacy
        <2> QED  BY <2>2, <2>3
    <1>14. CASE NewerVersionAppends
        <2>1. Terminated(events) /\ landed' = landed
            BY <1>14 DEF NewerVersionAppends
        <2>2. RowsIn(events') = RowsIn(events)
            BY <1>14, <2>1, ForeignStep DEF Followed
        <2> QED  BY <1>2, <2>1, <2>2
    <1>15. CASE OpenLegacy \/ StageFirst \/ StageRest \/ DeleteLegacy \/ FailMigration \/ EndTurn
                \/ ReaderChecks \/ ReaderReads \/ Crash
        <2>1. events' = events /\ landed' = landed
            BY <1>15 DEF OpenLegacy, StageFirst, StageRest, DeleteLegacy, FailMigration, EndTurn,
                         ReaderChecks, ReaderReads, Crash, Restarted, files
        <2> QED  BY <1>2, <2>1
    <1> QED  BY <1>4, <1>5, <1>7, <1>8, <1>10, <1>11, <1>12, <1>13, <1>14, <1>15 DEF Next

-----------------------------------------------------------------------------
(* Where the legacy messages are.                                          *)

LEMMA NothingFollows == Follows(<<>>, <<>>)
    <1>1. PICK rows : rows = <<>>
        OBVIOUS
    <1>2. rows \in Seq(Nat)
        BY <1>1
    <1>3. DOMAIN rows = {}
        BY <1>1, NoLine
    <1>4. [i \in DOMAIN rows |-> Line(rows[i])] = <<>>
        BY <1>3, EmptyIsSequence, NoElements, NoLine
    <1>5. Lines(rows) = <<>>
        BY <1>4, FlattenNone DEF Lines
    <1>6. Follows(Lines(rows), rows)
        BY <1>2, FollowsItself
    <1> QED  BY <1>1, <1>5, <1>6

(* A repaired log begins with the same legacy messages.                    *)
LEMMA FollowsMended ==
    ASSUME NEW rows \in Seq(Nat), NEW s \in Seq(Tokens), Follows(s, rows),
           NEW h, Mended(h, s)
    PROVE  Follows(h, rows)
    <1>1. CASE Torn(s) = 0
        BY <1>1 DEF Mended
    <1>2. CASE Torn(s) # 0
        <2>1. PICK n : n = Torn(s) - 1
            OBVIOUS
        <2>2. Torn(s) \in BadLines(s)
            BY <1>2, TornIs
        <2>3. Cuts(h, s, n)
            BY <1>2, <2>1 DEF Mended
        <2>4. n \in 0 .. Len(s) /\ h \in Seq(Tokens) /\ Len(h) = n /\ Len(s) \in Nat
              /\ DOMAIN h = 1 .. n /\ \A i \in 1 .. n : h[i] = s[i]
            BY <2>3, FileFacts DEF Cuts
        <2>5. Len(Lines(rows)) <= n
            BY <2>1, <2>2, FollowsStays
        <2> QED  BY <2>4, <2>5, FollowsGrows
    <1> QED  BY <1>1, <1>2

LEMMA LegacyKept ==
    ASSUME Inv, Next
    PROVE  InvLegacy'
    <1>1. /\ ~hasEvents => Representable(RowsIn(legacy)) = transcript
          /\ ~hasEvents /\ writer = "turn" => transcript = <<>>
          /\ hasEvents /\ mishaps \cap {"shadowed", "raced"} = {} => Follows(events, transcript)
        BY DEF Inv, InvLegacy
    <1>2. /\ events \in Seq(Tokens) /\ legacy \in Seq(Tokens) /\ transcript \in Seq(Nat)
          /\ row \in Nat /\ FirstRow \in Nat /\ FirstRow <= row
          /\ Len(events) \in Nat /\ DOMAIN events = 1 .. Len(events)
        BY Numbers, FileFacts
    <1>3. transcript' = transcript
        BY DEF Next, OpenLog, OpenLegacy, StageFirst, StageRest, Install, DeleteLegacy,
               FailMigration, BeginRow, BeginClear, Begin, Finish, FailWrite, Stop, EndTurn,
               ReaderChecks, ReaderReads, ReaderHeals, NewerVersionAppends, Crash, CrashInWrite
    \* Nothing happens to the log or to what it is about to be made of.
    <1>4. ASSUME hasEvents' = hasEvents, events' = events, mishaps' = mishaps,
                 ~hasEvents => legacy' = legacy \/ Mended(legacy', legacy),
                 ~hasEvents /\ writer' = "turn" => transcript = <<>>
          PROVE  InvLegacy'
        <2>1. ~hasEvents => Representable(RowsIn(legacy')) = transcript
            BY <1>1, <1>4 DEF Mended
        <2> QED  BY <1>1, <1>3, <1>4, <2>1 DEF InvLegacy
    \* The log is there: how it begins.
    <1>5. ASSUME hasEvents',
                 mishaps' \cap {"shadowed", "raced"} = {} => Follows(events', transcript)
          PROVE  InvLegacy'
        BY <1>3, <1>5 DEF InvLegacy
    <1>6. mishaps' \cap {"shadowed", "raced"} = {} => mishaps \cap {"shadowed", "raced"} = {}
        BY MishapsGrow
    <1>7. CASE OpenLog
        <2>1. hasEvents /\ hasEvents' /\ Mended(events', events)
            BY <1>7, OpenStep DEF OpenLog
        <2>2. mishaps' \cap {"shadowed", "raced"} = {} => Follows(events', transcript)
            BY <1>1, <1>2, <1>6, <2>1, FollowsMended
        <2> QED  BY <1>5, <2>1, <2>2
    <1>8. CASE OpenLegacy
        <2>1. ~hasEvents /\ Mended(legacy', legacy) /\ UNCHANGED <<hasEvents, events, mishaps>>
              /\ plan' = Representable(RowsIn(legacy))
            BY <1>8, OpenLegacyStep DEF OpenLegacy
        <2>2. plan' = transcript
            BY <1>1, <2>1
        <2>3. writer' = IF plan' = <<>> THEN "turn" ELSE "staging"
            BY <1>8 DEF OpenLegacy
        <2> QED  BY <1>4, <2>1, <2>2, <2>3
    <1>9. CASE Install
        <2>1. hasEvents' /\ events' = Lines(transcript)
            BY <1>9 DEF Install, Inv, InvFiles
        <2>2. Follows(events', transcript)
            BY <1>2, <2>1, FollowsItself
        <2> QED  BY <1>5, <2>1, <2>2
    <1>10. CASE DeleteLegacy
        <2>1. hasEvents
            BY <1>10 DEF DeleteLegacy, Inv, InvFiles
        <2> QED  BY <1>4, <1>10, <2>1 DEF DeleteLegacy
    <1>11. ASSUME NEW home, NEW pc, Begin(home, pc),
                  ~hasEvents => home = "turn" \/ transcript = <<>> \/ "shadowed" \in mishaps'
           PROVE  InvLegacy'
        <2>1. hasEvents' /\ writer = home
            BY <1>11 DEF Begin
        <2>2. mishaps' \cap {"shadowed", "raced"} = {} => Follows(events', transcript)
            <3> SUFFICES ASSUME mishaps' \cap {"shadowed", "raced"} = {}
                         PROVE  Follows(events', transcript)
                OBVIOUS
            <3>1. Follows(events, transcript)
                <4>1. CASE hasEvents
                    BY <1>1, <1>6, <4>1
                <4>2. CASE ~hasEvents
                    <5>1. transcript = <<>>
                        BY <1>1, <1>11, <2>1, <4>2
                    <5>2. events = <<>>
                        BY <4>2 DEF Inv, InvFiles
                    <5> QED  BY <5>1, <5>2, NothingFollows
                <4> QED  BY <4>1, <4>2
            <3>2. PICK u : u = events'
                OBVIOUS
            <3>3. Begun(u, events, row)
                BY <1>11, <3>2, BeginStep
            <3>4. /\ u \in Seq(Tokens) /\ Len(u) = Len(events) + 1
                  /\ \A i \in 1 .. Len(events) : u[i] = events[i]
                  /\ \A i \in DOMAIN u :
                        u[i] # NL => (i \in 1 .. Len(events) \/ u[i] = Part(row))
                BY <3>3 DEF Begun
            <3>5. \A i \in DOMAIN u :
                        u[i] # NL => (i \in 1 .. Len(events) \/ u[i].row >= FirstRow)
                BY <1>2, <3>4, TokenFacts
            <3>6. Len(Lines(transcript)) <= Len(events)
                BY <1>2, <3>1, FollowsCuts DEF Cuts
            <3>7. Len(events) \in 0 .. Len(events) /\ Len(events) <= Len(u)
                BY <1>2, <3>4
            <3>8. Follows(u, transcript)
                BY <1>2, <3>1, <3>4, <3>5, <3>6, <3>7, FollowsGrows
            <3> QED  BY <3>2, <3>8
        <2> QED  BY <1>5, <2>1, <2>2
    <1>12. CASE BeginRow
        BY <1>11, <1>12 DEF BeginRow
    <1>13. CASE BeginClear
        BY <1>11, <1>13 DEF BeginClear
    <1>14. ASSUME NEW b \in {<<>>, <<Part(row)>>, <<Whole(row)>>, Line(row)}, Stop(b)
           PROVE  InvLegacy'
        <2>1. hasEvents /\ hasEvents' /\ events # <<>> /\ Last(events) = Part(row)
            BY <1>14 DEF Stop, Inv, InvFiles
        <2>2. mishaps' \cap {"shadowed", "raced"} = {} => Follows(events', transcript)
            <3> SUFFICES ASSUME mishaps' \cap {"shadowed", "raced"} = {}
                         PROVE  Follows(events', transcript)
                OBVIOUS
            <3>1. Follows(events, transcript)
                BY <1>1, <1>6, <2>1
            <3>2. PICK u : u = events'
                OBVIOUS
            <3>3. PICK n : n = Len(events) - 1
                OBVIOUS
            <3>4. Stopped(u, events, row, b)
                BY <1>14, <3>2, StopStep
            <3>5. /\ u \in Seq(Tokens) /\ Len(u) \in Nat /\ n \in 0 .. Len(events) /\ n <= Len(u)
                  /\ \A i \in 1 .. n : u[i] = events[i]
                  /\ \A i \in DOMAIN u : u[i] # NL => (i \in 1 .. n \/ u[i].row = row)
                <4>1. Len(events) \in Nat \ {0}
                    BY <3>4 DEF Stopped
                <4>2. n \in 0 .. Len(events)
                    BY <3>3, <4>1
                <4> QED  BY <3>3, <3>4, <4>2 DEF Stopped
            <3>6. \A i \in DOMAIN u : u[i] # NL => (i \in 1 .. n \/ u[i].row >= FirstRow)
                BY <1>2, <3>5
            <3>7. Last(events) # NL
                BY <2>1, TokenFacts
            <3>8. Len(Lines(transcript)) <= n
                BY <1>2, <2>1, <3>1, <3>3, <3>7, FollowsStays
            <3>9. Follows(u, transcript)
                BY <1>2, <3>1, <3>5, <3>6, <3>8, FollowsGrows
            <3> QED  BY <3>2, <3>9
        <2> QED  BY <1>5, <2>1, <2>2
    <1>15. CASE Finish
        BY <1>14, <1>15 DEF Finish
    <1>16. CASE FailWrite
        BY <1>14, <1>16 DEF FailWrite
    <1>17. CASE CrashInWrite
        BY <1>14, <1>17 DEF CrashInWrite
    <1>18. CASE ReaderHeals
        <2>1. UNCHANGED <<hasEvents, writer>>
            BY <1>18 DEF ReaderHeals
        <2>2. CASE reader.of = "events"
            <3>1. /\ mishaps' = mishaps \cup {m \in {"raced"} : events # reader.bytes}
                  /\ hasEvents /\ (events = reader.bytes => Mended(events', events))
                BY <1>18, <2>2, ReaderHealsLog
            <3>2. mishaps' \cap {"shadowed", "raced"} = {} => Follows(events', transcript)
                BY <1>1, <1>2, <1>6, <3>1, FollowsMended
            <3> QED  BY <1>5, <2>1, <3>1, <3>2
        <2>3. CASE reader.of # "events"
            <3>1. events' = events /\ mishaps' = mishaps
                  /\ (legacy' = legacy \/ Mended(legacy', legacy))
                BY <1>18, <2>3, ReaderHealsLegacy
            <3> QED  BY <1>1, <1>4, <2>1, <3>1
        <2> QED  BY <2>2, <2>3
    <1>19. CASE NewerVersionAppends
        <2>1. hasEvents /\ hasEvents'
            BY <1>19 DEF NewerVersionAppends
        <2>2. mishaps' \cap {"shadowed", "raced"} = {} => Follows(events', transcript)
            <3> SUFFICES ASSUME mishaps' \cap {"shadowed", "raced"} = {}
                         PROVE  Follows(events', transcript)
                OBVIOUS
            <3>1. Follows(events, transcript)
                BY <1>1, <1>6, <2>1
            <3>2. PICK u : u = events'
                OBVIOUS
            <3>3. Followed(u, events, row)
                BY <1>19, <3>2, ForeignStep
            <3>4. /\ u \in Seq(Tokens) /\ Len(events) <= Len(u)
                  /\ \A i \in 1 .. Len(events) : u[i] = events[i]
                  /\ \A i \in DOMAIN u :
                        u[i] # NL => (i \in 1 .. Len(events) \/ u[i] = Foreign(row))
                BY <3>3 DEF Followed
            <3>5. \A i \in DOMAIN u :
                        u[i] # NL => (i \in 1 .. Len(events) \/ u[i].row >= FirstRow)
                BY <1>2, <3>4, TokenFacts
            <3>6. Len(Lines(transcript)) <= Len(events) /\ Len(events) \in 0 .. Len(events)
                BY <1>2, <3>1, FollowsCuts DEF Cuts
            <3>7. Follows(u, transcript)
                BY <1>2, <3>1, <3>4, <3>5, <3>6, FollowsGrows
            <3> QED  BY <3>2, <3>7
        <2> QED  BY <1>5, <2>1, <2>2
    <1>20. CASE StageFirst \/ StageRest \/ FailMigration \/ EndTurn \/ ReaderChecks
                \/ ReaderReads \/ Crash
        <2>1. UNCHANGED <<hasEvents, events, legacy, mishaps>>
              /\ (writer' = "turn" => writer = "turn")
            BY <1>20 DEF StageFirst, StageRest, FailMigration, EndTurn, ReaderChecks, ReaderReads,
                         Crash, Restarted, files
        <2> QED  BY <1>1, <1>4, <2>1
    <1> QED  BY <1>7, <1>8, <1>9, <1>10, <1>12, <1>13, <1>15, <1>16, <1>17, <1>18, <1>19,
                <1>20 DEF Next

-----------------------------------------------------------------------------
(* Types.                                                                  *)

LEMMA SpendKeeps ==
    ASSUME used \in [Bounds -> Nat], \A b \in Bounds : used[b] <= Limit[b],
           NEW b \in Bounds, Spend(b)
    PROVE  used' \in [Bounds -> Nat] /\ \A c \in Bounds : used'[c] <= Limit[c]
    <1>1. used[b] < Limit[b] /\ used' = [used EXCEPT ![b] = @ + 1] /\ used[b] \in Nat
        BY DEF Spend
    <1>2. Limit[b] \in Nat
        BY RowAssumption DEF Limit, Bounds
    <1>3. \A c \in Bounds : used'[c] = IF c = b THEN used[b] + 1 ELSE used[c]
        BY <1>1
    <1>4. used[b] + 1 \in Nat /\ used[b] + 1 <= Limit[b]
        BY <1>1, <1>2
    <1>5. used' \in [Bounds -> Nat]
        BY <1>1, <1>4
    <1> QED  BY <1>3, <1>4, <1>5

LEMMA ReaderTypeKept ==
    ASSUME Inv, Next
    PROVE  reader' \in [at : {"idle", "checked", "healing"}, of : {"events", "legacy"},
                        bytes : Seq(Tokens)]
    <1> DEFINE Reader == [at : {"idle", "checked", "healing"}, of : {"events", "legacy"},
                          bytes : Seq(Tokens)]
    <1>1. reader \in Reader /\ events \in Seq(Tokens) /\ legacy \in Seq(Tokens)
        BY Numbers DEF Inv, TypeOK
    <1>2. NoReader \in Reader
        BY DEF NoReader
    <1>3. CASE ReaderChecks
        <2>1. reader' = [at |-> "checked", of |-> IF hasEvents THEN "events" ELSE "legacy",
                         bytes |-> <<>>]
            BY <1>3 DEF ReaderChecks, NoReader
        <2> QED  BY <2>1
    <1>4. CASE ReaderReads
        <2>1. PICK bytes \in Seq(Tokens) :
                  reader' \in {[reader EXCEPT !.at = "healing", !.bytes = bytes], NoReader}
            BY <1>1, <1>4 DEF ReaderReads
        <2>2. [reader EXCEPT !.at = "healing", !.bytes = bytes] \in Reader
            BY <1>1
        <2> QED  BY <1>2, <2>1, <2>2
    <1>5. CASE ~(ReaderChecks \/ ReaderReads)
        <2>1. reader' = reader \/ reader' = NoReader
            BY <1>5 DEF Next, OpenLog, OpenLegacy, StageFirst, StageRest, Install, DeleteLegacy,
                   FailMigration, BeginRow, BeginClear, Begin, Finish, FailWrite, Stop, EndTurn,
                   ReaderHeals, NewerVersionAppends, Crash, CrashInWrite, Restarted
        <2> QED  BY <1>1, <1>2, <2>1
    <1> QED  BY <1>3, <1>4, <1>5

LEMMA TypeKept ==
    ASSUME Inv, Next, InvReader'
    PROVE  TypeOK'
    <1>1. TypeOK
        BY DEF Inv
    <1>2. hasEvents' \in BOOLEAN /\ writer' \in WriterAt
        <2>1. hasEvents \in BOOLEAN /\ writer \in WriterAt
            BY <1>1 DEF TypeOK
        <2>2. hasEvents' \in {hasEvents, TRUE}
            BY DEF Next, OpenLog, OpenLegacy, StageFirst, StageRest, Install, DeleteLegacy,
                   FailMigration, BeginRow, BeginClear, Begin, Finish, FailWrite, Stop, EndTurn,
                   ReaderChecks, ReaderReads, ReaderHeals, NewerVersionAppends, Crash,
                   CrashInWrite, files
        <2>3. writer' \in {writer} \cup WriterAt
            BY DEF Next, OpenLog, OpenLegacy, StageFirst, StageRest, Install, DeleteLegacy,
                   FailMigration, BeginRow, BeginClear, Begin, Finish, FailWrite, Stop, EndTurn,
                   ReaderChecks, ReaderReads, ReaderHeals, NewerVersionAppends, Crash,
                   CrashInWrite, Restarted, Home, WriterAt, Writing, Migrating
        <2> QED  BY <2>1, <2>2, <2>3
    <1>3. row' \in FirstRow .. (MaxRow + 1)
        <2>1. row \in FirstRow .. (MaxRow + 1) /\ FirstRow \in Nat /\ MaxRow \in Nat
            BY <1>1, RowAssumption DEF TypeOK
        <2>2. row' = row \/ (row' = row + 1 /\ row <= MaxRow)
            <3>1. ASSUME NEW b, Stop(b)
                  PROVE  row' = row + 1 /\ row <= MaxRow
                BY <3>1 DEF Stop, Inv, InvFiles
            <3>2. CASE Finish \/ FailWrite \/ CrashInWrite
                BY <3>1, <3>2 DEF Finish, FailWrite, CrashInWrite
            <3>3. CASE ~(Finish \/ FailWrite \/ CrashInWrite)
                BY <3>3 DEF Next, OpenLog, OpenLegacy, StageFirst, StageRest, Install,
                       DeleteLegacy, FailMigration, BeginRow, BeginClear, Begin, EndTurn,
                       ReaderChecks, ReaderReads, ReaderHeals, NewerVersionAppends, Crash
            <3> QED  BY <3>2, <3>3
        <2> QED  BY <2>1, <2>2
    <1>4. mishaps' \subseteq Mishaps
        <2>1. mishaps \subseteq Mishaps
            BY <1>1 DEF TypeOK
        <2>2. mishaps' \subseteq mishaps \cup Mishaps
            BY DEF Next, OpenLog, OpenLegacy, StageFirst, StageRest, Install, DeleteLegacy,
                   FailMigration, BeginRow, BeginClear, Begin, Finish, FailWrite, Stop, EndTurn,
                   ReaderChecks, ReaderReads, ReaderHeals, NewerVersionAppends, Crash,
                   CrashInWrite, Mishaps, Unterminated, Residue
        <2> QED  BY <2>1, <2>2
    <1>5. used' \in [Bounds -> Nat] /\ \A b \in Bounds : used'[b] <= Limit[b]
        <2>1. used \in [Bounds -> Nat] /\ \A b \in Bounds : used[b] <= Limit[b]
            BY <1>1 DEF TypeOK
        <2>2. used' = used \/ \E b \in Bounds : Spend(b)
            BY DEF Next, OpenLog, OpenLegacy, StageFirst, StageRest, Install, DeleteLegacy,
                   FailMigration, BeginRow, BeginClear, Begin, Finish, FailWrite, EndTurn,
                   ReaderChecks, ReaderReads, ReaderHeals, NewerVersionAppends, Crash,
                   CrashInWrite, Bounds
        <2>3. CASE used' = used
            BY <2>1, <2>3
        <2>4. CASE \E b \in Bounds : Spend(b)
            BY <2>1, <2>4, SpendKeeps
        <2> QED  BY <2>2, <2>3, <2>4
    <1>6. reader'.at = "healing" /\ reader'.of = "events" =>
              Scan(reader'.bytes, TRUE).torn <= Len(events') + 1
        <2> SUFFICES ASSUME reader'.at = "healing", reader'.of = "events"
                     PROVE  Scan(reader'.bytes, TRUE).torn <= Len(events') + 1
            OBVIOUS
        <2>1. Scan(reader'.bytes, reader'.of = "events").torn <= Len(events') + 1
            BY DEF InvReader
        <2>2. (reader'.of = "events") = TRUE
            OBVIOUS
        <2> QED  BY <2>1, <2>2
    <1> QED  BY <1>2, <1>3, <1>4, <1>5, <1>6, ReaderTypeKept DEF TypeOK

LEMMA NextInv == Inv /\ [Next]_vars => Inv'
    <1> SUFFICES ASSUME Inv, [Next]_vars PROVE Inv'
        OBVIOUS
    <1>1. CASE Next
        BY <1>1, FilesKept, ReaderKept, OrderKept, TidyKept, LandedKept, LegacyKept, TypeKept
           DEF Inv
    <1>2. CASE UNCHANGED vars
        <2>1. /\ hasEvents' = hasEvents /\ events' = events /\ tmp' = tmp /\ legacy' = legacy
              /\ writer' = writer /\ plan' = plan /\ reader' = reader /\ row' = row
              /\ transcript' = transcript /\ landed' = landed /\ mishaps' = mishaps
              /\ used' = used
            BY <1>2 DEF vars, files
        <2>2. TypeOK' /\ InvFiles' /\ InvReader'
            BY <2>1 DEF Inv, TypeOK, InvFiles, InvReader
        <2>3. InvOrder' /\ InvTidy'
            BY <2>1 DEF Inv, InvOrder, InvTidy
        <2>4. InvLanded' /\ InvLegacy'
            BY <2>1 DEF Inv, InvLanded, InvLegacy
        <2> QED  BY <2>2, <2>3, <2>4 DEF Inv
    <1> QED  BY <1>1, <1>2

(* The files, the migration and the readers keep what Inv says at every    *)
(* step, failed and crashed ones included.                                 *)
THEOREM Invariance == Spec => []Inv
    <1>1. Init => Inv
        BY InitInv
    <1>2. Inv /\ [Next]_vars => Inv'
        BY NextInv
    <1> QED  BY <1>1, <1>2, PTL DEF Spec

(* TypeOK: in particular a reader that is about to cut the log at the      *)
(* offset it computed cuts inside the file as it is by then; set_len never *)
(* pads it (repair_torn_tail, storage/mod.rs).                             *)
THEOREM TypeCorrect == Spec => []TypeOK
    <1>1. Inv => TypeOK
        BY DEF Inv
    <1> QED  BY <1>1, Invariance, PTL

-----------------------------------------------------------------------------
(* What an open finds.                                                     *)

LEMMA TidyLoads ==
    ASSUME NEW s \in Seq(Tokens), Tidy(s), ~HoldsForeign(s)
    PROVE  Scan(s, TRUE).ok
    <1>1. \A i \in DOMAIN s : s[i].is # "foreign"
        BY DEF HoldsForeign
    <1>2. /\ BadLines(s) \subseteq Starts(s) /\ Starts(s) \subseteq 1 .. Len(s)
          /\ Len(s) \in Nat /\ DOMAIN s = 1 .. Len(s)
        BY TornIs, FileFacts
    <1>3. ASSUME NEW i \in BadLines(s), NEW j \in Starts(s), j > i
          PROVE  FALSE
        <2>1. i \in DOMAIN s /\ s[i].is \in {"part", "foreign"}
            BY <1>2, TidyFacts
        <2>2. i = Len(s)
            BY <1>1, <2>1, TidyFacts
        <2> QED  BY <1>2, <1>3, <2>2
    <1>4. ~MidFileDamage(s)
        BY <1>3 DEF MidFileDamage
    <1>5. \A i \in Starts(s) : ~DataError(s, i)
        BY <1>1, <1>2 DEF DataError
    <1> QED  BY <1>4, <1>5, ScanIs

(* CrashesLoseNothing: whatever crashes cut, and wherever, the log opens   *)
(* and yields the rows that landed, in order and nothing else, until a row *)
(* has been glued or a racing repair has cut the log (append_line,         *)
(* scan_jsonl and repair_torn_tail, storage/mod.rs).                       *)
THEOREM LandedRowsKept == Spec => []CrashesLoseNothing
    <1>1. ASSUME Inv PROVE CrashesLoseNothing
        <2> SUFFICES ASSUME mishaps \cap (Gluing \cup {"raced"}) = {}, hasEvents,
                            ~HoldsForeign(events)
                     PROVE  Scan(events, TRUE).ok /\ RowsIn(events) = landed
            BY DEF CrashesLoseNothing, LandedRowsSurvive
        <2>1. mishaps \cap Gluing = {}
            OBVIOUS
        <2>2. Tidy(events) /\ RowsIn(events) = landed
            BY <1>1, <2>1 DEF Inv, InvTidy, InvLanded
        <2>3. events \in Seq(Tokens)
            BY <1>1, Numbers
        <2> QED  BY <2>2, <2>3, TidyLoads
    <1> QED  BY <1>1, Invariance, PTL

(* BrickedOnlyByGlue: the scanner refuses a log as damaged only after a    *)
(* mishap that leaves two rows on a line, a racing reader included.        *)
THEOREM LogStaysLoadable == Spec => []BrickedOnlyByGlue
    <1>1. ASSUME Inv PROVE BrickedOnlyByGlue
        <2> SUFFICES ASSUME mishaps \cap Gluing = {}, hasEvents, ~HoldsForeign(events)
                     PROVE  Scan(events, TRUE).ok
            BY DEF BrickedOnlyByGlue
        <2>1. Tidy(events)
            BY <1>1 DEF Inv, InvTidy
        <2>2. events \in Seq(Tokens)
            BY <1>1, Numbers
        <2> QED  BY <2>1, <2>2, TidyLoads
    <1> QED  BY <1>1, Invariance, PTL

LEMMA OpenedIs ==
    /\ hasEvents => Opened.rows = RowsIn(events)
    /\ ~hasEvents => Opened.rows = RowsIn(legacy)
    BY ScanIs DEF Opened

(* NoRowTwice: an open of the session, from whichever of the files, yields *)
(* its rows in order and none of them twice: a migration run again after a *)
(* crash installs the transcript once (migrate, session.rs).               *)
THEOREM RowsComeOnce == Spec => []NoRowTwice
    <1>1. ASSUME Inv PROVE NoRowTwice
        <2>1. events \in Seq(Tokens) /\ legacy \in Seq(Tokens) /\ hasEvents \in BOOLEAN
            BY <1>1, Numbers DEF Inv, TypeOK
        <2>2. InOrder(events) /\ InOrder(legacy)
            BY <1>1 DEF Inv, InvOrder
        <2>3. Increasing(RowsIn(events)) /\ Increasing(RowsIn(legacy))
            BY <2>1, <2>2, RowsFacts
        <2>4. Increasing(Opened.rows)
            BY <2>1, <2>3, OpenedIs
        <2> QED  BY <2>4 DEF NoRowTwice, Increasing
    <1> QED  BY <1>1, Invariance, PTL

(* MigrationLosesNothing: whenever the session opens it yields every       *)
(* legacy message there was, whatever step of a migration failed or        *)
(* crashed, until a clear has created the log ahead of the migration or a  *)
(* racing repair has cut it (migrate and open, session.rs).                *)
THEOREM TranscriptKept == Spec => []MigrationLosesNothing
    <1>1. ASSUME Inv PROVE MigrationLosesNothing
        <2> SUFFICES ASSUME mishaps \cap {"shadowed", "raced"} = {}
                     PROVE  Representable(OfLegacy(Opened.rows)) = transcript
            BY DEF MigrationLosesNothing, TranscriptReadable
        <2>1. /\ events \in Seq(Tokens) /\ legacy \in Seq(Tokens) /\ transcript \in Seq(Nat)
              /\ hasEvents \in BOOLEAN
            BY <1>1, Numbers DEF Inv, TypeOK
        <2>2. CASE hasEvents
            <3>1. Follows(events, transcript)
                BY <1>1, <2>2 DEF Inv, InvLegacy
            <3>2. \A k \in DOMAIN transcript : transcript[k] < FirstRow /\ transcript[k] \notin Custom
                BY <1>1 DEF Inv, InvOrder
            <3>3. Representable(OfLegacy(RowsIn(events))) = transcript
                BY <2>1, <3>1, <3>2, FollowsReads
            <3> QED  BY <2>2, <3>3, OpenedIs
        <2>3. CASE ~hasEvents
            <3>1. Representable(RowsIn(legacy)) = transcript
                BY <1>1, <2>3 DEF Inv, InvLegacy
            <3>2. \A i \in DOMAIN legacy : legacy[i] # NL => legacy[i].row < FirstRow
                BY <1>1 DEF Inv, InvOrder
            <3>3. PICK rows : rows = RowsIn(legacy)
                OBVIOUS
            <3>4. rows \in Seq(Nat) /\ \A k \in DOMAIN rows : rows[k] < FirstRow
                BY <2>1, <3>2, <3>3, RowsFacts
            <3>5. OfLegacy(rows) = rows
                BY <3>4, OfLegacyFacts
            <3> QED  BY <2>3, <3>1, <3>3, <3>5, OpenedIs
        <2> QED  BY <2>1, <2>2, <2>3
    <1> QED  BY <1>1, Invariance, PTL

-----------------------------------------------------------------------------
(* What a step leaves of the log.                                          *)

LEMMA KeptBefore ==
    ASSUME NEW e \in Seq(Tokens), NEW u \in Seq(Tokens), NEW n \in 0 .. Len(e), n <= Len(u),
           \A i \in 1 .. n : u[i] = e[i],
           \A i \in DOMAIN e : e[i].is \in {"row", "foreign"} => i <= n
    PROVE  \A i \in DOMAIN e :
               e[i].is \in {"row", "foreign"} => i \in DOMAIN u /\ u[i] = e[i]
    <1>1. DOMAIN e = 1 .. Len(e) /\ DOMAIN u = 1 .. Len(u) /\ Len(e) \in Nat /\ Len(u) \in Nat
        BY FileFacts
    <1> QED  BY <1>1

(* The repair of a tidy log that is not refused cuts off a fragment, the   *)
(* last thing in it.                                                       *)
LEMMA MendedKeeps ==
    ASSUME NEW e \in Seq(Tokens), NEW u, Mended(u, e), Tidy(e),
           \A i \in Starts(e) : ~DataError(e, i)
    PROVE  \A i \in DOMAIN e :
               e[i].is \in {"row", "foreign"} => i \in DOMAIN u /\ u[i] = e[i]
    <1>1. CASE Torn(e) = 0
        BY <1>1 DEF Mended
    <1>2. CASE Torn(e) # 0
        <2>1. PICK n : n = Torn(e) - 1
            OBVIOUS
        <2>2. Torn(e) \in BadLines(e) /\ Torn(e) \in Starts(e) /\ Torn(e) \in 1 .. Len(e)
              /\ Len(e) \in Nat /\ DOMAIN e = 1 .. Len(e)
            BY <1>2, TornIs, FileFacts
        <2>3. e[Torn(e)].is = "part"
            BY <2>2, TidyFacts DEF DataError
        <2>4. Torn(e) = Len(e)
            BY <2>2, <2>3, TidyFacts
        <2>5. Cuts(u, e, n)
            BY <1>2, <2>1 DEF Mended
        <2>6. n \in 0 .. Len(e) /\ u \in Seq(Tokens) /\ Len(u) = n /\ \A i \in 1 .. n : u[i] = e[i]
            BY <2>5 DEF Cuts
        <2>7. \A i \in DOMAIN e : e[i].is \in {"row", "foreign"} => i <= n
            <3>1. e[Len(e)].is = "part"
                BY <2>3, <2>4
            <3>2. \A i \in DOMAIN e : i <= n \/ i = Len(e)
                BY <2>1, <2>2, <2>4
            <3> QED  BY <3>1, <3>2
        <2>8. n <= Len(u)
            BY <2>6
        <2> QED  BY <2>6, <2>7, <2>8, KeptBefore
    <1> QED  BY <1>1, <1>2

LEMMA StepKeepsRows ==
    ASSUME Inv, Next, mishaps' \cap (Gluing \cup {"raced"}) = {}
    PROVE  KeepsWholeRows
    <1>1. mishaps \cap Gluing = {}
        BY MishapsGrow
    <1>2. Tidy(events) /\ events \in Seq(Tokens) /\ Len(events) \in Nat
          /\ DOMAIN events = 1 .. Len(events)
        BY <1>1, Numbers, FileFacts DEF Inv, InvTidy
    <1>3. ASSUME events' = events
          PROVE  KeepsWholeRows
        BY <1>3 DEF KeepsWholeRows
    <1>4. ASSUME Mended(events', events), \A i \in Starts(events) : ~DataError(events, i)
          PROVE  KeepsWholeRows
        <2>1. PICK u : u = events'
            OBVIOUS
        <2>2. PICK e : e = events
            OBVIOUS
        <2>3. \A i \in DOMAIN e :
                  e[i].is \in {"row", "foreign"} => i \in DOMAIN u /\ u[i] = e[i]
            BY <1>2, <1>4, <2>1, <2>2, MendedKeeps
        <2> QED  BY <2>1, <2>2, <2>3 DEF KeepsWholeRows
    \* The log is extended, or loses only what stands after its first n tokens.
    <1>5. ASSUME NEW u \in Seq(Tokens), u = events', NEW n \in 0 .. Len(events), n <= Len(u),
                 \A i \in 1 .. n : u[i] = events[i],
                 \A i \in DOMAIN events : events[i].is \in {"row", "foreign"} => i <= n
          PROVE  KeepsWholeRows
        BY <1>2, <1>5, KeptBefore DEF KeepsWholeRows
    <1>6. CASE OpenLog
        BY <1>4, <1>6, OpenStep
    <1>7. CASE Install
        <2>1. events = <<>>
            BY <1>7 DEF Install, Inv, InvFiles
        <2>2. DOMAIN events = {}
            BY <2>1, NoLine
        <2> QED  BY <2>2 DEF KeepsWholeRows
    <1>8. CASE BeginRow \/ BeginClear
        <2>1. PICK u : u = events'
            OBVIOUS
        <2>2. Begun(u, events, row)
            BY <1>8, <2>1, BeginStep DEF BeginRow, BeginClear
        <2>3. u \in Seq(Tokens) /\ Len(events) <= Len(u) /\ Len(events) \in 0 .. Len(events)
              /\ \A i \in 1 .. Len(events) : u[i] = events[i]
            BY <1>2, <2>2 DEF Begun
        <2> QED  BY <1>2, <1>5, <2>1, <2>3
    <1>9. ASSUME NEW b \in {<<>>, <<Part(row)>>, <<Whole(row)>>, Line(row)}, Stop(b)
          PROVE  KeepsWholeRows
        <2>1. PICK u : u = events'
            OBVIOUS
        <2>2. PICK n : n = Len(events) - 1
            OBVIOUS
        <2>3. Stopped(u, events, row, b)
            BY <1>9, <2>1, StopStep
        <2>4. /\ u \in Seq(Tokens) /\ n \in 0 .. Len(events) /\ n <= Len(u)
              /\ \A i \in 1 .. n : u[i] = events[i]
              /\ events[Len(events)] = Part(row)
            <3>1. Len(events) \in Nat \ {0}
                BY <2>3 DEF Stopped
            <3>2. n \in 0 .. Len(events)
                BY <2>2, <3>1
            <3> QED  BY <2>2, <2>3, <3>2 DEF Stopped
        <2>5. \A i \in DOMAIN events : events[i].is \in {"row", "foreign"} => i <= n
            <3>1. events[Len(events)].is = "part"
                BY <2>4, TokenFacts
            <3>2. \A i \in DOMAIN events : i <= n \/ i = Len(events)
                BY <1>2, <2>2
            <3> QED  BY <3>1, <3>2
        <2> QED  BY <1>5, <2>1, <2>4, <2>5
    <1>10. CASE Finish \/ FailWrite \/ CrashInWrite
        BY <1>9, <1>10 DEF Finish, FailWrite, CrashInWrite
    <1>11. CASE ReaderHeals
        <2>1. CASE reader.of = "events"
            <3>1. /\ mishaps' = mishaps \cup {m \in {"raced"} : events # reader.bytes}
                  /\ events = reader.bytes => Mended(events', events)
                BY <1>11, <2>1, ReaderHealsLog
            <3>2. events = reader.bytes
                BY <3>1
            <3>3. reader.at = "healing"
                BY <1>11 DEF ReaderHeals
            <3>4. \A i \in Starts(events) : ~DataError(events, i)
                BY <2>1, <3>2, <3>3, ReaderFacts
            <3> QED  BY <1>4, <3>1, <3>2, <3>4
        <2>2. CASE reader.of # "events"
            BY <1>3, <1>11, <2>2, ReaderHealsLegacy
        <2> QED  BY <2>1, <2>2
    <1>12. CASE NewerVersionAppends
        <2>1. PICK u : u = events'
            OBVIOUS
        <2>2. Followed(u, events, row)
            BY <1>12, <2>1, ForeignStep
        <2>3. u \in Seq(Tokens) /\ Len(events) <= Len(u) /\ Len(events) \in 0 .. Len(events)
              /\ \A i \in 1 .. Len(events) : u[i] = events[i]
            BY <1>2, <2>2 DEF Followed
        <2> QED  BY <1>2, <1>5, <2>1, <2>3
    <1>13. CASE OpenLegacy \/ StageFirst \/ StageRest \/ DeleteLegacy \/ FailMigration \/ EndTurn
                \/ ReaderChecks \/ ReaderReads \/ Crash
        BY <1>3, <1>13 DEF OpenLegacy, StageFirst, StageRest, DeleteLegacy, FailMigration,
               EndTurn, ReaderChecks, ReaderReads, Crash, files
    <1> QED  BY <1>6, <1>7, <1>8, <1>10, <1>11, <1>12, <1>13 DEF Next

(* CarefulHealKeepsRows: no step takes a complete row, of this version or  *)
(* of a newer one, out of the log, until rows have been glued or a repair  *)
(* used an offset that was out of date (repair_torn_tail, storage/mod.rs). *)
THEOREM RepairsCutOnlyFragments == Spec => CarefulHealKeepsRows
    <1>1. Inv /\ [Next]_vars
              => [mishaps' \cap (Gluing \cup {"raced"}) = {} => KeepsWholeRows]_vars
        BY StepKeepsRows
    <1> QED  BY <1>1, Invariance, PTL DEF Spec, CarefulHealKeepsRows

-----------------------------------------------------------------------------
(* The session as a journal of its complete rows.                          *)

Wholes(s) == {i \in DOMAIN s : s[i].is \in {"row", "foreign"}}

LEMMA WholeRowsIs ==
    ASSUME NEW s \in Seq(Tokens)
    PROVE  /\ WholeRows(s) = ElementsAt(RowMap(s), Wholes(s))
           /\ WholeRows(s) \in Seq(Nat)
           /\ \A k \in DOMAIN WholeRows(s) :
                 \E i \in Wholes(s) : WholeRows(s)[k] = s[i].row
    <1>1. PICK m \in Nat : m = Len(s) /\ DOMAIN s = 1 .. m
        BY FileFacts
    <1>2. \A i \in 1 .. m : s[i].row \in Nat
        BY <1>1, FileFacts, TokenFacts
    <1>3. PICK p : p = RowMap(s)
        OBVIOUS
    <1>4. /\ IsSequence(p) /\ DOMAIN p = 1 .. m
          /\ \A i \in 1 .. m : p[i] = s[i].row
        BY <1>1, <1>3, RowMapIs
    <1>5. PICK e : e = WholeRows(s)
        OBVIOUS
    <1>6. e = ElementsAt(p, Wholes(s))
        BY <1>3, <1>5, Zenon DEF WholeRows, RowMap, Wholes
    <1>7. IsSequence(e) /\ Range(e) = {p[k] : k \in {i \in DOMAIN p : i \in Wholes(s)}}
        BY <1>4, <1>6, ElementsRange
    <1>8. ASSUME NEW k \in DOMAIN e
          PROVE  \E i \in Wholes(s) : e[k] = s[i].row
        <2>1. e[k] \in Range(e)
            BY DEF Range
        <2>2. PICK i \in 1 .. m : i \in Wholes(s) /\ e[k] = p[i]
            BY <1>4, <1>7, <2>1
        <2> QED  BY <1>4, <2>2
    <1>9. e \in Seq(Nat)
        <2>1. Range(e) \subseteq Nat
            BY <1>2, <1>4, <1>7
        <2> QED  BY <1>7, <2>1, SequenceWidens DEF IsSequence
    <1> QED  BY <1>3, <1>5, <1>6, <1>8, <1>9

LEMMA WholesJoin ==
    ASSUME NEW s \in Seq(Tokens), NEW t \in Seq(Tokens), NEW u, Joins(u, s, t)
    PROVE  Concat(WholeRows(u), WholeRows(s), WholeRows(t))
    <1>1. PICK m \in Nat : m = Len(s) /\ DOMAIN s = 1 .. m
        BY FileFacts
    <1>2. PICK n \in Nat : n = Len(t) /\ DOMAIN t = 1 .. n
        BY FileFacts
    <1>3. PICK p : p = RowMap(s)
        OBVIOUS
    <1>4. PICK q : q = RowMap(t)
        OBVIOUS
    <1>5. PICK v : v = RowMap(u)
        OBVIOUS
    <1>6. Concat(v, p, q)
        BY <1>3, <1>4, <1>5, RowMapsJoin
    <1>7. /\ u \in Seq(Tokens) /\ DOMAIN u = 1 .. (m + n)
          /\ \A i \in 1 .. m : u[i] = s[i]
          /\ \A i \in 1 .. n : u[m + i] = t[i]
        BY <1>1, <1>2, JoinFacts
    <1>8. IsSequence(p) /\ Len(p) = m /\ DOMAIN p = 1 .. m
        BY <1>1, <1>3, RowMapIs
    <1>9. IsSequence(q) /\ DOMAIN q = 1 .. n
        BY <1>2, <1>4, RowMapIs
    <1>10. Divides(Wholes(u), p, Wholes(s), q, Wholes(t))
        <2>1. \A k \in 1 .. m : k \in Wholes(u) <=> k \in Wholes(s)
            BY <1>1, <1>7 DEF Wholes
        <2>2. \A k \in 1 .. n : m + k \in 1 .. (m + n)
            OBVIOUS
        <2>3. \A k \in 1 .. n : k \in Wholes(t) <=> m + k \in Wholes(u)
            BY <1>2, <1>7, <2>2 DEF Wholes
        <2> QED  BY <1>8, <1>9, <2>1, <2>3 DEF Divides
    <1>11. v = p \o q
        BY <1>6, Zenon DEF Concat
    <1>12. Concat(ElementsAt(v, Wholes(u)), ElementsAt(p, Wholes(s)), ElementsAt(q, Wholes(t)))
        BY <1>8, <1>9, <1>10, <1>11, ElementsJoin
    <1>13. /\ WholeRows(u) = ElementsAt(v, Wholes(u))
           /\ WholeRows(s) = ElementsAt(p, Wholes(s))
           /\ WholeRows(t) = ElementsAt(q, Wholes(t))
        BY <1>3, <1>4, <1>5, <1>7, WholeRowsIs
    <1> QED  BY <1>12, <1>13

LEMMA WholesNone ==
    ASSUME NEW s \in Seq(Tokens), Wholes(s) = {}
    PROVE  WholeRows(s) = <<>>
    <1>1. PICK p : p = RowMap(s)
        OBVIOUS
    <1>2. IsSequence(p) /\ WholeRows(s) = ElementsAt(p, Wholes(s))
        BY <1>1, RowMapIs, WholeRowsIs
    <1> QED  BY <1>2, ElementsNone

LEMMA WholesOne ==
    ASSUME NEW x \in Tokens
    PROVE  WholeRows(<<x>>) = IF x.is \in {"row", "foreign"} THEN <<x.row>> ELSE <<>>
    <1>1. PICK s : s = <<x>>
        OBVIOUS
    <1>2. s \in Seq(Tokens) /\ Len(s) = 1 /\ s[1] = x /\ DOMAIN s = {1}
        BY <1>1
    <1>3. PICK p : p = RowMap(s)
        OBVIOUS
    <1>4. /\ IsSequence(p) /\ Len(p) = 1 /\ DOMAIN p = {1} /\ p[1] = x.row
          /\ WholeRows(s) = ElementsAt(p, Wholes(s))
        BY <1>2, <1>3, RowMapIs, WholeRowsIs
    <1>5. CASE x.is \in {"row", "foreign"}
        <2>1. \A k \in DOMAIN p : k \in Wholes(s)
            BY <1>2, <1>4, <1>5 DEF Wholes
        <2>2. WholeRows(s) = p
            BY <1>4, <2>1, ElementsAll
        <2>3. PICK q : q = <<x.row>>
            OBVIOUS
        <2>4. IsSequence(q) /\ Len(q) = 1 /\ q[1] = x.row
            BY <2>3, SingletonIsSequence
        <2>5. p = q
            BY <1>4, <2>4, SameSequence
        <2> QED  BY <1>1, <1>5, <2>2, <2>3, <2>5
    <1>6. CASE x.is \notin {"row", "foreign"}
        <2>1. Wholes(s) = {}
            BY <1>2, <1>6 DEF Wholes
        <2> QED  BY <1>1, <1>2, <1>6, <2>1, WholesNone
    <1> QED  BY <1>5, <1>6

(* A file extended by nothing, by a token or by a line: the one place      *)
(* where the whole rows of a file can grow.                                *)
Additions(x) == {<<>>, <<x>>, <<x, NL>>}

LEMMA WholesAdded ==
    ASSUME NEW a \in Seq(Tokens), NEW x \in Tokens, x # NL,
           NEW b \in Additions(x), NEW u, Concat(u, a, b)
    PROVE  WholeRows(u) = IF b # <<>> /\ x.is \in {"row", "foreign"}
                          THEN Append(WholeRows(a), x.row)
                          ELSE WholeRows(a)
    <1>1. PICK w : w = IF x.is \in {"row", "foreign"} THEN <<x.row>> ELSE <<>>
        OBVIOUS
    <1>2. /\ <<x>> \in Seq(Tokens) /\ <<NL>> \in Seq(Tokens) /\ <<x, NL>> \in Seq(Tokens)
          /\ WholeRows(<<x>>) = w /\ WholeRows(<<NL>>) = <<>>
        <2>1. NL \in Tokens /\ NL.is = "newline"
            BY TokenFacts
        <2> QED  BY <1>1, <2>1, OneToken, EndFacts, WholesOne
    <1>3. IsSequence(w)
        BY <1>1, SingletonIsSequence, EmptyIsSequence
    <1>4. WholeRows(<<x, NL>>) = w
        <2>1. PICK l : l = <<x, NL>>
            OBVIOUS
        <2>2. PICK s : s = <<x>>
            OBVIOUS
        <2>3. PICK t : t = <<NL>>
            OBVIOUS
        <2>4. /\ IsSequence(l) /\ Len(l) = 2 /\ l[1] = x /\ l[2] = NL
              /\ Len(s) = 1 /\ s[1] = x /\ DOMAIN s = {1}
              /\ Len(t) = 1 /\ t[1] = NL /\ DOMAIN t = {1}
            <3>1. IsSequence(l) /\ IsSequence(s) /\ IsSequence(t)
                BY <1>2, <2>1, <2>2, <2>3, TypedIsSequence
            <3>2. Len(l) = 2 /\ l[1] = x /\ l[2] = NL
                BY <2>1
            <3>3. Len(s) = 1 /\ s[1] = x /\ DOMAIN s = {1}
                BY <2>2, SingletonIsSequence
            <3>4. Len(t) = 1 /\ t[1] = NL /\ DOMAIN t = {1}
                BY <2>3, SingletonIsSequence
            <3> QED  BY <3>1, <3>2, <3>3, <3>4
        <2>5. Joins(l, s, t)
            BY <2>4 DEF Joins
        <2>6. Concat(WholeRows(l), WholeRows(s), WholeRows(t))
            BY <1>2, <2>2, <2>3, <2>5, WholesJoin
        <2>7. WholeRows(l) = w \o <<>>
            BY <1>2, <2>2, <2>3, <2>6, Zenon DEF Concat
        <2> QED  BY <1>3, <2>1, <2>7, EmptyConcat
    <1>5. WholeRows(<<>>) = <<>>
        BY NoLine, WholesNone DEF Wholes
    <1>6. b \in Seq(Tokens) /\ WholeRows(b) = IF b = <<>> THEN <<>> ELSE w
        <2>1. <<x>> # <<>> /\ <<x, NL>> # <<>>
            BY SingletonIsSequence, OneLine, NoLine
        <2>2. b \in {<<>>, <<x>>, <<x, NL>>}
            BY DEF Additions
        <2> QED  BY <1>2, <1>4, <1>5, <2>1, <2>2, NoLine
    <1>7. WholeRows(u) = WholeRows(a) \o WholeRows(b)
        <2>1. u = a \o b
            BY Zenon DEF Concat
        <2>2. Joins(u, a, b)
            BY <1>6, <2>1, FilesJoin
        <2>3. Concat(WholeRows(u), WholeRows(a), WholeRows(b))
            BY <1>6, <2>2, WholesJoin
        <2> QED  BY <2>3, Zenon DEF Concat
    <1>8. IsSequence(WholeRows(a))
        BY WholeRowsIs, TypedIsSequence
    <1>9. CASE b # <<>> /\ x.is \in {"row", "foreign"}
        <2>1. WholeRows(u) = WholeRows(a) \o <<x.row>>
            BY <1>1, <1>6, <1>7, <1>9
        <2> QED  BY <1>8, <1>9, <2>1, AppendOne
    <1>10. CASE ~(b # <<>> /\ x.is \in {"row", "foreign"})
        <2>1. WholeRows(u) = WholeRows(a) \o <<>>
            BY <1>1, <1>6, <1>7, <1>10
        <2> QED  BY <1>8, <1>10, <2>1, EmptyConcat
    <1> QED  BY <1>9, <1>10

(* A file cut behind its last complete row.                                *)
LEMMA WholesCut ==
    ASSUME NEW s \in Seq(Tokens), NEW c, NEW n, Cuts(c, s, n),
           \A i \in Wholes(s) : i \in DOMAIN c
    PROVE  WholeRows(c) = WholeRows(s)
    <1>1. PICK m \in Nat : m = Len(s) /\ DOMAIN s = 1 .. m
        BY FileFacts
    <1>2. n \in 0 .. m /\ c \in Seq(Tokens) /\ Len(c) = n /\ DOMAIN c = 1 .. n
        BY <1>1, FileFacts DEF Cuts
    <1>3. PICK t \in Seq(Tokens) : /\ Joins(s, c, t) /\ Len(t) = m - n
                                   /\ \A i \in 1 .. Len(t) : t[i] = s[n + i]
        <2>1. Splits(s, c, n)
            BY CutSplits
        <2> QED  BY <1>1, <2>1 DEF Splits
    <1>4. Wholes(t) = {}
        <2> SUFFICES ASSUME NEW k \in Wholes(t) PROVE FALSE
            OBVIOUS
        <2>1. k \in 1 .. (m - n) /\ t[k] = s[n + k] /\ t[k].is \in {"row", "foreign"}
            BY <1>3, FileFacts DEF Wholes
        <2>2. n + k \in 1 .. m /\ n + k \notin 1 .. n
            BY <1>2, <2>1
        <2>3. n + k \in Wholes(s)
            BY <1>1, <2>1, <2>2 DEF Wholes
        <2> QED  BY <1>2, <2>2, <2>3
    <1>5. WholeRows(t) = <<>>
        BY <1>4, WholesNone
    <1>6. Concat(WholeRows(s), WholeRows(c), WholeRows(t))
        BY <1>2, <1>3, WholesJoin
    <1>7. WholeRows(s) = WholeRows(c) \o <<>>
        BY <1>5, <1>6, Zenon DEF Concat
    <1>8. IsSequence(WholeRows(c))
        BY <1>2, WholeRowsIs, TypedIsSequence
    <1> QED  BY <1>7, <1>8, EmptyConcat

LEMMA WholesMended ==
    ASSUME NEW e \in Seq(Tokens), NEW u, Mended(u, e), Tidy(e),
           \A i \in Starts(e) : ~DataError(e, i)
    PROVE  WholeRows(u) = WholeRows(e)
    <1>1. CASE Torn(e) = 0
        BY <1>1 DEF Mended
    <1>2. CASE Torn(e) # 0
        <2>1. PICK n : n = Torn(e) - 1
            OBVIOUS
        <2>2. Cuts(u, e, n)
            BY <1>2, <2>1 DEF Mended
        <2>3. \A i \in Wholes(e) : i \in DOMAIN u
            BY MendedKeeps DEF Wholes
        <2> QED  BY <2>2, <2>3, WholesCut
    <1> QED  BY <1>1, <1>2

(* In a file without a bad line the complete rows are what a scan returns. *)
LEMMA WholesOfLines ==
    ASSUME NEW rows \in Seq(Nat)
    PROVE  WholeRows(Lines(rows)) = rows
    <1>1. PICK s : s = Lines(rows)
        OBVIOUS
    <1>2. s \in Seq(Tokens) /\ Tidy(s) /\ BadLines(s) = {} /\ RowsIn(s) = rows
        BY <1>1, LinesFacts
    <1>3. PICK m \in Nat : m = Len(s) /\ DOMAIN s = 1 .. m
        BY <1>2, FileFacts
    <1>4. PICK p : p = RowMap(s)
        OBVIOUS
    <1>5. /\ IsSequence(p) /\ DOMAIN p = 1 .. m /\ RowsIn(s) = ElementsAt(p, Records(s))
          /\ WholeRows(s) = ElementsAt(p, Wholes(s))
        BY <1>2, <1>3, <1>4, RowMapIs, WholeRowsIs
    <1>6. ASSUME NEW k \in 1 .. m
          PROVE  k \in Wholes(s) <=> k \in Records(s)
        <2>1. k \in Starts(s) => s[k].is = "row"
            BY <1>2 DEF BadLines, Parses
        <2>2. s[k].is \in {"row", "foreign"} => s[k] # NL
            BY TokenFacts
        <2>3. s[k] # NL => k \in Starts(s)
            BY <1>2, <1>3, TidyFacts
        <2>4. k \in Starts(s) <=> k \in Records(s)
            BY <1>2 DEF Records
        <2> QED  BY <1>3, <2>1, <2>2, <2>3, <2>4 DEF Wholes
    <1>7. ElementsAt(p, Wholes(s)) = ElementsAt(p, Records(s))
        BY <1>5, <1>6, ElementsSame
    <1> QED  BY <1>1, <1>2, <1>5, <1>7

(* A journal one row longer.                                               *)
Grown(v, w) ==
    /\ v # <<>> /\ Front(v) = w
    /\ \A i \in DOMAIN w : w[i] < Last(v)

LEMMA AppendGrows ==
    ASSUME NEW w \in Seq(Nat), NEW r \in Nat, \A i \in DOMAIN w : w[i] < r,
           NEW v, v = Append(w, r)
    PROVE  Grown(v, w)
    <1>1. PICK n \in Nat : n = Len(w) /\ DOMAIN w = 1 .. n
        BY TypedIsSequence, SequenceDomain
    <1>2. /\ IsSequence(w) /\ IsSequence(v) /\ Len(v) = n + 1 /\ v[n + 1] = r
          /\ \A i \in 1 .. n : v[i] = w[i]
        BY <1>1, TypedIsSequence, AppendIsSequence
    <1>3. v # <<>> /\ Last(v) = r
        BY <1>2, EmptyIsSequence DEF Last
    <1>4. PICK f : f = SubSeq(v, 1, n)
        OBVIOUS
    <1>5. Front(v) = f
        <2>1. Len(v) - 1 = n
            BY <1>2
        <2> QED  BY <1>4, <2>1 DEF Front
    <1>6. IsSequence(f) /\ Len(f) = n /\ \A i \in 1 .. n : f[i] = v[i]
        <2>1. n <= Len(v) /\ 1 \in Nat \ {0}
            BY <1>2
        <2>2. PICK k : k = 1
            OBVIOUS
        <2>3. k \in Nat \ {0} /\ f = SubSeq(v, k, n)
            BY <1>4, <2>2
        <2>4. /\ IsSequence(f) /\ Len(f) = IF k <= n THEN n - k + 1 ELSE 0
              /\ \A i \in 1 .. (n - k + 1) : f[i] = v[k + i - 1]
            <3>1. /\ IsSequence(SubSeq(v, k, n))
                  /\ Len(SubSeq(v, k, n)) = IF k <= n THEN n - k + 1 ELSE 0
                  /\ \A i \in 1 .. (n - k + 1) : SubSeq(v, k, n)[i] = v[k + i - 1]
                <4>1. IsSequence(v) /\ k \in Nat \ {0} /\ n \in Nat /\ n <= Len(v)
                    BY <1>1, <1>2, <2>1, <2>3
                <4> QED  BY <4>1, SubSeqIsSequence, Zenon
            <3> QED  BY <2>3, <3>1, Zenon
        <2>5. /\ IsSequence(f) /\ Len(f) = IF 1 <= n THEN n - 1 + 1 ELSE 0
              /\ \A i \in 1 .. (n - 1 + 1) : f[i] = v[1 + i - 1]
            BY <2>2, <2>4
        <2>6. Len(f) = n
            BY <2>5
        <2>7. \A i \in 1 .. n : i \in 1 .. (n - 1 + 1) /\ 1 + i - 1 = i
            OBVIOUS
        <2> QED  BY <2>5, <2>6, <2>7
    <1>7. f = w
        BY <1>1, <1>2, <1>6, SameSequence
    <1> QED  BY <1>3, <1>5, <1>7 DEF Grown

(* The rows of a session are numbered below the next one.                  *)
LEMMA WholesBefore ==
    ASSUME Inv, NEW i \in Wholes(events)
    PROVE  events[i].row < row
    <1>1. i \in DOMAIN events /\ events[i] # NL /\ events[i].is # "part"
        BY TokenFacts DEF Wholes
    <1>2. DOMAIN events = 1 .. Len(events) /\ Len(events) \in Nat
        BY Numbers, FileFacts
    <1>3. writer \in Writing => events # <<>> /\ Last(events) = Part(row)
        BY DEF Inv, InvFiles
    <1>4. ~(writer \in Writing /\ i = Len(events))
        BY <1>1, <1>2, <1>3, TokenFacts DEF Last
    <1> QED  BY <1>1, <1>4 DEF Inv, InvOrder

LEMMA RowsBefore ==
    ASSUME Inv
    PROVE  /\ WholeRows(events) \in Seq(Nat) /\ row \in Nat
           /\ \A k \in DOMAIN WholeRows(events) : WholeRows(events)[k] < row
    <1>1. events \in Seq(Tokens) /\ row \in Nat
        BY Numbers
    <1>2. \A k \in DOMAIN WholeRows(events) :
              \E i \in Wholes(events) : WholeRows(events)[k] = events[i].row
        BY <1>1, WholeRowsIs
    <1>3. \A i \in Wholes(events) : events[i].row < row
        BY WholesBefore
    <1> QED  BY <1>1, <1>2, <1>3, WholeRowsIs

(* What the steps that write make of the complete rows of the log.         *)
LEMMA BeginWholes ==
    ASSUME Inv, NEW home, NEW pc, Begin(home, pc)
    PROVE  WholeRows(events') = WholeRows(events)
    <1>1. PICK u : u = events'
        OBVIOUS
    <1>2. PICK e : e = events
        OBVIOUS
    <1>3. PICK x : x = Part(row)
        OBVIOUS
    <1>4. e \in Seq(Tokens) /\ x \in Tokens /\ x # NL /\ x.is = "part"
        BY <1>2, <1>3, Numbers, TokenFacts
    <1>5. PICK b : b = <<x>>
        OBVIOUS
    <1>6. Concat(u, e, b)
        <2>1. u = Append(e, x)
            BY <1>1, <1>2, <1>3 DEF Begin
        <2>2. u = e \o b
            BY <1>4, <1>5, <2>1, TypedIsSequence, AppendOne
        <2> QED  BY <2>2, Zenon DEF Concat
    <1>7. WholeRows(u) = WholeRows(e)
        <2>1. b \in Additions(x)
            BY <1>5 DEF Additions
        <2>2. WholeRows(u) = IF b # <<>> /\ x.is \in {"row", "foreign"}
                             THEN Append(WholeRows(e), x.row)
                             ELSE WholeRows(e)
            BY <1>4, <1>6, <2>1, WholesAdded, Zenon
        <2> QED  BY <1>4, <2>2
    <1> QED  BY <1>1, <1>2, <1>7

LEMMA ForeignWholes ==
    ASSUME Inv, NewerVersionAppends
    PROVE  WholeRows(events') = Append(WholeRows(events), row)
    <1>1. PICK u : u = events'
        OBVIOUS
    <1>2. PICK e : e = events
        OBVIOUS
    <1>3. PICK x : x = Foreign(row)
        OBVIOUS
    <1>4. e \in Seq(Tokens) /\ x \in Tokens /\ x # NL /\ x.is = "foreign" /\ x.row = row
        BY <1>2, <1>3, Numbers, TokenFacts
    <1>5. PICK b : b = <<x, NL>>
        OBVIOUS
    <1>6. Concat(u, e, b)
        <2>1. u = e \o b
            BY <1>1, <1>2, <1>3, <1>5 DEF NewerVersionAppends
        <2> QED  BY <2>1, Zenon DEF Concat
    <1>7. b # <<>>
        BY <1>4, <1>5, OneLine, NoLine
    <1>8. WholeRows(u) = Append(WholeRows(e), x.row)
        <2>1. b \in Additions(x) /\ e \in Seq(Tokens)
            BY <1>1, <1>2, <1>3, <1>4, <1>5 DEF Additions
        <2>2. WholeRows(u) = IF b # <<>> /\ x.is \in {"row", "foreign"}
                             THEN Append(WholeRows(e), x.row)
                             ELSE WholeRows(e)
            BY <1>4, <1>6, <2>1, WholesAdded, Zenon
        <2> QED  BY <1>4, <1>7, <2>2
    <1> QED  BY <1>1, <1>2, <1>4, <1>8

LEMMA StopWholes ==
    ASSUME Inv, NEW b \in {<<>>, <<Part(row)>>, <<Whole(row)>>, Line(row)}, Stop(b)
    PROVE  WholeRows(events') \in {WholeRows(events), Append(WholeRows(events), row)}
    <1>1. events # <<>> /\ Last(events) = Part(row) /\ events \in Seq(Tokens) /\ row \in Nat
        BY Numbers DEF Inv, InvFiles, Stop
    <1>2. PICK u : u = events'
        OBVIOUS
    <1>3. PICK e : e = events
        OBVIOUS
    <1>4. PICK a : a = Front(e)
        OBVIOUS
    <1>5. PICK x : x = IF b = <<Part(row)>> THEN Part(row) ELSE Whole(row)
        OBVIOUS
    <1>6. x \in Tokens /\ x # NL /\ x.row = row
        BY <1>1, <1>5, TokenFacts
    <1>7. b \in {<<>>, <<x>>, <<x, NL>>}
        BY <1>5 DEF Line
    <1>8. a \in Seq(Tokens) /\ Joins(e, a, <<Last(e)>>)
        BY <1>1, <1>3, <1>4, FrontFacts
    <1>9. WholeRows(e) = WholeRows(a)
        <2>1. PICK l : l = <<Last(e)>>
            OBVIOUS
        <2>2. Last(e) \in Tokens /\ Last(e).is = "part"
            BY <1>1, <1>3, TokenFacts
        <2>3. l \in Seq(Tokens) /\ WholeRows(l) = <<>>
            BY <2>1, <2>2, OneToken, WholesOne
        <2>4. Concat(WholeRows(e), WholeRows(a), WholeRows(l))
            BY <1>8, <2>1, <2>3, WholesJoin
        <2>5. WholeRows(e) = WholeRows(a) \o <<>>
            BY <2>3, <2>4, Zenon DEF Concat
        <2>6. IsSequence(WholeRows(a))
            BY <1>8, WholeRowsIs, TypedIsSequence
        <2> QED  BY <2>5, <2>6, EmptyConcat
    <1>10. Concat(u, a, b)
        <2>1. u = a \o b
            BY <1>2, <1>3, <1>4 DEF Stop
        <2> QED  BY <2>1, Zenon DEF Concat
    <1>11. WholeRows(u) \in {WholeRows(a), Append(WholeRows(a), x.row)}
        <2>1. a \in Seq(Tokens)
            BY <1>8
        <2>2. WholeRows(u) = IF b # <<>> /\ x.is \in {"row", "foreign"}
                             THEN Append(WholeRows(a), x.row)
                             ELSE WholeRows(a)
            <3>1. x \in Tokens /\ x # NL /\ a \in Seq(Tokens)
                BY <1>6, <2>1
            <3>2. b \in Additions(x) /\ Concat(u, a, b)
                BY <1>7, <1>10 DEF Additions
            <3> QED  BY <3>1, <3>2, WholesAdded, Zenon
        <2> QED  BY <2>2
    <1> QED  BY <1>2, <1>3, <1>6, <1>9, <1>11

LEMMA TranscriptFixed ==
    ASSUME Next
    PROVE  /\ transcript' = transcript
           /\ hasEvents' = hasEvents \/ Install \/ BeginRow \/ BeginClear
    BY DEF Next, OpenLog, OpenLegacy, StageFirst, StageRest, Install, DeleteLegacy,
           FailMigration, BeginRow, BeginClear, Begin, Finish, FailWrite, Stop, EndTurn,
           ReaderChecks, ReaderReads, ReaderHeals, NewerVersionAppends, Crash, CrashInWrite,
           files

(* A step without a mishap writes at most a row, behind all the others.    *)
LEMMA StepsWrite ==
    ASSUME Inv, Inv', Next, mishaps' = {}
    PROVE  SessionRows' = SessionRows \/ Grown(SessionRows', SessionRows)
    <1>1. mishaps \cap Gluing = {}
        BY MishapsGrow
    <1>2. Tidy(events) /\ events \in Seq(Tokens) /\ {hasEvents, hasEvents'} \subseteq BOOLEAN
        BY <1>1, Numbers DEF Inv, InvTidy, TypeOK
    <1>3. ASSUME ~hasEvents, ~hasEvents'
          PROVE  SessionRows' = SessionRows
        <2>1. SessionRows = transcript /\ SessionRows' = transcript'
            BY <1>3 DEF SessionRows, Inv, InvLegacy
        <2> QED  BY <2>1, TranscriptFixed
    <1>4. ASSUME hasEvents, hasEvents', WholeRows(events') = WholeRows(events)
          PROVE  SessionRows' = SessionRows
        BY <1>4 DEF SessionRows
    <1>5. ASSUME hasEvents, hasEvents', WholeRows(events') = Append(WholeRows(events), row)
          PROVE  Grown(SessionRows', SessionRows)
        <2>1. PICK w : w = WholeRows(events)
            OBVIOUS
        <2>2. PICK v : v = WholeRows(events')
            OBVIOUS
        <2>3. w \in Seq(Nat) /\ row \in Nat /\ \A k \in DOMAIN w : w[k] < row
            BY <2>1, RowsBefore
        <2>4. Grown(v, w)
            BY <1>5, <2>1, <2>2, <2>3, AppendGrows
        <2>5. SessionRows = w /\ SessionRows' = v
            BY <1>5, <2>1, <2>2 DEF SessionRows
        <2> QED  BY <2>4, <2>5
    <1>6. CASE Install
        <2>1. writer = "staged" /\ hasEvents' /\ events' = tmp
            BY <1>6 DEF Install
        <2>2. ~hasEvents /\ plan = transcript /\ tmp = Lines(plan)
            BY <2>1 DEF Inv, InvFiles
        <2>3. WholeRows(tmp) = transcript
            BY <2>2, Numbers, WholesOfLines
        <2>4. SessionRows = transcript
            BY <2>2 DEF SessionRows, Inv, InvLegacy
        <2> QED  BY <2>1, <2>3, <2>4 DEF SessionRows
    <1>7. CASE BeginRow \/ BeginClear
        <2>1. WholeRows(events') = WholeRows(events) /\ hasEvents'
            BY <1>7, BeginWholes DEF BeginRow, BeginClear, Begin
        <2>2. CASE hasEvents
            BY <1>4, <2>1, <2>2
        <2>3. CASE ~hasEvents
            <3>1. transcript = <<>>
                <4>1. CASE BeginRow
                    BY <2>3, <4>1 DEF BeginRow, Begin, Inv, InvLegacy
                <4>2. CASE BeginClear
                    BY <2>3, <4>2 DEF BeginClear
                <4> QED  BY <1>7, <4>1, <4>2
            <3>2. events = <<>> /\ SessionRows = transcript
                BY <2>3 DEF SessionRows, Inv, InvFiles, InvLegacy
            <3>3. WholeRows(<<>>) = <<>>
                BY NoLine, WholesNone DEF Wholes
            <3>4. SessionRows' = <<>>
                BY <2>1, <3>2, <3>3 DEF SessionRows
            <3> QED  BY <3>1, <3>2, <3>4
        <2> QED  BY <1>2, <2>2, <2>3
    <1>8. CASE OpenLog
        <2>1. PICK u : u = events'
            OBVIOUS
        <2>2. Mended(u, events) /\ \A i \in Starts(events) : ~DataError(events, i)
            BY <1>8, <2>1, OpenStep
        <2>3. WholeRows(u) = WholeRows(events)
            BY <1>2, <2>2, WholesMended
        <2> QED  BY <1>4, <1>8, <2>1, <2>3 DEF OpenLog
    <1>9. CASE Finish \/ FailWrite \/ CrashInWrite
        <2>1. PICK b \in {<<>>, <<Part(row)>>, <<Whole(row)>>, Line(row)} : Stop(b)
            BY <1>9 DEF Finish, FailWrite, CrashInWrite
        <2>2. WholeRows(events') \in {WholeRows(events), Append(WholeRows(events), row)}
            BY <2>1, StopWholes
        <2>3. hasEvents /\ hasEvents'
            BY <2>1 DEF Stop, Inv, InvFiles
        <2> QED  BY <1>4, <1>5, <2>2, <2>3
    <1>10. CASE ReaderHeals
        <2>1. CASE reader.of = "events"
            <3>1. /\ mishaps' = mishaps \cup {m \in {"raced"} : events # reader.bytes}
                  /\ events = reader.bytes => Mended(events', events)
                  /\ hasEvents
                BY <1>10, <2>1, ReaderHealsLog
            <3>2. events = reader.bytes
                BY <3>1
            <3>3. reader.at = "healing" /\ hasEvents' = hasEvents
                BY <1>10 DEF ReaderHeals
            <3>4. \A i \in Starts(events) : ~DataError(events, i)
                BY <2>1, <3>2, <3>3, ReaderFacts
            <3>5. PICK u : u = events'
                OBVIOUS
            <3>6. WholeRows(u) = WholeRows(events)
                BY <1>2, <3>1, <3>2, <3>4, <3>5, WholesMended
            <3> QED  BY <1>4, <3>1, <3>3, <3>5, <3>6
        <2>2. CASE reader.of # "events"
            <3>1. events' = events /\ hasEvents' = hasEvents
                BY <1>10, <2>2, ReaderHealsLegacy DEF ReaderHeals
            <3> QED  BY <1>2, <1>3, <1>4, <3>1
        <2> QED  BY <2>1, <2>2
    <1>11. CASE NewerVersionAppends
        <2>1. WholeRows(events') = Append(WholeRows(events), row)
            BY <1>11, ForeignWholes
        <2>2. hasEvents /\ hasEvents'
            BY <1>11 DEF NewerVersionAppends
        <2> QED  BY <1>5, <2>1, <2>2
    <1>12. CASE OpenLegacy \/ StageFirst \/ StageRest \/ DeleteLegacy \/ FailMigration \/ EndTurn
                \/ ReaderChecks \/ ReaderReads \/ Crash
        <2>1. events' = events /\ hasEvents' = hasEvents
            BY <1>12 DEF OpenLegacy, StageFirst, StageRest, DeleteLegacy, FailMigration,
                   EndTurn, ReaderChecks, ReaderReads, Crash, files
        <2> QED  BY <1>2, <1>3, <1>4, <2>1
    <1> QED  BY <1>6, <1>7, <1>8, <1>9, <1>10, <1>11, <1>12 DEF Next

(* JournalSpec: the session is the abstract journal: it starts with the    *)
(* legacy transcript, and until a mishap a step leaves its complete rows   *)
(* as they are or writes one behind all the others, whether they are read  *)
(* from the legacy file or from the log (migrate, session.rs; append_line, *)
(* scan_jsonl and repair_torn_tail, storage/mod.rs).                       *)
THEOREM SessionIsJournal == Spec => JournalSpec
    <1>1. Init => Log!Init
        <2> SUFFICES ASSUME Init PROVE Log!Init
            OBVIOUS
        <2>1. legacy \in Seq(Tokens)
            BY LegacyAssumption DEF Init
        <2>2. RowsIn(legacy) \in Seq(Nat)
            BY <2>1, RowsFacts
        <2>3. Representable(RowsIn(legacy)) \in Seq(Nat)
            BY <2>2, RepresentableFacts
        <2> QED  BY <2>3 DEF Init, Log!Init, SessionRows
    <1>2. Inv /\ Inv' /\ [Next]_vars => [Log!Next]_(Log!journal)
        <2> SUFFICES ASSUME Inv, Inv', [Next]_vars
                     PROVE  [Log!Next]_(Log!journal)
            OBVIOUS
        <2>1. CASE mishaps' # {}
            BY <2>1 DEF Log!Next, Log!Spoil
        <2>2. CASE Next /\ mishaps' = {}
            <3>1. mishaps = {}
                BY <2>2, MishapsGrow
            <3>2. CASE SessionRows' = SessionRows
                BY <2>2, <3>1, <3>2 DEF Log!journal
            <3>3. CASE Grown(SessionRows', SessionRows)
                BY <2>2, <3>1, <3>3 DEF Grown, Log!Next, Log!Write, Front, Last, Log!Front, Log!Last
            <3> QED  BY <2>2, <3>2, <3>3, StepsWrite
        <2>3. CASE UNCHANGED vars
            BY <2>3 DEF vars, files, Log!journal, SessionRows
        <2> QED  BY <2>1, <2>2, <2>3
    <1> QED  BY <1>1, <1>2, Invariance, PTL DEF Spec, JournalSpec, Log!Spec
=============================================================================
