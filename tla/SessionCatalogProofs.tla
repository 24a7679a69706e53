------------------------ MODULE SessionCatalogProofs ------------------------
(***************************************************************************)
(* Proofs about SessionCatalog, for any number of sessions, workers, names *)
(* and rows and with no bound on requests or deletes: the inductive        *)
(* invariant, and with it the four invariants the run checks.              *)
(***************************************************************************)
EXTENDS SessionCatalog, FiniteSetTheorems, SequenceTheorems,
        WellFoundedInduction, TLAPS

-----------------------------------------------------------------------------
(* Numbers *)

\* Induction over a set of naturals: it needs no operator as a parameter.
LEMMA InductionOnNat ==
    ASSUME NEW S \in SUBSET Nat, 0 \in S, \A n \in S : n + 1 \in S
    PROVE  S = Nat
<1> DEFINE R == OpToRel(<, Nat)
           T == Nat \ S
<1>1. IsWellFoundedOn(R, Nat)
  BY NatLessThanWellFounded
<1>2. SUFFICES ASSUME T # {} PROVE FALSE
  OBVIOUS
<1>3. PICK x \in T : \A y \in T : ~(<<y, x>> \in R)
  <2> HIDE DEF R
  <2> QED BY <1>1, <1>2, WFMin
<1>4. x \in Nat \ {0}
  OBVIOUS
<1>5. x - 1 \in Nat /\ x - 1 < x
  BY <1>4
<1>6. <<x - 1, x>> \in R
  BY <1>4, <1>5 DEF OpToRel
<1>7. x - 1 \in S
  BY <1>3, <1>5, <1>6
<1>8. x \in S
  BY <1>4, <1>7
<1> QED BY <1>8

\* A set of numbers that stays below a bound has a highest one.
LEMMA HighestOf ==
    ASSUME NEW b \in Nat, NEW S \in SUBSET Nat, S # {}, \A x \in S : x <= b
    PROVE  \E m \in S : \A x \in S : x <= m
<1> DEFINE Good(n) == \A T \in SUBSET Nat :
                         T # {} /\ (\A x \in T : x <= n) =>
                         \E m \in T : \A x \in T : x <= m
           G == {n \in Nat : Good(n)}
<1>1. 0 \in G
  <2> SUFFICES ASSUME NEW T \in SUBSET Nat, T # {}, \A x \in T : x <= 0
               PROVE  \E m \in T : \A x \in T : x <= m
    OBVIOUS
  <2> PICK m \in T : m <= 0
    OBVIOUS
  <2> QED BY m \in Nat, m = 0
<1>2. ASSUME NEW n \in G PROVE n + 1 \in G
  <2> SUFFICES ASSUME NEW T \in SUBSET Nat, T # {}, \A x \in T : x <= n + 1
               PROVE  \E m \in T : \A x \in T : x <= m
    OBVIOUS
  <2>1. CASE n + 1 \in T
    BY <2>1
  <2>2. CASE n + 1 \notin T
    <3>1. \A x \in T : x <= n
      BY <2>2
    <3> QED BY <3>1
  <2> QED BY <2>1, <2>2
<1>3. G = Nat
  <2> HIDE DEF G
  <2> QED BY <1>1, <1>2, InductionOnNat DEF G
<1> QED BY <1>3

\* The maximum of a set that has a highest number is that number.
LEMMA MaxIsHighest ==
    ASSUME NEW S \in SUBSET Nat, NEW m \in S, \A x \in S : x <= m
    PROVE  Max(S) \in S /\ \A x \in S : x <= Max(S)
BY DEF Max

\* The minimum of a set of numbers is one of them.
LEMMA MinIsMember ==
    ASSUME NEW S \in SUBSET Nat, S # {}
    PROVE  Min(S) \in S
<1> DEFINE G == {n \in Nat : (\A x \in S : n <= x) \/ \E m \in S : \A x \in S : m <= x}
<1>1. 0 \in G
  OBVIOUS
<1>2. ASSUME NEW n \in G PROVE n + 1 \in G
  OBVIOUS
<1>3. G = Nat
  <2> HIDE DEF G
  <2> QED BY <1>1, <1>2, InductionOnNat DEF G
<1>4. PICK s \in S : s \in Nat
  OBVIOUS
<1>5. s + 1 \in G /\ ~(s + 1 <= s)
  <2> HIDE DEF G
  <2> QED BY <1>3, <1>4
<1>6. \E m \in S : \A x \in S : m <= x
  <2>1. ~(\A x \in S : s + 1 <= x)
    BY <1>5
  <2> QED BY <1>5, <2>1
<1> QED BY <1>6 DEF Min

-----------------------------------------------------------------------------
(* Rows, counts and the index *)

\* What a row of text of a log is, and that its sequence number is in the log.
LEMMA InText ==
    ASSUME NEW i, NEW born, NEW rows \in Seq(Rows), NEW r
    PROVE  r \in TextRows(i, born, rows) <=>
              /\ r = [id |-> i, life |-> born, seq |-> r.seq]
              /\ r.seq \in 1..Len(rows) /\ rows[r.seq] = "text"
BY DEF TextRows

LEMMA TextTyped ==
    ASSUME NEW i \in Ids, NEW born \in Nat, NEW rows \in Seq(Rows)
    PROVE  TextRows(i, born, rows) \in SUBSET IndexRows
BY DEF TextRows, IndexRows

\* The rows of text of a log have a highest one.
LEMMA TextHasHighest ==
    ASSUME NEW i, NEW born, NEW rows \in Seq(Rows), TextRows(i, born, rows) # {}
    PROVE  \E m \in TextRows(i, born, rows) :
              \A r \in TextRows(i, born, rows) : r.seq <= m.seq
<1> DEFINE S == {n \in DOMAIN rows : rows[n] = "text"}
<1>1. S \in SUBSET Nat /\ S # {} /\ Len(rows) \in Nat /\ \A x \in S : x <= Len(rows)
  BY DEF TextRows
<1>2. PICK m \in S : \A x \in S : x <= m
  <2> HIDE DEF S
  <2> QED BY <1>1, HighestOf
<1>3. [id |-> i, life |-> born, seq |-> m] \in TextRows(i, born, rows)
  BY DEF TextRows
<1>4. \A r \in TextRows(i, born, rows) : r.seq \in S
  BY DEF TextRows
<1> QED BY <1>2, <1>3, <1>4

LEMMA CountIsNat ==
    ASSUME NEW rows \in Seq(Rows)
    PROVE  CountMessages(rows) \in Nat
<1> DEFINE cleared == {k \in DOMAIN rows : rows[k] = "cleared"}
           S == {k \in DOMAIN rows : rows[k] = "text" /\ \A c \in cleared : c < k}
<1>1. IsFiniteSet(1..Len(rows))
  BY FS_Interval
<1>2. S \subseteq 1..Len(rows)
  OBVIOUS
<1>3. Cardinality(S) \in Nat
  <2> HIDE DEF S
  <2> QED BY <1>1, <1>2, FS_Subset, FS_CardinalityType
<1> QED BY <1>3 DEF CountMessages

LEMMA CountOfNone == CountMessages(<<>>) = 0
<1>1. {k \in DOMAIN <<>> : <<>>[k] = "text" /\
          \A c \in {n \in DOMAIN <<>> : <<>>[n] = "cleared"} : c < k} = {}
  OBVIOUS
<1> QED BY <1>1, FS_EmptySet DEF CountMessages

\* What a commit makes of the index.
LEMMA BagGrows ==
    ASSUME NEW b, IsABag(b), NEW new
    PROVE  /\ IsABag(b (+) SetToBag(new))
           /\ BagToSet(b (+) SetToBag(new)) = BagToSet(b) \cup new
           /\ \A r \in BagToSet(b) \ new : (b (+) SetToBag(new))[r] = b[r]
           /\ \A r \in new \ BagToSet(b) : (b (+) SetToBag(new))[r] = 1
BY DEF IsABag, SetToBag, BagToSet, (+)

-----------------------------------------------------------------------------
(* Types *)

LEMMA JobKinds ==
    ASSUME TypeOK, NEW w \in Workers
    PROVE  /\ job[w] \in Jobs
           /\ job[w].op = "list" => job[w] \in Lists
           /\ job[w].op = "rename" => job[w] \in Renames
           /\ job[w].op = "search" => job[w] \in Searches
BY DEF TypeOK, Jobs, Idle, Lists, Renames, Searches

LEMMA FitsAsBefore ==
    ASSUME TypeOK, NEW v \in Workers,
           job'[v] = job[v] \/ job'[v].op \in {"none", "rename"}
    PROVE  JobFits(v)'
BY DEF TypeOK, JobFits, At

LEMMA FilesTyped ==
    /\ NoFile \in Files /\ Torn \in Files
    /\ \A n \in Names \cup {NoName}, b, c \in Nat : Meta(n, b, c) \in Files
BY DEF NoFile, Torn, Meta, Files

\* A write into an open rename's file leaves one of two things.
LEMMA WrittenTyped ==
    ASSUME NEW file, NEW name \in Names, NEW f \in Written(file, name)
    PROVE  f \in Files /\ f.is # "absent" /\ f.bytes = 0
BY DEF Written, Meta, Torn, Files

LEMMA RenamesKeep ==
    ASSUME TypeOK, NEW i, NEW name, NEW v \in Workers
    PROVE  Replaced(i, name, v) \in Jobs
BY JobKinds DEF Replaced, Jobs, Renames

LEMMA InitTyped == Init => TypeOK
<1> SUFFICES ASSUME Init PROVE TypeOK
  OBVIOUS
<1>1. IsABag(index) /\ BagToSet(index) = {}
  BY DEF Init, EmptyBag, SetToBag, IsABag, BagToSet
<1>2. log \in [Ids -> Seq(Rows)]
  BY DEF Init
<1>3. \A w \in Workers : JobFits(w)
  BY DEF Init, JobFits, At, Idle
<1> QED BY <1>1, <1>2, <1>3, FilesTyped DEF Init, TypeOK, Jobs, NoFile

LEMMA ListTyped ==
    ASSUME TypeOK, NEW w \in Workers,
           \/ \E i \in Ids : StatLog(w, i)
           \/ ReadCache(w) \/ CountLog(w) \/ MergeMeta(w)
           \/ InstallFails(w) \/ ReadName(w)
    PROVE  TypeOK'
<1> USE DEF disk, side, db
<1>1. job' \in [Workers -> Jobs]
  <2>1. CASE \E i \in Ids : StatLog(w, i)
    <3>1. PICK i \in Ids : StatLog(w, i)
      BY <2>1
    <3>2. Len(log[i]) \in Nat /\ life[i] \in Nat /\ NoFile \in Files
      BY FilesTyped DEF TypeOK
    <3> DEFINE j == [op |-> "list", id |-> i, life |-> life[i], from |-> Len(log[i]),
                     len |-> Len(log[i]), count |-> 0, copy |-> NoFile,
                     at |-> IF log[i] = <<>> THEN "name" ELSE "cache"]
    <3>3. j \in Lists
      BY <3>2 DEF Lists
    <3>4. job' = [job EXCEPT ![w] = j]
      BY <3>1 DEF StatLog, Begin
    <3> HIDE DEF j
    <3> QED BY <3>3, <3>4 DEF TypeOK, Jobs
  <2>2. CASE ReadCache(w)
    <3>1. job[w] \in Lists /\ meta[job[w].id].count \in Nat
      BY <2>2, JobKinds DEF ReadCache, At, TypeOK, Lists, Files
    <3>2. PICK j \in Lists : job' = [job EXCEPT ![w] = j]
      <4>1. CASE job' = [job EXCEPT ![w].at = "count"]
        <5>1. [job[w] EXCEPT !.at = "count"] \in Lists
          BY <3>1 DEF Lists
        <5> QED BY <4>1, <5>1
      <4>2. CASE job' = [job EXCEPT ![w].at = "name", ![w].count = meta[job[w].id].count]
        <5>1. [job[w] EXCEPT !.at = "name", !.count = meta[job[w].id].count] \in Lists
          BY <3>1 DEF Lists
        <5>2. job' = [job EXCEPT ![w] = [job[w] EXCEPT !.at = "name",
                                            !.count = meta[job[w].id].count]]
          BY <4>2 DEF TypeOK
        <5> QED BY <5>1, <5>2
      <4> QED BY <2>2, <4>1, <4>2 DEF ReadCache
    <3> QED BY <3>2 DEF TypeOK, Jobs
  <2>3. CASE CountLog(w)
    <3>1. job[w] \in Lists /\ CountMessages(log[job[w].id]) \in Nat
      BY <2>3, JobKinds, CountIsNat DEF CountLog, At, TypeOK, Lists
    <3> QED BY <2>3, <3>1 DEF CountLog, TypeOK, Jobs, Lists
  <2>4. CASE MergeMeta(w)
    <3>1. job[w] \in Lists
      BY <2>4, JobKinds DEF MergeMeta, At
    <3>2. Meta(IF meta[job[w].id].is = "json" THEN meta[job[w].id].name ELSE NoName,
               job[w].len, job[w].count) \in Files
      BY <3>1, FilesTyped DEF TypeOK, Lists, Files
    <3> QED BY <2>4, <3>1, <3>2 DEF MergeMeta, TypeOK, Jobs, Lists
  <2>5. CASE InstallFails(w)
    <3>1. job[w] \in Lists
      BY <2>5, JobKinds DEF InstallFails, At
    <3> QED BY <2>5, <3>1 DEF InstallFails, TypeOK, Jobs, Lists
  <2>6. CASE ReadName(w)
    BY <2>6 DEF ReadName, Finish, TypeOK, Jobs
  <2> QED BY <2>1, <2>2, <2>3, <2>4, <2>5, <2>6
<1>2. UNCHANGED <<dir, log, meta, tmp, index, mark, life, landed, mishaps>>
  BY DEF StatLog, ReadCache, CountLog, MergeMeta, InstallFails, ReadName
<1>3. ASSUME NEW v \in Workers PROVE JobFits(v)'
  <2>1. CASE v # w
    <3>1. job'[v] = job[v]
      BY <2>1 DEF TypeOK, StatLog, Begin, ReadCache, CountLog, MergeMeta,
                  InstallFails, ReadName, Finish
    <3> QED BY <3>1, FitsAsBefore
  <2>2. CASE v = w
    <3>1. \/ job'[w] = Idle
          \/ job'[w].op = "list" /\ job'[w].at # "install"
          \/ job'[w].op = "list" /\ job'[w].copy.is = "json"
      <4>0. DOMAIN job = Workers /\ job[w] \in Jobs
        BY JobKinds DEF TypeOK
      <4>1. CASE \E i \in Ids : StatLog(w, i)
        BY <4>0, <4>1 DEF StatLog, Begin
      <4>2. CASE ReadCache(w)
        <5>1. job[w] \in Lists
          BY <4>2, JobKinds DEF ReadCache, At
        <5> QED BY <4>0, <4>2, <5>1 DEF ReadCache, Lists
      <4>3. CASE CountLog(w)
        <5>1. job[w] \in Lists
          BY <4>3, JobKinds DEF CountLog, At
        <5> QED BY <4>0, <4>3, <5>1 DEF CountLog, Lists
      <4>4. CASE MergeMeta(w)
        <5>1. job[w] \in Lists
          BY <4>4, JobKinds DEF MergeMeta, At
        <5> QED BY <4>0, <4>4, <5>1 DEF MergeMeta, Lists, Meta
      <4>5. CASE InstallFails(w)
        <5>1. job[w] \in Lists
          BY <4>5, JobKinds DEF InstallFails, At
        <5> QED BY <4>0, <4>5, <5>1 DEF InstallFails, Lists
      <4>6. CASE ReadName(w)
        BY <4>0, <4>6 DEF ReadName, Finish
      <4> QED BY <4>1, <4>2, <4>3, <4>4, <4>5, <4>6
    <3> QED BY <2>2, <3>1 DEF JobFits, At, Idle
  <2> QED BY <2>1, <2>2
<1> QED BY <1>1, <1>2, <1>3 DEF TypeOK

LEMMA InstallTyped ==
    ASSUME TypeOK, NEW w \in Workers, InstallMeta(w)
    PROVE  TypeOK'
<1> DEFINE i == job[w].id
<1>1. job[w] \in Lists /\ i \in Ids /\ job[w].copy \in Files
  BY JobKinds DEF InstallMeta, At, Lists
<1>2. [job[w] EXCEPT !.at = "name"] \in Jobs
  BY <1>1 DEF Lists, Jobs
<1>3. job' \in [Workers -> Jobs]
  BY <1>2, RenamesKeep DEF InstallMeta
<1>4. mishaps' \in [Ids -> SUBSET Mishaps]
  BY <1>1 DEF InstallMeta, TypeOK, Mishaps
<1>5. meta' \in [Ids -> Files]
  BY <1>1 DEF InstallMeta, TypeOK
<1>6. \A s \in Ids : meta'[s].is = "absent" => meta'[s].name = NoName
  BY <1>1 DEF InstallMeta, TypeOK, JobFits
<1>7. \A v \in Workers : JobFits(v)'
  <2> TAKE v \in Workers
  <2>1. CASE v = w
    BY <1>1, <2>1 DEF InstallMeta, JobFits, At, Lists
  <2>2. CASE v # w
    BY <2>2, FitsAsBefore, JobKinds DEF InstallMeta, Replaced, Renames
  <2> QED BY <2>1, <2>2
<1> QED BY <1>3, <1>4, <1>5, <1>6, <1>7 DEF InstallMeta, TypeOK, disk, side, db

LEMMA RenameTyped ==
    ASSUME TypeOK, NEW w \in Workers,
           \/ \E i \in Ids, name \in Names : OpenTmp(w, i, name)
           \/ FillTmp(w) \/ MoveTmp(w) \/ MoveFails(w)
    PROVE  TypeOK'
<1> USE DEF disk, side, db
<1>1. ASSUME NEW i \in Ids, NEW name \in Names, OpenTmp(w, i, name)
      PROVE  TypeOK'
  <2>1. [op |-> "rename", id |-> i, at |-> "fill", name |-> name, fd |-> "tmp"] \in Jobs
    BY DEF Renames, Jobs
  <2>2. job' \in [Workers -> Jobs]
    BY <1>1, <2>1 DEF OpenTmp, Begin, TypeOK
  <2>5. \A v \in Workers : JobFits(v)'
    BY <1>1, FitsAsBefore DEF OpenTmp, Begin, TypeOK
  <2>3. mishaps' \in [Ids -> SUBSET Mishaps]
    BY <1>1 DEF OpenTmp, TypeOK, Mishaps
  <2>4. tmp' \in [Ids -> Files] /\ \A s \in Ids : tmp'[s].bytes = 0
    BY <1>1, FilesTyped DEF OpenTmp, TypeOK, Torn
  <2> QED BY <1>1, <2>2, <2>3, <2>4, <2>5 DEF OpenTmp, TypeOK
<1>2. ASSUME FillTmp(w) PROVE TypeOK'
  <2> DEFINE i == job[w].id
  <2>1. job[w] \in Renames /\ i \in Ids /\ job[w].name \in Names
    BY <1>2, JobKinds DEF FillTmp, At, Renames
  <2>2. job' \in [Workers -> Jobs]
    BY <1>2, <2>1 DEF FillTmp, TypeOK, Jobs, Renames
  <2>3. \A f \in Written(tmp[i], job[w].name) \cup Written(meta[i], job[w].name) :
           f \in Files /\ f.is # "absent" /\ f.bytes = 0
    BY <2>1, WrittenTyped
  <2>4. /\ tmp' \in [Ids -> Files] /\ meta' \in [Ids -> Files]
        /\ \A s \in Ids : meta'[s].is = "absent" => meta'[s].name = NoName
        /\ \A s \in Ids : tmp'[s].bytes = 0
    BY <1>2, <2>1, <2>3 DEF FillTmp, TypeOK
  <2>5. \A v \in Workers : JobFits(v)'
    BY <1>2, <2>1, FitsAsBefore DEF FillTmp, TypeOK, Renames
  <2> QED BY <1>2, <2>2, <2>4, <2>5 DEF FillTmp, TypeOK
<1>3. ASSUME MoveTmp(w) PROVE TypeOK'
  <2> DEFINE i == job[w].id
  <2>1. job[w] \in Renames /\ i \in Ids /\ job[w].name \in Names
    BY <1>3, JobKinds DEF MoveTmp, At, Renames
  <2>2. job' \in [Workers -> Jobs]
    BY <1>3, <2>1, JobKinds, RenamesKeep DEF MoveTmp, Jobs, Renames
  <2>3. mishaps' \in [Ids -> SUBSET Mishaps] /\ landed' \in [Ids -> Names \cup {NoName}]
    BY <1>3, <2>1 DEF MoveTmp, TypeOK, Mishaps
  <2>4. /\ tmp' \in [Ids -> Files] /\ meta' \in [Ids -> Files]
        /\ \A s \in Ids : meta'[s].is = "absent" => meta'[s].name = NoName
        /\ \A s \in Ids : tmp'[s].bytes = 0
    BY <1>3, <2>1, FilesTyped DEF MoveTmp, TypeOK, NoFile
  <2>5. \A v \in Workers : JobFits(v)'
    <3> TAKE v \in Workers
    <3>1. job'[v] = job[v] \/ job'[v].op \in {"none", "rename"}
      BY <1>3, JobKinds DEF MoveTmp, Replaced, Renames, Idle
    <3> QED BY <3>1, FitsAsBefore
  <2> QED BY <1>3, <2>2, <2>3, <2>4, <2>5 DEF MoveTmp, TypeOK
<1>4. ASSUME MoveFails(w) PROVE TypeOK'
  <2>1. job' \in [Workers -> Jobs]
    BY <1>4 DEF MoveFails, Finish, TypeOK, Jobs
  <2>2. \A v \in Workers : JobFits(v)'
    BY <1>4, FitsAsBefore DEF MoveFails, Finish, TypeOK, Idle
  <2> QED BY <1>4, <2>1, <2>2 DEF MoveFails, TypeOK
<1> QED BY <1>1, <1>2, <1>3, <1>4

LEMMA SearchTyped ==
    ASSUME TypeOK, NEW w \in Workers,
           \/ StartSearch(w) \/ OpenLog(w) \/ ReadMark(w) \/ CommitFails(w) \/ Query(w)
    PROVE  TypeOK'
<1> USE DEF disk, side, db
<1>1. job' \in [Workers -> Jobs]
  <2>1. CASE StartSearch(w)
    <3> DEFINE want == UNION {TextRows(i, life[i], log[i]) : i \in dir}
               j == [op |-> "search", at |-> "open", todo |-> dir, id |-> 0,
                     rows |-> {}, last |-> 0, want |-> want]
    <3>1. want \in SUBSET IndexRows
      BY TextTyped DEF TypeOK
    <3>2. j \in Searches
      <4> HIDE DEF want
      <4> QED BY <3>1 DEF Searches, TypeOK
    <3>3. job' = [job EXCEPT ![w] = j]
      BY <2>1 DEF StartSearch, Begin
    <3> QED BY <3>2, <3>3 DEF TypeOK, Jobs
  <2>2. CASE OpenLog(w)
    <3>1. job[w] \in Searches /\ job[w].todo \in SUBSET Nat /\ job[w].todo # {}
      BY <2>2, JobKinds, SessionCatalogAssumption DEF OpenLog, At, Searches, Ids
    <3> DEFINE i == Min(job[w].todo)
    <3>2. i \in Ids
      BY <3>1, MinIsMember DEF Searches
    <3>3. TextRows(i, life[i], log[i]) \in SUBSET IndexRows
      BY <3>2, TextTyped DEF TypeOK
    <3> HIDE DEF i
    <3>4. job' = IF i \in damaged THEN [job EXCEPT ![w] = Idle]
                 ELSE [job EXCEPT ![w].at = "mark", ![w].id = i,
                                  ![w].rows = TextRows(i, life[i], log[i])]
      BY <2>2 DEF OpenLog, Finish, i
    <3> QED BY <3>1, <3>2, <3>3, <3>4 DEF TypeOK, Jobs, Searches
  <2>3. CASE ReadMark(w)
    <3>1. job[w] \in Searches
      BY <2>3, JobKinds DEF ReadMark, At
    <3>2. mark[job[w].id] \in Nat
      BY <2>3 DEF ReadMark, At, TypeOK, JobFits
    <3> QED BY <2>3, <3>1, <3>2 DEF ReadMark, TypeOK, Jobs, Searches
  <2>4. CASE CommitFails(w) \/ Query(w)
    BY <2>4 DEF CommitFails, Query, Finish, TypeOK, Jobs
  <2> QED BY <2>1, <2>2, <2>3, <2>4
<1>2. UNCHANGED <<dir, log, meta, tmp, index, mark, life, landed, mishaps>>
  BY DEF StartSearch, OpenLog, ReadMark, CommitFails, Query
<1>3. ASSUME NEW v \in Workers PROVE JobFits(v)'
  <2>1. CASE v # w
    <3>1. job'[v] = job[v]
      BY <2>1 DEF TypeOK, StartSearch, Begin, OpenLog, ReadMark, CommitFails, Query, Finish
    <3> QED BY <3>1, FitsAsBefore
  <2>2. CASE v = w
    <3>1. \/ job'[w].op = "none"
          \/ job'[w].op = "search" /\ job'[w].at = "open"
          \/ job'[w].op = "search" /\ job'[w].id \in Ids
      <4>1. CASE OpenLog(w)
        <5>1. job[w] \in Searches /\ job[w].todo \in SUBSET Nat /\ job[w].todo # {}
          BY <4>1, JobKinds, SessionCatalogAssumption DEF OpenLog, At, Searches, Ids
        <5>2. Min(job[w].todo) \in Ids
          BY <5>1, MinIsMember DEF Searches
        <5> DEFINE i == Min(job[w].todo)
        <5>3. job' = IF i \in damaged THEN [job EXCEPT ![w] = Idle]
                     ELSE [job EXCEPT ![w].at = "mark", ![w].id = i,
                                      ![w].rows = TextRows(i, life[i], log[i])]
          BY <4>1 DEF OpenLog, Finish
        <5> HIDE DEF i
        <5> QED BY <5>1, <5>2, <5>3 DEF Idle, TypeOK, Searches, i
      <4>2. CASE ReadMark(w)
        <5>1. job[w] \in Searches /\ job[w].id \in Ids
          BY <4>2, JobKinds DEF ReadMark, At, TypeOK, JobFits
        <5> QED BY <4>2, <5>1 DEF ReadMark, TypeOK, Searches
      <4>3. CASE StartSearch(w) \/ CommitFails(w) \/ Query(w)
        BY <4>3 DEF StartSearch, Begin, CommitFails, Query, Finish, TypeOK, Idle
      <4> QED BY <4>1, <4>2, <4>3
    <3> QED BY <2>2, <3>1 DEF JobFits, At
  <2> QED BY <2>1, <2>2
<1> QED BY <1>1, <1>2, <1>3 DEF TypeOK

NewRows(w) == {r \in job[w].rows : r.seq > job[w].last}

LEMMA CommitTyped ==
    ASSUME TypeOK, NEW w \in Workers, Commit(w),
           NewRows(w) # {} => NewMark(NewRows(w)) \in Nat
    PROVE  TypeOK'
<1> PICK new : new = NewRows(w)
  OBVIOUS
<1>1. job[w] \in Searches /\ job[w].id \in Ids
  BY JobKinds DEF Commit, At, TypeOK, JobFits
<1>2. new \subseteq IndexRows
  BY <1>1 DEF Searches, NewRows
<1>3. /\ index' = index (+) SetToBag(new)
      /\ mark' = IF new = {} THEN mark ELSE [mark EXCEPT ![job[w].id] = NewMark(new)]
  BY DEF Commit, NewRows
<1>4. IsABag(index') /\ BagToSet(index') \subseteq IndexRows
  BY <1>2, <1>3, BagGrows DEF TypeOK
<1>5. mark' \in [Ids -> Nat]
  BY <1>1, <1>3 DEF TypeOK
<1>6. job' \in [Workers -> Jobs]
  <2>1. [job[w] EXCEPT !.at = "open", !.todo = @ \ {job[w].id}, !.rows = {}, !.last = 0]
           \in Searches
    BY <1>1 DEF Searches
  <2>2. job' = [job EXCEPT ![w] = [job[w] EXCEPT !.at = "open", !.todo = @ \ {job[w].id},
                                                 !.rows = {}, !.last = 0]]
    BY DEF Commit, NextLog, TypeOK
  <2> QED BY <2>1, <2>2 DEF TypeOK, Jobs
<1>7. \A v \in Workers : JobFits(v)'
  <2> TAKE v \in Workers
  <2>1. CASE v = w
    BY <1>1, <2>1 DEF Commit, NextLog, JobFits, At, TypeOK, Searches
  <2>2. CASE v # w
    BY <2>2, FitsAsBefore DEF Commit, NextLog, TypeOK
  <2> QED BY <2>1, <2>2
<1>8. mishaps' \in [Ids -> SUBSET Mishaps]
  BY <1>1 DEF Commit, TypeOK, Mishaps
<1> QED BY <1>4, <1>5, <1>6, <1>7, <1>8 DEF Commit, TypeOK, disk, side

LEMMA HostTyped ==
    ASSUME TypeOK, NEW i \in Ids,
           \/ \E row \in Rows : AppendRow(i, row)
           \/ Damage(i) \/ DeleteSession(i)
    PROVE  TypeOK'
<1> USE DEF disk, side, db
<1>1. ASSUME NEW row \in Rows, AppendRow(i, row) PROVE TypeOK'
  <2>1. log' \in [Ids -> Seq(Rows)]
    BY <1>1 DEF AppendRow, TypeOK
  <2>2. \A v \in Workers : JobFits(v)'
    BY <1>1, FitsAsBefore DEF AppendRow
  <2> QED BY <1>1, <2>1, <2>2 DEF AppendRow, TypeOK
<1>2. CASE Damage(i)
  <2>1. \A v \in Workers : JobFits(v)'
    BY <1>2, FitsAsBefore DEF Damage
  <2> QED BY <1>2, <2>1 DEF Damage, TypeOK
<1>3. CASE DeleteSession(i)
  <2>1. job' \in [Workers -> Jobs] /\ \A v \in Workers : JobFits(v)'
    <3>1. ASSUME NEW v \in Workers
          PROVE  job'[v] \in Jobs /\ (job'[v] = job[v] \/ job'[v].op \in {"none", "rename"})
      BY <1>3, JobKinds DEF DeleteSession, Renames, Jobs
    <3> QED BY <1>3, <3>1, FitsAsBefore DEF DeleteSession
  <2>2. /\ meta' \in [Ids -> Files] /\ tmp' \in [Ids -> Files]
        /\ \A s \in Ids : meta'[s].is = "absent" => meta'[s].name = NoName
        /\ \A s \in Ids : tmp'[s].bytes = 0
    BY <1>3, FilesTyped DEF DeleteSession, TypeOK, NoFile
  <2>3. /\ log' \in [Ids -> Seq(Rows)] /\ life' \in [Ids -> Nat]
        /\ landed' \in [Ids -> Names \cup {NoName}] /\ dir' \subseteq Ids
    BY <1>3 DEF DeleteSession, TypeOK
  <2> QED BY <1>3, <2>1, <2>2, <2>3 DEF DeleteSession, TypeOK
<1> QED BY <1>1, <1>2, <1>3

LEMMA AbandonTyped ==
    ASSUME TypeOK, NEW w \in Workers, Abandon(w)
    PROVE  TypeOK'
<1>1. job' \in [Workers -> Jobs]
  BY DEF Abandon, Finish, TypeOK, Jobs
<1>2. \A v \in Workers : JobFits(v)'
  BY FitsAsBefore DEF Abandon, Finish, TypeOK, Idle
<1> QED BY <1>1, <1>2 DEF Abandon, TypeOK, disk, side, db

-----------------------------------------------------------------------------
(* What a list counts was true *)

LEMMA WasTrueLasts ==
    ASSUME NEW rows \in Seq(Rows), NEW row \in Rows, NEW from \in Nat, NEW count,
           WasTrue(rows, from, count)
    PROVE  WasTrue(Append(rows, row), from, count)
<1>1. PICK n \in from..Len(rows) : count = CountMessages(SubSeq(rows, 1, n))
  BY DEF WasTrue
<1>2. Len(Append(rows, row)) = Len(rows) + 1 /\ Len(rows) \in Nat
  OBVIOUS
<1>3. SubSeq(Append(rows, row), 1, n) = SubSeq(rows, 1, n)
  <2>1. Len(SubSeq(Append(rows, row), 1, n)) = n /\ Len(SubSeq(rows, 1, n)) = n
    BY <1>1, <1>2
  <2>2. \A k \in 1..n : SubSeq(Append(rows, row), 1, n)[k] = SubSeq(rows, 1, n)[k]
    BY <1>1, <1>2
  <2> QED BY <2>1, <2>2, <1>1, <1>2
<1>4. n \in from..Len(Append(rows, row))
  BY <1>1, <1>2
<1> QED BY <1>1, <1>3, <1>4 DEF WasTrue

LEMMA WasTrueNow ==
    ASSUME NEW rows \in Seq(Rows), NEW from \in 0..Len(rows)
    PROVE  WasTrue(rows, from, CountMessages(rows))
<1>1. SubSeq(rows, 1, Len(rows)) = rows /\ Len(rows) \in from..Len(rows)
  OBVIOUS
<1> QED BY <1>1 DEF WasTrue

\* Steps that leave the logs alone and write no counts.
LEMMA CountFrame ==
    ASSUME TypeOK, CountInv, UNCHANGED <<log, life>>,
           \A i \in Ids : mishaps[i] \subseteq mishaps'[i],
           \A i \in Ids : meta'[i] = meta[i] \/ meta'[i].bytes = 0,
           \A v \in Workers : job'[v] = job[v] \/ job'[v].op # "list"
    PROVE  CountInv'
<1>1. ASSUME NEW i \in Ids PROVE CacheTrue(i)'
  BY DEF CountInv, CacheTrue
<1>2. ASSUME NEW v \in Workers PROVE ListTrue(v)'
  <2>1. CASE job'[v].op # "list"
    BY <2>1 DEF ListTrue
  <2>2. CASE job'[v].op = "list"
    <3>1. job'[v] = job[v] /\ job[v].id \in Ids
      BY <2>2, JobKinds DEF Lists
    <3> QED BY <3>1 DEF CountInv, ListTrue
  <2> QED BY <2>1, <2>2
<1> QED BY <1>1, <1>2 DEF CountInv

\* Steps of a list that leave the disk alone.
LEMMA CountOfOne ==
    ASSUME TypeOK, CountInv, UNCHANGED <<log, life, meta, mishaps>>, NEW w \in Workers,
           \A v \in Workers \ {w} : job'[v] = job[v], ListTrue(w)'
    PROVE  CountInv'
<1>1. ASSUME NEW v \in Workers \ {w} PROVE ListTrue(v)'
  BY DEF CountInv, ListTrue
<1>2. ASSUME NEW i \in Ids PROVE CacheTrue(i)'
  BY DEF CountInv, CacheTrue
<1> QED BY <1>1, <1>2 DEF CountInv

LEMMA CountList ==
    ASSUME TypeOK, CountInv, NEW w \in Workers,
           \/ \E i \in Ids : StatLog(w, i)
           \/ ReadCache(w) \/ CountLog(w) \/ MergeMeta(w)
           \/ InstallFails(w) \/ ReadName(w)
    PROVE  CountInv'
<1>1. UNCHANGED <<log, life, meta, mishaps>> /\ \A v \in Workers \ {w} : job'[v] = job[v]
  BY DEF StatLog, Begin, ReadCache, CountLog, MergeMeta, InstallFails, ReadName, Finish,
         disk, side, TypeOK
<1> SUFFICES ListTrue(w)'
  BY <1>1, CountOfOne
<1>2. ASSUME NEW i \in Ids, StatLog(w, i) PROVE ListTrue(w)'
  <2>1. job'[w] = [op |-> "list", id |-> i, life |-> life[i], from |-> Len(log[i]),
                   len |-> Len(log[i]), count |-> 0, copy |-> NoFile,
                   at |-> IF log[i] = <<>> THEN "name" ELSE "cache"]
    BY <1>2 DEF StatLog, Begin, TypeOK
  <2>2. log[i] \in Seq(Rows) /\ Len(log[i]) \in Nat /\ life[i] \in Nat
    BY DEF TypeOK
  <2>3. CASE log[i] = <<>>
    <3>1. WasTrue(log[i], Len(log[i]), 0)
      <4>1. CountMessages(log[i]) = 0 /\ Len(log[i]) \in 0..Len(log[i])
        BY <2>2, <2>3, CountOfNone
      <4> QED BY <2>2, <4>1, WasTrueNow
    <3> QED BY <1>1, <2>1, <2>2, <3>1 DEF ListTrue
  <2>4. CASE log[i] # <<>>
    BY <1>1, <2>1, <2>2, <2>4 DEF ListTrue
  <2> QED BY <2>3, <2>4
<1>3. CASE ReadCache(w)
  <2> DEFINE i == job[w].id  m == meta[i]
  <2>1. job[w] \in Lists /\ i \in Ids /\ ListTrue(w) /\ CacheTrue(i)
    BY <1>3, JobKinds DEF ReadCache, At, Lists, CountInv
  <2>2. CASE job' = [job EXCEPT ![w].at = "count"]
    <3>1. job'[w] = [job[w] EXCEPT !.at = "count"]
      BY <2>2 DEF TypeOK
    <3> QED BY <1>1, <2>1, <3>1 DEF ListTrue, Lists
  <2>3. CASE m.bytes > 0 /\ m.bytes = job[w].len
             /\ job' = [job EXCEPT ![w].at = "name", ![w].count = m.count]
    <3>1. job'[w] = [job[w] EXCEPT !.at = "name", !.count = m.count]
      BY <2>3 DEF TypeOK
    <3>2. "deleteInList" \notin mishaps[i] => WasTrue(log[i], job[w].from, m.count)
      BY <2>1, <2>3 DEF ListTrue, CacheTrue, Lists
    <3> HIDE DEF m
    <3> QED BY <1>1, <2>1, <3>1, <3>2 DEF ListTrue, Lists
  <2> QED BY <1>3, <2>2, <2>3 DEF ReadCache
<1>4. CASE CountLog(w)
  <2> DEFINE i == job[w].id
  <2>1. job[w] \in Lists /\ i \in Ids /\ ListTrue(w) /\ log[i] \in Seq(Rows)
    BY <1>4, JobKinds DEF CountLog, At, Lists, CountInv, TypeOK
  <2>2. job'[w] = [job[w] EXCEPT !.at = "merge", !.count = CountMessages(log[i])]
    BY <1>4 DEF CountLog, TypeOK
  <2>3. job[w].life = life[i] => WasTrue(log[i], job[w].from, CountMessages(log[i]))
    BY <2>1, WasTrueNow DEF ListTrue, Lists
  <2> QED BY <1>1, <2>1, <2>2, <2>3 DEF ListTrue, Lists
<1>5. CASE MergeMeta(w)
  <2> DEFINE i == job[w].id
             copy == Meta(IF meta[i].is = "json" THEN meta[i].name ELSE NoName,
                          job[w].len, job[w].count)
  <2>1. job[w] \in Lists /\ job[w].at = "merge" /\ i \in Ids /\ ListTrue(w)
    BY <1>5, JobKinds DEF MergeMeta, At, Lists, CountInv
  <2>2. job'[w] = [job[w] EXCEPT !.at = "install", !.copy = copy]
    BY <1>5 DEF MergeMeta, TypeOK
  <2>3. copy.bytes = job[w].len /\ copy.count = job[w].count
    BY DEF Meta
  <2> HIDE DEF copy
  <2> QED BY <1>1, <2>1, <2>2, <2>3 DEF ListTrue, Lists
<1>6. CASE InstallFails(w)
  <2>1. job[w] \in Lists /\ job[w].at = "install" /\ ListTrue(w)
    BY <1>6, JobKinds DEF InstallFails, At, CountInv
  <2>2. job'[w] = [job[w] EXCEPT !.at = "name"]
    BY <1>6 DEF InstallFails, TypeOK
  <2> QED BY <1>1, <2>1, <2>2 DEF ListTrue, Lists
<1>7. CASE ReadName(w)
  BY <1>7 DEF ReadName, Finish, TypeOK, ListTrue, Idle
<1> QED BY <1>2, <1>3, <1>4, <1>5, <1>6, <1>7

LEMMA CountInstall ==
    ASSUME TypeOK, CountInv, NEW w \in Workers, InstallMeta(w)
    PROVE  CountInv'
<1> PICK i \in Ids : i = job[w].id
  BY JobKinds DEF InstallMeta, At, Lists
<1>1. /\ job[w] \in Lists /\ job[w].at = "install" /\ ListTrue(w)
      /\ CacheTrue(i)
  BY JobKinds DEF InstallMeta, At, Lists, CountInv
<1>2. UNCHANGED <<log, life>> /\ meta' = [meta EXCEPT ![i] = job[w].copy]
  BY DEF InstallMeta, disk
<1>3. /\ \A k \in Ids : mishaps[k] \subseteq mishaps'[k]
      /\ "deleteInList" \notin mishaps'[i] => job[w].life = life[i]
  BY <1>1 DEF InstallMeta, TypeOK
<1>4. ASSUME NEW k \in Ids PROVE CacheTrue(k)'
  <2>1. CASE k = i
    <3>1. meta'[i] = job[w].copy
      BY <1>1, <1>2 DEF TypeOK
    <3>2. job[w].copy.bytes = job[w].from /\ job[w].copy.count = job[w].count
      BY <1>1 DEF ListTrue, Lists
    <3>3. "deleteInList" \notin mishaps'[i] =>
             WasTrue(log[i], job[w].copy.bytes, job[w].copy.count)
      <4>1. "deleteInList" \notin mishaps'[i] => "deleteInList" \notin mishaps[i]
        BY <1>1, <1>3
      <4> QED BY <1>1, <1>3, <3>2, <4>1 DEF ListTrue, Lists
    <3>4. CacheTrue(i)'
      BY <1>2, <3>1, <3>3 DEF CacheTrue
    <3> QED BY <2>1, <3>4
  <2>2. CASE k # i
    <3>1. meta'[k] = meta[k]
      BY <1>2, <2>2 DEF TypeOK
    <3> QED BY <1>2, <1>3, <3>1 DEF CacheTrue, CountInv
  <2> QED BY <2>1, <2>2
<1>5. ASSUME NEW v \in Workers PROVE ListTrue(v)'
  <2>1. CASE v = w
    <3>1. job'[w] = [job[w] EXCEPT !.at = "name"]
      BY DEF InstallMeta
    <3> QED BY <1>1, <1>2, <1>3, <2>1, <3>1 DEF ListTrue, Lists
  <2>2. CASE v # w
    <3>1. job'[v] = job[v] \/ job'[v].op # "list"
      BY <2>2, JobKinds DEF InstallMeta, Replaced, Renames
    <3>2. job'[v].op = "list" => job'[v] = job[v] /\ job[v].id \in Ids
      BY <3>1, JobKinds DEF Lists
    <3> QED BY <1>2, <1>3, <3>2 DEF ListTrue, CountInv
  <2> QED BY <2>1, <2>2
<1> QED BY <1>4, <1>5 DEF CountInv

LEMMA CountAppend ==
    ASSUME TypeOK, CountInv, NEW i \in Ids, NEW row \in Rows, AppendRow(i, row)
    PROVE  CountInv'
<1>1. UNCHANGED <<meta, mishaps, life, job>> /\ log' = [log EXCEPT ![i] = Append(@, row)]
  BY DEF AppendRow, side
<1>2. ASSUME NEW k \in Ids, NEW from \in Nat, NEW count, WasTrue(log[k], from, count)
      PROVE  WasTrue(log'[k], from, count)
  BY <1>1, <1>2, WasTrueLasts DEF TypeOK
<1>3. ASSUME NEW k \in Ids PROVE Len(log[k]) <= Len(log'[k])
  BY <1>1 DEF TypeOK
<1>4. ASSUME NEW k \in Ids PROVE CacheTrue(k)'
  <2>1. CacheTrue(k) /\ meta[k].bytes \in Nat
    BY DEF CountInv, TypeOK, Files
  <2> QED BY <1>1, <1>2, <2>1 DEF CacheTrue
<1>5. ASSUME NEW v \in Workers, job[v].op = "list" PROVE ListTrue(v)'
  <2> DEFINE j == job[v]
  <2>1. ListTrue(v) /\ j \in Lists /\ j.id \in Ids /\ j.from \in Nat
    BY <1>5, JobKinds DEF CountInv, Lists
  <2>2. Len(log[j.id]) \in Nat /\ Len(log'[j.id]) \in Nat /\ Len(log[j.id]) <= Len(log'[j.id])
    BY <1>1, <1>3, <2>1 DEF TypeOK
  <2>3. WasTrue(log[j.id], j.from, j.count) => WasTrue(log'[j.id], j.from, j.count)
    BY <1>2, <2>1
  <2> QED BY <1>1, <2>1, <2>2, <2>3 DEF ListTrue
<1>6. \A v \in Workers : ListTrue(v)'
  BY <1>1, <1>5 DEF ListTrue
<1> QED BY <1>4, <1>6 DEF CountInv

LEMMA CountDelete ==
    ASSUME TypeOK, CountInv, NEW i \in Ids, DeleteSession(i)
    PROVE  CountInv'
<1>1. /\ UNCHANGED mishaps /\ log' = [log EXCEPT ![i] = <<>>]
      /\ meta' = [meta EXCEPT ![i] = NoFile] /\ life' = [life EXCEPT ![i] = @ + 1]
  BY DEF DeleteSession
<1>2. ASSUME NEW k \in Ids PROVE CacheTrue(k)'
  <2>1. CASE k = i
    BY <1>1, <2>1 DEF CacheTrue, TypeOK, NoFile
  <2>2. CASE k # i
    BY <1>1, <2>2 DEF CacheTrue, TypeOK, CountInv
  <2> QED BY <2>1, <2>2
<1>3. ASSUME NEW v \in Workers, job'[v].op = "list" PROVE ListTrue(v)'
  <2>1. job'[v] = job[v] /\ job[v] \in Lists /\ ListTrue(v)
    BY <1>3, JobKinds DEF DeleteSession, Renames, CountInv
  <2>2. CASE job[v].id = i
    <3>1. life'[i] = life[i] + 1 /\ life[i] \in Nat /\ job[v].life \in Nat
      BY <1>1, <2>1 DEF TypeOK, Lists
    <3> QED BY <2>1, <2>2, <3>1 DEF ListTrue
  <2>3. CASE job[v].id # i
    <3>1. log'[job[v].id] = log[job[v].id] /\ life'[job[v].id] = life[job[v].id]
      BY <1>1, <2>1, <2>3 DEF TypeOK, Lists
    <3> QED BY <1>1, <2>1, <3>1 DEF ListTrue
  <2> QED BY <2>2, <2>3
<1> QED BY <1>2, <1>3 DEF CountInv, ListTrue

-----------------------------------------------------------------------------
(* The name on disk is the last that landed *)

\* Steps that leave the names of session k alone: its jobs stay, end, or are at
\* no step that knows of a name.
LEMMA NameFrame ==
    ASSUME TypeOK, NEW k \in Ids, CleanNames(k) => NameHeld(k),
           mishaps[k] \subseteq mishaps'[k], meta'[k] = meta[k], tmp'[k] = tmp[k],
           landed'[k] = landed[k], life'[k] = life[k],
           \A v \in Workers :
              \/ job'[v] = job[v]
              \/ /\ job'[v].op = "rename" => job'[v].id # k
                 /\ job'[v].op = "list" => job'[v].at # "install" \/ job'[v].id # k
    PROVE  CleanNames(k)' => NameHeld(k)'
<1> SUFFICES ASSUME CleanNames(k)' PROVE NameHeld(k)'
  OBVIOUS
<1>1. NameHeld(k)
  BY DEF CleanNames
<1>2. \A v \in Workers : Renaming(v, k)' => Renaming(v, k) /\ job'[v] = job[v]
  BY DEF Renaming
<1>3. \A v, w \in Workers : Renaming(v, k)' /\ Renaming(w, k)' => v = w
  BY <1>1, <1>2 DEF NameHeld
<1>4. ASSUME NEW v \in Workers, Renaming(v, k)'
      PROVE  /\ job'[v].fd \in {"tmp", "gone"}
             /\ job'[v].fd = "gone" => tmp'[k].is = "absent"
             /\ job'[v].fd = "tmp" =>
                   tmp'[k] = IF job'[v].at = "fill" THEN Torn ELSE Meta(job'[v].name, 0, 0)
  BY <1>1, <1>2, <1>4 DEF NameHeld
<1>5. ASSUME NEW v \in Workers, At(v, "list", "install")', job'[v].id = k,
             job'[v].life = life'[k]
      PROVE  job'[v].copy.name = landed'[k]
  <2>1. job'[v] = job[v]
    BY <1>5 DEF At
  <2> QED BY <1>1, <1>5, <2>1 DEF NameHeld, At
<1>6. meta'[k].name = landed'[k] /\ meta'[k].is # "torn"
  BY <1>1 DEF NameHeld
<1> QED BY <1>3, <1>4, <1>5, <1>6 DEF NameHeld

\* The steps no name is in, for any session.
LEMMA NameUntouched ==
    ASSUME TypeOK, NameInv, UNCHANGED <<side, life>>,
           \A k \in Ids : mishaps[k] \subseteq mishaps'[k],
           \A v \in Workers :
              \/ job'[v] = job[v]
              \/ /\ job'[v].op # "rename"
                 /\ job'[v].op = "list" => job'[v].at # "install"
    PROVE  NameInv'
<1> SUFFICES ASSUME NEW k \in Ids PROVE CleanNames(k)' => NameHeld(k)'
  BY DEF NameInv
<1> QED BY NameFrame DEF NameInv, side

LEMMA NameMerge ==
    ASSUME TypeOK, NameInv, NEW w \in Workers, MergeMeta(w)
    PROVE  NameInv'
<1> PICK i \in Ids : i = job[w].id
  BY JobKinds DEF MergeMeta, At, Lists
<1> DEFINE copy == Meta(IF meta[i].is = "json" THEN meta[i].name ELSE NoName,
                        job[w].len, job[w].count)
<1>1. /\ UNCHANGED <<meta, tmp, landed, life, mishaps>>
      /\ job' = [job EXCEPT ![w].at = "install", ![w].copy = copy]
  BY DEF MergeMeta, side, disk
<1>2. job[w] \in Lists
  BY JobKinds DEF MergeMeta, At
<1>3. job'[w] = [job[w] EXCEPT !.at = "install", !.copy = copy]
  BY <1>1 DEF TypeOK
<1>4. \A v \in Workers \ {w} : job'[v] = job[v]
  BY <1>1 DEF TypeOK
<1>5. /\ job'[w].op = "list" /\ job'[w].id = i /\ job'[w].copy = copy
      /\ job[w].op = "list"
  BY <1>2, <1>3 DEF Lists
<1> HIDE DEF copy
<1> SUFFICES ASSUME NEW k \in Ids PROVE CleanNames(k)' => NameHeld(k)'
  BY DEF NameInv
<1>6. CASE k # i
  BY <1>1, <1>4, <1>5, <1>6, NameFrame DEF NameInv
<1>7. CASE k = i
  <2> SUFFICES ASSUME CleanNames(i)' PROVE NameHeld(i)'
    BY <1>7
  <2>1. NameHeld(i)
    BY <1>1 DEF CleanNames, NameInv
  <2>2. copy.name = landed[i]
    BY <2>1 DEF NameHeld, TypeOK, Files, copy, Meta
  <2>3. \A v \in Workers : Renaming(v, i)' => Renaming(v, i) /\ job'[v] = job[v]
    BY <1>4, <1>5 DEF Renaming
  <2>4. ASSUME NEW v \in Workers, At(v, "list", "install")', job'[v].id = i,
               job'[v].life = life'[i]
        PROVE  job'[v].copy.name = landed'[i]
    <3>1. CASE v = w
      BY <1>1, <1>5, <2>2, <3>1
    <3>2. CASE v # w
      <4>1. job'[v] = job[v]
        BY <1>4, <3>2
      <4>2. /\ life' = life /\ landed' = landed
        BY <1>1
      <4>3. At(v, "list", "install") /\ job[v].id = i /\ job[v].life = life[i]
        BY <2>4, <4>1, <4>2 DEF At
      <4>4. job[v].copy.name = landed[i]
        BY <2>1, <4>3 DEF NameHeld
      <4> QED BY <4>1, <4>2, <4>4
    <3> QED BY <3>1, <3>2
  <2>5. \A u, v \in Workers : Renaming(u, i)' /\ Renaming(v, i)' => u = v
    BY <2>1, <2>3 DEF NameHeld
  <2>6. ASSUME NEW v \in Workers, Renaming(v, i)'
        PROVE  /\ job'[v].fd \in {"tmp", "gone"}
               /\ job'[v].fd = "gone" => tmp'[i].is = "absent"
               /\ job'[v].fd = "tmp" =>
                     tmp'[i] = IF job'[v].at = "fill" THEN Torn
                               ELSE Meta(job'[v].name, 0, 0)
    <3>1. job'[v] = job[v] /\ Renaming(v, i)
      BY <2>3, <2>6
    <3>2. /\ job[v].fd \in {"tmp", "gone"}
          /\ job[v].fd = "gone" => tmp[i].is = "absent"
          /\ job[v].fd = "tmp" =>
                tmp[i] = IF job[v].at = "fill" THEN Torn ELSE Meta(job[v].name, 0, 0)
      BY <2>1, <3>1 DEF NameHeld
    <3> QED BY <1>1, <3>1, <3>2
  <2> QED BY <1>1, <2>1, <2>4, <2>5, <2>6 DEF NameHeld
<1> QED BY <1>6, <1>7

LEMMA NameInstall ==
    ASSUME TypeOK, NameInv, NEW w \in Workers, InstallMeta(w)
    PROVE  NameInv'
<1> PICK i \in Ids : i = job[w].id
  BY JobKinds DEF InstallMeta, At, Lists
<1>1. /\ job[w] \in Lists /\ At(w, "list", "install") /\ job[w].copy.is = "json"
  BY JobKinds DEF InstallMeta, At, TypeOK, JobFits
<1>2. /\ UNCHANGED <<tmp, landed, life>> /\ meta' = [meta EXCEPT ![i] = job[w].copy]
      /\ job' = [v \in Workers |-> IF v = w THEN [job[w] EXCEPT !.at = "name"]
                                   ELSE Replaced(i, "meta", v)]
  BY DEF InstallMeta, disk
<1>3. /\ \A k \in Ids : mishaps[k] \subseteq mishaps'[k]
      /\ "deleteInList" \notin mishaps'[i] => job[w].life = life[i]
  BY <1>1 DEF InstallMeta, TypeOK
<1>4. job'[w].op = "list" /\ job'[w].at = "name"
  BY <1>1, <1>2 DEF Lists
<1>5. ASSUME NEW v \in Workers \ {w}
      PROVE  job'[v] = job[v] \/ (Renaming(v, i) /\ Renaming(v, i)' /\ job[v].fd = "meta")
  BY <1>2, JobKinds DEF Replaced, Renaming, Renames
<1> SUFFICES ASSUME NEW k \in Ids PROVE CleanNames(k)' => NameHeld(k)'
  BY DEF NameInv
<1>6. CASE k # i
  <2>1. meta'[k] = meta[k]
    BY <1>2, <1>6 DEF TypeOK
  <2>2. ASSUME NEW v \in Workers
        PROVE  \/ job'[v] = job[v]
               \/ /\ job'[v].op = "rename" => job'[v].id # k
                  /\ job'[v].op = "list" => job'[v].at # "install" \/ job'[v].id # k
    BY <1>4, <1>5, <1>6 DEF Renaming
  <2> QED BY <1>2, <1>3, <2>1, <2>2, NameFrame DEF NameInv
<1>7. CASE k = i
  <2> SUFFICES ASSUME CleanNames(i)' PROVE NameHeld(i)'
    BY <1>7
  <2>1. NameHeld(i) /\ job[w].life = life[i]
    BY <1>3 DEF CleanNames, NameInv
  <2>2. job[w].copy.name = landed[i]
    BY <1>1, <2>1 DEF NameHeld
  <2>3. meta'[i].name = landed'[i] /\ meta'[i].is # "torn"
    BY <1>1, <1>2, <2>2 DEF TypeOK
  <2>4. \A v \in Workers \ {w} : job'[v] = job[v]
    BY <1>5, <2>1 DEF NameHeld
  <2>5. \A v \in Workers : Renaming(v, i)' => Renaming(v, i) /\ job'[v] = job[v]
    BY <1>4, <2>4 DEF Renaming
  <2>6. \A v \in Workers : At(v, "list", "install")' =>
           At(v, "list", "install") /\ job'[v] = job[v]
    BY <1>4, <2>4 DEF At
  <2>7. \A u, v \in Workers : Renaming(u, i)' /\ Renaming(v, i)' => u = v
    BY <2>1, <2>5 DEF NameHeld
  <2>8. ASSUME NEW v \in Workers, Renaming(v, i)'
        PROVE  /\ job'[v].fd \in {"tmp", "gone"}
               /\ job'[v].fd = "gone" => tmp'[i].is = "absent"
               /\ job'[v].fd = "tmp" =>
                     tmp'[i] = IF job'[v].at = "fill" THEN Torn
                               ELSE Meta(job'[v].name, 0, 0)
    <3>1. job'[v] = job[v] /\ Renaming(v, i)
      BY <2>5, <2>8
    <3>2. /\ job[v].fd \in {"tmp", "gone"}
          /\ job[v].fd = "gone" => tmp[i].is = "absent"
          /\ job[v].fd = "tmp" =>
                tmp[i] = IF job[v].at = "fill" THEN Torn ELSE Meta(job[v].name, 0, 0)
      BY <2>1, <3>1 DEF NameHeld
    <3> QED BY <1>2, <3>1, <3>2
  <2>9. ASSUME NEW v \in Workers, At(v, "list", "install")', job'[v].id = i,
               job'[v].life = life'[i]
        PROVE  job'[v].copy.name = landed'[i]
    BY <1>2, <2>1, <2>6, <2>9 DEF NameHeld
  <2> QED BY <2>3, <2>7, <2>8, <2>9 DEF NameHeld
<1> QED BY <1>6, <1>7

LEMMA NameOpen ==
    ASSUME TypeOK, NameInv, NEW w \in Workers, NEW i \in Ids, NEW name \in Names,
           OpenTmp(w, i, name)
    PROVE  NameInv'
<1> DEFINE j == [op |-> "rename", id |-> i, at |-> "fill", name |-> name, fd |-> "tmp"]
<1>1. /\ UNCHANGED <<meta, landed, life>> /\ tmp' = [tmp EXCEPT ![i] = Torn]
      /\ job' = [job EXCEPT ![w] = j] /\ job[w] = Idle
  BY DEF OpenTmp, Begin
<1>2. /\ \A k \in Ids : mishaps[k] \subseteq mishaps'[k]
      /\ "renamesOverlap" \notin mishaps'[i] => Others(w, "rename", i) = {}
  BY DEF OpenTmp, TypeOK
<1>3. job'[w] = j /\ \A v \in Workers \ {w} : job'[v] = job[v]
  BY <1>1 DEF TypeOK
<1> SUFFICES ASSUME NEW k \in Ids PROVE CleanNames(k)' => NameHeld(k)'
  BY DEF NameInv
<1>4. CASE k # i
  BY <1>1, <1>2, <1>3, <1>4, NameFrame DEF NameInv, TypeOK
<1>5. CASE k = i
  <2> SUFFICES ASSUME CleanNames(i)' PROVE NameHeld(i)'
    BY <1>5
  <2>1. NameHeld(i) /\ Others(w, "rename", i) = {}
    BY <1>2 DEF CleanNames, NameInv
  <2>2. \A v \in Workers : Renaming(v, i)' => v = w
    BY <1>3, <2>1 DEF Renaming, Others
  <2>3. tmp'[i] = Torn
    BY <1>1 DEF TypeOK
  <2>4. \A v \in Workers : At(v, "list", "install")' =>
           At(v, "list", "install") /\ job'[v] = job[v]
    BY <1>3 DEF At
  <2> QED BY <1>1, <1>3, <2>1, <2>2, <2>3, <2>4 DEF NameHeld
<1> QED BY <1>4, <1>5

LEMMA NameFill ==
    ASSUME TypeOK, NameInv, NEW w \in Workers, FillTmp(w)
    PROVE  NameInv'
<1>1. job[w] \in Renames /\ At(w, "rename", "fill")
  BY JobKinds DEF FillTmp, At
<1> PICK i \in Ids : i = job[w].id
  BY <1>1 DEF Renames
<1>2. UNCHANGED <<landed, life, mishaps>> /\ job' = [job EXCEPT ![w].at = "move"]
  BY DEF FillTmp, disk
<1>3. /\ job'[w] = [job[w] EXCEPT !.at = "move"]
      /\ \A v \in Workers \ {w} : job'[v] = job[v]
  BY <1>2 DEF TypeOK
<1>4. /\ job'[w].op = "rename" /\ job'[w].id = i /\ job'[w].at = "move"
      /\ job'[w].fd = job[w].fd /\ job'[w].name = job[w].name
  BY <1>1, <1>3 DEF Renames, At
<1> SUFFICES ASSUME NEW k \in Ids PROVE CleanNames(k)' => NameHeld(k)'
  BY DEF NameInv
<1>5. CASE k # i
  <2>1. meta'[k] = meta[k] /\ tmp'[k] = tmp[k]
    BY <1>5 DEF FillTmp, TypeOK
  <2> QED BY <1>2, <1>3, <1>4, <1>5, <2>1, NameFrame DEF NameInv
<1>6. CASE k = i
  <2> SUFFICES ASSUME CleanNames(i)' PROVE NameHeld(i)'
    BY <1>6
  <2>1. NameHeld(i) /\ Renaming(w, i)
    BY <1>1, <1>2 DEF CleanNames, NameInv, Renaming, At
  <2>2. /\ job[w].fd \in {"tmp", "gone"} /\ UNCHANGED meta
        /\ job[w].fd = "gone" => tmp'[i].is = "absent"
        /\ job[w].fd = "tmp" => tmp'[i] = Meta(job[w].name, 0, 0)
    <3>1. /\ job[w].fd \in {"tmp", "gone"}
          /\ job[w].fd = "gone" => tmp[i].is = "absent"
          /\ job[w].fd = "tmp" => tmp[i] = Torn
      BY <1>1, <2>1 DEF NameHeld, At
    <3>2. CASE job[w].fd = "gone"
      BY <3>1, <3>2 DEF FillTmp
    <3>3. CASE job[w].fd = "tmp"
      <4>1. Written(tmp[i], job[w].name) = {Meta(job[w].name, 0, 0)}
        BY <3>1, <3>3 DEF Written, Torn
      <4> QED BY <3>1, <3>3, <4>1 DEF FillTmp, TypeOK
    <3> QED BY <3>1, <3>2, <3>3
  <2>3. \A v \in Workers : Renaming(v, i)' => v = w
    BY <1>3, <2>1 DEF NameHeld, Renaming
  <2>4. \A v \in Workers : At(v, "list", "install")' =>
           At(v, "list", "install") /\ job'[v] = job[v]
    BY <1>3, <1>4 DEF At
  <2> QED BY <1>2, <1>4, <2>1, <2>2, <2>3, <2>4 DEF NameHeld
<1> QED BY <1>5, <1>6

LEMMA NameMove ==
    ASSUME TypeOK, NameInv, NEW w \in Workers, MoveTmp(w)
    PROVE  NameInv'
<1>1. job[w] \in Renames /\ At(w, "rename", "move")
  BY JobKinds DEF MoveTmp, At
<1> PICK i \in Ids : i = job[w].id
  BY <1>1 DEF Renames
<1>2. /\ UNCHANGED life /\ meta' = [meta EXCEPT ![i] = tmp[i]]
      /\ tmp' = [tmp EXCEPT ![i] = NoFile] /\ landed' = [landed EXCEPT ![i] = job[w].name]
      /\ tmp[i].is # "absent"
  BY DEF MoveTmp, disk
<1>3. /\ \A k \in Ids : mishaps[k] \subseteq mishaps'[k]
      /\ "renameInList" \notin mishaps'[i] =>
            ~\E v \in Others(w, "list", i) : job[v].at = "install"
  BY DEF MoveTmp, TypeOK
<1>4. job'[w] = Idle
  BY DEF MoveTmp
<1>5. ASSUME NEW v \in Workers \ {w}
      PROVE  job'[v] = job[v] \/ (Renaming(v, i) /\ Renaming(v, i)')
  BY JobKinds DEF MoveTmp, Replaced, Renaming, Renames
<1> SUFFICES ASSUME NEW k \in Ids PROVE CleanNames(k)' => NameHeld(k)'
  BY DEF NameInv
<1>6. CASE k # i
  <2>1. meta'[k] = meta[k] /\ tmp'[k] = tmp[k] /\ landed'[k] = landed[k]
    BY <1>2, <1>6 DEF TypeOK
  <2>2. ASSUME NEW v \in Workers
        PROVE  \/ job'[v] = job[v]
               \/ /\ job'[v].op = "rename" => job'[v].id # k
                  /\ job'[v].op = "list" => job'[v].at # "install" \/ job'[v].id # k
    BY <1>4, <1>5, <1>6 DEF Renaming, Idle
  <2> QED BY <1>2, <1>3, <2>1, <2>2, NameFrame DEF NameInv
<1>7. CASE k = i
  <2> SUFFICES ASSUME CleanNames(i)' PROVE NameHeld(i)'
    BY <1>7
  <2>1. NameHeld(i) /\ Renaming(w, i)
    BY <1>1, <1>3 DEF CleanNames, NameInv, Renaming, At
  <2>2. tmp[i] = Meta(job[w].name, 0, 0)
    BY <1>1, <1>2, <2>1 DEF NameHeld, At
  <2>3. meta'[i].name = landed'[i] /\ meta'[i].is # "torn"
    BY <1>2, <2>2 DEF TypeOK, Meta
  <2>4. \A v \in Workers : ~Renaming(v, i)'
    BY <1>4, <1>5, <2>1 DEF NameHeld, Renaming, Idle
  <2>5. ASSUME NEW v \in Workers, At(v, "list", "install")', job'[v].id = i
        PROVE  FALSE
    <3>1. v # w /\ job'[v] = job[v]
      BY <1>4, <1>5, <2>5 DEF At, Idle, Renaming
    <3>2. v \in Others(w, "list", i) /\ job[v].at = "install"
      BY <2>5, <3>1 DEF Others, At
    <3> QED BY <1>3, <3>2 DEF CleanNames
  <2> QED BY <2>3, <2>4, <2>5 DEF NameHeld
<1> QED BY <1>6, <1>7

LEMMA NameDelete ==
    ASSUME TypeOK, CountInv, NameInv, NEW i \in Ids, DeleteSession(i)
    PROVE  NameInv'
<1>1. /\ UNCHANGED mishaps /\ life' = [life EXCEPT ![i] = @ + 1]
      /\ meta' = [meta EXCEPT ![i] = NoFile] /\ tmp' = [tmp EXCEPT ![i] = NoFile]
      /\ landed' = [landed EXCEPT ![i] = NoName]
  BY DEF DeleteSession
<1>2. ASSUME NEW v \in Workers
      PROVE  IF Renaming(v, i) THEN Renaming(v, i)' /\ job'[v].fd = "gone"
             ELSE job'[v] = job[v]
  BY JobKinds DEF DeleteSession, Renaming, Renames
<1> SUFFICES ASSUME NEW k \in Ids PROVE CleanNames(k)' => NameHeld(k)'
  BY DEF NameInv
<1>3. CASE k # i
  <2>1. UNCHANGED <<meta[k], tmp[k], landed[k], life[k]>>
    BY <1>1, <1>3 DEF TypeOK
  <2>2. ASSUME NEW v \in Workers
        PROVE  \/ job'[v] = job[v]
               \/ /\ job'[v].op = "rename" => job'[v].id # k
                  /\ job'[v].op = "list" => job'[v].at # "install" \/ job'[v].id # k
    BY <1>2, <1>3 DEF Renaming
  <2> QED BY <1>1, <2>1, <2>2, NameFrame DEF NameInv
<1>4. CASE k = i
  <2> SUFFICES ASSUME CleanNames(i)' PROVE NameHeld(i)'
    BY <1>4
  <2>1. NameHeld(i)
    BY <1>1 DEF CleanNames, NameInv
  <2>2. /\ meta'[i] = NoFile /\ tmp'[i] = NoFile /\ landed'[i] = NoName
        /\ life'[i] = life[i] + 1 /\ life[i] \in Nat
    BY <1>1 DEF TypeOK
  <2>3. \A v \in Workers : Renaming(v, i)' => Renaming(v, i) /\ job'[v].fd = "gone"
    BY <1>2 DEF Renaming
  <2>4. \A u, v \in Workers : Renaming(u, i)' /\ Renaming(v, i)' => u = v
    BY <2>1, <2>3 DEF NameHeld
  <2>5. ASSUME NEW v \in Workers, At(v, "list", "install")', job'[v].id = i,
               job'[v].life = life'[i]
        PROVE  FALSE
    <3>1. job'[v] = job[v] /\ job[v] \in Lists /\ ListTrue(v)
      BY <1>2, <2>5, JobKinds DEF At, Renaming, CountInv
    <3>2. job[v].life <= life[i] /\ job[v].life \in Nat
      BY <2>5, <3>1 DEF ListTrue, Lists
    <3> QED BY <2>2, <2>5, <3>1, <3>2
  <2> QED BY <2>2, <2>3, <2>4, <2>5 DEF NameHeld, NoFile
<1> QED BY <1>3, <1>4

-----------------------------------------------------------------------------
(* The index holds a row once *)

\* Steps that leave the index alone and overlap nothing away.
LEMMA IndexFrame ==
    ASSUME TypeOK, IndexInv, UNCHANGED db,
           \A k \in Ids : mishaps[k] \subseteq mishaps'[k],
           \A v \in Workers :
              \/ job'[v] = job[v] \/ job'[v].op # "search"
              \/ RowsInHand(v)' /\ MarkHolds(v)'
    PROVE  IndexInv'
<1>1. ASSUME NEW r \in BagToSet(index') PROVE BelowMark(r)'
  <2>1. r \in BagToSet(index) /\ r.id \in Ids
    BY DEF TypeOK, IndexRows, db
  <2> QED BY <2>1 DEF IndexInv, BelowMark, db
<1>2. ASSUME NEW v \in Workers PROVE RowsInHand(v)' /\ MarkHolds(v)'
  <2>1. CASE job'[v] = job[v]
    <3>1. job[v].op = "search" /\ job[v].at = "commit" => job[v].id \in Ids
      BY DEF TypeOK, JobFits
    <3> QED BY <2>1, <3>1 DEF IndexInv, RowsInHand, MarkHolds, At, db
  <2>2. CASE job'[v].op # "search"
    BY <2>2 DEF RowsInHand, MarkHolds, At
  <2> QED BY <2>1, <2>2
<1> QED BY <1>1, <1>2 DEF IndexInv

LEMMA IndexSearch ==
    ASSUME TypeOK, IndexInv, NEW w \in Workers,
           \/ StartSearch(w) \/ OpenLog(w) \/ ReadMark(w) \/ CommitFails(w) \/ Query(w)
    PROVE  IndexInv'
<1>1. UNCHANGED <<db, mishaps>> /\ \A v \in Workers \ {w} : job'[v] = job[v]
  BY DEF StartSearch, Begin, OpenLog, ReadMark, CommitFails, Query, Finish, TypeOK
<1> SUFFICES job'[w].op # "search" \/ (RowsInHand(w)' /\ MarkHolds(w)')
  BY <1>1, IndexFrame
<1>2. CASE StartSearch(w)
  BY <1>2 DEF StartSearch, Begin, TypeOK, RowsInHand, MarkHolds, At
<1>3. CASE OpenLog(w)
  <2> DEFINE i == Min(job[w].todo)
  <2>1. job[w] \in Searches /\ job[w].todo \in SUBSET Nat /\ job[w].todo # {}
    BY <1>3, JobKinds, SessionCatalogAssumption DEF OpenLog, At, Searches, Ids
  <2>2. i \in Ids
    BY <2>1, MinIsMember DEF Searches
  <2>3. PICK rows : rows = TextRows(i, life[i], log[i])
    OBVIOUS
  <2>4. log[i] \in Seq(Rows)
    BY <2>2 DEF TypeOK
  <2>5. /\ \A r \in rows : r.id = i
        /\ rows # {} => \E m \in rows : \A r \in rows : r.seq <= m.seq
    <3>1. \A r \in rows : r.id = i
      BY <2>3 DEF TextRows
    <3>2. rows # {} => \E m \in rows : \A r \in rows : r.seq <= m.seq
      BY <2>3, <2>4, TextHasHighest
    <3> QED BY <3>1, <3>2
  <2>6. job' = IF i \in damaged THEN [job EXCEPT ![w] = Idle]
               ELSE [job EXCEPT ![w].at = "mark", ![w].id = i, ![w].rows = rows]
    BY <1>3, <2>3 DEF OpenLog, Finish
  <2> HIDE DEF i
  <2>7. \/ job'[w] = Idle
        \/ job'[w] = [job[w] EXCEPT !.at = "mark", !.id = i, !.rows = rows]
    BY <2>6 DEF TypeOK
  <2>8. CASE job'[w] = [job[w] EXCEPT !.at = "mark", !.id = i, !.rows = rows]
    <3>1. job'[w].at = "mark" /\ job'[w].id = i /\ job'[w].rows = rows
      BY <2>1, <2>8 DEF Searches
    <3> QED BY <2>5, <3>1 DEF RowsInHand, MarkHolds, At
  <2> QED BY <2>7, <2>8 DEF Idle
<1>4. CASE ReadMark(w)
  <2>1. job[w] \in Searches /\ RowsInHand(w)
    BY <1>4, JobKinds DEF ReadMark, At, IndexInv
  <2>2. job'[w] = [job[w] EXCEPT !.at = "commit", !.last = mark[job[w].id]]
    BY <1>4 DEF ReadMark, TypeOK
  <2> QED BY <1>1, <2>1, <2>2 DEF RowsInHand, MarkHolds, At, Searches, db
<1>5. CASE CommitFails(w) \/ Query(w)
  BY <1>5 DEF CommitFails, Query, Finish, TypeOK, Idle
<1> QED BY <1>2, <1>3, <1>4, <1>5

\* What a commit writes: the highest of the new rows becomes the mark.
LEMMA CommitFacts ==
    ASSUME TypeOK, NEW w \in Workers, RowsInHand(w), Commit(w)
    PROVE  /\ job[w] \in Searches /\ job[w].id \in Ids /\ NewRows(w) \subseteq IndexRows
           /\ index' = index (+) SetToBag(NewRows(w))
           /\ \A k \in Ids \ {job[w].id} : mark'[k] = mark[k]
           /\ NewRows(w) = {} => mark' = mark
           /\ NewRows(w) # {} =>
                 /\ NewMark(NewRows(w)) \in Nat /\ mark'[job[w].id] = NewMark(NewRows(w))
                 /\ \E m \in NewRows(w) : NewMark(NewRows(w)) = m.seq
                 /\ \A r \in NewRows(w) : r.seq <= NewMark(NewRows(w))
           /\ \A v \in Workers \ {w} : job'[v] = job[v]
           /\ job'[w].op = "search" /\ job'[w].at = "open" /\ job'[w].rows = {}
           /\ job'[w].todo = job[w].todo \ {job[w].id} /\ job'[w].want = job[w].want
<1>0. PICK new : new = NewRows(w)
  OBVIOUS
<1>1. job[w] \in Searches /\ job[w].id \in Ids /\ job[w].op = "search"
  BY JobKinds DEF Commit, At, TypeOK, JobFits
<1>2. new \subseteq IndexRows
  BY <1>0, <1>1 DEF Searches, NewRows
<1>3. /\ index' = index (+) SetToBag(new)
      /\ mark' = IF new = {} THEN mark ELSE [mark EXCEPT ![job[w].id] = NewMark(new)]
  BY <1>0 DEF Commit, NewRows
<1>4. ASSUME new # {}
      PROVE  /\ NewMark(new) \in Nat /\ \E m \in new : NewMark(new) = m.seq
             /\ \A r \in new : r.seq <= NewMark(new)
  <2>1. PICK top \in job[w].rows : \A r \in job[w].rows : r.seq <= top.seq
    BY <1>0, <1>1, <1>4 DEF RowsInHand, NewRows
  <2>2. top \in new
    <3>1. PICK r \in new : TRUE
      BY <1>4
    <3>2. r.seq \in Nat /\ top.seq \in Nat /\ job[w].last \in Nat
      BY <1>1, <1>2, <3>1, <2>1 DEF Searches, IndexRows
    <3>3. r.seq <= top.seq /\ r.seq > job[w].last
      BY <1>0, <2>1, <3>1 DEF NewRows
    <3> QED BY <1>0, <2>1, <3>2, <3>3 DEF NewRows
  <2> DEFINE S == {r.seq : r \in new}
  <2>3. S \in SUBSET Nat /\ top.seq \in S /\ \A x \in S : x <= top.seq
    <3>1. \A r \in new : r \in job[w].rows /\ r.seq \in Nat
      BY <1>0, <1>2 DEF IndexRows, NewRows
    <3> QED BY <2>1, <2>2, <3>1
  <2>4. Max(S) \in S /\ \A x \in S : x <= Max(S)
    <3> HIDE DEF S
    <3> QED BY <2>3, MaxIsHighest
  <2>5. NewMark(new) = Max(S)
    BY DEF NewMark
  <2> QED BY <2>3, <2>4, <2>5
<1>5. \A k \in Ids \ {job[w].id} : mark'[k] = mark[k]
  BY <1>3 DEF TypeOK
<1>6. new # {} => mark'[job[w].id] = NewMark(new)
  BY <1>1, <1>3 DEF TypeOK
<1>7. job'[w] = [job[w] EXCEPT !.at = "open", !.todo = @ \ {job[w].id}, !.rows = {},
                               !.last = 0]
  BY DEF Commit, NextLog, TypeOK
<1>8. \A v \in Workers \ {w} : job'[v] = job[v]
  BY DEF Commit, NextLog, TypeOK
<1>9. /\ job'[w].op = "search" /\ job'[w].at = "open" /\ job'[w].rows = {}
      /\ job'[w].todo = job[w].todo \ {job[w].id} /\ job'[w].want = job[w].want
  BY <1>1, <1>7 DEF Searches
<1>10. index' = index (+) SetToBag(new) /\ (new = {} => mark' = mark)
  BY <1>3
<1>11. new # {} => /\ NewMark(new) \in Nat /\ mark'[job[w].id] = NewMark(new)
                   /\ \E m \in new : NewMark(new) = m.seq
                   /\ \A r \in new : r.seq <= NewMark(new)
  BY <1>4, <1>6
<1> QED BY <1>0, <1>1, <1>2, <1>5, <1>8, <1>9, <1>10, <1>11

LEMMA IndexCommit ==
    ASSUME TypeOK, IndexInv, NEW w \in Workers, Commit(w)
    PROVE  IndexInv'
<1>1. PICK new : new = NewRows(w)
  OBVIOUS
<1>2. RowsInHand(w)
  BY DEF IndexInv
<1>3. /\ job[w] \in Searches /\ job[w].id \in Ids /\ new \subseteq IndexRows
      /\ index' = index (+) SetToBag(new)
      /\ \A k \in Ids \ {job[w].id} : mark'[k] = mark[k]
      /\ new = {} => mark' = mark
      /\ new # {} => /\ NewMark(new) \in Nat /\ mark'[job[w].id] = NewMark(new)
                     /\ \E m \in new : NewMark(new) = m.seq
                     /\ \A r \in new : r.seq <= NewMark(new)
      /\ \A v \in Workers \ {w} : job'[v] = job[v]
      /\ job'[w].op = "search" /\ job'[w].at = "open" /\ job'[w].rows = {}
  BY <1>1, <1>2, CommitFacts
<1> PICK i \in Ids : i = job[w].id
  BY <1>3
<1>4. /\ \A k \in Ids : mishaps[k] \subseteq mishaps'[k]
      /\ "searchesOverlap" \notin mishaps'[i] =>
            ~\E v \in Others(w, "search", i) : job[v].at = "commit"
  BY <1>3 DEF Commit, TypeOK
<1>5. /\ BagToSet(index') = BagToSet(index) \cup new
      /\ \A r \in BagToSet(index) \ new : index'[r] = index[r]
      /\ \A r \in new \ BagToSet(index) : index'[r] = 1
  BY <1>3, BagGrows DEF TypeOK
<1>6. \A r \in new : r.id = i /\ r.seq \in Nat /\ r.seq > job[w].last
  BY <1>1, <1>2, <1>3 DEF RowsInHand, Searches, IndexRows, NewRows
<1>7. "searchesOverlap" \notin mishaps'[i] => job[w].last = mark[i]
  BY <1>4 DEF IndexInv, MarkHolds, Commit
<1>8. mark[i] \in Nat /\ (new # {} /\ job[w].last = mark[i] => mark[i] < mark'[i])
  BY <1>3, <1>6 DEF TypeOK
<1>9. ASSUME NEW r \in BagToSet(index'), "searchesOverlap" \notin mishaps'[r.id]
      PROVE  r.seq <= mark'[r.id] /\ index'[r] = 1
  <2>1. CASE r \in new
    <3>1. r.id = i /\ job[w].last = mark[i] /\ r.seq <= mark'[i]
      BY <1>3, <1>6, <1>7, <1>9, <2>1
    <3>2. r \notin BagToSet(index)
      <4> SUFFICES ASSUME r \in BagToSet(index) PROVE FALSE
        OBVIOUS
      <4>1. r.seq <= mark[i]
        BY <1>4, <1>9, <3>1 DEF IndexInv, BelowMark
      <4> QED BY <1>6, <1>8, <2>1, <3>1, <4>1
    <3> QED BY <1>5, <2>1, <3>1, <3>2
  <2>2. CASE r \notin new
    <3>1. r \in BagToSet(index) /\ r.id \in Ids /\ r.seq \in Nat
      BY <1>5, <2>2 DEF TypeOK, IndexRows
    <3>2. r.seq <= mark[r.id] /\ index[r] = 1
      BY <1>4, <1>9, <3>1 DEF IndexInv, BelowMark
    <3>3. mark[r.id] <= mark'[r.id] /\ mark[r.id] \in Nat /\ mark'[r.id] \in Nat
      <4>1. mark[r.id] \in Nat
        BY <3>1 DEF TypeOK
      <4>2. CASE r.id # i \/ new = {}
        BY <1>3, <3>1, <4>1, <4>2
      <4>3. CASE r.id = i /\ new # {}
        BY <1>3, <1>7, <1>8, <1>9, <4>3
      <4> QED BY <4>2, <4>3
    <3> QED BY <1>5, <2>2, <3>1, <3>2, <3>3
  <2> QED BY <2>1, <2>2
<1>10. ASSUME NEW v \in Workers PROVE RowsInHand(v)' /\ MarkHolds(v)'
  <2>1. CASE v = w
    BY <1>3, <2>1 DEF RowsInHand, MarkHolds, At
  <2>2. CASE v # w
    <3>1. job'[v] = job[v] /\ RowsInHand(v) /\ MarkHolds(v)
      BY <1>3, <2>2 DEF IndexInv
    <3>2. RowsInHand(v)'
      BY <3>1 DEF RowsInHand
    <3>3. ASSUME At(v, "search", "commit"), "searchesOverlap" \notin mishaps'[job[v].id]
          PROVE  job[v].last = mark'[job[v].id]
      <4>1. job[v].id \in Ids /\ job[v].last = mark[job[v].id]
        BY <1>4, <3>1, <3>3 DEF TypeOK, JobFits, At, MarkHolds
      <4>2. job[v].id # i
        BY <1>4, <2>2, <3>3 DEF At, Others
      <4> QED BY <1>3, <4>1, <4>2
    <3> QED BY <3>1, <3>2, <3>3 DEF MarkHolds, At
  <2> QED BY <2>1, <2>2
<1> QED BY <1>9, <1>10 DEF IndexInv, BelowMark

-----------------------------------------------------------------------------
(* A search finds what was there *)

\* Steps that leave the logs and the index alone.
LEMMA SearchFrame ==
    ASSUME TypeOK, SearchInv, UNCHANGED <<db, log, life>>,
           \A v \in Workers :
              job'[v] = job[v] \/ job'[v].op # "search" \/ Owes(job[v])'
    PROVE  SearchInv'
<1>1. ASSUME NEW i \in Ids PROVE MarkHides(i)'
  BY DEF SearchInv, MarkHides, FirstRows, db
<1>2. ASSUME NEW v \in Workers, job'[v].op = "search", job'[v] = job[v]
      PROVE  Owes(job[v])'
  BY <1>2 DEF SearchInv, Owes, FirstRows, db
<1> QED BY <1>1, <1>2 DEF SearchInv

LEMMA SearchSteps ==
    ASSUME TypeOK, SearchInv, NEW w \in Workers,
           \/ StartSearch(w) \/ OpenLog(w) \/ ReadMark(w) \/ CommitFails(w) \/ Query(w)
    PROVE  SearchInv'
<1>1. UNCHANGED <<db, log, life>> /\ \A v \in Workers \ {w} : job'[v] = job[v]
  BY DEF StartSearch, Begin, OpenLog, ReadMark, CommitFails, Query, Finish, TypeOK, disk
<1> SUFFICES job'[w].op # "search" \/ Owes(job[w])'
  BY <1>1, SearchFrame
<1>2. CASE StartSearch(w)
  <2>1. /\ job'[w].at = "open" /\ job'[w].todo = dir
        /\ job'[w].want = UNION {TextRows(i, life[i], log[i]) : i \in dir}
    BY <1>2 DEF StartSearch, Begin, TypeOK
  <2>2. ASSUME NEW r \in job'[w].want, life[r.id] = 0
        PROVE  r \in FirstRows(r.id) /\ r.id \in dir
    <3>1. PICK i \in dir : r \in TextRows(i, life[i], log[i])
      BY <2>1
    <3>2. r.id = i
      BY <3>1 DEF TextRows
    <3> QED BY <2>2, <3>1, <3>2 DEF FirstRows
  <2> QED BY <1>1, <2>1, <2>2 DEF Owes, FirstRows, db
<1>3. CASE OpenLog(w)
  <2> DEFINE i == Min(job[w].todo)
  <2>1. /\ job[w] \in Searches /\ job[w].todo \in SUBSET Nat /\ job[w].todo # {}
        /\ Owes(job[w])
    BY <1>3, JobKinds, SessionCatalogAssumption DEF OpenLog, At, Searches, Ids, SearchInv
  <2>2. i \in Ids
    BY <2>1, MinIsMember DEF Searches
  <2>3. job' = IF i \in damaged THEN [job EXCEPT ![w] = Idle]
               ELSE [job EXCEPT ![w].at = "mark", ![w].id = i,
                                ![w].rows = TextRows(i, life[i], log[i])]
    BY <1>3 DEF OpenLog, Finish
  <2>4. PICK id \in Ids : id = i
    BY <2>2
  <2> HIDE DEF i
  <2>5. \/ job'[w] = Idle
        \/ job'[w] = [job[w] EXCEPT !.at = "mark", !.id = id,
                                    !.rows = TextRows(id, life[id], log[id])]
    BY <2>3, <2>4 DEF TypeOK
  <2>6. CASE job'[w] = [job[w] EXCEPT !.at = "mark", !.id = id,
                                      !.rows = TextRows(id, life[id], log[id])]
    <3>1. /\ job'[w].at = "mark" /\ job'[w].id = id
          /\ job'[w].rows = TextRows(id, life[id], log[id])
          /\ job'[w].want = job[w].want /\ job'[w].todo = job[w].todo
      BY <2>1, <2>6 DEF Searches
    <3>2. life[id] = 0 => job'[w].rows = FirstRows(id)
      BY <3>1 DEF FirstRows
    <3>3. \A r \in job[w].want : life[r.id] = 0 =>
             r \in FirstRows(r.id) /\ (BagIn(r, index) \/ r.id \in job[w].todo)
      BY <2>1 DEF Owes
    <3>4. FirstRows(id)' = FirstRows(id) /\ \A k : FirstRows(k)' = FirstRows(k)
      BY <1>1 DEF FirstRows
    <3> QED BY <1>1, <3>1, <3>2, <3>3, <3>4 DEF Owes, db
  <2> QED BY <2>5, <2>6 DEF Idle
<1>4. CASE ReadMark(w)
  <2>1. /\ job[w] \in Searches /\ job[w].at = "mark" /\ Owes(job[w])
        /\ job[w].id \in Ids
    BY <1>4, JobKinds DEF ReadMark, At, SearchInv, TypeOK, JobFits
  <2>2. job'[w] = [job[w] EXCEPT !.at = "commit", !.last = mark[job[w].id]]
    BY <1>4 DEF ReadMark, TypeOK
  <2>3. /\ job'[w].at = "commit" /\ job'[w].last = mark[job[w].id]
        /\ job'[w].id = job[w].id /\ job'[w].rows = job[w].rows
        /\ job'[w].want = job[w].want /\ job'[w].todo = job[w].todo
    BY <2>1, <2>2 DEF Searches
  <2>4. \A k : FirstRows(k)' = FirstRows(k)
    BY <1>1 DEF FirstRows
  <2>5. life[job[w].id] = 0 =>
           \A r \in job[w].rows : r.seq <= mark[job[w].id] => BagIn(r, index)
    BY <2>1 DEF Owes, SearchInv, MarkHides
  <2> QED BY <1>1, <2>1, <2>3, <2>4, <2>5 DEF Owes, db
<1>5. CASE CommitFails(w) \/ Query(w)
  BY <1>5 DEF CommitFails, Query, Finish, TypeOK, Idle
<1> QED BY <1>2, <1>3, <1>4, <1>5

LEMMA SearchCommit ==
    ASSUME TypeOK, IndexInv, SearchInv, NEW w \in Workers, Commit(w)
    PROVE  SearchInv'
<1>1. PICK new : new = NewRows(w)
  OBVIOUS
<1>2. RowsInHand(w) /\ Owes(job[w]) /\ At(w, "search", "commit")
  BY DEF IndexInv, SearchInv, Commit, At
<1>3. /\ job[w] \in Searches /\ job[w].id \in Ids /\ new \subseteq IndexRows
      /\ index' = index (+) SetToBag(new)
      /\ \A k \in Ids \ {job[w].id} : mark'[k] = mark[k]
      /\ new = {} => mark' = mark
      /\ new # {} => /\ NewMark(new) \in Nat /\ mark'[job[w].id] = NewMark(new)
                     /\ \E m \in new : NewMark(new) = m.seq
                     /\ \A r \in new : r.seq <= NewMark(new)
      /\ \A v \in Workers \ {w} : job'[v] = job[v]
      /\ job'[w].op = "search" /\ job'[w].at = "open" /\ job'[w].rows = {}
      /\ job'[w].todo = job[w].todo \ {job[w].id} /\ job'[w].want = job[w].want
  BY <1>1, <1>2, CommitFacts
<1> PICK i \in Ids : i = job[w].id
  BY <1>3
<1>4. UNCHANGED <<log, life>> /\ \A k : FirstRows(k)' = FirstRows(k)
  BY DEF Commit, disk, FirstRows
<1>5. BagToSet(index') = BagToSet(index) \cup new
  BY <1>3, BagGrows DEF TypeOK
<1>6. \A r : BagIn(r, index) => BagIn(r, index')
  BY <1>5 DEF BagIn, BagToSet
\* Whatever is in the hands of the search is in the index now.
<1>7. ASSUME life[i] = 0, NEW r \in job[w].rows PROVE BagIn(r, index')
  <2>1. r.seq \in Nat /\ job[w].last \in Nat
    BY <1>3, <1>7 DEF Searches, IndexRows
  <2>2. CASE r.seq <= job[w].last
    BY <1>2, <1>6, <1>7, <2>2 DEF Owes, At
  <2>3. CASE r.seq > job[w].last
    BY <1>1, <1>5, <1>7, <2>3 DEF NewRows, BagIn, BagToSet
  <2> QED BY <2>1, <2>2, <2>3
<1>8. ASSUME NEW k \in Ids PROVE MarkHides(k)'
  <2> SUFFICES ASSUME life[k] = 0
               PROVE  /\ mark'[k] <= Len(log[k])
                      /\ \A r \in FirstRows(k) : r.seq <= mark'[k] => BagIn(r, index')
    BY <1>4 DEF MarkHides
  <2>1. MarkHides(k)
    BY DEF SearchInv
  <2>2. CASE k # i \/ new = {}
    BY <1>3, <1>6, <2>1, <2>2 DEF MarkHides
  <2>3. CASE k = i /\ new # {}
    <3>1. PICK m \in new : NewMark(new) = m.seq
      BY <1>3, <2>3
    <3>2. m \in job[w].rows /\ mark'[k] = m.seq
      BY <1>1, <1>3, <2>3, <3>1 DEF NewRows
    <3>3. /\ job[w].rows \subseteq FirstRows(k)
          /\ \A r \in FirstRows(k), s \in job[w].rows : r.seq <= s.seq => r \in job[w].rows
      BY <1>2, <2>3 DEF Owes, At
    <3>4. m.seq \in 1..Len(log[k])
      <4>1. m \in TextRows(k, 0, log[k]) /\ log[k] \in Seq(Rows)
        BY <3>2, <3>3 DEF FirstRows, TypeOK
      <4> QED BY <4>1, InText
    <3>5. \A r \in FirstRows(k) : r.seq <= m.seq => BagIn(r, index')
      BY <1>7, <2>3, <3>2, <3>3
    <3> QED BY <3>2, <3>4, <3>5
  <2> QED BY <2>2, <2>3
<1>9. ASSUME NEW v \in Workers, job'[v].op = "search" PROVE Owes(job[v])'
  <2>1. CASE v = w
    <3>1. ASSUME NEW r \in job[w].want, life[r.id] = 0
          PROVE  r \in FirstRows(r.id) /\ (BagIn(r, index') \/ r.id \in job'[w].todo)
      <4>1. r \in FirstRows(r.id) /\ (BagIn(r, index) \/ r.id \in job[w].todo)
        BY <1>2, <3>1 DEF Owes
      <4>2. CASE r.id = i
        <5>1. r \in job[w].rows
          BY <1>2, <3>1, <4>2 DEF Owes, At
        <5> QED BY <1>7, <3>1, <4>1, <4>2, <5>1
      <4>3. CASE r.id # i
        BY <1>3, <1>6, <4>1, <4>3
      <4> QED BY <4>2, <4>3
    <3> QED BY <1>3, <1>4, <2>1, <3>1 DEF Owes
  <2>2. CASE v # w
    <3>1. job'[v] = job[v] /\ Owes(job[v])
      BY <1>3, <1>9, <2>2 DEF SearchInv
    <3> QED BY <1>4, <1>6, <3>1 DEF Owes
  <2> QED BY <2>1, <2>2
<1> QED BY <1>8, <1>9 DEF SearchInv

LEMMA SearchAppend ==
    ASSUME TypeOK, IndexInv, SearchInv, NEW i \in Ids, NEW row \in Rows, AppendRow(i, row)
    PROVE  SearchInv'
<1>1. UNCHANGED <<index, mark, life, job>> /\ log' = [log EXCEPT ![i] = Append(@, row)]
  BY DEF AppendRow, db
<1>2. ASSUME NEW k \in Ids
      PROVE  /\ FirstRows(k) \subseteq FirstRows(k)' /\ Len(log[k]) <= Len(log'[k])
             /\ \A r \in FirstRows(k)' : r.seq <= Len(log[k]) => r \in FirstRows(k)
             /\ \A r \in FirstRows(k) : r.seq \in 1..Len(log[k])
             /\ Len(log[k]) \in Nat /\ Len(log'[k]) \in Nat
             /\ \A r \in FirstRows(k)' : r.seq \in Nat
  <2>1. log[k] \in Seq(Rows) /\ log'[k] \in Seq(Rows)
    BY <1>1 DEF TypeOK
  <2>2. /\ Len(log[k]) <= Len(log'[k])
        /\ \A n \in 1..Len(log[k]) : log'[k][n] = log[k][n]
    BY <1>1 DEF TypeOK
  <2>3. \A r : r \in FirstRows(k) <=>
           /\ r = [id |-> k, life |-> 0, seq |-> r.seq]
           /\ r.seq \in 1..Len(log[k]) /\ log[k][r.seq] = "text"
    BY <2>1, InText DEF FirstRows
  <2>4. \A r : r \in FirstRows(k)' <=>
           /\ r = [id |-> k, life |-> 0, seq |-> r.seq]
           /\ r.seq \in 1..Len(log'[k]) /\ log'[k][r.seq] = "text"
    BY <2>1, InText DEF FirstRows
  <2> QED BY <2>1, <2>2, <2>3, <2>4
<1>3. ASSUME NEW k \in Ids PROVE MarkHides(k)'
  <2>1. MarkHides(k) /\ mark[k] \in Nat
    BY DEF SearchInv, TypeOK
  <2> QED BY <1>1, <1>2, <2>1 DEF MarkHides
<1>4. ASSUME NEW v \in Workers, job[v].op = "search" PROVE Owes(job[v])'
  <2>1. job[v] \in Searches /\ Owes(job[v])
    BY <1>4, JobKinds DEF SearchInv
  <2>2. ASSUME NEW r \in job[v].want, life[r.id] = 0
        PROVE  r \in FirstRows(r.id)' /\ (BagIn(r, index) \/ r.id \in job[v].todo)
    BY <1>2, <2>1, <2>2 DEF Owes, Searches, IndexRows
  <2>3. ASSUME job[v].at # "open", life[job[v].id] = 0
        PROVE  /\ job[v].rows \subseteq FirstRows(job[v].id)'
               /\ \A r \in FirstRows(job[v].id)', s \in job[v].rows :
                     r.seq <= s.seq => r \in job[v].rows
    <3> PICK k \in Ids : k = job[v].id
      BY <1>4, <2>3 DEF TypeOK, JobFits
    <3>1. /\ job[v].rows \subseteq FirstRows(k)
          /\ \A r \in FirstRows(k), s \in job[v].rows : r.seq <= s.seq => r \in job[v].rows
      BY <2>1, <2>3 DEF Owes
    <3>2. job[v].rows \subseteq FirstRows(k)'
      BY <1>2, <3>1
    <3>3. ASSUME NEW r \in FirstRows(k)', NEW s \in job[v].rows, r.seq <= s.seq
          PROVE  r \in job[v].rows
      <4>1. s.seq \in 1..Len(log[k]) /\ r.seq \in Nat /\ Len(log[k]) \in Nat
        BY <1>2, <3>1
      <4>2. r \in FirstRows(k)
        BY <1>2, <3>3, <4>1
      <4> QED BY <3>1, <3>3, <4>2
    <3>4. FirstRows(k)' = FirstRows(job[v].id)'
      BY <1>1 DEF FirstRows
    <3> QED BY <3>2, <3>3, <3>4
  <2> QED BY <1>1, <2>1, <2>2, <2>3 DEF Owes
<1> QED BY <1>1, <1>3, <1>4 DEF SearchInv

LEMMA SearchDelete ==
    ASSUME TypeOK, SearchInv, NEW i \in Ids, DeleteSession(i)
    PROVE  SearchInv'
<1>1. /\ UNCHANGED <<index, mark>> /\ log' = [log EXCEPT ![i] = <<>>]
      /\ life' = [life EXCEPT ![i] = @ + 1]
  BY DEF DeleteSession, db
<1>2. ASSUME NEW k \in Ids, life'[k] = 0
      PROVE  life[k] = 0 /\ log'[k] = log[k] /\ FirstRows(k)' = FirstRows(k)
  <2>1. k # i
    BY <1>1, <1>2 DEF TypeOK
  <2> QED BY <1>1, <1>2, <2>1 DEF TypeOK, FirstRows
<1>3. ASSUME NEW k \in Ids PROVE MarkHides(k)'
  BY <1>1, <1>2 DEF SearchInv, MarkHides
<1>4. ASSUME NEW v \in Workers, job'[v].op = "search" PROVE Owes(job[v])'
  <2>1. job'[v] = job[v] /\ job[v] \in Searches /\ Owes(job[v])
    BY <1>4, JobKinds DEF DeleteSession, Renames, SearchInv
  <2>2. job[v].at # "open" => job[v].id \in Ids
    BY <1>4, <2>1 DEF TypeOK, JobFits
  <2>3. \A r \in job[v].want : r.id \in Ids
    BY <2>1 DEF Searches, IndexRows
  <2>4. PICK j : j = job[v]
    OBVIOUS
  <2>5. \A r \in j.want : life'[r.id] = 0 =>
           r \in FirstRows(r.id)' /\ (BagIn(r, index) \/ r.id \in j.todo)
    BY <1>2, <2>1, <2>3, <2>4 DEF Owes
  <2>6. j.at # "open" /\ life'[j.id] = 0 =>
           /\ j.rows \subseteq FirstRows(j.id)'
           /\ \A r \in FirstRows(j.id)', s \in j.rows : r.seq <= s.seq => r \in j.rows
           /\ \A r \in j.want : r.id = j.id => r \in j.rows
    BY <1>2, <2>1, <2>2, <2>4 DEF Owes
  <2>7. j.at = "commit" /\ life'[j.id] = 0 => \A r \in j.rows : r.seq <= j.last => BagIn(r, index)
    BY <1>2, <2>1, <2>2, <2>4 DEF Owes
  <2> QED BY <1>1, <2>1, <2>4, <2>5, <2>6, <2>7 DEF Owes
<1> QED BY <1>3, <1>4 DEF SearchInv

-----------------------------------------------------------------------------
(* The inductive invariant *)

LEMMA InitInv == Init => Inv
<1> SUFFICES ASSUME Init PROVE Inv
  OBVIOUS
<1>1. TypeOK
  BY InitTyped
<1>2. /\ \A i \in Ids : meta[i] = NoFile /\ tmp[i] = NoFile /\ landed[i] = NoName
      /\ \A i \in Ids : mark[i] = 0 /\ log[i] = <<>>
      /\ \A w \in Workers : job[w].op = "none"
  BY DEF Init, Idle
<1>3. CountInv
  BY <1>2 DEF CountInv, CacheTrue, ListTrue, NoFile
<1>4. NameInv
  BY <1>2 DEF NameInv, NameHeld, Renaming, At, NoFile
<1>5. BagToSet(index) = {}
  BY DEF Init, EmptyBag, SetToBag, BagToSet
<1>6. IndexInv
  BY <1>2, <1>5 DEF IndexInv, RowsInHand, MarkHolds, At
<1>7. SearchInv
  <2>1. \A i \in Ids : FirstRows(i) = {} /\ Len(log[i]) = 0
    BY <1>2 DEF FirstRows, TextRows
  <2> QED BY <1>2, <2>1 DEF SearchInv, MarkHides
<1> QED BY <1>1, <1>3, <1>4, <1>6, <1>7 DEF Inv

\* Every step that no search takes leaves the index and the searches alone.
LEMMA OtherSteps ==
    ASSUME Inv, UNCHANGED <<db, log, life>>,
           \A k \in Ids : mishaps[k] \subseteq mishaps'[k],
           \A v \in Workers : job'[v] = job[v] \/ job'[v].op # "search"
    PROVE  IndexInv' /\ SearchInv'
BY IndexFrame, SearchFrame DEF Inv

LEMMA HostStep ==
    ASSUME Inv, NEW i \in Ids,
           \/ \E row \in Rows : AppendRow(i, row)
           \/ Damage(i) \/ DeleteSession(i)
    PROVE  Inv'
<1>1. TypeOK'
  BY HostTyped DEF Inv
<1>2. UNCHANGED <<db, mishaps>> /\ \A v \in Workers : job'[v] = job[v] \/ job'[v].op # "search"
  <2>1. CASE DeleteSession(i)
    BY <2>1, JobKinds DEF DeleteSession, Inv, Renames
  <2>2. CASE ~DeleteSession(i)
    BY <2>2 DEF AppendRow, Damage
  <2> QED BY <2>1, <2>2
<1>3. IndexInv'
  BY <1>2, IndexFrame DEF Inv
<1>4. ASSUME NEW row \in Rows, AppendRow(i, row) PROVE Inv'
  <2>1. CountInv' /\ SearchInv'
    BY <1>4, CountAppend, SearchAppend DEF Inv
  <2>2. NameInv'
    BY <1>4, NameUntouched DEF AppendRow, Inv
  <2> QED BY <1>1, <1>3, <2>1, <2>2 DEF Inv
<1>5. CASE Damage(i)
  <2>1. UNCHANGED <<log, life, side, db, job, mishaps>>
    BY <1>5 DEF Damage
  <2>2. CountInv'
    BY <2>1, CountFrame DEF Inv, side
  <2>3. NameInv' /\ SearchInv'
    BY <2>1, NameUntouched, SearchFrame DEF Inv
  <2> QED BY <1>1, <1>3, <2>2, <2>3 DEF Inv
<1>6. CASE DeleteSession(i)
  BY <1>1, <1>3, <1>6, CountDelete, NameDelete, SearchDelete DEF Inv
<1> QED BY <1>4, <1>5, <1>6

LEMMA ListStep ==
    ASSUME Inv, NEW w \in Workers,
           \/ \E i \in Ids : StatLog(w, i)
           \/ ReadCache(w) \/ CountLog(w) \/ MergeMeta(w)
           \/ InstallMeta(w) \/ InstallFails(w) \/ ReadName(w)
    PROVE  Inv'
<1>1. UNCHANGED <<db, log, life>>
  BY DEF StatLog, ReadCache, CountLog, MergeMeta, InstallMeta, InstallFails, ReadName, disk
<1>2. CASE InstallMeta(w)
  <2>1. \A k \in Ids : mishaps[k] \subseteq mishaps'[k]
    BY <1>2 DEF InstallMeta, Inv, TypeOK
  <2>2. ASSUME NEW v \in Workers PROVE job'[v] = job[v] \/ job'[v].op # "search"
    BY <1>2, JobKinds DEF InstallMeta, At, Replaced, Lists, Renames, Inv
  <2>3. IndexInv' /\ SearchInv'
    BY <1>1, <2>1, <2>2, OtherSteps
  <2> QED BY <1>2, <2>3, InstallTyped, CountInstall, NameInstall DEF Inv
<1>3. CASE ~InstallMeta(w)
  <2>1. TypeOK' /\ CountInv'
    BY <1>3, ListTyped, CountList DEF Inv
  <2>2. UNCHANGED <<mishaps, side>> /\ \A v \in Workers \ {w} : job'[v] = job[v]
    BY <1>3 DEF StatLog, Begin, ReadCache, CountLog, MergeMeta, InstallFails, ReadName,
                Finish, Inv, TypeOK
  <2>3. /\ job'[w].op # "search" /\ job'[w].op # "rename"
        /\ ~MergeMeta(w) /\ job'[w].op = "list" => job'[w].at # "install"
    <3>1. CASE \E i \in Ids : StatLog(w, i)
      BY <3>1 DEF StatLog, Begin, Inv, TypeOK
    <3>2. CASE ReadCache(w) \/ CountLog(w) \/ MergeMeta(w) \/ InstallFails(w)
      <4>1. job[w] \in Lists
        BY <3>2, JobKinds DEF ReadCache, CountLog, MergeMeta, InstallFails, At, Inv
      <4>2. CASE ReadCache(w)
        <5>1. \/ job'[w] = [job[w] EXCEPT !.at = "count"]
              \/ \E c : job'[w] = [job[w] EXCEPT !.at = "name", !.count = c]
          BY <4>2 DEF ReadCache, Inv, TypeOK
        <5> QED BY <4>1, <5>1 DEF Lists
      <4>3. CASE CountLog(w)
        BY <4>1, <4>3 DEF CountLog, Inv, TypeOK, Lists
      <4>4. CASE MergeMeta(w)
        BY <4>1, <4>4 DEF MergeMeta, Inv, TypeOK, Lists
      <4>5. CASE InstallFails(w)
        BY <4>1, <4>5 DEF InstallFails, Inv, TypeOK, Lists
      <4> QED BY <3>2, <4>2, <4>3, <4>4, <4>5
    <3>3. CASE ReadName(w)
      BY <3>3 DEF ReadName, Finish, Inv, TypeOK, Idle
    <3> QED BY <1>3, <3>1, <3>2, <3>3
  <2>4. IndexInv' /\ SearchInv'
    BY <1>1, <2>2, <2>3, OtherSteps
  <2>5. NameInv'
    <3>1. CASE MergeMeta(w)
      BY <3>1, NameMerge DEF Inv
    <3>2. CASE ~MergeMeta(w)
      BY <1>1, <2>2, <2>3, <3>2, NameUntouched DEF Inv
    <3> QED BY <3>1, <3>2
  <2> QED BY <2>1, <2>4, <2>5 DEF Inv
<1> QED BY <1>2, <1>3

LEMMA RenameStep ==
    ASSUME Inv, NEW w \in Workers,
           \/ \E i \in Ids, name \in Names : OpenTmp(w, i, name)
           \/ FillTmp(w) \/ MoveTmp(w) \/ MoveFails(w)
    PROVE  Inv'
<1>1. UNCHANGED <<db, log, life>>
  BY DEF OpenTmp, FillTmp, MoveTmp, MoveFails, disk
<1>2. TypeOK'
  BY RenameTyped DEF Inv
<1>3. \A k \in Ids : mishaps[k] \subseteq mishaps'[k]
  <2>1. CASE MoveTmp(w)
    BY <2>1 DEF MoveTmp, Inv, TypeOK
  <2>2. CASE \E i \in Ids, name \in Names : OpenTmp(w, i, name)
    BY <2>2 DEF OpenTmp, Inv, TypeOK
  <2>3. CASE FillTmp(w) \/ MoveFails(w)
    BY <2>3 DEF FillTmp, MoveFails
  <2> QED BY <2>1, <2>2, <2>3
<1>4. ASSUME NEW v \in Workers
      PROVE  job'[v] = job[v] \/ (job'[v].op # "search" /\ job'[v].op # "list")
  <2>1. CASE \E i \in Ids, name \in Names : OpenTmp(w, i, name)
    BY <2>1 DEF OpenTmp, Begin, Inv, TypeOK
  <2>2. CASE FillTmp(w)
    <3>1. job[w] \in Renames
      BY <2>2, JobKinds DEF FillTmp, At, Inv
    <3> QED BY <2>2, <3>1 DEF FillTmp, Inv, TypeOK, Renames
  <2>3. CASE MoveTmp(w)
    BY <2>3, JobKinds DEF MoveTmp, Replaced, Renames, Idle, Inv
  <2>4. CASE MoveFails(w)
    BY <2>4 DEF MoveFails, Finish, Inv, TypeOK, Idle
  <2> QED BY <2>1, <2>2, <2>3, <2>4
<1>5. \A k \in Ids : meta'[k] = meta[k] \/ meta'[k].bytes = 0
  <2>1. CASE FillTmp(w)
    <3>1. \A f \in Written(meta[job[w].id], job[w].name) : f.bytes = 0
      BY DEF Written, Meta, Torn
    <3> QED BY <2>1, <3>1 DEF FillTmp, Inv, TypeOK
  <2>2. CASE MoveTmp(w)
    BY <2>2 DEF MoveTmp, Inv, TypeOK
  <2>3. CASE ~FillTmp(w) /\ ~MoveTmp(w)
    BY <2>3 DEF OpenTmp, MoveFails, side
  <2> QED BY <2>1, <2>2, <2>3
<1>6. CountInv'
  BY <1>1, <1>3, <1>4, <1>5, CountFrame DEF Inv
<1>7. IndexInv' /\ SearchInv'
  BY <1>1, <1>3, <1>4, OtherSteps
<1>8. NameInv'
  <2>1. CASE MoveFails(w)
    <3>1. UNCHANGED <<side, life, mishaps>> /\ job' = [job EXCEPT ![w] = Idle]
      BY <2>1 DEF MoveFails, Finish, disk
    <3>2. \A v \in Workers : job'[v] = job[v] \/ job'[v].op = "none"
      BY <3>1 DEF Idle, Inv, TypeOK
    <3> QED BY <3>1, <3>2, NameUntouched DEF Inv
  <2> QED BY <2>1, NameOpen, NameFill, NameMove DEF Inv
<1> QED BY <1>2, <1>6, <1>7, <1>8 DEF Inv

LEMMA SearchStep ==
    ASSUME Inv, NEW w \in Workers,
           \/ StartSearch(w) \/ OpenLog(w) \/ ReadMark(w)
           \/ Commit(w) \/ CommitFails(w) \/ Query(w)
    PROVE  Inv'
<1>1. ASSUME UNCHANGED <<log, life, side>>,
             \A k \in Ids : mishaps[k] \subseteq mishaps'[k],
             \A v \in Workers : job'[v] = job[v] \/ job'[v].op \in {"none", "search"}
      PROVE  CountInv' /\ NameInv'
  BY <1>1, CountFrame, NameUntouched DEF Inv, side
<1>2. CASE Commit(w)
  <2>1. RowsInHand(w)
    BY DEF Inv, IndexInv
  <2>2. /\ NewRows(w) # {} => NewMark(NewRows(w)) \in Nat
        /\ \A v \in Workers \ {w} : job'[v] = job[v]
        /\ job'[w].op = "search" /\ job[w].id \in Ids
    BY <1>2, <2>1, CommitFacts DEF Inv
  <2>3. TypeOK' /\ IndexInv' /\ SearchInv'
    BY <1>2, <2>2, CommitTyped, IndexCommit, SearchCommit DEF Inv
  <2>4. UNCHANGED <<log, life, side>> /\ \A k \in Ids : mishaps[k] \subseteq mishaps'[k]
    BY <1>2, <2>2 DEF Commit, disk, Inv, TypeOK
  <2> QED BY <1>1, <2>2, <2>3, <2>4 DEF Inv
<1>3. CASE ~Commit(w)
  <2>1. TypeOK' /\ IndexInv' /\ SearchInv'
    BY <1>3, SearchTyped, IndexSearch, SearchSteps DEF Inv
  <2>2. UNCHANGED <<log, life, side, mishaps>>
    BY <1>3 DEF StartSearch, OpenLog, ReadMark, CommitFails, Query, disk
  <2>3. \A v \in Workers \ {w} : job'[v] = job[v]
    BY <1>3 DEF StartSearch, Begin, OpenLog, ReadMark, CommitFails, Query, Finish, Inv, TypeOK
  <2>4. job'[w].op \in {"none", "search"}
    <3>1. CASE StartSearch(w)
      BY <3>1 DEF StartSearch, Begin, Inv, TypeOK
    <3>2. CASE OpenLog(w)
      <4>1. job[w] \in Searches
        BY <3>2, JobKinds DEF OpenLog, At, Inv
      <4>2. PICK i : i = Min(job[w].todo)
        OBVIOUS
      <4>3. \/ job' = [job EXCEPT ![w] = Idle]
            \/ job' = [job EXCEPT ![w].at = "mark", ![w].id = i,
                                  ![w].rows = TextRows(i, life[i], log[i])]
        BY <3>2, <4>2 DEF OpenLog, Finish
      <4> QED BY <4>1, <4>3 DEF Inv, TypeOK, Searches, Idle
    <3>3. CASE ReadMark(w)
      <4>1. job[w] \in Searches
        BY <3>3, JobKinds DEF ReadMark, At, Inv
      <4> QED BY <3>3, <4>1 DEF ReadMark, Inv, TypeOK, Searches
    <3>4. CASE CommitFails(w) \/ Query(w)
      BY <3>4 DEF CommitFails, Query, Finish, Inv, TypeOK, Idle
    <3> QED BY <1>3, <3>1, <3>2, <3>3, <3>4
  <2> QED BY <1>1, <2>1, <2>2, <2>3, <2>4 DEF Inv
<1> QED BY <1>2, <1>3

LEMMA AbandonStep ==
    ASSUME Inv, NEW w \in Workers, Abandon(w)
    PROVE  Inv'
<1>1. UNCHANGED <<log, life, side, db, mishaps>>
  BY DEF Abandon, disk
<1>2. \A v \in Workers : job'[v] = job[v] \/ job'[v].op = "none"
  BY DEF Abandon, Finish, Inv, TypeOK, Idle
<1>3. CountInv' /\ NameInv'
  BY <1>1, <1>2, CountFrame, NameUntouched DEF Inv, side
<1>4. IndexInv' /\ SearchInv'
  BY <1>1, <1>2, OtherSteps
<1> QED BY <1>3, <1>4, AbandonTyped DEF Inv

LEMMA StutterStep == Inv /\ UNCHANGED vars => Inv'
<1> SUFFICES ASSUME Inv, UNCHANGED vars PROVE Inv'
  OBVIOUS
<1>1. UNCHANGED <<dir, log, meta, tmp, index, mark, job, life, landed, mishaps>>
  BY DEF vars, disk, side, db
<1>2. TypeOK'
  BY <1>1 DEF Inv, TypeOK, JobFits, At
<1>3. CountInv' /\ NameInv'
  BY <1>1, CountFrame, NameUntouched DEF Inv, side
<1>4. IndexInv' /\ SearchInv'
  BY <1>1, OtherSteps DEF db
<1> QED BY <1>2, <1>3, <1>4 DEF Inv

\* Every reachable state satisfies the inductive invariant.
THEOREM Invariance == Spec => []Inv
<1>1. Inv /\ [Next]_vars => Inv'
  <2> SUFFICES ASSUME Inv, [Next]_vars PROVE Inv'
    OBVIOUS
  <2>1. ASSUME NEW i \in Ids,
               \/ \E row \in Rows : AppendRow(i, row)
               \/ Damage(i) \/ DeleteSession(i)
        PROVE  Inv'
    BY <2>1, HostStep
  <2>2. ASSUME NEW w \in Workers,
               \/ \E i \in Ids : StatLog(w, i)
               \/ ReadCache(w) \/ CountLog(w) \/ MergeMeta(w)
               \/ InstallMeta(w) \/ InstallFails(w) \/ ReadName(w)
        PROVE  Inv'
    BY <2>2, ListStep
  <2>3. ASSUME NEW w \in Workers,
               \/ \E i \in Ids, name \in Names : OpenTmp(w, i, name)
               \/ FillTmp(w) \/ MoveTmp(w) \/ MoveFails(w)
        PROVE  Inv'
    BY <2>3, RenameStep
  <2>4. ASSUME NEW w \in Workers,
               \/ StartSearch(w) \/ OpenLog(w) \/ ReadMark(w)
               \/ Commit(w) \/ CommitFails(w) \/ Query(w)
        PROVE  Inv'
    BY <2>4, SearchStep
  <2>5. ASSUME NEW w \in Workers, Abandon(w) PROVE Inv'
    BY <2>5, AbandonStep
  <2>6. CASE UNCHANGED vars
    BY <2>6, StutterStep
  <2> QED BY <2>1, <2>2, <2>3, <2>4, <2>5, <2>6 DEF Next
<1> QED BY InitInv, <1>1, PTL DEF Spec

\* The message count a list shows was the log's own at some moment of the visit,
\* unless a delete came in the middle of an earlier one (session.rs,
\* cached_or_count_messages).
THEOREM ListCountsTruly == Spec => []CountWasTrue
<1>1. Inv => CountWasTrue
  <2> SUFFICES ASSUME Inv, NEW w \in Workers, At(w, "list", "name"),
                      job[w].life = life[job[w].id],
                      "deleteInList" \notin mishaps[job[w].id]
               PROVE  WasTrue(log[job[w].id], job[w].from, job[w].count)
    BY DEF CountWasTrue
  <2> QED BY DEF Inv, CountInv, ListTrue, At
<1> QED BY Invariance, <1>1, PTL

\* While a session's renames do not overlap each other or a list's write, and no
\* delete falls into a list, the name on disk is the one the last rename gave
\* (storage/mod.rs, write_meta; session.rs, write_msg_count_cache).
THEOREM NamesSurvive == Spec => []NameLostOnlyToOverlap
<1>1. Inv => NameLostOnlyToOverlap
  BY DEF Inv, NameInv, NameHeld, CleanNames, NameLostOnlyToOverlap
<1> QED BY Invariance, <1>1, PTL

\* However searches fail or are dropped, a row is indexed once unless two of them
\* overlap on its session (session_index.rs, reindex).
THEOREM RowsIndexedOnce == Spec => []IndexedOnce
<1>1. Inv => IndexedOnce
  BY DEF Inv, IndexInv, BelowMark, IndexedOnce
<1> QED BY Invariance, <1>1, PTL

\* A search that reaches its query has every row in the index that was on disk
\* when it began, save those of sessions deleted since their first life
\* (session_index.rs, reindex).
THEOREM SearchIsComplete == Spec => []SearchFindsWhatWasThere
<1>1. Inv => SearchFindsWhatWasThere
  <2> SUFFICES ASSUME Inv, NEW w \in Workers, At(w, "search", "open"), job[w].todo = {},
                      NEW r \in job[w].want, life[r.id] = 0
               PROVE  BagIn(r, index)
    BY DEF SearchFindsWhatWasThere
  <2> QED BY DEF Inv, SearchInv, Owes, At
<1> QED BY Invariance, <1>1, PTL
=============================================================================
