--------------------------- MODULE TranscriptProofs ---------------------------
(***************************************************************************)
(* Lemmas about sequences, and about the projections of Transcript for     *)
(* every log and every view: what a flattened list of sequences is, that   *)
(* elements taken from an increasing sequence increase, what one more row  *)
(* does to the derived messages, to the row-level count and to the token   *)
(* totals, what the repair adds to a view and what it leaves alone; slices *)
(* of a sequence; and that a view stays sound when results are cut short.  *)
(***************************************************************************)
EXTENDS Transcript, SequenceTheorems, WellFoundedInduction, TLAPS

-----------------------------------------------------------------------------
(* Sequences.                                                              *)

LEMMA SequenceDomain ==
    ASSUME NEW s, IsSequence(s)
    PROVE  /\ Len(s) \in Nat
           /\ DOMAIN s = 1 .. Len(s)
           /\ \A i \in 1 .. Len(s) : s[i] \in Range(s)
    BY DEF IsSequence, Range

LEMMA ListIsSequence ==
    ASSUME NEW s, NEW n \in Nat, s = [i \in 1 .. n |-> s[i]]
    PROVE  /\ IsSequence(s)
           /\ Len(s) = n
    <1>1. s \in Seq({s[i] : i \in 1 .. n})
        OBVIOUS
    <1> QED  BY <1>1 DEF IsSequence, Range

LEMMA TypedIsSequence ==
    ASSUME NEW T, NEW s \in Seq(T)
    PROVE  IsSequence(s)
    <1>1. Len(s) \in Nat /\ s = [i \in 1 .. Len(s) |-> s[i]]
        OBVIOUS
    <1> QED  BY <1>1, ListIsSequence

LEMMA AppendIsSequence ==
    ASSUME NEW s, IsSequence(s), NEW x
    PROVE  /\ IsSequence(Append(s, x))
           /\ Len(Append(s, x)) = Len(s) + 1
           /\ \A i \in DOMAIN s : Append(s, x)[i] = s[i]
           /\ Append(s, x)[Len(s) + 1] = x
    <1> DEFINE T == Range(s) \cup {x}
    <1>1. s \in Seq(T) /\ x \in T
        BY SequenceDomain DEF IsSequence
    <1> HIDE DEF T
    <1>2. Append(s, x) \in Seq(T) /\ Len(Append(s, x)) = Len(s) + 1
        BY <1>1
    <1>3. \A i \in DOMAIN s : Append(s, x)[i] = s[i]
        BY <1>1
    <1>4. Append(s, x)[Len(s) + 1] = x
        BY <1>1
    <1> QED  BY <1>2, <1>3, <1>4, TypedIsSequence

(* What a concatenation is, as one fact about a name for it.               *)
Joins(u, s, t) ==
    /\ IsSequence(u) /\ Len(u) = Len(s) + Len(t)
    /\ \A i \in DOMAIN s : u[i] = s[i]
    /\ \A i \in DOMAIN t : u[Len(s) + i] = t[i]

LEMMA ConcatJoins ==
    ASSUME NEW s, IsSequence(s), NEW t, IsSequence(t)
    PROVE  Joins(s \o t, s, t)
    <1> DEFINE T == Range(s) \cup Range(t)
    <1>1. s \in Seq(T) /\ t \in Seq(T)
        BY SequenceDomain DEF IsSequence
    <1> HIDE DEF T
    <1>2. s \o t \in Seq(T) /\ Len(s \o t) = Len(s) + Len(t)
        BY <1>1
    <1>3. \A i \in DOMAIN s : (s \o t)[i] = s[i]
        BY <1>1
    <1>4. \A i \in DOMAIN t : (s \o t)[Len(s) + i] = t[i]
        BY <1>1
    <1>5. IsSequence(s \o t)
        BY <1>2, TypedIsSequence
    <1> QED  BY <1>2, <1>3, <1>4, <1>5, Zenon DEF Joins

LEMMA ConcatIsSequence ==
    ASSUME NEW s, IsSequence(s), NEW t, IsSequence(t)
    PROVE  /\ IsSequence(s \o t)
           /\ Len(s \o t) = Len(s) + Len(t)
           /\ \A i \in DOMAIN s : (s \o t)[i] = s[i]
           /\ \A i \in DOMAIN t : (s \o t)[Len(s) + i] = t[i]
    <1>1. Joins(s \o t, s, t)
        BY ConcatJoins
    <1> QED  BY <1>1, Zenon DEF Joins

LEMMA EmptyIsSequence ==
    /\ \A S : <<>> \in Seq(S)
    /\ IsSequence(<<>>) /\ Len(<<>>) = 0
    BY DEF IsSequence

LEMMA SequenceWidens ==
    ASSUME NEW S, NEW T, S \subseteq T, NEW s \in Seq(S)
    PROVE  s \in Seq(T)
    OBVIOUS

LEMMA SameSequence ==
    ASSUME NEW s, IsSequence(s), NEW t, IsSequence(t), Len(s) = Len(t),
           \A i \in 1 .. Len(s) : s[i] = t[i]
    PROVE  s = t
    <1> DEFINE T == Range(s) \cup Range(t)
    <1>1. s \in Seq(T) /\ t \in Seq(T)
        BY DEF IsSequence
    <1> HIDE DEF T
    <1> QED  BY <1>1, SeqEqual

LEMMA SubSeqIsSequence ==
    ASSUME NEW s, IsSequence(s), NEW m \in Nat \ {0}, NEW n \in Nat, n <= Len(s)
    PROVE  /\ IsSequence(SubSeq(s, m, n))
           /\ Len(SubSeq(s, m, n)) = IF m <= n THEN n - m + 1 ELSE 0
           /\ \A i \in 1 .. (n - m + 1) : SubSeq(s, m, n)[i] = s[m + i - 1]
    <1>1. \A i \in m .. n : s[i] \in Range(s)
        BY SequenceDomain
    <1>2. /\ SubSeq(s, m, n) \in Seq(Range(s))
          /\ Len(SubSeq(s, m, n)) = IF m <= n THEN n - m + 1 ELSE 0
          /\ \A i \in 1 .. (n - m + 1) : SubSeq(s, m, n)[i] = s[m + i - 1]
        BY <1>1, SubSeqProperties
    <1> QED  BY <1>2, TypedIsSequence

LEMMA EmptyConcat ==
    ASSUME NEW s, IsSequence(s)
    PROVE  s \o <<>> = s /\ <<>> \o s = s
    BY ConcatEmptySeq DEF IsSequence

(* Three sequences, one after the other.                                   *)
Groups(s, t, u) == (s \o t) \o u = s \o (t \o u)

LEMMA ConcatGroups ==
    ASSUME NEW s, IsSequence(s), NEW t, IsSequence(t), NEW u, IsSequence(u)
    PROVE  Groups(s, t, u)
    <1>1. PICK v, w : v = s \o t /\ w = t \o u
        OBVIOUS
    <1>2. PICK x, y : x = v \o u /\ y = s \o w
        OBVIOUS
    <1>3. PICK a, b, c : /\ a \in Nat /\ a = Len(s) /\ DOMAIN s = 1 .. a
                         /\ b \in Nat /\ b = Len(t) /\ DOMAIN t = 1 .. b
                         /\ c \in Nat /\ c = Len(u) /\ DOMAIN u = 1 .. c
        BY SequenceDomain
    <1>4. Joins(v, s, t) /\ Joins(w, t, u)
        BY <1>1, ConcatJoins
    <1>5. IsSequence(v) /\ Len(v) = a + b /\ DOMAIN v = 1 .. (a + b)
          /\ (\A i \in 1 .. a : v[i] = s[i]) /\ (\A i \in 1 .. b : v[a + i] = t[i])
        BY <1>3, <1>4, SequenceDomain DEF Joins
    <1>6. IsSequence(w) /\ Len(w) = b + c /\ DOMAIN w = 1 .. (b + c)
          /\ (\A i \in 1 .. b : w[i] = t[i]) /\ (\A i \in 1 .. c : w[b + i] = u[i])
        BY <1>3, <1>4, SequenceDomain DEF Joins
    <1>7. Joins(x, v, u) /\ Joins(y, s, w)
        BY <1>2, <1>5, <1>6, ConcatJoins
    <1>8. IsSequence(x) /\ Len(x) = a + b + c
          /\ (\A i \in 1 .. (a + b) : x[i] = v[i]) /\ (\A i \in 1 .. c : x[a + b + i] = u[i])
        <2>1. /\ IsSequence(x) /\ Len(x) = Len(v) + Len(u)
              /\ \A i \in DOMAIN v : x[i] = v[i]
              /\ \A i \in DOMAIN u : x[Len(v) + i] = u[i]
            BY <1>7, Zenon DEF Joins
        <2>2. Len(x) = a + b + c
            BY <1>3, <1>5, <2>1
        <2>3. \A i \in 1 .. (a + b) : x[i] = v[i]
            BY <1>5, <2>1, Zenon
        <2>4. \A i \in 1 .. c : x[a + b + i] = u[i]
            BY <1>3, <1>5, <2>1, Zenon
        <2> QED  BY <2>1, <2>2, <2>3, <2>4, Zenon
    <1>9. IsSequence(y) /\ Len(y) = a + b + c
          /\ (\A i \in 1 .. a : y[i] = s[i]) /\ (\A i \in 1 .. (b + c) : y[a + i] = w[i])
        <2>1. /\ IsSequence(y) /\ Len(y) = Len(s) + Len(w)
              /\ \A i \in DOMAIN s : y[i] = s[i]
              /\ \A i \in DOMAIN w : y[Len(s) + i] = w[i]
            BY <1>7, Zenon DEF Joins
        <2>2. Len(y) = a + b + c
            BY <1>3, <1>6, <2>1
        <2>3. \A i \in 1 .. a : y[i] = s[i]
            BY <1>3, <2>1, Zenon
        <2>4. \A i \in 1 .. (b + c) : y[a + i] = w[i]
            BY <1>3, <1>6, <2>1, Zenon
        <2> QED  BY <2>1, <2>2, <2>3, <2>4, Zenon
    <1>10. ASSUME NEW i \in 1 .. (a + b + c)
           PROVE  x[i] = y[i]
        <2>1. CASE i <= a
            <3>1. i \in 1 .. a /\ i \in 1 .. (a + b)
                BY <1>3, <2>1
            <3> QED  BY <1>5, <1>8, <1>9, <3>1
        <2>2. CASE a < i /\ i <= a + b
            <3>1. PICK j \in 1 .. b : i = a + j /\ j \in 1 .. (b + c) /\ i \in 1 .. (a + b)
                <4>1. i - a \in 1 .. b /\ i = a + (i - a) /\ i - a \in 1 .. (b + c)
                      /\ i \in 1 .. (a + b)
                    BY <1>3, <2>2
                <4> QED  BY <4>1
            <3> QED  BY <1>5, <1>6, <1>8, <1>9, <3>1
        <2>3. CASE a + b < i
            <3>1. PICK j \in 1 .. c : i = a + b + j /\ b + j \in 1 .. (b + c) /\ i = a + (b + j)
                <4>1. /\ i - (a + b) \in 1 .. c /\ i = a + b + (i - (a + b))
                      /\ b + (i - (a + b)) \in 1 .. (b + c) /\ i = a + (b + (i - (a + b)))
                    BY <1>3, <2>3
                <4> QED  BY <4>1
            <3> QED  BY <1>6, <1>8, <1>9, <3>1
        <2> QED  BY <1>3, <2>1, <2>2, <2>3
    <1>11. x = y
        BY <1>8, <1>9, <1>10, SameSequence
    <1> QED  BY <1>1, <1>2, <1>11, Zenon DEF Groups

LEMMA SingletonIsSequence ==
    ASSUME NEW x
    PROVE  /\ IsSequence(<<x>>) /\ Len(<<x>>) = 1 /\ <<x>>[1] = x
           /\ <<x>> = Append(<<>>, x)
    <1>1. <<x>> \in Seq({x}) /\ Len(<<x>>) = 1 /\ <<x>>[1] = x
        OBVIOUS
    <1>2. Append(<<>>, x) \in Seq({x}) /\ Len(Append(<<>>, x)) = 1
          /\ Append(<<>>, x)[1] = x
        <2>1. <<>> \in Seq({x}) /\ x \in {x} /\ Len(<<>>) = 0
            OBVIOUS
        <2> QED  BY <2>1
    <1>3. <<x>> = Append(<<>>, x)
        BY <1>1, <1>2, SameSequence, TypedIsSequence
    <1> QED  BY <1>1, <1>3, TypedIsSequence

LEMMA AppendOne ==
    ASSUME NEW s, IsSequence(s), NEW x
    PROVE  Append(s, x) = s \o <<x>>
    <1> DEFINE T == Range(s) \cup {x}
    <1>1. s \in Seq(T) /\ x \in T
        BY DEF IsSequence
    <1> HIDE DEF T
    <1> QED  BY <1>1, AppendIsConcat

LEMMA NoElements ==
    ASSUME NEW s, IsSequence(s), Len(s) = 0
    PROVE  s = <<>>
    BY EmptyIsSequence, SequenceDomain, SameSequence

-----------------------------------------------------------------------------
(* Numbers.                                                                *)

(* Induction over a set of naturals: it needs no operator as a parameter.  *)
LEMMA NaturalInduction ==
    ASSUME NEW S \in SUBSET Nat, 0 \in S, \A n \in S : n + 1 \in S
    PROVE  S = Nat
    <1> DEFINE R == OpToRel(<, Nat)
               T == Nat \ S
    <1>1. IsWellFoundedOn(R, Nat)
        BY NatLessThanWellFounded
    <1>2. SUFFICES ASSUME T # {} PROVE FALSE
        OBVIOUS
    <1>3. PICK x \in T : \A y \in T : ~(<<y, x>> \in R)
        <2> HIDE DEF R
        <2> QED  BY <1>1, <1>2, WFMin
    <1>4. x \in Nat \ {0}
        OBVIOUS
    <1>5. x - 1 \in Nat /\ x - 1 < x
        BY <1>4
    <1>6. <<x - 1, x>> \in R
        BY <1>4, <1>5 DEF OpToRel
    <1>7. x - 1 \in S
        BY <1>3, <1>5, <1>6
    <1> QED  BY <1>4, <1>7

(* The highest of some positions.                                          *)
LEMMA HighestPosition ==
    ASSUME NEW n \in Nat, NEW S \in SUBSET (1 .. n), S # {}
    PROVE  Max(S) \in S /\ \A x \in S : x <= Max(S)
    <1> DEFINE Topped(k) == \A T \in SUBSET (1 .. k) :
                                T # {} => \E m \in T : \A x \in T : x <= m
               G == {k \in Nat : Topped(k)}
    <1>1. 0 \in G
        <2>1. 1 .. 0 = {}
            OBVIOUS
        <2> QED  BY <2>1
    <1>2. ASSUME NEW k \in G PROVE k + 1 \in G
        <2> SUFFICES ASSUME NEW T \in SUBSET (1 .. (k + 1)), T # {}
                     PROVE  \E m \in T : \A x \in T : x <= m
            OBVIOUS
        <2>1. CASE k + 1 \in T
            BY <2>1
        <2>2. CASE k + 1 \notin T
            <3>1. T \in SUBSET (1 .. k)
                BY <2>2
            <3> QED  BY <3>1
        <2> QED  BY <2>1, <2>2
    <1>3. G = Nat
        <2> HIDE DEF G
        <2> QED  BY <1>1, <1>2, NaturalInduction DEF G
    <1>4. PICK m \in S : \A x \in S : x <= m
        BY <1>3
    <1> QED  BY <1>4 DEF Max

-----------------------------------------------------------------------------
(* Flattening.  FlattenSeq is the last value of a function over 1..n that  *)
(* is defined by recursion; it exists and is unique.                       *)

Flattens(f, ss, n) ==
    f = [i \in 1 .. n |-> IF i = 1 THEN ss[i] ELSE f[i - 1] \o ss[i]]

LEMMA FlattensAt ==
    ASSUME NEW ss, NEW n, NEW f, Flattens(f, ss, n), NEW i \in 1 .. n
    PROVE  f[i] = IF i = 1 THEN ss[i] ELSE f[i - 1] \o ss[i]
    <1> DEFINE e(j) == IF j = 1 THEN ss[j] ELSE f[j - 1] \o ss[j]
    <1>1. f = [j \in 1 .. n |-> e(j)]
        BY Zenon DEF Flattens
    <1>2. f[i] = e(i)
        <2> HIDE DEF e
        <2> QED  BY <1>1
    <1> QED  BY <1>2

LEMMA FlattensExists ==
    ASSUME NEW ss, NEW n \in Nat
    PROVE  \E f : Flattens(f, ss, n)
    <1> DEFINE G == {k \in Nat : \E f : Flattens(f, ss, k)}
    <1>1. 0 \in G
        <2> DEFINE f == [i \in 1 .. 0 |-> {}]
        <2>1. f = [i \in 1 .. 0 |-> IF i = 1 THEN ss[i] ELSE f[i - 1] \o ss[i]]
            BY 1 .. 0 = {}
        <2> HIDE DEF f
        <2> QED  BY <2>1 DEF Flattens
    <1>2. ASSUME NEW k \in G PROVE k + 1 \in G
        <2>1. PICK f : Flattens(f, ss, k)
            OBVIOUS
        <2> DEFINE e == IF k = 0 THEN ss[1] ELSE f[k] \o ss[k + 1]
                   g == [i \in 1 .. (k + 1) |-> IF i = k + 1 THEN e ELSE f[i]]
        <2>2. k \in Nat /\ f = [i \in 1 .. k |-> IF i = 1 THEN ss[i] ELSE f[i - 1] \o ss[i]]
            BY <2>1 DEF Flattens
        <2>3. ASSUME NEW i \in 1 .. (k + 1)
              PROVE  g[i] = IF i = 1 THEN ss[i] ELSE g[i - 1] \o ss[i]
            <3>1. CASE i = k + 1 /\ k = 0
                BY <3>1
            <3>2. CASE i = k + 1 /\ k > 0
                <4>1. k \in 1 .. (k + 1) /\ k # k + 1 /\ i # 1 /\ i - 1 = k /\ k # 0
                    BY <2>2, <3>2
                <4>2. g[k] = f[k] /\ g[i] = f[k] \o ss[k + 1]
                    BY <3>2, <4>1
                <4> QED  BY <3>2, <4>1, <4>2
            <3>3. CASE i = 1 /\ k > 0
                <4>1. 1 \in 1 .. k /\ 1 # k + 1
                    BY <2>2, <3>3
                <4> QED  BY <2>2, <3>3, <4>1
            <3>4. CASE i # 1 /\ i # k + 1
                <4>1. i \in 1 .. k /\ i - 1 \in 1 .. k /\ i - 1 \in 1 .. (k + 1)
                      /\ i - 1 # k + 1
                    BY <2>2, <3>4
                <4>2. g[i] = f[i] /\ g[i - 1] = f[i - 1]
                    BY <3>4, <4>1
                <4>3. f[i] = f[i - 1] \o ss[i]
                    BY <2>2, <3>4, <4>1
                <4> QED  BY <3>4, <4>2, <4>3
            <3>5. \/ i = k + 1 /\ k = 0
                  \/ i = k + 1 /\ k > 0
                  \/ i = 1 /\ k > 0
                  \/ i # 1 /\ i # k + 1
                BY <2>2
            <3> QED  BY <3>1, <3>2, <3>3, <3>4, <3>5, Zenon
        <2>4. g = [i \in 1 .. (k + 1) |-> IF i = 1 THEN ss[i] ELSE g[i - 1] \o ss[i]]
            <3>1. g = [i \in 1 .. (k + 1) |-> g[i]]
                OBVIOUS
            <3> HIDE DEF g
            <3> QED  BY <2>3, <3>1
        <2> HIDE DEF g
        <2>5. Flattens(g, ss, k + 1)
            BY <2>4, Zenon DEF Flattens
        <2> QED  BY <2>2, <2>5
    <1>3. G = Nat
        <2> HIDE DEF G
        <2> QED  BY <1>1, <1>2, NaturalInduction DEF G
    <1> QED  BY <1>3

LEMMA FlattensAgree ==
    ASSUME NEW ss, NEW tt, NEW f, NEW g, NEW m \in Nat, NEW n \in Nat, m <= n,
           Flattens(f, ss, m), Flattens(g, tt, n), \A i \in 1 .. m : ss[i] = tt[i]
    PROVE  \A i \in 1 .. m : f[i] = g[i]
    <1> DEFINE G == {k \in Nat : k \in 1 .. m => f[k] = g[k]}
    <1>1. 0 \in G
        OBVIOUS
    <1>2. ASSUME NEW k \in G PROVE k + 1 \in G
        <2> SUFFICES ASSUME k + 1 \in 1 .. m PROVE f[k + 1] = g[k + 1]
            OBVIOUS
        <2>1. k \in Nat /\ k + 1 \in 1 .. n /\ ss[k + 1] = tt[k + 1]
            OBVIOUS
        <2>2. f[k + 1] = (IF k = 0 THEN ss[1] ELSE f[k] \o ss[k + 1])
            BY <2>1, FlattensAt
        <2>3. g[k + 1] = (IF k = 0 THEN tt[1] ELSE g[k] \o tt[k + 1])
            BY <2>1, FlattensAt
        <2>4. k # 0 => f[k] = g[k]
            BY <2>1
        <2> QED  BY <2>1, <2>2, <2>3, <2>4
    <1>3. G = Nat
        <2> HIDE DEF G
        <2> QED  BY <1>1, <1>2, NaturalInduction DEF G
    <1> QED  BY <1>3

LEMMA FlattenIs ==
    ASSUME NEW ss, IsSequence(ss), Len(ss) > 0, NEW f, Flattens(f, ss, Len(ss))
    PROVE  FlattenSeq(ss) = f[Len(ss)]
    <1> DEFINE n == Len(ss)
               g == CHOOSE h : Flattens(h, ss, n)
    <1>1. n \in Nat /\ n # 0 /\ n > 0
        BY SequenceDomain
    <1>2. FlattenSeq(ss) = (CHOOSE h : h = [i \in 1 .. n |-> IF i = 1 THEN ss[i]
                                                ELSE h[i - 1] \o ss[i]])[n]
        BY <1>1, Zenon DEF FlattenSeq
    <1>3. FlattenSeq(ss) = g[n]
        BY <1>2, Zenon DEF Flattens
    <1>4. Flattens(g, ss, n)
        BY Zenon
    <1>5. n \in 1 .. n
        BY <1>1
    <1> HIDE DEF n, g
    <1>6. g[n] = f[n]
        BY <1>1, <1>4, <1>5, FlattensAgree DEF n
    <1> QED  BY <1>3, <1>6 DEF n

LEMMA FlattenNone == FlattenSeq(<<>>) = <<>>
    BY EmptyIsSequence, Zenon DEF FlattenSeq

LEMMA FlattenOne ==
    ASSUME NEW x
    PROVE  FlattenSeq(<<x>>) = x
    <1>1. IsSequence(<<x>>) /\ Len(<<x>>) = 1 /\ <<x>>[1] = x
        BY SingletonIsSequence
    <1>2. PICK f : Flattens(f, <<x>>, 1)
        BY FlattensExists
    <1>3. f[1] = x
        BY <1>1, <1>2, FlattensAt
    <1>4. Flattens(f, <<x>>, Len(<<x>>)) /\ Len(<<x>>) > 0
        BY <1>1, <1>2
    <1>5. FlattenSeq(<<x>>) = f[Len(<<x>>)]
        BY <1>1, <1>4, FlattenIs
    <1> QED  BY <1>1, <1>3, <1>5

(* One more sequence in the list.                                          *)
LEMMA FlattenAppend ==
    ASSUME NEW ss, IsSequence(ss), NEW x, IsSequence(x)
    PROVE  FlattenSeq(Append(ss, x)) = FlattenSeq(ss) \o x
    <1> DEFINE n == Len(ss)
               tt == Append(ss, x)
    <1>1. n \in Nat
        BY SequenceDomain
    <1>2. /\ IsSequence(tt) /\ Len(tt) = n + 1
          /\ \A i \in 1 .. n : tt[i] = ss[i]
          /\ tt[n + 1] = x
        BY AppendIsSequence, SequenceDomain
    <1>3. CASE n = 0
        <2>1. ss = <<>>
            BY <1>3, NoElements
        <2> QED  BY <2>1, FlattenNone, FlattenOne, SingletonIsSequence, EmptyConcat
    <1>4. CASE n > 0
        <2> HIDE DEF tt
        <2>1. PICK f : Flattens(f, ss, n)
            BY <1>1, FlattensExists
        <2>2. PICK g : Flattens(g, tt, n + 1)
            BY <1>1, FlattensExists
        <2>3. n \in 1 .. n /\ n + 1 \in 1 .. (n + 1) /\ n <= n + 1 /\ n + 1 # 1 /\ n + 1 \in Nat
            BY <1>1, <1>4
        <2>4. f[n] = g[n]
            <3>1. \A i \in 1 .. n : ss[i] = tt[i]
                BY <1>2
            <3> HIDE DEF n
            <3>2. \A i \in 1 .. n : f[i] = g[i]
                BY <1>1, <2>1, <2>2, <2>3, <3>1, FlattensAgree
            <3> QED  BY <2>3, <3>2
        <2>5. g[n + 1] = g[n] \o x
            <3> DEFINE m == n + 1
            <3>1. Flattens(g, tt, m) /\ m \in 1 .. m
                BY <2>2, <2>3
            <3>2. m # 1 /\ m - 1 = n /\ tt[m] = x
                BY <1>1, <1>2, <2>3
            <3> HIDE DEF m
            <3>3. ASSUME NEW i \in 1 .. m
                  PROVE  g[i] = IF i = 1 THEN tt[i] ELSE g[i - 1] \o tt[i]
                BY <3>1, FlattensAt
            <3>4. g[m] = IF m = 1 THEN tt[m] ELSE g[m - 1] \o tt[m]
                BY <3>1, <3>3
            <3> QED  BY <3>2, <3>4 DEF m
        <2>6. FlattenSeq(ss) = f[n]
            BY <1>4, <2>1, FlattenIs
        <2>7. FlattenSeq(tt) = g[n + 1]
            <3>1. Flattens(g, tt, Len(tt)) /\ Len(tt) > 0
                BY <1>1, <1>2, <2>2
            <3> QED  BY <1>2, <3>1, FlattenIs
        <2> QED  BY <2>4, <2>5, <2>6, <2>7 DEF tt
    <1> QED  BY <1>1, <1>3, <1>4

(* The first n elements, and how they grow.                                *)
Take(s, n) == SubSeq(s, 1, n)

LEMMA TakeProperties ==
    ASSUME NEW s, IsSequence(s), NEW n \in 0 .. Len(s)
    PROVE  /\ IsSequence(Take(s, n)) /\ Len(Take(s, n)) = n
           /\ DOMAIN Take(s, n) = 1 .. n
           /\ \A i \in 1 .. n : Take(s, n)[i] = s[i]
    <1>1. n \in Nat /\ n <= Len(s) /\ 1 \in Nat \ {0}
        BY SequenceDomain
    <1>2. /\ IsSequence(Take(s, n))
          /\ Len(Take(s, n)) = IF 1 <= n THEN n - 1 + 1 ELSE 0
          /\ \A i \in 1 .. (n - 1 + 1) : Take(s, n)[i] = s[1 + i - 1]
        BY <1>1, SubSeqIsSequence DEF Take
    <1>3. Len(Take(s, n)) = n
        BY <1>1, <1>2
    <1> QED  BY <1>1, <1>2, <1>3, SequenceDomain

LEMMA TakeEnds ==
    ASSUME NEW s, IsSequence(s)
    PROVE  /\ Take(s, 0) = <<>> /\ Take(s, Len(s)) = s
           /\ \A n \in Nat : n < Len(s) => Take(s, n + 1) = Append(Take(s, n), s[n + 1])
    <1>1. Len(s) \in Nat
        BY SequenceDomain
    <1>2. Take(s, 0) = <<>>
        BY <1>1, TakeProperties, NoElements
    <1>3. Take(s, Len(s)) = s
        BY <1>1, TakeProperties, SameSequence
    <1>4. ASSUME NEW n \in Nat, n < Len(s)
          PROVE  Take(s, n + 1) = Append(Take(s, n), s[n + 1])
        <2> DEFINE t == Take(s, n)
                   u == Take(s, n + 1)
                   v == Append(t, s[n + 1])
        <2>1. n \in 0 .. Len(s) /\ n + 1 \in 0 .. Len(s)
            BY <1>1, <1>4
        <2>2. /\ IsSequence(t) /\ Len(t) = n /\ DOMAIN t = 1 .. n
              /\ \A i \in 1 .. n : t[i] = s[i]
            BY <2>1, TakeProperties
        <2>3. /\ IsSequence(u) /\ Len(u) = n + 1
              /\ \A i \in 1 .. (n + 1) : u[i] = s[i]
            BY <2>1, TakeProperties
        <2>4. /\ IsSequence(v) /\ Len(v) = n + 1
              /\ \A i \in 1 .. n : v[i] = t[i]
              /\ v[n + 1] = s[n + 1]
            <3> HIDE DEF t
            <3> QED  BY <2>2, AppendIsSequence
        <2> HIDE DEF t, u, v
        <2>5. \A i \in 1 .. (n + 1) : u[i] = v[i]
            BY <2>2, <2>3, <2>4
        <2> QED  BY <2>3, <2>4, <2>5, SameSequence DEF t, u, v
    <1> QED  BY <1>2, <1>3, <1>4

LEMMA RangeConcat ==
    ASSUME NEW s, IsSequence(s), NEW t, IsSequence(t)
    PROVE  Range(s \o t) = Range(s) \cup Range(t)
    <1>0. PICK u : u = s \o t
        OBVIOUS
    <1>1. /\ IsSequence(u) /\ Len(u) = Len(s) + Len(t)
          /\ \A i \in DOMAIN s : u[i] = s[i]
          /\ \A i \in DOMAIN t : u[Len(s) + i] = t[i]
        <2>1. Joins(s \o t, s, t)
            BY ConcatJoins
        <2> QED  BY <1>0, <2>1, Zenon DEF Joins
    <1>2. /\ Len(s) \in Nat /\ DOMAIN s = 1 .. Len(s)
          /\ Len(t) \in Nat /\ DOMAIN t = 1 .. Len(t)
          /\ DOMAIN u = 1 .. (Len(s) + Len(t))
        BY <1>1, SequenceDomain
    <1>3. ASSUME NEW i \in DOMAIN u
          PROVE  u[i] \in Range(s) \cup Range(t)
        <2>1. CASE i <= Len(s)
            BY <1>1, <1>2, <2>1 DEF Range
        <2>2. CASE i > Len(s)
            <3>1. i - Len(s) \in DOMAIN t /\ Len(s) + (i - Len(s)) = i
                BY <1>2, <2>2
            <3>2. u[i] = t[i - Len(s)]
                BY <1>1, <3>1
            <3> QED  BY <3>1, <3>2 DEF Range
        <2> QED  BY <1>2, <2>1, <2>2
    <1>4. Range(s) \subseteq Range(u)
        BY <1>1, <1>2 DEF Range
    <1>5. ASSUME NEW i \in DOMAIN t
          PROVE  t[i] \in Range(u)
        <2>1. Len(s) + i \in DOMAIN u
            BY <1>2
        <2> QED  BY <1>1, <2>1 DEF Range
    <1>6. Range(u) \subseteq Range(s) \cup Range(t)
        BY <1>3 DEF Range
    <1>7. Range(t) \subseteq Range(u)
        BY <1>5 DEF Range
    <1> QED  BY <1>0, <1>4, <1>6, <1>7

LEMMA AppendToConcat ==
    ASSUME NEW s, IsSequence(s), NEW t, IsSequence(t), NEW x
    PROVE  s \o Append(t, x) = Append(s \o t, x)
    <1>1. IsSequence(s \o t) /\ IsSequence(<<x>>)
        BY ConcatIsSequence, SingletonIsSequence
    <1>2. Append(t, x) = t \o <<x>> /\ Append(s \o t, x) = (s \o t) \o <<x>>
        BY <1>1, AppendOne
    <1>3. PICK u : u = <<x>>
        OBVIOUS
    <1>4. IsSequence(u)
        BY <1>1, <1>3
    <1>5. (s \o t) \o u = s \o (t \o u)
        <2>1. Groups(s, t, u)
            BY <1>4, ConcatGroups
        <2> QED  BY <2>1, Zenon DEF Groups
    <1> QED  BY <1>2, <1>3, <1>5

(* Lists of sequences.                                                     *)
IsList(ss) == IsSequence(ss) /\ \A i \in DOMAIN ss : IsSequence(ss[i])

LEMMA FlattenTakes ==
    ASSUME NEW ss, IsList(ss), NEW n \in Nat, n < Len(ss)
    PROVE  FlattenSeq(Take(ss, n + 1)) = FlattenSeq(Take(ss, n)) \o ss[n + 1]
    <1> DEFINE t == Take(ss, n)
               x == ss[n + 1]
    <1>1. Len(ss) \in Nat /\ DOMAIN ss = 1 .. Len(ss) /\ IsSequence(ss)
        BY SequenceDomain DEF IsList
    <1>2. Take(ss, n + 1) = Append(t, x)
        BY <1>1, TakeEnds
    <1>3. IsSequence(t)
        BY <1>1, TakeProperties
    <1>4. IsSequence(x)
        BY <1>1 DEF IsList
    <1> HIDE DEF t, x
    <1>5. FlattenSeq(Append(t, x)) = FlattenSeq(t) \o x
        BY <1>3, <1>4, FlattenAppend
    <1> QED  BY <1>2, <1>5 DEF t, x

LEMMA FlattenIsSequence ==
    ASSUME NEW ss, IsList(ss)
    PROVE  /\ IsSequence(FlattenSeq(ss))
           /\ \A n \in 0 .. Len(ss) : IsSequence(FlattenSeq(Take(ss, n)))
           /\ Range(FlattenSeq(ss)) = UNION {Range(ss[i]) : i \in DOMAIN ss}
    <1> DEFINE F(n) == FlattenSeq(Take(ss, n))
               Good(n) == /\ IsSequence(F(n))
                          /\ Range(F(n)) = UNION {Range(ss[i]) : i \in 1 .. n}
               G == {n \in Nat : n <= Len(ss) => Good(n)}
    <1>1. Len(ss) \in Nat /\ DOMAIN ss = 1 .. Len(ss) /\ IsSequence(ss)
        BY SequenceDomain DEF IsList
    <1>2. 0 \in G
        <2>1. F(0) = <<>>
            BY <1>1, TakeEnds, FlattenNone
        <2>2. 1 .. 0 = {} /\ Range(<<>>) = {}
            BY DEF Range
        <2> QED  BY <2>1, <2>2, EmptyIsSequence
    <1>3. ASSUME NEW n \in G PROVE n + 1 \in G
        <2> SUFFICES ASSUME n + 1 <= Len(ss) PROVE Good(n + 1)
            BY <1>1
        <2>1. n \in Nat /\ n < Len(ss) /\ n <= Len(ss)
            BY <1>1
        <2>2. F(n + 1) = F(n) \o ss[n + 1]
            BY <1>1, <2>1, FlattenTakes
        <2>2a. IsSequence(ss[n + 1])
            BY <1>1, <2>1 DEF IsList
        <2>3. Good(n)
            BY <2>1
        <2>4. IsSequence(F(n) \o ss[n + 1])
              /\ Range(F(n) \o ss[n + 1]) = Range(F(n)) \cup Range(ss[n + 1])
            <3> DEFINE f == F(n)
                       x == ss[n + 1]
            <3>1. IsSequence(f) /\ IsSequence(x)
                BY <2>2a, <2>3
            <3> HIDE DEF f, x
            <3>2. IsSequence(f \o x) /\ Range(f \o x) = Range(f) \cup Range(x)
                BY <3>1, ConcatIsSequence, RangeConcat
            <3> QED  BY <3>2 DEF f, x
        <2>5. UNION {Range(ss[i]) : i \in 1 .. (n + 1)}
                = (UNION {Range(ss[i]) : i \in 1 .. n}) \cup Range(ss[n + 1])
            <3>1. 1 .. (n + 1) = 1 .. n \cup {n + 1}
                BY <2>1
            <3> QED  BY <3>1
        <2> HIDE DEF F
        <2> QED  BY <2>2, <2>3, <2>4, <2>5
    <1>4. G = Nat
        <2> HIDE DEF G
        <2> QED  BY <1>2, <1>3, NaturalInduction DEF G
    <1>5. \A n \in 0 .. Len(ss) : Good(n)
        <2> HIDE DEF Good
        <2> QED  BY <1>1, <1>4
    <1>6. Good(Len(ss)) /\ F(Len(ss)) = FlattenSeq(ss)
        BY <1>1, <1>5, TakeEnds
    <1> QED  BY <1>1, <1>5, <1>6

LEMMA FlattenConcat ==
    ASSUME NEW ss, IsList(ss), NEW tt, IsList(tt)
    PROVE  FlattenSeq(ss \o tt) = FlattenSeq(ss) \o FlattenSeq(tt)
    <1> DEFINE f == FlattenSeq(ss)
               F(n) == FlattenSeq(Take(tt, n))
               G == {n \in Nat : n <= Len(tt) => FlattenSeq(ss \o Take(tt, n)) = f \o F(n)}
    <1>1. Len(tt) \in Nat /\ DOMAIN tt = 1 .. Len(tt) /\ IsSequence(tt) /\ IsSequence(ss)
        BY SequenceDomain DEF IsList
    <1>2. IsSequence(f) /\ \A n \in 0 .. Len(tt) : IsSequence(F(n))
        BY FlattenIsSequence
    <1>3. 0 \in G
        <2>1. Take(tt, 0) = <<>>
            BY <1>1, TakeEnds
        <2>2. ss \o Take(tt, 0) = ss
            BY <1>1, <2>1, EmptyConcat
        <2>3. F(0) = <<>>
            BY <2>1, FlattenNone
        <2> HIDE DEF f, F
        <2>4. f \o F(0) = f
            BY <1>2, <2>3, EmptyConcat
        <2> QED  BY <2>2, <2>4 DEF f
    <1>4. ASSUME NEW n \in G PROVE n + 1 \in G
        <2> SUFFICES ASSUME n + 1 <= Len(tt)
                     PROVE  FlattenSeq(ss \o Take(tt, n + 1)) = f \o F(n + 1)
            BY <1>1
        <2> DEFINE t == Take(tt, n)
                   x == tt[n + 1]
        <2>1. n \in Nat /\ n < Len(tt) /\ n <= Len(tt) /\ n \in 0 .. Len(tt)
            BY <1>1
        <2>2. FlattenSeq(ss \o t) = f \o F(n)
            BY <2>1
        <2>3. IsSequence(t) /\ IsSequence(x)
            BY <1>1, <2>1, TakeProperties DEF IsList
        <2>4. Take(tt, n + 1) = Append(t, x) /\ F(n + 1) = F(n) \o x
            BY <1>1, <2>1, TakeEnds, FlattenTakes
        <2>5. ss \o Append(t, x) = Append(ss \o t, x)
            <3> HIDE DEF t, x
            <3> QED  BY <1>1, <2>3, AppendToConcat
        <2>6. FlattenSeq(Append(ss \o t, x)) = FlattenSeq(ss \o t) \o x
            <3> HIDE DEF t, x
            <3> DEFINE u == ss \o t
            <3>1. IsSequence(u)
                BY <1>1, <2>3, ConcatIsSequence
            <3> HIDE DEF u
            <3>2. FlattenSeq(Append(u, x)) = FlattenSeq(u) \o x
                BY <2>3, <3>1, FlattenAppend
            <3> QED  BY <3>2 DEF u
        <2>7. (f \o F(n)) \o x = f \o (F(n) \o x)
            <3> DEFINE e == F(n)
            <3>1. IsSequence(e) /\ IsSequence(f) /\ IsSequence(x)
                BY <1>2, <2>1, <2>3
            <3> HIDE DEF e, f, x
            <3>2. (f \o e) \o x = f \o (e \o x)
                <4>1. Groups(f, e, x)
                    BY <3>1, ConcatGroups
                <4> QED  BY <4>1, Zenon DEF Groups
            <3> QED  BY <3>2 DEF e
        <2> HIDE DEF f, F, t, x
        <2> QED  BY <2>2, <2>4, <2>5, <2>6, <2>7
    <1>5. G = Nat
        <2> HIDE DEF G
        <2> QED  BY <1>3, <1>4, NaturalInduction DEF G
    <1>6. FlattenSeq(ss \o Take(tt, Len(tt))) = f \o F(Len(tt))
        BY <1>1, <1>5
    <1> QED  BY <1>1, <1>6, TakeEnds

-----------------------------------------------------------------------------
(* Elements at some positions.                                             *)

Picked(s, P) == [k \in DOMAIN s |-> IF k \in P THEN <<s[k]>> ELSE <<>>]

LEMMA PickedIsList ==
    ASSUME NEW s, IsSequence(s), NEW P
    PROVE  /\ IsList(Picked(s, P)) /\ Len(Picked(s, P)) = Len(s)
           /\ DOMAIN Picked(s, P) = 1 .. Len(s)
           /\ \A k \in 1 .. Len(s) :
                 Picked(s, P)[k] = IF k \in P THEN <<s[k]>> ELSE <<>>
           /\ ElementsAt(s, P) = FlattenSeq(Picked(s, P))
    <1> DEFINE e(k) == IF k \in P THEN <<s[k]>> ELSE <<>>
    <1>1. Len(s) \in Nat /\ DOMAIN s = 1 .. Len(s)
        BY SequenceDomain
    <1>2. Picked(s, P) = [k \in 1 .. Len(s) |-> e(k)]
        BY <1>1 DEF Picked
    <1> DEFINE q == Picked(s, P)
    <1>3. \A k \in 1 .. Len(s) : q[k] = e(k)
        <2> HIDE DEF e
        <2> QED  BY <1>2
    <1>4. q = [k \in 1 .. Len(s) |-> q[k]]
        <2> HIDE DEF e
        <2> QED  BY <1>2
    <1>5. IsSequence(q) /\ Len(q) = Len(s)
        <2> HIDE DEF q
        <2> QED  BY <1>1, <1>4, ListIsSequence
    <1>6. \A k \in 1 .. Len(s) : IsSequence(e(k))
        BY EmptyIsSequence, SingletonIsSequence
    <1>7. DOMAIN q = 1 .. Len(s)
        BY <1>5, SequenceDomain
    <1>8. IsList(q)
        <2> HIDE DEF q, e
        <2> QED  BY <1>3, <1>5, <1>6, <1>7 DEF IsList
    <1>9. ElementsAt(s, P) = FlattenSeq(q)
        BY Zenon DEF ElementsAt, Picked
    <1> HIDE DEF q
    <1> QED  BY <1>3, <1>5, <1>7, <1>8, <1>9 DEF q

LEMMA ElementsRange ==
    ASSUME NEW s, IsSequence(s), NEW P
    PROVE  /\ IsSequence(ElementsAt(s, P))
           /\ Range(ElementsAt(s, P)) = {s[k] : k \in {i \in DOMAIN s : i \in P}}
    <1> DEFINE q == Picked(s, P)
               n == Len(s)
    <1>1. /\ IsList(q) /\ DOMAIN q = 1 .. n /\ DOMAIN s = 1 .. n
          /\ \A k \in 1 .. n : q[k] = IF k \in P THEN <<s[k]>> ELSE <<>>
          /\ ElementsAt(s, P) = FlattenSeq(q)
        BY PickedIsList, SequenceDomain
    <1>2. \A x : Range(<<x>>) = {x}
        BY DEF Range
    <1>3. Range(<<>>) = {}
        BY DEF Range
    <1> HIDE DEF q, n
    <1>4. \A k \in 1 .. n : Range(q[k]) = IF k \in P THEN {s[k]} ELSE {}
        BY <1>1, <1>2, <1>3
    <1>5. IsSequence(FlattenSeq(q)) /\ Range(FlattenSeq(q)) = UNION {Range(q[i]) : i \in 1 .. n}
        BY <1>1, FlattenIsSequence
    <1>6. UNION {Range(q[i]) : i \in 1 .. n} = {s[k] : k \in {i \in 1 .. n : i \in P}}
        BY <1>4
    <1> QED  BY <1>1, <1>5, <1>6

(* The elements at P of s \o t are those of s and those at Q of t.         *)
ElementsFollow(s, t, P, Q) == ElementsAt(s \o t, P) = ElementsAt(s, P) \o ElementsAt(t, Q)

LEMMA ElementsConcat ==
    ASSUME NEW s, IsSequence(s), NEW t, IsSequence(t), NEW P, NEW Q,
           \A k \in DOMAIN t : k \in Q <=> Len(s) + k \in P
    PROVE  ElementsFollow(s, t, P, Q)
    <1> DEFINE m == Len(s)
               n == Len(t)
               p == Picked(s, P)
               q == Picked(t, Q)
    <1>1. m \in Nat /\ DOMAIN s = 1 .. m /\ n \in Nat /\ DOMAIN t = 1 .. n
        BY SequenceDomain
    <1>2. PICK u : u = s \o t
        OBVIOUS
    <1>3. /\ IsSequence(u) /\ Len(u) = m + n
          /\ \A i \in DOMAIN s : u[i] = s[i]
          /\ \A i \in DOMAIN t : u[m + i] = t[i]
        <2>1. Joins(s \o t, s, t)
            BY ConcatJoins
        <2> QED  BY <1>1, <1>2, <2>1, Zenon DEF Joins
    <1>4. PICK r : r = Picked(u, P)
        OBVIOUS
    <1>5. /\ IsList(r) /\ Len(r) = m + n
          /\ \A k \in 1 .. (m + n) : r[k] = IF k \in P THEN <<u[k]>> ELSE <<>>
          /\ ElementsAt(u, P) = FlattenSeq(r)
        BY <1>3, <1>4, PickedIsList
    <1>6. /\ IsList(p) /\ Len(p) = m /\ DOMAIN p = 1 .. m
          /\ \A k \in 1 .. m : p[k] = IF k \in P THEN <<s[k]>> ELSE <<>>
          /\ ElementsAt(s, P) = FlattenSeq(p)
        BY PickedIsList
    <1>7. /\ IsList(q) /\ Len(q) = n /\ DOMAIN q = 1 .. n
          /\ \A k \in 1 .. n : q[k] = IF k \in Q THEN <<t[k]>> ELSE <<>>
          /\ ElementsAt(t, Q) = FlattenSeq(q)
        BY PickedIsList
    <1> HIDE DEF m, n, p, q
    <1>8. PICK w : w = p \o q
        OBVIOUS
    <1>9. /\ IsSequence(w) /\ Len(w) = m + n
          /\ \A i \in 1 .. m : w[i] = p[i]
          /\ \A i \in 1 .. n : w[m + i] = q[i]
        <2>1. IsSequence(p) /\ IsSequence(q)
            BY <1>6, <1>7 DEF IsList
        <2>2. /\ IsSequence(w) /\ Len(w) = Len(p) + Len(q)
              /\ \A i \in DOMAIN p : w[i] = p[i]
              /\ \A i \in DOMAIN q : w[Len(p) + i] = q[i]
            <3>1. Joins(p \o q, p, q)
                BY <2>1, ConcatJoins
            <3> QED  BY <1>8, <3>1, Zenon DEF Joins
        <2> QED  BY <1>6, <1>7, <2>2
    <1>10. ASSUME NEW i \in 1 .. (m + n)
           PROVE  r[i] = w[i]
        <2>1. CASE i <= m
            <3>1. i \in 1 .. m /\ u[i] = s[i]
                BY <1>1, <1>3, <2>1
            <3> QED  BY <1>5, <1>6, <1>9, <3>1
        <2>2. CASE i > m
            <3>1. PICK k : k = i - m
                OBVIOUS
            <3>2. k \in 1 .. n /\ i = m + k
                BY <1>1, <2>2, <3>1
            <3>3. u[i] = t[k] /\ w[i] = q[k] /\ (k \in Q <=> i \in P)
                BY <1>1, <1>3, <1>9, <3>2 DEF m
            <3> QED  BY <1>5, <1>7, <3>2, <3>3
        <2> QED  BY <1>1, <2>1, <2>2
    <1>11. r = w
        <2>1. IsSequence(r)
            BY <1>5 DEF IsList
        <2> QED  BY <1>5, <1>9, <1>10, <2>1, SameSequence
    <1>12. FlattenSeq(p \o q) = FlattenSeq(p) \o FlattenSeq(q)
        BY <1>6, <1>7, FlattenConcat
    <1>13. ElementsAt(s \o t, P) = ElementsAt(s, P) \o ElementsAt(t, Q)
        BY <1>2, <1>5, <1>6, <1>7, <1>8, <1>11, <1>12
    <1> QED  BY <1>13, Zenon DEF ElementsFollow

LEMMA ElementsNone ==
    ASSUME NEW s, IsSequence(s), NEW P, \A k \in DOMAIN s : k \notin P
    PROVE  ElementsAt(s, P) = <<>>
    <1>1. /\ IsSequence(ElementsAt(s, P))
          /\ Range(ElementsAt(s, P)) = {s[k] : k \in {i \in DOMAIN s : i \in P}}
        BY ElementsRange
    <1>2. Range(ElementsAt(s, P)) = {}
        BY <1>1
    <1>3. PICK e : e = ElementsAt(s, P)
        OBVIOUS
    <1>4. Len(e) \in Nat /\ DOMAIN e = 1 .. Len(e) /\ \A i \in 1 .. Len(e) : e[i] \in Range(e)
        BY <1>1, <1>3, SequenceDomain
    <1>5. Len(e) = 0
        BY <1>2, <1>3, <1>4
    <1> QED  BY <1>1, <1>3, <1>5, NoElements

LEMMA ElementsAll ==
    ASSUME NEW s, IsSequence(s), NEW P, \A k \in DOMAIN s : k \in P
    PROVE  ElementsAt(s, P) = s
    <1> DEFINE q == Picked(s, P)
               G == {n \in Nat : n <= Len(s) => FlattenSeq(Take(q, n)) = Take(s, n)}
    <1>1. /\ Len(s) \in Nat /\ DOMAIN s = 1 .. Len(s)
          /\ IsList(q) /\ Len(q) = Len(s) /\ DOMAIN q = 1 .. Len(s)
          /\ \A k \in 1 .. Len(s) : q[k] = <<s[k]>>
          /\ ElementsAt(s, P) = FlattenSeq(q)
        <2>1. Len(s) \in Nat /\ DOMAIN s = 1 .. Len(s)
            BY SequenceDomain
        <2>2. /\ IsList(q) /\ Len(q) = Len(s) /\ DOMAIN q = 1 .. Len(s)
              /\ \A k \in 1 .. Len(s) : q[k] = IF k \in P THEN <<s[k]>> ELSE <<>>
              /\ ElementsAt(s, P) = FlattenSeq(q)
            BY PickedIsList
        <2> HIDE DEF q
        <2>3. \A k \in 1 .. Len(s) : q[k] = <<s[k]>>
            <3> TAKE k \in 1 .. Len(s)
            <3>1. k \in P
                BY <2>1
            <3>2. q[k] = IF k \in P THEN <<s[k]>> ELSE <<>>
                BY <2>2
            <3> QED  BY <3>1, <3>2
        <2> QED  BY <2>1, <2>2, <2>3
    <1>2. IsSequence(q)
        BY <1>1 DEF IsList
    <1> HIDE DEF q
    <1>3. 0 \in G
        BY <1>2, TakeEnds, FlattenNone
    <1>4. ASSUME NEW n \in G PROVE n + 1 \in G
        <2> SUFFICES ASSUME n + 1 <= Len(s)
                     PROVE  FlattenSeq(Take(q, n + 1)) = Take(s, n + 1)
            BY <1>1
        <2>1. n \in Nat /\ n < Len(s) /\ n <= Len(s) /\ n + 1 \in 1 .. Len(s)
              /\ n \in 0 .. Len(s)
            BY <1>1
        <2>2. FlattenSeq(Take(q, n + 1)) = FlattenSeq(Take(q, n)) \o q[n + 1]
            BY <1>1, <2>1, FlattenTakes
        <2>3. FlattenSeq(Take(q, n)) = Take(s, n) /\ q[n + 1] = <<s[n + 1]>>
            BY <1>1, <2>1
        <2>4. Take(s, n + 1) = Append(Take(s, n), s[n + 1])
            BY <2>1, TakeEnds
        <2>5. Append(Take(s, n), s[n + 1]) = Take(s, n) \o <<s[n + 1]>>
            BY <2>1, TakeProperties, AppendOne
        <2> QED  BY <2>2, <2>3, <2>4, <2>5
    <1>5. G = Nat
        <2> HIDE DEF G
        <2> QED  BY <1>3, <1>4, NaturalInduction DEF G
    <1>6. FlattenSeq(Take(q, Len(s))) = Take(s, Len(s))
        BY <1>1, <1>5
    <1>7. Take(q, Len(s)) = q /\ Take(s, Len(s)) = s
        BY <1>1, <1>2, TakeEnds
    <1> QED  BY <1>1, <1>6, <1>7

-----------------------------------------------------------------------------
(* Sequences that increase.                                                *)

Increasing(s) == \A i, j \in DOMAIN s : i < j => s[i] < s[j]

LEMMA IncreasingAppend ==
    ASSUME NEW s, IsSequence(s), NEW n \in Int, Increasing(s),
           \A i \in DOMAIN s : s[i] \in Int /\ s[i] < n
    PROVE  Increasing(Append(s, n))
    <1>1. PICK k \in Nat : k = Len(s) /\ DOMAIN s = 1 .. k
        BY SequenceDomain
    <1>2. PICK t : t = Append(s, n)
        OBVIOUS
    <1>3. /\ IsSequence(t) /\ Len(t) = k + 1
          /\ \A i \in 1 .. k : t[i] = s[i]
          /\ t[k + 1] = n
        BY <1>1, <1>2, AppendIsSequence
    <1>4. DOMAIN t = 1 .. (k + 1)
        BY <1>3, SequenceDomain
    <1>5. Increasing(t)
        <2> SUFFICES ASSUME NEW i \in 1 .. (k + 1), NEW j \in 1 .. (k + 1), i < j
                     PROVE  t[i] < t[j]
            BY <1>4 DEF Increasing
        <2>1. i \in 1 .. k
            BY <1>1
        <2>2. CASE j = k + 1
            BY <1>1, <1>3, <2>1, <2>2
        <2>3. CASE j \in 1 .. k
            BY <1>1, <1>3, <2>1, <2>3 DEF Increasing
        <2> QED  BY <2>2, <2>3
    <1> QED  BY <1>2, <1>5

LEMMA IncreasingTake ==
    ASSUME NEW s, IsSequence(s), NEW q, IsSequence(q), NEW n \in 0 .. Len(q),
           Increasing(s \o q)
    PROVE  Increasing(s \o Take(q, n))
    <1>1. PICK u : u = s \o q
        OBVIOUS
    <1>2. Joins(u, s, q)
        BY <1>1, ConcatJoins
    <1>3. PICK t : t = Take(q, n)
        OBVIOUS
    <1>4. IsSequence(t) /\ Len(t) = n /\ DOMAIN t = 1 .. n /\ \A i \in 1 .. n : t[i] = q[i]
        BY <1>3, TakeProperties
    <1>5. PICK v : v = s \o t
        OBVIOUS
    <1>6. Joins(v, s, t)
        BY <1>4, <1>5, ConcatJoins
    <1>7. PICK k \in Nat : k = Len(s) /\ DOMAIN s = 1 .. k
        BY SequenceDomain
    <1>8. PICK m \in Nat : m = Len(q) /\ DOMAIN q = 1 .. m
        BY SequenceDomain
    <1>9. n \in Nat /\ n <= m
        BY <1>8
    <1>10. DOMAIN u = 1 .. (k + m) /\ DOMAIN v = 1 .. (k + n)
        BY <1>2, <1>4, <1>6, <1>7, <1>8, SequenceDomain DEF Joins
    <1>11. ASSUME NEW i \in 1 .. (k + n)
           PROVE  v[i] = u[i]
        <2>1. CASE i \in 1 .. k
            BY <1>2, <1>6, <1>7, <2>1 DEF Joins
        <2>2. CASE i \in (k + 1) .. (k + n)
            <3>1. i - k \in 1 .. n /\ i - k \in 1 .. m /\ i = k + (i - k)
                BY <1>7, <1>8, <1>9, <2>2
            <3>2. v[k + (i - k)] = t[i - k]
                BY <1>4, <1>6, <1>7, <3>1 DEF Joins
            <3>3. u[k + (i - k)] = q[i - k]
                BY <1>2, <1>7, <1>8, <3>1 DEF Joins
            <3> QED  BY <1>4, <3>1, <3>2, <3>3
        <2> QED  BY <1>7, <1>9, <2>1, <2>2
    <1>12. Increasing(v)
        <2> SUFFICES ASSUME NEW i \in 1 .. (k + n), NEW j \in 1 .. (k + n), i < j
                     PROVE  v[i] < v[j]
            BY <1>10 DEF Increasing
        <2>1. i \in DOMAIN u /\ j \in DOMAIN u
            BY <1>8, <1>9, <1>10
        <2>2. u[i] < u[j]
            BY <1>1, <2>1 DEF Increasing
        <2> QED  BY <1>11, <2>2
    <1> QED  BY <1>3, <1>5, <1>12

(* One more element.                                                       *)
LEMMA ElementsAppend ==
    ASSUME NEW s, IsSequence(s), NEW x, NEW P
    PROVE  ElementsAt(Append(s, x), P) =
              IF Len(s) + 1 \in P THEN Append(ElementsAt(s, P), x) ELSE ElementsAt(s, P)
    <1>1. PICK t : t = <<x>>
        OBVIOUS
    <1>2. IsSequence(t) /\ Len(t) = 1 /\ t[1] = x /\ Append(s, x) = s \o t
        BY <1>1, SingletonIsSequence, AppendOne
    <1>3. DOMAIN t = {1}
        BY <1>2, SequenceDomain
    <1>4. PICK Q : Q = {k \in {1} : Len(s) + k \in P}
        OBVIOUS
    <1>5. ElementsAt(s \o t, P) = ElementsAt(s, P) \o ElementsAt(t, Q)
        <2>1. \A k \in DOMAIN t : k \in Q <=> Len(s) + k \in P
            BY <1>3, <1>4
        <2>2. ElementsFollow(s, t, P, Q)
            BY <1>2, <2>1, ElementsConcat
        <2> QED  BY <2>2, Zenon DEF ElementsFollow
    <1>6. PICK e : e = ElementsAt(s, P)
        OBVIOUS
    <1>7. IsSequence(e)
        BY <1>6, ElementsRange
    <1>8. CASE Len(s) + 1 \in P
        <2>1. ElementsAt(t, Q) = t
            BY <1>2, <1>3, <1>4, <1>8, ElementsAll
        <2>2. Append(e, x) = e \o t
            BY <1>1, <1>7, AppendOne
        <2> QED  BY <1>2, <1>5, <1>6, <1>8, <2>1, <2>2
    <1>9. CASE Len(s) + 1 \notin P
        <2>1. ElementsAt(t, Q) = <<>>
            BY <1>2, <1>3, <1>4, <1>9, ElementsNone
        <2>2. e \o <<>> = e
            BY <1>7, EmptyConcat
        <2> QED  BY <1>2, <1>5, <1>6, <1>9, <2>1, <2>2
    <1> QED  BY <1>8, <1>9

(* Elements that increase do so wherever they are picked.                  *)
LEMMA ElementsIncreasing ==
    ASSUME NEW s, IsSequence(s), NEW P,
           \A i \in DOMAIN s : i \in P => s[i] \in Int,
           \A i, j \in DOMAIN s : i \in P /\ j \in P /\ i < j => s[i] < s[j]
    PROVE  Increasing(ElementsAt(s, P))
    <1>1. PICK m \in Nat : m = Len(s) /\ DOMAIN s = 1 .. m
        BY SequenceDomain
    <1> DEFINE G == {n \in Nat : n <= m => Increasing(ElementsAt(Take(s, n), P))}
    <1>2. 0 \in G
        <2>1. Take(s, 0) = <<>> /\ IsSequence(<<>>) /\ DOMAIN <<>> = {}
            BY TakeEnds, EmptyIsSequence
        <2>2. ElementsAt(<<>>, P) = <<>>
            BY <2>1, ElementsNone
        <2>3. Increasing(<<>>)
            BY <2>1 DEF Increasing
        <2> QED  BY <2>1, <2>2, <2>3
    <1>3. ASSUME NEW n \in G PROVE n + 1 \in G
        <2> SUFFICES ASSUME n + 1 <= m
                     PROVE  Increasing(ElementsAt(Take(s, n + 1), P))
            OBVIOUS
        <2>1. n \in Nat /\ n < Len(s) /\ n \in 0 .. Len(s) /\ n + 1 \in DOMAIN s
            BY <1>1
        <2>2. PICK t : t = Take(s, n)
            OBVIOUS
        <2>3. /\ IsSequence(t) /\ Len(t) = n /\ DOMAIN t = 1 .. n
              /\ \A i \in 1 .. n : t[i] = s[i]
            BY <2>1, <2>2, TakeProperties
        <2>4. Take(s, n + 1) = Append(t, s[n + 1])
            BY <2>1, <2>2, TakeEnds
        <2>5. PICK e : e = ElementsAt(t, P)
            OBVIOUS
        <2>6. Increasing(e)
            BY <1>1, <2>1, <2>2, <2>5
        <2>7. ElementsAt(Take(s, n + 1), P) = IF n + 1 \in P THEN Append(e, s[n + 1]) ELSE e
            <3>1. PICK x : x = s[n + 1]
                OBVIOUS
            <3>2. ElementsAt(Append(t, x), P) =
                     IF Len(t) + 1 \in P THEN Append(ElementsAt(t, P), x) ELSE ElementsAt(t, P)
                BY <2>3, ElementsAppend
            <3> QED  BY <2>3, <2>4, <2>5, <3>1, <3>2, Zenon
        <2>8. ASSUME n + 1 \in P
              PROVE  Increasing(Append(e, s[n + 1]))
            <3>1. IsSequence(e) /\ Range(e) = {t[k] : k \in {i \in DOMAIN t : i \in P}}
                BY <2>3, <2>5, ElementsRange
            <3>2. s[n + 1] \in Int
                BY <2>1, <2>8
            <3>3. \A i \in DOMAIN e : e[i] \in Int /\ e[i] < s[n + 1]
                <4> SUFFICES ASSUME NEW i \in DOMAIN e
                             PROVE  e[i] \in Int /\ e[i] < s[n + 1]
                    OBVIOUS
                <4>1. PICK k \in 1 .. n : k \in P /\ e[i] = t[k]
                    BY <2>3, <3>1 DEF Range
                <4>2. e[i] = s[k] /\ k \in DOMAIN s /\ k < n + 1
                    BY <1>1, <2>1, <2>3, <4>1
                <4> QED  BY <2>1, <2>8, <4>1, <4>2
            <3> QED  BY <2>6, <3>1, <3>2, <3>3, IncreasingAppend
        <2> QED  BY <2>6, <2>7, <2>8
    <1>4. G = Nat
        <2> HIDE DEF G
        <2> QED  BY <1>2, <1>3, NaturalInduction DEF G
    <1>5. Increasing(ElementsAt(Take(s, m), P))
        BY <1>4
    <1> QED  BY <1>1, <1>5, TakeEnds

-----------------------------------------------------------------------------
(* The derived messages.                                                   *)

LEMMA SurfaceConcat ==
    ASSUME NEW s, IsSequence(s), NEW t, IsSequence(t)
    PROVE  Surface(s \o t) = Surface(s) \o Surface(t)
    <1>1. PICK u : u = s \o t
        OBVIOUS
    <1>2. /\ IsSequence(u) /\ Len(u) = Len(s) + Len(t)
          /\ \A i \in DOMAIN s : u[i] = s[i]
          /\ \A i \in DOMAIN t : u[Len(s) + i] = t[i]
        <2>1. Joins(s \o t, s, t)
            BY ConcatJoins
        <2> QED  BY <1>1, <2>1, Zenon DEF Joins
    <1>3. /\ Len(s) \in Nat /\ DOMAIN s = 1 .. Len(s)
          /\ Len(t) \in Nat /\ DOMAIN t = 1 .. Len(t)
          /\ DOMAIN u = 1 .. (Len(s) + Len(t))
        BY <1>2, SequenceDomain
    <1> DEFINE P == {k \in DOMAIN u : IsMessage(u[k])}
               Q == {k \in DOMAIN s : IsMessage(s[k])}
               R == {k \in DOMAIN t : IsMessage(t[k])}
    <1>4. \A k \in DOMAIN t : k \in R <=> Len(s) + k \in P
        BY <1>2, <1>3
    <1>5. ElementsAt(s, P) = ElementsAt(s, Q)
        <2>1. \A k \in DOMAIN s : k \in P <=> k \in Q
            BY <1>2, <1>3
        <2> HIDE DEF P, Q
        <2>2. [k \in DOMAIN s |-> IF k \in P THEN <<s[k]>> ELSE <<>>]
                = [k \in DOMAIN s |-> IF k \in Q THEN <<s[k]>> ELSE <<>>]
            BY <2>1
        <2> QED  BY <2>2, Zenon DEF ElementsAt
    <1> HIDE DEF P, Q, R
    <1>6. ElementsAt(s \o t, P) = ElementsAt(s, P) \o ElementsAt(t, R)
        <2>1. ElementsFollow(s, t, P, R)
            BY <1>4, ElementsConcat
        <2> QED  BY <2>1, Zenon DEF ElementsFollow
    <1> QED  BY <1>1, <1>5, <1>6 DEF Surface, P, Q, R

LEMMA SurfaceRange ==
    ASSUME NEW s, IsSequence(s)
    PROVE  /\ IsSequence(Surface(s))
           /\ Range(Surface(s)) = {s[k] : k \in {i \in DOMAIN s : IsMessage(s[i])}}
    <1> DEFINE P == {k \in DOMAIN s : IsMessage(s[k])}
    <1>1. {i \in DOMAIN s : IsMessage(s[i])} = {i \in DOMAIN s : i \in P}
        OBVIOUS
    <1> HIDE DEF P
    <1>2. /\ IsSequence(ElementsAt(s, P))
          /\ Range(ElementsAt(s, P)) = {s[k] : k \in {i \in DOMAIN s : i \in P}}
        BY ElementsRange
    <1> QED  BY <1>1, <1>2 DEF Surface, P

LEMMA SurfaceMessages ==
    ASSUME NEW s, IsSequence(s)
    PROVE  /\ (\A k \in DOMAIN s : IsMessage(s[k])) => Surface(s) = s
           /\ (\A k \in DOMAIN s : ~IsMessage(s[k])) => Surface(s) = <<>>
    <1> DEFINE P == {k \in DOMAIN s : IsMessage(s[k])}
    <1>1. ASSUME \A k \in DOMAIN s : IsMessage(s[k])
          PROVE  Surface(s) = s
        <2>1. \A k \in DOMAIN s : k \in P
            BY <1>1
        <2> HIDE DEF P
        <2> QED  BY <2>1, ElementsAll DEF Surface, P
    <1>2. ASSUME \A k \in DOMAIN s : ~IsMessage(s[k])
          PROVE  Surface(s) = <<>>
        <2>1. \A k \in DOMAIN s : k \notin P
            BY <1>2
        <2> HIDE DEF P
        <2> QED  BY <2>1, ElementsNone DEF Surface, P
    <1> QED  BY <1>1, <1>2

(* The scope of the view starts behind the last checkpoint.                *)
LEMMA ScopeBounds ==
    ASSUME NEW l, IsSequence(l)
    PROVE  /\ ViewScopeStart(l) \in 0 .. Len(l)
           /\ ViewScopeStart(l) > 0 => IsCheckpoint(l[ViewScopeStart(l)])
           /\ \A k \in 1 .. Len(l) : k > ViewScopeStart(l) => ~IsCheckpoint(l[k])
    <1> DEFINE I == {i \in 1 .. Len(l) : IsCheckpoint(l[i])}
    <1>1. ViewScopeStart(l) = IF I # {} THEN Max(I) ELSE 0
        BY DEF ViewScopeStart, SelectLastInSeq
    <1>2. Len(l) \in Nat /\ I \in SUBSET (1 .. Len(l))
        BY SequenceDomain
    <1>3. I # {} => Max(I) \in I /\ \A x \in I : x <= Max(I)
        <2> HIDE DEF I
        <2> QED  BY <1>2, HighestPosition
    <1>4. PICK n, b : n = Len(l) /\ b = ViewScopeStart(l)
        OBVIOUS
    <1>5. \A k : k \in I <=> k \in 1 .. n /\ IsCheckpoint(l[k])
        BY <1>4
    <1>6. n \in Nat /\ I \subseteq 1 .. n
        BY <1>2, <1>4
    <1> HIDE DEF I
    <1>7. \/ I = {} /\ b = 0
          \/ b \in I /\ \A x \in I : x <= b
        BY <1>1, <1>3, <1>4, Zenon
    <1>8. b \in 0 .. n /\ (b > 0 => b \in I)
        <2>1. CASE b = 0
            BY <1>6, <2>1
        <2>2. CASE b \in I
            <3>1. b \in 1 .. n
                BY <1>6, <2>2
            <3> QED  BY <1>6, <2>2, <3>1
        <2> QED  BY <1>7, <2>1, <2>2
    <1>9. ASSUME NEW k \in 1 .. n, k > b
          PROVE  k \notin I
        BY <1>6, <1>7, <1>8, <1>9
    <1> QED  BY <1>4, <1>5, <1>8, <1>9

LEMMA ScopeIs ==
    ASSUME NEW l, IsSequence(l), NEW n \in 0 .. Len(l),
           n > 0 => IsCheckpoint(l[n]),
           \A k \in 1 .. Len(l) : k > n => ~IsCheckpoint(l[k])
    PROVE  ViewScopeStart(l) = n
    <1>1. Len(l) \in Nat
        BY SequenceDomain
    <1> QED  BY <1>1, ScopeBounds

LEMMA RowsAfterProperties ==
    ASSUME NEW l, IsSequence(l), NEW n \in 0 .. Len(l)
    PROVE  /\ IsSequence(RowsAfter(l, n)) /\ Len(RowsAfter(l, n)) = Len(l) - n
           /\ DOMAIN RowsAfter(l, n) = 1 .. (Len(l) - n)
           /\ \A i \in 1 .. (Len(l) - n) : RowsAfter(l, n)[i] = l[n + i]
    <1>1. Len(l) \in Nat /\ n \in Nat /\ n <= Len(l) /\ n + 1 \in Nat \ {0}
        BY SequenceDomain
    <1>2. PICK a : a = RowsAfter(l, n)
        OBVIOUS
    <1>3. /\ IsSequence(a)
          /\ Len(a) = IF n + 1 <= Len(l) THEN Len(l) - (n + 1) + 1 ELSE 0
          /\ \A i \in 1 .. (Len(l) - (n + 1) + 1) : a[i] = l[(n + 1) + i - 1]
        BY <1>1, <1>2, SubSeqIsSequence DEF RowsAfter
    <1>4. Len(l) - (n + 1) + 1 = Len(l) - n
          /\ \A i \in 1 .. (Len(l) - n) : (n + 1) + i - 1 = n + i
        BY <1>1
    <1>5. Len(a) = Len(l) - n
        <2>1. CASE n + 1 <= Len(l)
            BY <1>3, <1>4, <2>1
        <2>2. CASE ~(n + 1 <= Len(l))
            <3>1. Len(l) - n = 0
                BY <1>1, <2>2
            <3> QED  BY <1>3, <2>2, <3>1
        <2> QED  BY <2>1, <2>2
    <1>6. DOMAIN a = 1 .. (Len(l) - n)
        BY <1>3, <1>5, SequenceDomain
    <1>7. \A i \in 1 .. (Len(l) - n) : a[i] = l[n + i]
        BY <1>3, <1>4
    <1> QED  BY <1>2, <1>3, <1>5, <1>6, <1>7

LEMMA RowsAfterConcat ==
    ASSUME NEW l, IsSequence(l), NEW rows, IsSequence(rows), NEW last \in 0 .. Len(l)
    PROVE  /\ IsSequence(RowsAfter(l, last))
           /\ RowsAfter(l \o rows, last) = RowsAfter(l, last) \o rows
    <1>1. PICK m : m = l \o rows
        OBVIOUS
    <1>2. /\ IsSequence(m) /\ Len(m) = Len(l) + Len(rows)
          /\ \A i \in DOMAIN l : m[i] = l[i]
          /\ \A i \in DOMAIN rows : m[Len(l) + i] = rows[i]
        <2>1. Joins(l \o rows, l, rows)
            BY ConcatJoins
        <2> QED  BY <1>1, <2>1, Zenon DEF Joins
    <1>3. /\ Len(l) \in Nat /\ DOMAIN l = 1 .. Len(l)
          /\ Len(rows) \in Nat /\ DOMAIN rows = 1 .. Len(rows)
        BY SequenceDomain
    <1> DEFINE n == Len(l) - last
    <1>4. last + 1 \in Nat \ {0} /\ n \in Nat /\ Len(m) \in Nat
        BY <1>2, <1>3
    <1>5. PICK a : a = RowsAfter(l, last)
        OBVIOUS
    <1>6. /\ IsSequence(a) /\ Len(a) = n
          /\ \A i \in 1 .. n : a[i] = l[last + i]
        BY <1>5, RowsAfterProperties
    <1>7. PICK b : b = RowsAfter(m, last)
        OBVIOUS
    <1>8. /\ IsSequence(b) /\ Len(b) = n + Len(rows)
          /\ \A i \in 1 .. (n + Len(rows)) : b[i] = m[last + i]
        <2>1. last \in 0 .. Len(m) /\ Len(m) - last = n + Len(rows)
            BY <1>2, <1>3
        <2>2. /\ IsSequence(b) /\ Len(b) = Len(m) - last
              /\ \A i \in 1 .. (Len(m) - last) : b[i] = m[last + i]
            BY <1>2, <1>7, <2>1, RowsAfterProperties
        <2> HIDE DEF n
        <2> QED  BY <2>1, <2>2
    <1>9. PICK c : c = a \o rows
        OBVIOUS
    <1>10. /\ IsSequence(c) /\ Len(c) = Len(a) + Len(rows)
           /\ \A i \in DOMAIN a : c[i] = a[i]
           /\ \A i \in DOMAIN rows : c[Len(a) + i] = rows[i]
        <2>1. IsSequence(a)
            BY <1>6
        <2>2. Joins(a \o rows, a, rows)
            BY <2>1, ConcatJoins
        <2> QED  BY <1>9, <2>2, Zenon DEF Joins
    <1>11. DOMAIN a = 1 .. n
        BY <1>6, SequenceDomain
    <1> HIDE DEF n
    <1>12. ASSUME NEW i \in 1 .. (n + Len(rows))
          PROVE  b[i] = c[i]
        <2>1. CASE i <= n
            <3>1. i \in 1 .. n /\ last + i \in 1 .. Len(l)
                BY <1>3, <1>4, <2>1 DEF n
            <3>2. b[i] = m[last + i] /\ m[last + i] = l[last + i]
                BY <1>2, <1>3, <1>8, <3>1
            <3>3. c[i] = a[i] /\ a[i] = l[last + i]
                BY <1>6, <1>10, <1>11, <3>1
            <3> QED  BY <3>2, <3>3
        <2>2. CASE i > n
            <3>1. PICK k : k = i - n
                OBVIOUS
            <3>2. k \in 1 .. Len(rows) /\ i = n + k /\ last + i = Len(l) + k
                BY <1>3, <1>4, <2>2, <3>1 DEF n
            <3>3. k \in DOMAIN rows
                BY <3>2, SequenceDomain
            <3>4. b[i] = m[last + i]
                BY <1>8
            <3>5. m[Len(l) + k] = rows[k]
                BY <1>2, <3>3
            <3>6. c[Len(a) + k] = rows[k]
                BY <1>10, <3>3
            <3>7. Len(a) + k = i
                BY <1>6, <3>2
            <3> QED  BY <3>2, <3>4, <3>5, <3>6, <3>7
        <2> QED  BY <1>3, <1>4, <2>1, <2>2
    <1>13. b = c
        BY <1>6, <1>8, <1>10, <1>12, SameSequence
    <1> QED  BY <1>1, <1>5, <1>6, <1>7, <1>9, <1>13

(* Rows without a checkpoint extend the view by their messages.            *)
LEMMA DeriveConcat ==
    ASSUME NEW l, IsSequence(l), NEW rows, IsSequence(rows),
           \A k \in DOMAIN rows : ~IsCheckpoint(rows[k]),
           \A k \in DOMAIN l : l[k].type = "compacted" => IsSequence(l[k].base)
    PROVE  DeriveMessages(l \o rows) = DeriveMessages(l) \o Surface(rows)
    <1>1. PICK m : m = l \o rows
        OBVIOUS
    <1>2. /\ IsSequence(m) /\ Len(m) = Len(l) + Len(rows)
          /\ \A i \in DOMAIN l : m[i] = l[i]
          /\ \A i \in DOMAIN rows : m[Len(l) + i] = rows[i]
        <2>1. Joins(l \o rows, l, rows)
            BY ConcatJoins
        <2> QED  BY <1>1, <2>1, Zenon DEF Joins
    <1>3. /\ Len(l) \in Nat /\ DOMAIN l = 1 .. Len(l)
          /\ Len(rows) \in Nat /\ DOMAIN rows = 1 .. Len(rows)
        BY SequenceDomain
    <1>4. PICK last : last = ViewScopeStart(l)
        OBVIOUS
    <1>5. /\ last \in 0 .. Len(l) /\ (last > 0 => IsCheckpoint(l[last]))
          /\ \A k \in 1 .. Len(l) : k > last => ~IsCheckpoint(l[k])
        BY <1>4, ScopeBounds
    <1>6. ViewScopeStart(m) = last
        <2>1. last \in 0 .. Len(m) /\ (last > 0 => IsCheckpoint(m[last]))
            BY <1>2, <1>3, <1>5
        <2>2. ASSUME NEW k \in 1 .. Len(m), k > last
              PROVE  ~IsCheckpoint(m[k])
            <3>1. CASE k <= Len(l)
                BY <1>2, <1>3, <1>5, <2>2, <3>1
            <3>2. CASE k > Len(l)
                <4>1. k - Len(l) \in DOMAIN rows /\ Len(l) + (k - Len(l)) = k
                    BY <1>2, <1>3, <3>2
                <4> QED  BY <1>2, <4>1
            <3> QED  BY <1>2, <1>3, <3>1, <3>2
        <2> QED  BY <1>2, <2>1, <2>2, ScopeIs
    <1>7. RowsAfter(m, last) = RowsAfter(l, last) \o rows /\ IsSequence(RowsAfter(l, last))
        BY <1>1, <1>5, RowsAfterConcat
    <1>8. PICK tail : tail = Surface(RowsAfter(l, last))
        OBVIOUS
    <1>9. IsSequence(tail) /\ IsSequence(Surface(rows))
        BY <1>7, <1>8, SurfaceRange
    <1>10. Surface(RowsAfter(m, last)) = tail \o Surface(rows)
        BY <1>7, <1>8, SurfaceConcat
    <1>11. CASE last > 0 /\ l[last].type = "compacted"
        <2>1. PICK base : base = l[last].base
            OBVIOUS
        <2>2. m[last] = l[last] /\ last \in DOMAIN l
            BY <1>2, <1>3, <1>5, <1>11
        <2>3. DeriveMessages(l) = base \o tail
            BY <1>4, <1>8, <1>11, <2>1 DEF DeriveMessages
        <2>4. DeriveMessages(m) = base \o (tail \o Surface(rows))
            BY <1>6, <1>10, <1>11, <2>1, <2>2 DEF DeriveMessages
        <2>5. IsSequence(base)
            BY <1>11, <2>1, <2>2
        <2>6. PICK more : more = Surface(rows)
            OBVIOUS
        <2>7. IsSequence(more)
            BY <1>9, <2>6
        <2>8. (base \o tail) \o more = base \o (tail \o more)
            <3>1. Groups(base, tail, more)
                BY <1>9, <2>5, <2>7, ConcatGroups
            <3> QED  BY <3>1, Zenon DEF Groups
        <2> QED  BY <1>1, <2>3, <2>4, <2>6, <2>8
    <1>12. CASE ~(last > 0 /\ l[last].type = "compacted")
        <2>1. DeriveMessages(l) = tail
            BY <1>4, <1>8, <1>12 DEF DeriveMessages
        <2>2. ~(last > 0 /\ m[last].type = "compacted")
            BY <1>2, <1>3, <1>5, <1>12
        <2>3. DeriveMessages(m) = tail \o Surface(rows)
            BY <1>6, <1>10, <2>2 DEF DeriveMessages
        <2> QED  BY <1>1, <2>1, <2>3
    <1> QED  BY <1>11, <1>12

LEMMA DeriveCheckpoint ==
    ASSUME NEW l, IsSequence(l), NEW row, IsCheckpoint(row),
           row.type = "compacted" => IsSequence(row.base)
    PROVE  DeriveMessages(Append(l, row))
             = IF row.type = "compacted" THEN row.base ELSE <<>>
    <1>1. PICK m : m = Append(l, row)
        OBVIOUS
    <1>2. /\ IsSequence(m) /\ Len(m) = Len(l) + 1 /\ m[Len(l) + 1] = row /\ Len(l) \in Nat
        BY <1>1, AppendIsSequence, SequenceDomain
    <1>3. PICK n : n = Len(m)
        OBVIOUS
    <1>4. n \in Nat /\ n > 0 /\ m[n] = row
        BY <1>2, <1>3
    <1>5. ViewScopeStart(m) = n
        BY <1>2, <1>3, <1>4, ScopeIs
    <1>6. RowsAfter(m, n) = <<>>
        <2>1. n \in 0 .. Len(m) /\ Len(m) - n = 0
            BY <1>3, <1>4
        <2>2. IsSequence(RowsAfter(m, n)) /\ Len(RowsAfter(m, n)) = Len(m) - n
            BY <1>2, <2>1, RowsAfterProperties
        <2> QED  BY <2>1, <2>2, NoElements
    <1>7. Surface(<<>>) = <<>>
        BY EmptyIsSequence, SurfaceMessages
    <1>8. CASE row.type = "compacted"
        <2>1. DeriveMessages(m) = row.base \o <<>>
            BY <1>4, <1>5, <1>6, <1>7, <1>8 DEF DeriveMessages
        <2> QED  BY <1>1, <1>8, <2>1, EmptyConcat
    <1>9. CASE row.type # "compacted"
        BY <1>1, <1>4, <1>5, <1>6, <1>7, <1>9 DEF DeriveMessages
    <1> QED  BY <1>8, <1>9

LEMMA DeriveIsSequence ==
    ASSUME NEW l, IsSequence(l), Based(l)
    PROVE  IsSequence(DeriveMessages(l))
    <1>1. PICK last : last = ViewScopeStart(l)
        OBVIOUS
    <1>2. last \in 0 .. Len(l)
        BY <1>1, ScopeBounds
    <1>3. PICK tail : tail = Surface(RowsAfter(l, last))
        OBVIOUS
    <1>4. IsSequence(tail)
        BY <1>2, <1>3, RowsAfterProperties, SurfaceRange
    <1>5. CASE last > 0 /\ l[last].type = "compacted"
        <2>1. PICK base : base = l[last].base
            OBVIOUS
        <2>2. IsSequence(base)
            BY <1>2, <1>5, <2>1, SequenceDomain DEF Based
        <2>3. DeriveMessages(l) = base \o tail
            BY <1>1, <1>3, <1>5, <2>1 DEF DeriveMessages
        <2>4. IsSequence(base \o tail)
            BY <1>4, <2>2, ConcatIsSequence
        <2> QED  BY <2>3, <2>4
    <1>6. CASE ~(last > 0 /\ l[last].type = "compacted")
        <2>1. DeriveMessages(l) = tail
            BY <1>1, <1>3, <1>6 DEF DeriveMessages
        <2> QED  BY <1>4, <2>1
    <1> QED  BY <1>5, <1>6

-----------------------------------------------------------------------------
(* The row-level count.  A fold is the value at 1..n of a function over    *)
(* the sets of positions, defined by recursion on the highest one.         *)

CountsBy(f, l, n) ==
    f = [s \in SUBSET (1 .. n) |->
            IF s = {} THEN 0 ELSE CountRow(f[s \ {Max(s)}], l[Max(s)])]

LEMMA CountsByAt ==
    ASSUME NEW l, NEW n, NEW f, CountsBy(f, l, n), NEW s \in SUBSET (1 .. n)
    PROVE  f[s] = IF s = {} THEN 0 ELSE CountRow(f[s \ {Max(s)}], l[Max(s)])
    <1> DEFINE e(t) == IF t = {} THEN 0 ELSE CountRow(f[t \ {Max(t)}], l[Max(t)])
    <1>1. f = [t \in SUBSET (1 .. n) |-> e(t)]
        BY Zenon DEF CountsBy
    <1>2. f[s] = e(s)
        <2> HIDE DEF e
        <2> QED  BY <1>1
    <1> QED  BY <1>2

(* The highest of the positions up to n + 1, when that one is among them.  *)
LEMMA HighestIs ==
    ASSUME NEW n \in Nat, NEW S \in SUBSET (1 .. (n + 1)), n + 1 \in S
    PROVE  Max(S) = n + 1
    <1>1. n + 1 \in Nat /\ S # {}
        OBVIOUS
    <1>2. Max(S) \in S /\ \A x \in S : x <= Max(S)
        BY <1>1, HighestPosition
    <1>3. n + 1 <= Max(S) /\ Max(S) \in 1 .. (n + 1)
        BY <1>2
    <1> QED  BY <1>3

LEMMA CountsByExists ==
    ASSUME NEW l, NEW n \in Nat
    PROVE  \E f : CountsBy(f, l, n)
    <1> DEFINE G == {k \in Nat : \E f : CountsBy(f, l, k)}
    <1>1. 0 \in G
        <2> DEFINE f == [s \in SUBSET (1 .. 0) |-> 0]
        <2>1. \A s \in SUBSET (1 .. 0) : s = {}
            OBVIOUS
        <2>2. f = [s \in SUBSET (1 .. 0) |->
                      IF s = {} THEN 0 ELSE CountRow(f[s \ {Max(s)}], l[Max(s)])]
            BY <2>1
        <2> HIDE DEF f
        <2>3. CountsBy(f, l, 0)
            BY <2>2, Zenon DEF CountsBy
        <2> QED  BY <2>3
    <1>2. ASSUME NEW k \in G PROVE k + 1 \in G
        <2>1. PICK f : CountsBy(f, l, k)
            OBVIOUS
        <2> DEFINE g == [s \in SUBSET (1 .. (k + 1)) |->
                            IF k + 1 \in s THEN CountRow(f[s \ {k + 1}], l[k + 1]) ELSE f[s]]
                   e(s) == IF s = {} THEN 0 ELSE CountRow(g[s \ {Max(s)}], l[Max(s)])
        <2>2. k \in Nat
            OBVIOUS
        <2>3. ASSUME NEW s \in SUBSET (1 .. (k + 1))
              PROVE  g[s] = e(s)
            <3>1. CASE k + 1 \in s
                <4>1. Max(s) = k + 1 /\ s # {}
                    BY <2>2, <3>1, HighestIs
                <4>2. s \ {k + 1} \in SUBSET (1 .. (k + 1)) /\ k + 1 \notin s \ {k + 1}
                    OBVIOUS
                <4>3. g[s \ {k + 1}] = f[s \ {k + 1}]
                    BY <4>2
                <4>4. g[s] = CountRow(f[s \ {k + 1}], l[k + 1])
                    BY <3>1
                <4> HIDE DEF g
                <4> QED  BY <4>1, <4>3, <4>4
            <3>2. CASE k + 1 \notin s
                <4>1. s \in SUBSET (1 .. k)
                    BY <2>2, <3>2
                <4>2. g[s] = f[s]
                    BY <3>2
                <4>3. PICK t : t = s \ {Max(s)}
                    OBVIOUS
                <4>4. t \in SUBSET (1 .. (k + 1)) /\ k + 1 \notin t
                    BY <3>2, <4>3
                <4>5. g[t] = f[t]
                    BY <4>4
                <4>6. f[s] = IF s = {} THEN 0 ELSE CountRow(f[s \ {Max(s)}], l[Max(s)])
                    BY <2>1, <4>1, CountsByAt
                <4> HIDE DEF g
                <4> QED  BY <4>2, <4>3, <4>5, <4>6
            <3> QED  BY <3>1, <3>2
        <2>4. g = [s \in SUBSET (1 .. (k + 1)) |-> g[s]]
            OBVIOUS
        <2> HIDE DEF g
        <2>5. CountsBy(g, l, k + 1)
            <3>1. g = [s \in SUBSET (1 .. (k + 1)) |-> e(s)]
                <4> HIDE DEF e
                <4> QED  BY <2>3, <2>4
            <3> QED  BY <3>1, Zenon DEF CountsBy
        <2> QED  BY <2>2, <2>5
    <1>3. G = Nat
        <2> HIDE DEF G
        <2> QED  BY <1>1, <1>2, NaturalInduction DEF G
    <1> QED  BY <1>3

LEMMA CountsBySteps ==
    ASSUME NEW l, NEW n \in Nat, NEW f, CountsBy(f, l, n)
    PROVE  /\ f[1 .. 0] = 0
           /\ \A k \in Nat : k < n => f[1 .. (k + 1)] = CountRow(f[1 .. k], l[k + 1])
    <1>1. f[1 .. 0] = 0
        <2>1. 1 .. 0 \in SUBSET (1 .. n) /\ 1 .. 0 = {}
            OBVIOUS
        <2> QED  BY <2>1, CountsByAt
    <1>2. ASSUME NEW k \in Nat, k < n
          PROVE  f[1 .. (k + 1)] = CountRow(f[1 .. k], l[k + 1])
        <2>1. PICK s : s = 1 .. (k + 1)
            OBVIOUS
        <2>2. s \in SUBSET (1 .. n) /\ s \in SUBSET (1 .. (k + 1)) /\ k + 1 \in s
              /\ s # {} /\ s \ {k + 1} = 1 .. k
            BY <1>2, <2>1
        <2>3. Max(s) = k + 1
            BY <2>2, HighestIs
        <2>4. f[s] = IF s = {} THEN 0 ELSE CountRow(f[s \ {Max(s)}], l[Max(s)])
            BY <2>2, CountsByAt
        <2> QED  BY <2>1, <2>2, <2>3, <2>4
    <1> QED  BY <1>1, <1>2

LEMMA CountIs ==
    ASSUME NEW l, IsSequence(l), NEW f, CountsBy(f, l, Len(l))
    PROVE  VisibleMessageCount(l) = f[1 .. Len(l)]
    <1>1. Len(l) \in Nat /\ DOMAIN l = 1 .. Len(l)
        BY SequenceDomain
    <1>2. PICK n : n = Len(l)
        OBVIOUS
    <1>3. PICK g : g = CHOOSE h : CountsBy(h, l, n)
        OBVIOUS
    <1>4. VisibleMessageCount(l) = (CHOOSE h : h = [s \in SUBSET (DOMAIN l) |->
              IF s = {} THEN 0 ELSE CountRow(h[s \ {Max(s)}], l[Max(s)])])[DOMAIN l]
        BY Zenon DEF VisibleMessageCount, FoldLeft, MapThenFoldSet
    <1>5. VisibleMessageCount(l) = g[1 .. n]
        <2>1. VisibleMessageCount(l) = (CHOOSE h : h = [s \in SUBSET (1 .. n) |->
                  IF s = {} THEN 0 ELSE CountRow(h[s \ {Max(s)}], l[Max(s)])])[1 .. n]
            BY <1>1, <1>2, <1>4, Zenon
        <2> QED  BY <1>3, <2>1, Zenon DEF CountsBy
    <1>6. CountsBy(f, l, n) /\ CountsBy(g, l, n)
        BY <1>2, <1>3, Zenon
    <1> DEFINE G == {k \in Nat : k <= n => f[1 .. k] = g[1 .. k]}
    <1>7. 0 \in G
        BY <1>1, <1>2, <1>6, CountsBySteps
    <1>8. ASSUME NEW k \in G PROVE k + 1 \in G
        <2> SUFFICES ASSUME k + 1 <= n PROVE f[1 .. (k + 1)] = g[1 .. (k + 1)]
            OBVIOUS
        <2>1. k \in Nat /\ k < n /\ k <= n /\ n \in Nat
            BY <1>1, <1>2
        <2>2. f[1 .. (k + 1)] = CountRow(f[1 .. k], l[k + 1])
            BY <1>6, <2>1, CountsBySteps
        <2>3. g[1 .. (k + 1)] = CountRow(g[1 .. k], l[k + 1])
            BY <1>6, <2>1, CountsBySteps
        <2>4. f[1 .. k] = g[1 .. k]
            BY <2>1
        <2> QED  BY <2>2, <2>3, <2>4
    <1>9. G = Nat
        <2> HIDE DEF G
        <2> QED  BY <1>7, <1>8, NaturalInduction DEF G
    <1> QED  BY <1>1, <1>2, <1>5, <1>9

(* One more row of the log, as the view shows it.                          *)
LEMMA DeriveAppend ==
    ASSUME NEW l, IsSequence(l), Based(l), NEW row, ~IsCheckpoint(row)
    PROVE  DeriveMessages(Append(l, row))
             = IF IsMessage(row) THEN Append(DeriveMessages(l), row) ELSE DeriveMessages(l)
    <1>1. PICK view : view = DeriveMessages(l)
        OBVIOUS
    <1>2. IsSequence(view)
        BY <1>1, DeriveIsSequence
    <1>3. PICK rows : rows = <<row>>
        OBVIOUS
    <1>4. /\ IsSequence(rows) /\ DOMAIN rows = 1 .. 1 /\ rows[1] = row
          /\ Append(l, row) = l \o rows
        <2>1. IsSequence(rows) /\ Len(rows) = 1 /\ rows[1] = row
            BY <1>3, SingletonIsSequence
        <2>2. DOMAIN rows = 1 .. 1
            BY <2>1, SequenceDomain
        <2>3. Append(l, row) = l \o rows
            BY <1>3, AppendOne
        <2> QED  BY <2>1, <2>2, <2>3
    <1>5. DeriveMessages(Append(l, row)) = view \o Surface(rows)
        <2>1. \A k \in DOMAIN rows : ~IsCheckpoint(rows[k])
            BY <1>4
        <2>2. \A k \in DOMAIN l : l[k].type = "compacted" => IsSequence(l[k].base)
            BY Zenon DEF Based
        <2>3. DeriveMessages(l \o rows) = DeriveMessages(l) \o Surface(rows)
            BY <1>4, <2>1, <2>2, DeriveConcat, Zenon
        <2> QED  BY <1>1, <1>4, <2>3, Zenon
    <1>6. CASE IsMessage(row)
        <2>1. Surface(rows) = rows
            BY <1>4, <1>6, SurfaceMessages
        <2>2. Append(view, row) = view \o rows
            BY <1>2, <1>3, AppendOne
        <2> QED  BY <1>1, <1>5, <1>6, <2>1, <2>2, Zenon
    <1>7. CASE ~IsMessage(row)
        <2>1. Surface(rows) = <<>>
            BY <1>4, <1>7, SurfaceMessages
        <2>2. view \o <<>> = view
            BY <1>2, EmptyConcat
        <2> QED  BY <1>1, <1>5, <1>7, <2>1, <2>2, Zenon
    <1> QED  BY <1>6, <1>7

(* An empty log projects to an empty view.                                  *)
LEMMA EmptyView == DeriveMessages(<<>>) = <<>>
    <1>1. IsSequence(<<>>) /\ Len(<<>>) = 0
        BY EmptyIsSequence
    <1>2. ViewScopeStart(<<>>) = 0
        <2>1. ViewScopeStart(<<>>) \in 0 .. Len(<<>>)
            BY <1>1, ScopeBounds, Zenon
        <2> QED  BY <1>1, <2>1
    <1>3. IsSequence(RowsAfter(<<>>, 0)) /\ Len(RowsAfter(<<>>, 0)) = 0
        <2>1. 0 \in 0 .. Len(<<>>) /\ Len(<<>>) - 0 = 0
            BY <1>1
        <2> QED  BY <1>1, <2>1, RowsAfterProperties
    <1>4. RowsAfter(<<>>, 0) = <<>>
        BY <1>3, NoElements
    <1>5. Surface(<<>>) = <<>>
        BY <1>1, SurfaceMessages
    <1> QED  BY <1>2, <1>4, <1>5 DEF DeriveMessages

(* The count of the rows is the length of the view, whatever the log.      *)
LEMMA CountIsLength ==
    ASSUME NEW l, IsSequence(l), Based(l)
    PROVE  VisibleMessageCount(l) = Len(DeriveMessages(l))
    <1>1. Len(l) \in Nat /\ DOMAIN l = 1 .. Len(l)
        BY SequenceDomain
    <1>2. PICK f : CountsBy(f, l, Len(l))
        BY <1>1, CountsByExists
    <1>3. /\ f[1 .. 0] = 0
          /\ \A k \in Nat : k < Len(l) => f[1 .. (k + 1)] = CountRow(f[1 .. k], l[k + 1])
        BY <1>1, <1>2, CountsBySteps
    <1> DEFINE G == {n \in Nat : n <= Len(l) => f[1 .. n] = Len(DeriveMessages(Take(l, n)))}
    <1>4. 0 \in G
        <2>1. Take(l, 0) = <<>>
            BY TakeEnds
        <2>2. DeriveMessages(<<>>) = <<>>
            BY EmptyView
        <2> QED  BY <1>3, <2>1, <2>2, EmptyIsSequence
    <1>5. ASSUME NEW n \in G PROVE n + 1 \in G
        <2> SUFFICES ASSUME n + 1 <= Len(l)
                     PROVE f[1 .. (n + 1)] = Len(DeriveMessages(Take(l, n + 1)))
            OBVIOUS
        <2>1. n \in Nat /\ n < Len(l) /\ n \in 0 .. Len(l) /\ n + 1 \in 1 .. Len(l)
            BY <1>1
        <2>2. PICK t : t = Take(l, n)
            OBVIOUS
        <2>3. /\ IsSequence(t) /\ DOMAIN t = 1 .. n
              /\ \A i \in 1 .. n : t[i] = l[i]
            BY <2>1, <2>2, TakeProperties
        <2>4. Based(t)
            BY <1>1, <2>1, <2>3 DEF Based
        <2>5. PICK row : row = l[n + 1]
            OBVIOUS
        <2>6. Take(l, n + 1) = Append(t, row)
            BY <2>1, <2>2, <2>5, TakeEnds
        <2>7. PICK view : view = DeriveMessages(t)
            OBVIOUS
        <2>8. IsSequence(view) /\ f[1 .. n] = Len(view)
            <3>1. IsSequence(view)
                BY <2>3, <2>4, <2>7, DeriveIsSequence
            <3>2. n <= Len(l)
                BY <2>1, <1>1
            <3> QED  BY <2>2, <2>7, <3>1, <3>2
        <2>9. f[1 .. (n + 1)] = CountRow(Len(view), row)
            BY <1>3, <2>1, <2>5, <2>8
        <2>10. CASE IsCheckpoint(row)
            <3>1. row.type = "compacted" => IsSequence(row.base)
                BY <1>1, <2>1, <2>5 DEF Based
            <3>2. DeriveMessages(Append(t, row)) = IF row.type = "compacted" THEN row.base ELSE <<>>
                BY <2>3, <2>10, <3>1, DeriveCheckpoint
            <3>3. ~IsMessage(row)
                BY <2>10 DEF IsCheckpoint, IsMessage
            <3>4. CountRow(Len(view), row) = IF row.type = "compacted" THEN Len(row.base) ELSE 0
                BY <2>10, <3>3 DEF CountRow, IsCheckpoint
            <3> QED  BY <2>6, <2>9, <3>2, <3>4, EmptyIsSequence
        <2>11. CASE ~IsCheckpoint(row)
            <3>1. DeriveMessages(Append(t, row))
                    = IF IsMessage(row) THEN Append(view, row) ELSE view
                BY <2>3, <2>4, <2>7, <2>11, DeriveAppend
            <3>2. CountRow(Len(view), row) = IF IsMessage(row) THEN Len(view) + 1 ELSE Len(view)
                BY <2>11 DEF CountRow, IsCheckpoint
            <3>3. Len(Append(view, row)) = Len(view) + 1
                BY <2>8, AppendIsSequence
            <3> QED  BY <2>6, <2>9, <3>1, <3>2, <3>3
        <2> QED  BY <2>10, <2>11
    <1>6. G = Nat
        <2> HIDE DEF G
        <2> QED  BY <1>4, <1>5, NaturalInduction DEF G
    <1>7. Take(l, Len(l)) = l
        BY TakeEnds
    <1>8. VisibleMessageCount(l) = f[1 .. Len(l)]
        BY <1>2, CountIs
    <1> QED  BY <1>1, <1>6, <1>7, <1>8

-----------------------------------------------------------------------------
(* The lowest of some numbers.                                             *)
LEMMA LowestPosition ==
    ASSUME NEW S \in SUBSET Nat, S # {}
    PROVE  Min(S) \in S /\ \A x \in S : Min(S) <= x
    <1> DEFINE G == {k \in Nat : \A T \in SUBSET Nat :
                        (\E x \in T : x <= k) => \E m \in T : \A x \in T : m <= x}
    <1>1. 0 \in G
        OBVIOUS
    <1>2. ASSUME NEW k \in G PROVE k + 1 \in G
        <2> SUFFICES ASSUME NEW T \in SUBSET Nat, NEW y \in T, y <= k + 1
                     PROVE  \E m \in T : \A x \in T : m <= x
            OBVIOUS
        <2>1. CASE \E x \in T : x <= k
            BY <2>1
        <2>2. CASE \A x \in T : ~(x <= k)
            <3>1. \A x \in T : y <= x
                BY <2>2
            <3> QED  BY <3>1
        <2> QED  BY <2>1, <2>2
    <1>3. G = Nat
        <2> HIDE DEF G
        <2> QED  BY <1>1, <1>2, NaturalInduction DEF G
    <1>4. PICK s \in S : s \in Nat
        OBVIOUS
    <1>5. \E m \in S : \A x \in S : m <= x
        <2>1. s \in G
            BY <1>3, <1>4
        <2> QED  BY <1>4, <2>1
    <1> QED  BY <1>5 DEF Min

-----------------------------------------------------------------------------
(* Runs: a message that is no result and the results behind it.            *)

LEMMA RunStartBounds ==
    ASSUME NEW m, NEW n \in Nat
    PROVE  /\ RunStart(m, n) \in 0 .. n
           /\ RunStart(m, n) > 0 => ~IsResult(m[RunStart(m, n)])
           /\ \A i \in 1 .. n : i > RunStart(m, n) => IsResult(m[i])
    <1> DEFINE I == {i \in 1 .. n : ~IsResult(m[i])}
    <1>1. RunStart(m, n) = IF I # {} THEN Max(I) ELSE 0
        BY DEF RunStart, SelectLastInSubSeq
    <1>2. I # {} => Max(I) \in I /\ \A x \in I : x <= Max(I)
        <2>1. I \in SUBSET (1 .. n)
            OBVIOUS
        <2> HIDE DEF I
        <2> QED  BY <2>1, HighestPosition
    <1> QED  BY <1>1, <1>2

LEMMA RunStartIs ==
    ASSUME NEW m, NEW n \in Nat, NEW a \in 0 .. n,
           a > 0 => ~IsResult(m[a]),
           \A i \in 1 .. n : i > a => IsResult(m[i])
    PROVE  RunStart(m, n) = a
    <1>1. PICK s : s = RunStart(m, n)
        OBVIOUS
    <1>2. /\ s \in 0 .. n
          /\ s > 0 => ~IsResult(m[s])
          /\ \A i \in 1 .. n : i > s => IsResult(m[i])
        BY <1>1, RunStartBounds
    <1> QED  BY <1>1, <1>2

(* A part of a view that does not begin in the middle of a run.            *)
OpensRun(b) == Len(b) > 0 => ~IsResult(b[1])

(* The calls that the run ending at k leaves without a result.             *)
Lacking(m, k) == MissingCalls(m, RunStart(m, k), k)

(* What runs are at a position does not depend on what comes before the    *)
(* run, nor on what comes behind it.                                       *)
LEMMA RunsLeft ==
    ASSUME NEW a, IsSequence(a), NEW b, IsSequence(b), OpensRun(b), NEW k \in 1 .. Len(a)
    PROVE  /\ RunStart(a \o b, k) = RunStart(a, k)
           /\ EndsRun(a \o b, k) <=> EndsRun(a, k)
           /\ Lacking(a \o b, k) = Lacking(a, k)
    <1>1. PICK c : c = a \o b
        OBVIOUS
    <1>2. /\ IsSequence(c) /\ Len(c) = Len(a) + Len(b)
          /\ \A i \in DOMAIN a : c[i] = a[i]
          /\ \A i \in DOMAIN b : c[Len(a) + i] = b[i]
        <2>1. Joins(a \o b, a, b)
            BY ConcatJoins
        <2> QED  BY <1>1, <2>1, Zenon DEF Joins
    <1>3. /\ Len(a) \in Nat /\ DOMAIN a = 1 .. Len(a)
          /\ Len(b) \in Nat /\ DOMAIN b = 1 .. Len(b)
        BY SequenceDomain
    <1>4. \A i \in 1 .. Len(a) : c[i] = a[i]
        BY <1>2, <1>3
    <1>5. PICK s : s = RunStart(a, k)
        OBVIOUS
    <1>6. /\ s \in 0 .. k
          /\ s > 0 => ~IsResult(a[s])
          /\ \A i \in 1 .. k : i > s => IsResult(a[i])
        BY <1>5, RunStartBounds
    <1>7. RunStart(c, k) = s
        <2>1. s > 0 => ~IsResult(c[s])
            BY <1>4, <1>6
        <2>2. \A i \in 1 .. k : i > s => IsResult(c[i])
            BY <1>3, <1>4, <1>6
        <2> QED  BY <1>6, <2>1, <2>2, RunStartIs
    <1>8. EndsRun(c, k) <=> EndsRun(a, k)
        <2>0. Len(c) = Len(a) + Len(b)
            BY <1>2
        <2>1. CASE k < Len(a)
            <3>1. c[k + 1] = a[k + 1]
                BY <1>3, <1>4, <2>1
            <3>2. PICK p \in Nat : p = Len(a)
                BY <1>3
            <3>3. PICK q \in Nat : q = Len(b)
                BY <1>3
            <3>4. k # p /\ k # p + q
                BY <2>1, <3>2, <3>3
            <3>5. k # Len(a) /\ k # Len(c)
                BY <2>0, <3>2, <3>3, <3>4
            <3> QED  BY <3>1, <3>5, Zenon DEF EndsRun
        <2>2. CASE k = Len(a) /\ Len(b) = 0
            <3>1. k = Len(c)
                BY <1>3, <2>0, <2>2
            <3> QED  BY <2>2, <3>1 DEF EndsRun
        <2>3. CASE k = Len(a) /\ Len(b) > 0
            <3>1. c[k + 1] = b[1]
                BY <1>2, <1>3, <2>3
            <3>2. ~IsResult(c[k + 1])
                BY <2>3, <3>1 DEF OpensRun
            <3> QED  BY <2>3, <3>2 DEF EndsRun
        <2>4. (k < Len(a) \/ k = Len(a)) /\ (Len(b) = 0 \/ Len(b) > 0)
            <3>1. Len(a) \in Nat /\ Len(b) \in Nat
                BY <1>3
            <3> QED  BY <3>1
        <2> QED  BY <2>1, <2>2, <2>3, <2>4, Zenon
    <1>9. MissingCalls(c, s, k) = MissingCalls(a, s, k)
        <2>1. s > 0 => c[s] = a[s]
            BY <1>4, <1>6
        <2>2. {c[r].call : r \in (s + 1) .. k} = {a[r].call : r \in (s + 1) .. k}
            <3>1. \A r \in (s + 1) .. k : c[r] = a[r]
                BY <1>3, <1>4, <1>6
            <3> QED  BY <3>1
        <2>3. CASE s = 0
            BY <2>3 DEF MissingCalls
        <2>4. CASE s # 0
            <3>1. c[s] = a[s]
                BY <1>6, <2>1, <2>4
            <3> QED  BY <2>2, <3>1 DEF MissingCalls
        <2> QED  BY <2>3, <2>4
    <1> QED  BY <1>1, <1>5, <1>7, <1>8, <1>9 DEF Lacking

LEMMA RunsRight ==
    ASSUME NEW a, IsSequence(a), NEW b, IsSequence(b), OpensRun(b), NEW k \in 1 .. Len(b)
    PROVE  /\ RunStart(a \o b, Len(a) + k) = Len(a) + RunStart(b, k)
           /\ RunStart(b, k) \in 1 .. k
           /\ EndsRun(a \o b, Len(a) + k) <=> EndsRun(b, k)
           /\ Lacking(a \o b, Len(a) + k) = Lacking(b, k)
    <1>1. PICK c : c = a \o b
        OBVIOUS
    <1>2. /\ IsSequence(c) /\ Len(c) = Len(a) + Len(b)
          /\ \A i \in DOMAIN a : c[i] = a[i]
          /\ \A i \in DOMAIN b : c[Len(a) + i] = b[i]
        <2>1. Joins(a \o b, a, b)
            BY ConcatJoins
        <2> QED  BY <1>1, <2>1, Zenon DEF Joins
    <1>3. /\ Len(a) \in Nat /\ DOMAIN a = 1 .. Len(a)
          /\ Len(b) \in Nat /\ DOMAIN b = 1 .. Len(b)
        BY SequenceDomain
    <1>4. PICK n \in Nat : n = Len(a)
        BY <1>3
    <1>5. \A i \in 1 .. Len(b) : c[n + i] = b[i]
        BY <1>2, <1>3, <1>4
    <1>6. PICK s : s = RunStart(b, k)
        OBVIOUS
    <1>7. /\ s \in 1 .. k /\ ~IsResult(b[s])
          /\ \A i \in 1 .. k : i > s => IsResult(b[i])
        <2>1. /\ s \in 0 .. k
              /\ s > 0 => ~IsResult(b[s])
              /\ \A i \in 1 .. k : i > s => IsResult(b[i])
            BY <1>6, RunStartBounds
        <2>2. ~IsResult(b[1])
            BY <1>3 DEF OpensRun
        <2>3. s > 0
            BY <2>1, <2>2
        <2> QED  BY <2>1, <2>3
    <1>8. RunStart(c, n + k) = n + s
        <2>1. n + s \in 0 .. (n + k) /\ n + k \in Nat
            BY <1>7
        <2>2. ~IsResult(c[n + s])
            <3>1. c[n + s] = b[s]
                BY <1>3, <1>5, <1>7
            <3> QED  BY <1>7, <3>1
        <2>3. ASSUME NEW i \in 1 .. (n + k), i > n + s PROVE IsResult(c[i])
            <3>1. i - n \in 1 .. k /\ i - n > s /\ n + (i - n) = i
                BY <1>7, <2>3
            <3>2. IsResult(b[i - n])
                BY <1>7, <3>1
            <3>3. c[n + (i - n)] = b[i - n]
                BY <1>3, <1>5, <3>1
            <3> QED  BY <3>1, <3>2, <3>3
        <2> QED  BY <2>1, <2>2, <2>3, RunStartIs
    <1>9. EndsRun(c, n + k) <=> EndsRun(b, k)
        <2>0. Len(c) = n + Len(b)
            BY <1>2, <1>4
        <2>1. CASE k < Len(b)
            <3>1. c[n + (k + 1)] = b[k + 1]
                BY <1>3, <1>5, <2>1
            <3>2. k # Len(b) /\ n + k # Len(c)
                <4>1. PICK q \in Nat : q = Len(b)
                    BY <1>3
                <4>2. k # q /\ n + k # n + q
                    BY <2>1, <4>1
                <4> QED  BY <2>0, <4>1, <4>2
            <3>3. (n + k) + 1 = n + (k + 1)
                OBVIOUS
            <3> QED  BY <3>1, <3>2, <3>3, Zenon DEF EndsRun
        <2>2. CASE k = Len(b)
            BY <2>0, <2>2, Zenon DEF EndsRun
        <2>3. k < Len(b) \/ k = Len(b)
            <3>1. Len(b) \in Nat
                BY <1>3
            <3> QED  BY <3>1
        <2> QED  BY <2>1, <2>2, <2>3, Zenon
    <1>10. MissingCalls(c, n + s, n + k) = MissingCalls(b, s, k)
        <2>1. c[n + s] = b[s] /\ n + s # 0 /\ s # 0
            BY <1>3, <1>5, <1>7
        <2>2. {c[r].call : r \in (n + s + 1) .. (n + k)} = {b[r].call : r \in (s + 1) .. k}
            <3>1. ASSUME NEW r \in (n + s + 1) .. (n + k)
                  PROVE  r - n \in (s + 1) .. k /\ c[r] = b[r - n]
                <4>1. r - n \in (s + 1) .. k /\ r - n \in 1 .. Len(b) /\ n + (r - n) = r
                    BY <1>3, <1>7
                <4>2. c[n + (r - n)] = b[r - n]
                    BY <1>5, <4>1
                <4> QED  BY <4>1, <4>2
            <3>2. ASSUME NEW r \in (s + 1) .. k
                  PROVE  n + r \in (n + s + 1) .. (n + k) /\ c[n + r] = b[r]
                BY <1>3, <1>5, <1>7
            <3> QED  BY <3>1, <3>2
        <2>3. b[s].type # "assistant" => MissingCalls(c, n + s, n + k) = <<>>
                                         /\ MissingCalls(b, s, k) = <<>>
            BY <2>1 DEF MissingCalls
        <2> QED  BY <2>1, <2>2, <2>3 DEF MissingCalls
    <1> QED  BY <1>1, <1>4, <1>6, <1>7, <1>8, <1>9, <1>10 DEF Lacking

-----------------------------------------------------------------------------
(* Sound views.                                                            *)

Owned(m, k) ==
    /\ RunStart(m, k) > 0
    /\ m[RunStart(m, k)].type = "assistant"
    /\ m[k].call \in ToSet(m[RunStart(m, k)].calls)

LEMMA OwnedOrOrphan ==
    ASSUME NEW m
    PROVE  NoOrphanResults(m) <=> \A k \in DOMAIN m : IsResult(m[k]) => Owned(m, k)
    BY DEF NoOrphanResults, Owned

LEMMA AnsweredOrLacking ==
    ASSUME NEW m
    PROVE  CallsAnswered(m) <=> \A k \in DOMAIN m : EndsRun(m, k) => Lacking(m, k) = <<>>
    BY DEF CallsAnswered, Lacking

(* The positions of a concatenation.                                       *)
LEMMA ConcatPositions ==
    ASSUME NEW a, IsSequence(a), NEW b, IsSequence(b)
    PROVE  /\ \A k \in DOMAIN a : k \in DOMAIN (a \o b) /\ (a \o b)[k] = a[k]
           /\ \A k \in DOMAIN b : Len(a) + k \in DOMAIN (a \o b) /\ (a \o b)[Len(a) + k] = b[k]
           /\ \A i \in DOMAIN (a \o b) :
                 i \in DOMAIN a \/ \E k \in DOMAIN b : i = Len(a) + k
    <1>1. PICK c : c = a \o b
        OBVIOUS
    <1>2. /\ IsSequence(c) /\ Len(c) = Len(a) + Len(b)
          /\ \A i \in DOMAIN a : c[i] = a[i]
          /\ \A i \in DOMAIN b : c[Len(a) + i] = b[i]
        <2>1. Joins(a \o b, a, b)
            BY ConcatJoins
        <2> QED  BY <1>1, <2>1, Zenon DEF Joins
    <1>3. PICK p \in Nat : p = Len(a) /\ DOMAIN a = 1 .. p
        BY SequenceDomain
    <1>4. PICK q \in Nat : q = Len(b) /\ DOMAIN b = 1 .. q
        BY SequenceDomain
    <1>5. DOMAIN c = 1 .. (p + q)
        <2>1. DOMAIN c = 1 .. Len(c)
            BY <1>2, SequenceDomain
        <2>2. Len(c) = p + q
            BY <1>2, <1>3, <1>4
        <2> QED  BY <2>1, <2>2
    <1>6. \A k \in 1 .. p : k \in 1 .. (p + q)
        OBVIOUS
    <1>7. \A k \in 1 .. q : p + k \in 1 .. (p + q)
        OBVIOUS
    <1>8. ASSUME NEW i \in 1 .. (p + q) PROVE i \in 1 .. p \/ \E k \in 1 .. q : i = p + k
        <2>1. i \in 1 .. p \/ (i - p \in 1 .. q /\ i = p + (i - p))
            OBVIOUS
        <2> QED  BY <2>1
    <1>9. \A k \in DOMAIN a : k \in DOMAIN c /\ c[k] = a[k]
        BY <1>2, <1>3, <1>5, <1>6, Zenon
    <1>10. \A k \in DOMAIN b : Len(a) + k \in DOMAIN c /\ c[Len(a) + k] = b[k]
        BY <1>2, <1>3, <1>4, <1>5, <1>7, Zenon
    <1>11. \A i \in DOMAIN c : i \in DOMAIN a \/ \E k \in DOMAIN b : i = Len(a) + k
        BY <1>3, <1>4, <1>5, <1>8, ZenonT(30)
    <1> QED  BY <1>1, <1>9, <1>10, <1>11, Zenon

LEMMA OwnedConcat ==
    ASSUME NEW a, IsSequence(a), NEW b, IsSequence(b), OpensRun(b)
    PROVE  /\ \A k \in DOMAIN a : Owned(a \o b, k) <=> Owned(a, k)
           /\ \A k \in DOMAIN b : Owned(a \o b, Len(a) + k) <=> Owned(b, k)
    <1>1. PICK c : c = a \o b
        OBVIOUS
    <1>2. PICK n \in Nat : n = Len(a) /\ DOMAIN a = 1 .. n
        BY SequenceDomain
    <1>3. DOMAIN b = 1 .. Len(b)
        BY SequenceDomain
    <1>4. /\ \A k \in DOMAIN a : c[k] = a[k]
          /\ \A k \in DOMAIN b : c[n + k] = b[k]
        <2>1. /\ \A k \in DOMAIN a : (a \o b)[k] = a[k]
              /\ \A k \in DOMAIN b : (a \o b)[Len(a) + k] = b[k]
            BY ConcatPositions
        <2> QED  BY <1>1, <1>2, <2>1, Zenon
    <1>5. ASSUME NEW k \in DOMAIN a PROVE Owned(c, k) <=> Owned(a, k)
        <2>1. PICK s : s = RunStart(a, k)
            OBVIOUS
        <2>2. RunStart(c, k) = s
            BY <1>1, <1>2, <2>1, RunsLeft, Zenon
        <2>3. s \in 0 .. k /\ k \in Nat
            <3>1. k \in Nat
                BY <1>2
            <3> QED  BY <2>1, <3>1, RunStartBounds
        <2>4. s > 0 => c[s] = a[s]
            <3>1. s > 0 => s \in DOMAIN a
                BY <1>2, <2>3
            <3> QED  BY <1>4, <3>1
        <2>5. c[k] = a[k]
            BY <1>4
        <2> QED  BY <2>1, <2>2, <2>4, <2>5, Zenon DEF Owned
    <1>6. ASSUME NEW k \in DOMAIN b PROVE Owned(c, n + k) <=> Owned(b, k)
        <2>1. PICK s : s = RunStart(b, k)
            OBVIOUS
        <2>2. RunStart(c, n + k) = n + s /\ s \in 1 .. k
            <3>1. k \in 1 .. Len(b)
                BY <1>3
            <3>2. RunStart(a \o b, Len(a) + k) = Len(a) + RunStart(b, k)
                BY <3>1, RunsRight
            <3>3. RunStart(b, k) \in 1 .. k
                BY <3>1, RunsRight
            <3> QED  BY <1>1, <1>2, <2>1, <3>2, <3>3, Zenon
        <2>3. k \in 1 .. Len(b) /\ Len(b) \in Nat
            BY <1>3, SequenceDomain
        <2>4. c[n + s] = b[s] /\ n + s > 0 /\ s > 0
            <3>1. s \in DOMAIN b
                BY <1>3, <2>2, <2>3
            <3>2. n + s > 0 /\ s > 0
                BY <2>2, <2>3
            <3> QED  BY <1>4, <3>1, <3>2
        <2>5. c[n + k] = b[k]
            BY <1>4
        <2> QED  BY <2>1, <2>2, <2>4, <2>5, Zenon DEF Owned
    <1> QED  BY <1>1, <1>2, <1>5, <1>6, Zenon

LEMMA SoundConcat ==
    ASSUME NEW a, IsSequence(a), NEW b, IsSequence(b), OpensRun(b)
    PROVE  /\ Sound(a \o b) <=> Sound(a) /\ Sound(b)
           /\ CallsAnswered(a \o b) <=> CallsAnswered(a) /\ CallsAnswered(b)
    <1>1. PICK c : c = a \o b
        OBVIOUS
    <1>2. IsSequence(c)
        BY <1>1, ConcatJoins, Zenon DEF Joins
    <1>3. WellShaped(c) <=> WellShaped(a) /\ WellShaped(b)
        <2>1. Range(c) = Range(a) \cup Range(b)
            BY <1>1, RangeConcat
        <2> QED  BY <2>1 DEF WellShaped
    <1>4. /\ \A k \in DOMAIN a : k \in DOMAIN c /\ c[k] = a[k]
          /\ \A k \in DOMAIN b : Len(a) + k \in DOMAIN c /\ c[Len(a) + k] = b[k]
          /\ \A i \in DOMAIN c : i \in DOMAIN a \/ \E k \in DOMAIN b : i = Len(a) + k
        <2>1. /\ \A k \in DOMAIN a : k \in DOMAIN (a \o b) /\ (a \o b)[k] = a[k]
              /\ \A k \in DOMAIN b : Len(a) + k \in DOMAIN (a \o b) /\ (a \o b)[Len(a) + k] = b[k]
              /\ \A i \in DOMAIN (a \o b) :
                    i \in DOMAIN a \/ \E k \in DOMAIN b : i = Len(a) + k
            BY ConcatPositions
        <2> QED  BY <1>1, <2>1, Zenon
    <1>5. /\ \A k \in DOMAIN a : Owned(c, k) <=> Owned(a, k)
          /\ \A k \in DOMAIN b : Owned(c, Len(a) + k) <=> Owned(b, k)
        BY <1>1, OwnedConcat, Zenon
    <1>6. DOMAIN a = 1 .. Len(a) /\ DOMAIN b = 1 .. Len(b)
        BY SequenceDomain
    <1>7. /\ \A k \in DOMAIN a : (EndsRun(c, k) <=> EndsRun(a, k)) /\ Lacking(c, k) = Lacking(a, k)
          /\ \A k \in DOMAIN b : /\ EndsRun(c, Len(a) + k) <=> EndsRun(b, k)
                                 /\ Lacking(c, Len(a) + k) = Lacking(b, k)
        <2>1. ASSUME NEW k \in DOMAIN a
              PROVE  (EndsRun(c, k) <=> EndsRun(a, k)) /\ Lacking(c, k) = Lacking(a, k)
            <3>1. k \in 1 .. Len(a)
                BY <1>6
            <3>2. /\ EndsRun(a \o b, k) <=> EndsRun(a, k)
                  /\ Lacking(a \o b, k) = Lacking(a, k)
                BY <3>1, RunsLeft, Zenon
            <3> QED  BY <1>1, <3>2, Zenon
        <2>2. ASSUME NEW k \in DOMAIN b
              PROVE  /\ EndsRun(c, Len(a) + k) <=> EndsRun(b, k)
                     /\ Lacking(c, Len(a) + k) = Lacking(b, k)
            <3>1. k \in 1 .. Len(b)
                BY <1>6
            <3>2. /\ EndsRun(a \o b, Len(a) + k) <=> EndsRun(b, k)
                  /\ Lacking(a \o b, Len(a) + k) = Lacking(b, k)
                BY <3>1, RunsRight, ZenonT(30)
            <3> QED  BY <1>1, <3>2, Zenon
        <2> QED  BY <2>1, <2>2, Zenon
    <1>8. NoOrphanResults(c) <=> NoOrphanResults(a) /\ NoOrphanResults(b)
        <2>1. NoOrphanResults(c) <=> \A i \in DOMAIN c : IsResult(c[i]) => Owned(c, i)
            BY OwnedOrOrphan, Zenon
        <2>2. NoOrphanResults(a) <=> \A i \in DOMAIN a : IsResult(a[i]) => Owned(a, i)
            BY OwnedOrOrphan, Zenon
        <2>3. NoOrphanResults(b) <=> \A i \in DOMAIN b : IsResult(b[i]) => Owned(b, i)
            BY OwnedOrOrphan, Zenon
        <2>4. ASSUME NoOrphanResults(c) PROVE NoOrphanResults(a) /\ NoOrphanResults(b)
            <3>1. \A i \in DOMAIN a : IsResult(a[i]) => Owned(a, i)
                BY <1>4, <1>5, <2>1, <2>4, Zenon
            <3>2. ASSUME NEW i \in DOMAIN b, IsResult(b[i]) PROVE Owned(b, i)
                <4>1. Len(a) + i \in DOMAIN c /\ c[Len(a) + i] = b[i]
                    BY <1>4, Zenon
                <4>2. Owned(c, Len(a) + i)
                    BY <2>1, <2>4, <3>2, <4>1, Zenon
                <4> QED  BY <1>5, <4>2, Zenon
            <3> QED  BY <2>2, <2>3, <3>1, <3>2, Zenon
        <2>5. ASSUME NoOrphanResults(a), NoOrphanResults(b) PROVE NoOrphanResults(c)
            <3>1. ASSUME NEW i \in DOMAIN c, IsResult(c[i]) PROVE Owned(c, i)
                <4>1. CASE i \in DOMAIN a
                    BY <1>4, <1>5, <2>2, <2>5, <3>1, <4>1, Zenon
                <4>2. CASE \E k \in DOMAIN b : i = Len(a) + k
                    <5>1. PICK k \in DOMAIN b : i = Len(a) + k
                        BY <4>2
                    <5>2. IsResult(b[k])
                        BY <1>4, <3>1, <5>1, Zenon
                    <5>3. Owned(b, k)
                        BY <2>3, <2>5, <5>2, Zenon
                    <5> QED  BY <1>5, <5>1, <5>3, Zenon
                <4> QED  BY <1>4, <4>1, <4>2, Zenon
            <3> QED  BY <2>1, <3>1, Zenon
        <2> QED  BY <2>4, <2>5
    <1>9. CallsAnswered(c) <=> CallsAnswered(a) /\ CallsAnswered(b)
        <2>1. CallsAnswered(c) <=> \A k \in DOMAIN c : EndsRun(c, k) => Lacking(c, k) = <<>>
            BY AnsweredOrLacking, Zenon
        <2>2. CallsAnswered(a) <=> \A k \in DOMAIN a : EndsRun(a, k) => Lacking(a, k) = <<>>
            BY AnsweredOrLacking, Zenon
        <2>3. CallsAnswered(b) <=> \A k \in DOMAIN b : EndsRun(b, k) => Lacking(b, k) = <<>>
            BY AnsweredOrLacking, Zenon
        <2>4. ASSUME CallsAnswered(c) PROVE CallsAnswered(a) /\ CallsAnswered(b)
            <3>1. \A k \in DOMAIN a : EndsRun(a, k) => Lacking(a, k) = <<>>
                BY <1>4, <1>7, <2>1, <2>4, Zenon
            <3>2. ASSUME NEW k \in DOMAIN b, EndsRun(b, k) PROVE Lacking(b, k) = <<>>
                <4>1. Len(a) + k \in DOMAIN c /\ EndsRun(c, Len(a) + k)
                    BY <1>4, <1>7, <3>2, Zenon
                <4>2. Lacking(c, Len(a) + k) = <<>>
                    BY <2>1, <2>4, <4>1, Zenon
                <4> QED  BY <1>7, <4>2, Zenon
            <3> QED  BY <2>2, <2>3, <3>1, <3>2, Zenon
        <2>5. ASSUME CallsAnswered(a), CallsAnswered(b) PROVE CallsAnswered(c)
            <3>1. ASSUME NEW i \in DOMAIN c, EndsRun(c, i) PROVE Lacking(c, i) = <<>>
                <4>1. CASE i \in DOMAIN a
                    BY <1>7, <2>2, <2>5, <3>1, <4>1, Zenon
                <4>2. CASE \E k \in DOMAIN b : i = Len(a) + k
                    <5>1. PICK k \in DOMAIN b : i = Len(a) + k
                        BY <4>2
                    <5>2. EndsRun(b, k)
                        BY <1>7, <3>1, <5>1, Zenon
                    <5>3. Lacking(b, k) = <<>>
                        BY <2>3, <2>5, <5>2, Zenon
                    <5> QED  BY <1>7, <5>1, <5>3, Zenon
                <4> QED  BY <1>4, <4>1, <4>2, Zenon
            <3> QED  BY <2>1, <3>1, Zenon
        <2> QED  BY <2>4, <2>5
    <1> QED  BY <1>1, <1>2, <1>3, <1>8, <1>9, Zenon DEF Sound

(* A sound view does not open with a result.                               *)
LEMMA SoundOpens ==
    ASSUME NEW m, Sound(m)
    PROVE  OpensRun(m)
    <1> SUFFICES ASSUME Len(m) > 0, IsResult(m[1]) PROVE FALSE
        BY DEF OpensRun
    <1>1. 1 \in DOMAIN m
        <2>1. Len(m) \in Nat /\ DOMAIN m = 1 .. Len(m)
            BY SequenceDomain DEF Sound
        <2> QED  BY <2>1
    <1>2. Owned(m, 1)
        BY <1>1, OwnedOrOrphan DEF Sound
    <1>3. RunStart(m, 1) \in 0 .. 1 /\ (RunStart(m, 1) > 0 => ~IsResult(m[RunStart(m, 1)]))
        BY RunStartBounds
    <1>4. RunStart(m, 1) = 1
        BY <1>2, <1>3 DEF Owned
    <1> QED  BY <1>3, <1>4

-----------------------------------------------------------------------------
(* The repair of a view.                                                   *)

Parts(m) == [k \in DOMAIN m |-> <<m[k]>> \o Synthesized(m, k)]

LEMMA MissingIsSequence ==
    ASSUME NEW m, IsSequence(m), WellShaped(m), NEW a \in 0 .. Len(m), NEW k
    PROVE  IsSequence(MissingCalls(m, a, k))
    <1>1. CASE a = 0 \/ m[a].type # "assistant"
        <2>1. MissingCalls(m, a, k) = <<>>
            BY <1>1 DEF MissingCalls
        <2> QED  BY <2>1, EmptyIsSequence
    <1>2. CASE a # 0 /\ m[a].type = "assistant"
        <2>1. PICK calls : calls = m[a].calls
            OBVIOUS
        <2>2. IsSequence(calls)
            <3>1. Len(m) \in Nat
                BY SequenceDomain
            <3>2. a \in 1 .. Len(m)
                BY <1>2, <3>1
            <3>3. m[a] \in Range(m)
                BY <3>2, SequenceDomain
            <3> QED  BY <1>2, <2>1, <3>3 DEF WellShaped, Shaped
        <2>3. PICK answered : answered = {m[r].call : r \in (a + 1) .. k}
            OBVIOUS
        <2>4. MissingCalls(m, a, k)
                = ElementsAt(calls, {i \in DOMAIN calls : calls[i] \notin answered})
            BY <1>2, <2>1, <2>3, Zenon DEF MissingCalls
        <2>5. IsSequence(ElementsAt(calls, {i \in DOMAIN calls : calls[i] \notin answered}))
            BY <2>2, ElementsRange
        <2> QED  BY <2>4, <2>5, Zenon
    <1> QED  BY <1>1, <1>2

LEMMA SynthesizedIsSequence ==
    ASSUME NEW m, IsSequence(m), WellShaped(m), NEW k \in 1 .. Len(m)
    PROVE  /\ IsSequence(Synthesized(m, k))
           /\ EndsRun(m, k) => Len(Synthesized(m, k)) = Len(Lacking(m, k))
           /\ EndsRun(m, k) => \A i \in DOMAIN Lacking(m, k) :
                 Synthesized(m, k)[i] = ToolResult(Lacking(m, k)[i], "synthesized")
    <1>1. CASE ~EndsRun(m, k)
        <2>1. Synthesized(m, k) = <<>>
            BY <1>1 DEF Synthesized
        <2> QED  BY <1>1, <2>1, EmptyIsSequence
    <1>2. CASE EndsRun(m, k)
        <2>1. PICK missing : missing = Lacking(m, k)
            OBVIOUS
        <2>2. IsSequence(missing)
            <3>1. Len(m) \in Nat
                BY SequenceDomain
            <3>2. RunStart(m, k) \in 0 .. k
                BY <3>1, RunStartBounds
            <3>3. RunStart(m, k) \in 0 .. Len(m)
                BY <3>1, <3>2
            <3> QED  BY <2>1, <3>3, MissingIsSequence DEF Lacking
        <2>3. PICK n \in Nat : n = Len(missing) /\ DOMAIN missing = 1 .. n
            BY <2>2, SequenceDomain
        <2>4. PICK u : u = [i \in 1 .. n |-> ToolResult(missing[i], "synthesized")]
            OBVIOUS
        <2>5. Synthesized(m, k) = u
            BY <1>2, <2>1, <2>3, <2>4, Zenon DEF Synthesized, Lacking
        <2>6. IsSequence(u) /\ Len(u) = n
            <3>1. u = [i \in 1 .. n |-> u[i]]
                BY <2>4
            <3> QED  BY <3>1, ListIsSequence
        <2>7. \A i \in 1 .. n : u[i] = ToolResult(missing[i], "synthesized")
            BY <2>4
        <2> QED  BY <2>1, <2>3, <2>5, <2>6, <2>7, Zenon
    <1> QED  BY <1>1, <1>2

LEMMA PartsIsList ==
    ASSUME NEW m, IsSequence(m), WellShaped(m)
    PROVE  /\ IsList(Parts(m)) /\ Len(Parts(m)) = Len(m)
           /\ DOMAIN Parts(m) = DOMAIN m
           /\ \A k \in DOMAIN m : Parts(m)[k] = <<m[k]>> \o Synthesized(m, k)
           /\ RepairUnanswered(m) = FlattenSeq(Parts(m))
           /\ IsSequence(RepairUnanswered(m))
    <1>1. PICK n \in Nat : n = Len(m) /\ DOMAIN m = 1 .. n
        BY SequenceDomain
    <1>2. PICK p : p = Parts(m)
        OBVIOUS
    <1>3. \A k \in DOMAIN m : p[k] = <<m[k]>> \o Synthesized(m, k)
        BY <1>2 DEF Parts
    <1>4. IsSequence(p) /\ Len(p) = n
        <2>1. p = [k \in 1 .. n |-> p[k]]
            BY <1>1, <1>2, <1>3 DEF Parts
        <2> QED  BY <2>1, ListIsSequence
    <1>5. DOMAIN p = DOMAIN m
        BY <1>2 DEF Parts
    <1>6. \A k \in DOMAIN p : IsSequence(p[k])
        <2> SUFFICES ASSUME NEW k \in DOMAIN m PROVE IsSequence(p[k])
            BY <1>5
        <2>1. PICK t : t = Synthesized(m, k)
            OBVIOUS
        <2>2. IsSequence(t)
            BY <1>1, <2>1, SynthesizedIsSequence
        <2>3. PICK s : s = <<m[k]>>
            OBVIOUS
        <2>4. IsSequence(s)
            BY <2>3, SingletonIsSequence
        <2>5. IsSequence(s \o t)
            BY <2>2, <2>4, ConcatJoins, Zenon DEF Joins
        <2> QED  BY <1>3, <2>1, <2>3, <2>5, Zenon
    <1>7. IsList(p)
        BY <1>4, <1>6 DEF IsList
    <1>8. RepairUnanswered(m) = FlattenSeq(p)
        BY <1>2 DEF RepairUnanswered, Parts
    <1>9. IsSequence(FlattenSeq(p))
        BY <1>7, FlattenIsSequence
    <1> QED  BY <1>1, <1>2, <1>3, <1>4, <1>5, <1>7, <1>8, <1>9, Zenon

(* Repairing part by part, where the parts do not cut a run.               *)
LEMMA RepairConcat ==
    ASSUME NEW a, NEW b, IsSequence(a), IsSequence(b), WellShaped(a), WellShaped(b),
           OpensRun(b)
    PROVE  RepairUnanswered(a \o b) = RepairUnanswered(a) \o RepairUnanswered(b)
    <1>1. PICK c : c = a \o b
        OBVIOUS
    <1>2. IsSequence(c)
        BY <1>1, ConcatJoins, Zenon DEF Joins
    <1>3. WellShaped(c)
        <2>1. Range(c) = Range(a) \cup Range(b)
            BY <1>1, RangeConcat
        <2> QED  BY <2>1 DEF WellShaped
    <1>4. PICK p : p = Parts(a)
        OBVIOUS
    <1>5. PICK q : q = Parts(b)
        OBVIOUS
    <1>6. PICK r : r = Parts(c)
        OBVIOUS
    <1>7. /\ IsList(p) /\ Len(p) = Len(a) /\ DOMAIN p = DOMAIN a
          /\ \A k \in DOMAIN a : p[k] = <<a[k]>> \o Synthesized(a, k)
          /\ RepairUnanswered(a) = FlattenSeq(p)
        BY <1>4, PartsIsList
    <1>8. /\ IsList(q) /\ Len(q) = Len(b) /\ DOMAIN q = DOMAIN b
          /\ \A k \in DOMAIN b : q[k] = <<b[k]>> \o Synthesized(b, k)
          /\ RepairUnanswered(b) = FlattenSeq(q)
        BY <1>5, PartsIsList
    <1>9. /\ IsList(r) /\ Len(r) = Len(c) /\ DOMAIN r = DOMAIN c
          /\ \A k \in DOMAIN c : r[k] = <<c[k]>> \o Synthesized(c, k)
          /\ RepairUnanswered(c) = FlattenSeq(r)
        BY <1>2, <1>3, <1>6, PartsIsList
    <1>10. /\ \A k \in DOMAIN a : k \in DOMAIN c /\ c[k] = a[k]
           /\ \A k \in DOMAIN b : Len(a) + k \in DOMAIN c /\ c[Len(a) + k] = b[k]
           /\ \A i \in DOMAIN c : i \in DOMAIN a \/ \E k \in DOMAIN b : i = Len(a) + k
        <2>1. /\ \A k \in DOMAIN a : k \in DOMAIN (a \o b) /\ (a \o b)[k] = a[k]
              /\ \A k \in DOMAIN b : Len(a) + k \in DOMAIN (a \o b) /\ (a \o b)[Len(a) + k] = b[k]
              /\ \A i \in DOMAIN (a \o b) :
                    i \in DOMAIN a \/ \E k \in DOMAIN b : i = Len(a) + k
            BY ConcatPositions
        <2> QED  BY <1>1, <2>1, Zenon
    <1>11. DOMAIN a = 1 .. Len(a) /\ DOMAIN b = 1 .. Len(b)
        BY SequenceDomain
    <1>12. \A k \in DOMAIN a : Synthesized(c, k) = Synthesized(a, k)
        <2> SUFFICES ASSUME NEW k \in DOMAIN a PROVE Synthesized(c, k) = Synthesized(a, k)
            OBVIOUS
        <2>1. k \in 1 .. Len(a)
            BY <1>11
        <2>2. /\ EndsRun(a \o b, k) <=> EndsRun(a, k)
              /\ Lacking(a \o b, k) = Lacking(a, k)
            BY <2>1, RunsLeft, Zenon
        <2> QED  BY <1>1, <2>2, Zenon DEF Synthesized, Lacking
    <1>13. \A k \in DOMAIN b : Synthesized(c, Len(a) + k) = Synthesized(b, k)
        <2> SUFFICES ASSUME NEW k \in DOMAIN b
                     PROVE  Synthesized(c, Len(a) + k) = Synthesized(b, k)
            OBVIOUS
        <2>1. k \in 1 .. Len(b)
            BY <1>11
        <2>2. /\ EndsRun(a \o b, Len(a) + k) <=> EndsRun(b, k)
              /\ Lacking(a \o b, Len(a) + k) = Lacking(b, k)
            BY <2>1, RunsRight, ZenonT(30)
        <2> QED  BY <1>1, <2>2, Zenon DEF Synthesized, Lacking
    <1>14. r = p \o q
        <2>1. PICK u : u = p \o q
            OBVIOUS
        <2>2. IsSequence(p) /\ IsSequence(q) /\ IsSequence(r)
            BY <1>7, <1>8, <1>9 DEF IsList
        <2>3. /\ IsSequence(u) /\ Len(u) = Len(p) + Len(q)
              /\ \A i \in DOMAIN p : u[i] = p[i]
              /\ \A i \in DOMAIN q : u[Len(p) + i] = q[i]
            <3>1. Joins(p \o q, p, q)
                BY <2>2, ConcatJoins
            <3> QED  BY <2>1, <3>1, Zenon DEF Joins
        <2>4. Len(r) = Len(u)
            <3>1. Len(c) = Len(a) + Len(b)
                BY <1>1, ConcatJoins, Zenon DEF Joins
            <3> QED  BY <1>7, <1>8, <1>9, <2>3, <3>1, Zenon
        <2>5. \A i \in DOMAIN c : r[i] = u[i]
            <3> SUFFICES ASSUME NEW i \in DOMAIN c PROVE r[i] = u[i]
                OBVIOUS
            <3>1. CASE i \in DOMAIN a
                <4>1. r[i] = <<c[i]>> \o Synthesized(c, i)
                    BY <1>9
                <4>2. c[i] = a[i] /\ Synthesized(c, i) = Synthesized(a, i)
                    BY <1>10, <1>12, <3>1, Zenon
                <4>3. u[i] = p[i] /\ p[i] = <<a[i]>> \o Synthesized(a, i)
                    BY <1>7, <2>3, <3>1, Zenon
                <4> QED  BY <4>1, <4>2, <4>3, Zenon
            <3>2. CASE \E k \in DOMAIN b : i = Len(a) + k
                <4>1. PICK k \in DOMAIN b : i = Len(a) + k
                    BY <3>2
                <4>2. r[i] = <<c[i]>> \o Synthesized(c, i)
                    BY <1>9
                <4>3. c[i] = b[k] /\ Synthesized(c, i) = Synthesized(b, k)
                    BY <1>10, <1>13, <4>1, Zenon
                <4>4. u[i] = q[k] /\ q[k] = <<b[k]>> \o Synthesized(b, k)
                    BY <1>7, <1>8, <2>3, <4>1, Zenon
                <4> QED  BY <4>2, <4>3, <4>4, Zenon
            <3> QED  BY <1>10, <3>1, <3>2, Zenon
        <2>6. \A i \in 1 .. Len(r) : r[i] = u[i]
            <3>1. DOMAIN c = 1 .. Len(r)
                BY <1>2, <1>9, SequenceDomain
            <3> QED  BY <2>5, <3>1, Zenon
        <2>7. r = u
            BY <2>2, <2>3, <2>4, <2>6, SameSequence
        <2> QED  BY <2>1, <2>7
    <1>15. FlattenSeq(p \o q) = FlattenSeq(p) \o FlattenSeq(q)
        BY <1>7, <1>8, FlattenConcat
    <1> QED  BY <1>1, <1>7, <1>8, <1>9, <1>14, <1>15, Zenon

(* A view whose calls are answered needs no repair.                        *)
LEMMA RepairClosed ==
    ASSUME NEW m, IsSequence(m), CallsAnswered(m)
    PROVE  RepairUnanswered(m) = m
    <1>1. DOMAIN m = 1 .. Len(m)
        BY SequenceDomain
    <1>2. \A k \in DOMAIN m : Synthesized(m, k) = <<>>
        <2> SUFFICES ASSUME NEW k \in DOMAIN m PROVE Synthesized(m, k) = <<>>
            OBVIOUS
        <2>1. CASE EndsRun(m, k)
            <3>1. MissingCalls(m, RunStart(m, k), k) = <<>>
                BY <2>1 DEF CallsAnswered
            <3>2. Synthesized(m, k) = [i \in DOMAIN <<>> |-> ToolResult(<<>>[i], "synthesized")]
                BY <2>1, <3>1, Zenon DEF Synthesized
            <3>3. DOMAIN <<>> = {}
                OBVIOUS
            <3>4. PICK u : u = [i \in DOMAIN <<>> |-> ToolResult(<<>>[i], "synthesized")]
                OBVIOUS
            <3>5. u = [i \in 1 .. 0 |-> u[i]]
                <4>1. 1 .. 0 = {}
                    OBVIOUS
                <4> QED  BY <3>3, <3>4, <4>1
            <3>6. u = <<>>
                <4>1. IsSequence(u) /\ Len(u) = 0
                    BY <3>5, ListIsSequence
                <4> QED  BY <4>1, NoElements
            <3> QED  BY <3>2, <3>4, <3>6
        <2>2. CASE ~EndsRun(m, k)
            BY <2>2 DEF Synthesized
        <2> QED  BY <2>1, <2>2
    <1>3. \A k \in DOMAIN m : <<m[k]>> \o Synthesized(m, k) = <<m[k]>>
        <2> SUFFICES ASSUME NEW k \in DOMAIN m
                     PROVE  <<m[k]>> \o Synthesized(m, k) = <<m[k]>>
            OBVIOUS
        <2>1. PICK s : s = <<m[k]>>
            OBVIOUS
        <2>2. IsSequence(s)
            BY <2>1, SingletonIsSequence
        <2>3. s \o <<>> = s
            BY <2>2, EmptyConcat
        <2> QED  BY <1>2, <2>1, <2>3, Zenon
    <1>4. PICK p : p = Picked(m, DOMAIN m)
        OBVIOUS
    <1>5. /\ Len(p) = Len(m) /\ DOMAIN p = 1 .. Len(m)
          /\ \A k \in 1 .. Len(m) : p[k] = IF k \in DOMAIN m THEN <<m[k]>> ELSE <<>>
          /\ ElementsAt(m, DOMAIN m) = FlattenSeq(p)
        BY <1>4, PickedIsList
    <1>6. Parts(m) = p
        <2>1. p = [k \in DOMAIN m |-> IF k \in DOMAIN m THEN <<m[k]>> ELSE <<>>]
            BY <1>4, Zenon DEF Picked
        <2>2. p = [k \in DOMAIN m |-> <<m[k]>>]
            BY <2>1
        <2>3. Parts(m) = [k \in DOMAIN m |-> <<m[k]>>]
            BY <1>3, Zenon DEF Parts
        <2> QED  BY <2>2, <2>3
    <1>7. RepairUnanswered(m) = FlattenSeq(Parts(m))
        BY DEF RepairUnanswered, Parts
    <1>8. ElementsAt(m, DOMAIN m) = m
        BY ElementsAll
    <1> QED  BY <1>5, <1>6, <1>7, <1>8

(* One run: a message that is no result, with the results behind it.       *)
OneRun(b) ==
    /\ IsSequence(b) /\ Len(b) > 0 /\ ~IsResult(b[1])
    /\ \A k \in 2 .. Len(b) : IsResult(b[k])

LEMMA OneRunStart ==
    ASSUME NEW b, OneRun(b), NEW k \in 1 .. Len(b)
    PROVE  /\ RunStart(b, k) = 1
           /\ EndsRun(b, k) <=> k = Len(b)
    <1>1. PICK n \in Nat : n = Len(b)
        BY SequenceDomain DEF OneRun
    <1>2. RunStart(b, k) = 1
        <2>1. \A i \in 1 .. k : i > 1 => IsResult(b[i])
            BY <1>1 DEF OneRun
        <2>2. ~IsResult(b[1])
            BY DEF OneRun
        <2>3. k \in Nat /\ 1 \in 0 .. k
            BY <1>1
        <2> QED  BY <2>1, <2>2, <2>3, RunStartIs
    <1>3. k # n => IsResult(b[k + 1])
        <2>1. k # n => k + 1 \in 2 .. n
            BY <1>1
        <2> QED  BY <1>1, <2>1 DEF OneRun
    <1>4. EndsRun(b, k) <=> k = Len(b)
        BY <1>1, <1>3, Zenon DEF EndsRun
    <1> QED  BY <1>2, <1>4

(* The repair of one run puts the missing results behind it.               *)
LEMMA RepairRun ==
    ASSUME NEW b, OneRun(b), WellShaped(b)
    PROVE  RepairUnanswered(b) = b \o Synthesized(b, Len(b))
    <1>1. PICK n \in Nat : n = Len(b) /\ DOMAIN b = 1 .. n /\ n > 0 /\ IsSequence(b)
        BY SequenceDomain DEF OneRun
    <1>2. PICK q : q = Parts(b)
        OBVIOUS
    <1>3. /\ IsList(q) /\ Len(q) = n /\ DOMAIN q = 1 .. n
          /\ \A k \in 1 .. n : q[k] = <<b[k]>> \o Synthesized(b, k)
          /\ RepairUnanswered(b) = FlattenSeq(q)
        BY <1>1, <1>2, PartsIsList
    <1>4. PICK p : p = Picked(b, DOMAIN b)
        OBVIOUS
    <1>5. /\ IsList(p) /\ Len(p) = n /\ DOMAIN p = 1 .. n
          /\ \A k \in 1 .. n : p[k] = <<b[k]>>
          /\ FlattenSeq(p) = b
        <2>1. /\ IsList(p) /\ Len(p) = Len(b) /\ DOMAIN p = 1 .. Len(b)
              /\ \A k \in 1 .. Len(b) : p[k] = IF k \in DOMAIN b THEN <<b[k]>> ELSE <<>>
              /\ ElementsAt(b, DOMAIN b) = FlattenSeq(p)
            BY <1>1, <1>4, PickedIsList
        <2>2. ElementsAt(b, DOMAIN b) = b
            BY <1>1, ElementsAll
        <2>3. \A k \in 1 .. n : p[k] = <<b[k]>>
            BY <1>1, <2>1
        <2> QED  BY <1>1, <2>1, <2>2, <2>3
    <1>6. n - 1 \in Nat /\ n - 1 < n /\ n - 1 + 1 = n /\ n - 1 \in 0 .. n
        BY <1>1
    <1>7. IsSequence(p) /\ IsSequence(q)
        BY <1>3, <1>5 DEF IsList
    <1>8. Take(p, n - 1) = Take(q, n - 1)
        <2>1. PICK x : x = Take(p, n - 1)
            OBVIOUS
        <2>2. PICK y : y = Take(q, n - 1)
            OBVIOUS
        <2>3. IsSequence(x) /\ Len(x) = n - 1 /\ \A i \in 1 .. (n - 1) : x[i] = p[i]
            BY <1>5, <1>6, <1>7, <2>1, TakeProperties
        <2>4. IsSequence(y) /\ Len(y) = n - 1 /\ \A i \in 1 .. (n - 1) : y[i] = q[i]
            BY <1>3, <1>6, <1>7, <2>2, TakeProperties
        <2>5. ASSUME NEW i \in 1 .. (n - 1) PROVE p[i] = q[i]
            <3>1. i \in 1 .. n /\ i # n
                BY <1>6
            <3>2. ~EndsRun(b, i)
                BY <1>1, <3>1, OneRunStart
            <3>3. Synthesized(b, i) = <<>>
                BY <3>2 DEF Synthesized
            <3>4. PICK s : s = <<b[i]>>
                OBVIOUS
            <3>5. s \o <<>> = s
                BY <3>4, SingletonIsSequence, EmptyConcat
            <3> QED  BY <1>3, <1>5, <3>1, <3>3, <3>4, <3>5, Zenon
        <2>6. \A i \in 1 .. Len(x) : x[i] = y[i]
            BY <2>3, <2>4, <2>5, Zenon
        <2> QED  BY <2>1, <2>2, <2>3, <2>4, <2>6, SameSequence, Zenon
    <1>9. PICK f : f = FlattenSeq(Take(p, n - 1))
        OBVIOUS
    <1>10. IsSequence(f)
        BY <1>5, <1>6, <1>9, FlattenIsSequence
    <1>11. FlattenSeq(Take(p, n)) = f \o p[n] /\ FlattenSeq(Take(q, n)) = f \o q[n]
        BY <1>3, <1>5, <1>6, <1>8, <1>9, FlattenTakes
    <1>12. Take(p, n) = p /\ Take(q, n) = q
        BY <1>3, <1>5, <1>7, TakeEnds
    <1>13. PICK s : s = <<b[n]>>
        OBVIOUS
    <1>14. PICK t : t = Synthesized(b, n)
        OBVIOUS
    <1>15. IsSequence(s) /\ IsSequence(t)
        <2>1. n \in 1 .. Len(b)
            BY <1>1
        <2>2. IsSequence(t)
            BY <1>1, <1>14, <2>1, SynthesizedIsSequence
        <2> QED  BY <1>13, <2>2, SingletonIsSequence
    <1>16. b = f \o s
        <2>1. n \in 1 .. n
            BY <1>1
        <2> QED  BY <1>5, <1>11, <1>12, <1>13, <2>1, Zenon
    <1>17. RepairUnanswered(b) = f \o (s \o t)
        <2>1. n \in 1 .. n
            BY <1>1
        <2>2. q[n] = s \o t
            BY <1>3, <1>13, <1>14, <2>1, Zenon
        <2> QED  BY <1>3, <1>11, <1>12, <2>2, Zenon
    <1>18. (f \o s) \o t = f \o (s \o t)
        <2>1. Groups(f, s, t)
            BY <1>10, <1>15, ConcatGroups
        <2> QED  BY <2>1, Zenon DEF Groups
    <1> QED  BY <1>1, <1>14, <1>16, <1>17, <1>18, Zenon

(* A repaired run is sound and answers its calls.                          *)
LEMMA RunCloses ==
    ASSUME NEW b, OneRun(b), Sound(b)
    PROVE  /\ Sound(RepairUnanswered(b)) /\ CallsAnswered(RepairUnanswered(b))
           /\ OpensRun(RepairUnanswered(b))
    <1>1. PICK n \in Nat : n = Len(b) /\ DOMAIN b = 1 .. n /\ n > 0 /\ IsSequence(b)
        BY SequenceDomain DEF OneRun
    <1>2. PICK t : t = Synthesized(b, n)
        OBVIOUS
    <1>3. PICK missing : missing = Lacking(b, n)
        OBVIOUS
    <1>4. n \in 1 .. Len(b) /\ EndsRun(b, n) /\ RunStart(b, n) = 1
        <2>1. n \in 1 .. Len(b)
            BY <1>1
        <2> QED  BY <1>1, <2>1, OneRunStart
    <1>5. /\ IsSequence(t) /\ Len(t) = Len(missing)
          /\ \A i \in DOMAIN missing : t[i] = ToolResult(missing[i], "synthesized")
        BY <1>1, <1>2, <1>3, <1>4, SynthesizedIsSequence DEF Sound
    <1>6. missing = MissingCalls(b, 1, n)
        BY <1>3, <1>4, Zenon DEF Lacking
    <1>7. IsSequence(missing)
        <2>1. 1 \in 0 .. Len(b)
            BY <1>1
        <2> QED  BY <1>1, <1>6, <2>1, MissingIsSequence DEF Sound
    <1>8. DOMAIN t = DOMAIN missing /\ DOMAIN t = 1 .. Len(t) /\ Len(t) \in Nat
        <2>1. DOMAIN t = 1 .. Len(t) /\ Len(t) \in Nat
            BY <1>5, SequenceDomain
        <2>2. DOMAIN missing = 1 .. Len(missing)
            BY <1>7, SequenceDomain
        <2> QED  BY <1>5, <2>1, <2>2
    <1>9. PICK r : r = b \o t
        OBVIOUS
    <1>10. RepairUnanswered(b) = r
        BY <1>1, <1>2, <1>9, RepairRun DEF Sound
    <1>11. /\ IsSequence(r) /\ Len(r) = n + Len(t)
           /\ \A i \in 1 .. n : r[i] = b[i]
           /\ \A i \in DOMAIN t : r[n + i] = t[i]
        <2>1. IsSequence(b) /\ IsSequence(t)
            BY <1>1, <1>5
        <2>2. /\ IsSequence(r) /\ Len(r) = Len(b) + Len(t)
              /\ \A i \in DOMAIN b : r[i] = b[i]
              /\ \A i \in DOMAIN t : r[Len(b) + i] = t[i]
            <3>1. Joins(b \o t, b, t)
                BY <2>1, ConcatJoins
            <3> QED  BY <1>9, <3>1, Zenon DEF Joins
        <2> QED  BY <1>1, <2>2, Zenon
    <1>12. PICK l \in Nat : l = Len(t)
        BY <1>8
    <1>13. Len(r) = n + l /\ DOMAIN r = 1 .. (n + l)
        <2>1. Len(r) = n + l
            BY <1>11, <1>12
        <2> QED  BY <1>11, <2>1, SequenceDomain
    <1>14. \A k \in (n + 1) .. (n + l) :
              k - n \in DOMAIN missing /\ r[k] = ToolResult(missing[k - n], "synthesized")
        <2> SUFFICES ASSUME NEW k \in (n + 1) .. (n + l)
                     PROVE  k - n \in DOMAIN missing
                            /\ r[k] = ToolResult(missing[k - n], "synthesized")
            OBVIOUS
        <2>1. k - n \in 1 .. l /\ n + (k - n) = k
            OBVIOUS
        <2>2. k - n \in DOMAIN t
            BY <1>8, <1>12, <2>1
        <2>3. r[n + (k - n)] = t[k - n]
            BY <1>11, <2>2, Zenon
        <2>4. t[k - n] = ToolResult(missing[k - n], "synthesized")
            BY <1>5, <1>8, <2>2, Zenon
        <2> QED  BY <1>8, <2>1, <2>2, <2>3, <2>4
    <1>15. r[1] = b[1] /\ ~IsResult(r[1])
        BY <1>1, <1>11 DEF OneRun
    <1>16. OneRun(r)
        <2>1. ASSUME NEW k \in 2 .. (n + l) PROVE IsResult(r[k])
            <3>1. CASE k \in 2 .. n
                <4>1. r[k] = b[k] /\ IsResult(b[k])
                    BY <1>1, <1>11, <3>1 DEF OneRun
                <4> QED  BY <4>1
            <3>2. CASE k \in (n + 1) .. (n + l)
                <4>1. r[k] = ToolResult(missing[k - n], "synthesized")
                    BY <1>14, <3>2
                <4> QED  BY <4>1 DEF IsResult, ToolResult
            <3>3. k \in 2 .. n \/ k \in (n + 1) .. (n + l)
                OBVIOUS
            <3> QED  BY <3>1, <3>2, <3>3
        <2>2. Len(r) > 0
            BY <1>1, <1>13
        <2> QED  BY <1>11, <1>13, <1>15, <2>1, <2>2 DEF OneRun
    <1>17. PICK calls : calls = b[1].calls
        OBVIOUS
    <1>18. PICK answered : answered = {b[i].call : i \in 2 .. n}
        OBVIOUS
    <1>19. b[1].type # "assistant" => missing = <<>>
        BY <1>6 DEF MissingCalls
    <1>20. b[1].type = "assistant" =>
              missing = ElementsAt(calls, {i \in DOMAIN calls : calls[i] \notin answered})
        <2>1. (1 + 1) .. n = 2 .. n /\ 1 # 0
            BY <1>1
        <2> QED  BY <1>6, <1>17, <1>18, <2>1, Zenon DEF MissingCalls
    <1>21. b[1] \in Range(b)
        BY <1>1, SequenceDomain
    <1>22. b[1].type = "assistant" =>
              /\ IsSequence(calls)
              /\ Range(missing) = {calls[i] : i \in {j \in DOMAIN calls : calls[j] \notin answered}}
        <2> SUFFICES ASSUME b[1].type = "assistant"
                     PROVE  /\ IsSequence(calls)
                            /\ Range(missing) = {calls[i] : i \in {j \in DOMAIN calls :
                                                                     calls[j] \notin answered}}
            OBVIOUS
        <2>1. IsSequence(calls)
            BY <1>17, <1>21 DEF Sound, WellShaped, Shaped
        <2> DEFINE P == {i \in DOMAIN calls : calls[i] \notin answered}
        <2>2. Range(ElementsAt(calls, P)) = {calls[i] : i \in {j \in DOMAIN calls : j \in P}}
            <3> HIDE DEF P
            <3> QED  BY <2>1, ElementsRange
        <2>3. {j \in DOMAIN calls : j \in P} = {j \in DOMAIN calls : calls[j] \notin answered}
            OBVIOUS
        <2> QED  BY <1>20, <2>1, <2>2, <2>3
    <1>23. \A i \in DOMAIN missing : missing[i] \in Range(missing)
        BY <1>7, SequenceDomain
    <1>24. WellShaped(r)
        <2>1. ASSUME NEW i \in DOMAIN t PROVE Shaped(t[i])
            <3>1. t[i] = ToolResult(missing[i], "synthesized")
                BY <1>5, <1>8
            <3> QED  BY <3>1 DEF Shaped, ToolResult, IsResult
        <2>2. \A x \in Range(t) : Shaped(x)
            BY <2>1 DEF Range
        <2>3. \A x \in Range(b) : Shaped(x)
            BY DEF Sound, WellShaped
        <2>4. Range(r) = Range(b) \cup Range(t)
            BY <1>1, <1>5, <1>9, RangeConcat
        <2> QED  BY <2>2, <2>3, <2>4 DEF WellShaped
    <1>25. \A k \in 1 .. (n + l) : RunStart(r, k) = 1 /\ (EndsRun(r, k) <=> k = n + l)
        BY <1>13, <1>16, OneRunStart
    <1>26. NoOrphanResults(r)
        <2> SUFFICES ASSUME NEW k \in 1 .. (n + l), IsResult(r[k]) PROVE Owned(r, k)
            BY <1>13, OwnedOrOrphan
        <2>1. CASE k \in 1 .. n
            <3>1. r[k] = b[k]
                BY <1>11, <2>1
            <3>2. Owned(b, k)
                BY <1>1, <2>1, <3>1, OwnedOrOrphan DEF Sound
            <3>3. RunStart(b, k) = 1
                BY <1>1, <2>1, OneRunStart
            <3> QED  BY <1>15, <1>25, <3>1, <3>2, <3>3 DEF Owned
        <2>2. CASE k \in (n + 1) .. (n + l)
            <3>1. k - n \in DOMAIN missing /\ r[k].call = missing[k - n]
                <4>1. k - n \in DOMAIN missing /\ r[k] = ToolResult(missing[k - n], "synthesized")
                    BY <1>14, <2>2
                <4> QED  BY <4>1 DEF ToolResult
            <3>2. b[1].type = "assistant"
                <4>1. missing # <<>>
                    BY <3>1
                <4> QED  BY <1>19, <4>1
            <3>3. r[k].call \in Range(missing)
                BY <1>23, <3>1
            <3>4. r[k].call \in ToSet(calls)
                BY <1>22, <3>2, <3>3 DEF ToSet
            <3> QED  BY <1>15, <1>17, <1>25, <3>2, <3>4 DEF Owned
        <2>3. k \in 1 .. n \/ k \in (n + 1) .. (n + l)
            BY <1>1
        <2> QED  BY <2>1, <2>2, <2>3
    <1>27. CallsAnswered(r)
        <2> SUFFICES MissingCalls(r, 1, n + l) = <<>>
            <3>1. ASSUME NEW k \in DOMAIN r, EndsRun(r, k)
                  PROVE  Lacking(r, k) = <<>>
                <4>1. k = n + l /\ RunStart(r, k) = 1
                    BY <1>13, <1>25, <3>1
                <4> QED  BY <4>1, Zenon DEF Lacking
            <3> QED  BY <3>1, AnsweredOrLacking
        <2>1. CASE b[1].type # "assistant"
            BY <1>15, <2>1 DEF MissingCalls
        <2>2. CASE b[1].type = "assistant"
            <3>1. PICK told : told = {r[i].call : i \in 2 .. (n + l)}
                OBVIOUS
            <3>2. MissingCalls(r, 1, n + l)
                    = ElementsAt(calls, {i \in DOMAIN calls : calls[i] \notin told})
                <4>1. (1 + 1) .. (n + l) = 2 .. (n + l) /\ 1 # 0
                    OBVIOUS
                <4> QED  BY <1>15, <1>17, <2>2, <3>1, <4>1, Zenon DEF MissingCalls
            <3>3. ASSUME NEW i \in DOMAIN calls PROVE calls[i] \in told
                <4>1. CASE calls[i] \in answered
                    <5>1. PICK k \in 2 .. n : calls[i] = b[k].call
                        BY <1>18, <4>1
                    <5>2. k \in 2 .. (n + l) /\ k \in 1 .. n
                        OBVIOUS
                    <5>3. r[k] = b[k]
                        BY <1>11, <5>2
                    <5> QED  BY <3>1, <5>1, <5>2, <5>3
                <4>2. CASE calls[i] \notin answered
                    <5>1. calls[i] \in Range(missing)
                        BY <1>22, <2>2, <4>2
                    <5>2. PICK j \in DOMAIN missing : missing[j] = calls[i]
                        BY <5>1 DEF Range
                    <5>3. j \in 1 .. l /\ j \in DOMAIN t
                        BY <1>8, <1>12
                    <5>4. r[n + j] = ToolResult(calls[i], "synthesized")
                        BY <1>5, <1>11, <5>2, <5>3, Zenon
                    <5>5. n + j \in 2 .. (n + l)
                        BY <1>1, <5>3
                    <5>6. r[n + j].call = calls[i]
                        BY <5>4 DEF ToolResult
                    <5> QED  BY <3>1, <5>5, <5>6
                <4> QED  BY <4>1, <4>2
            <3>4. PICK P : P = {i \in DOMAIN calls : calls[i] \notin told}
                OBVIOUS
            <3>5. \A i \in DOMAIN calls : i \notin P
                BY <3>3, <3>4
            <3>6. IsSequence(calls)
                BY <1>22, <2>2
            <3>7. ElementsAt(calls, P) = <<>>
                BY <3>5, <3>6, ElementsNone
            <3> QED  BY <3>2, <3>4, <3>7, Zenon
        <2> QED  BY <2>1, <2>2
    <1>28. OpensRun(r)
        BY <1>15 DEF OpensRun
    <1> QED  BY <1>10, <1>11, <1>24, <1>26, <1>27, <1>28, Zenon DEF Sound

-----------------------------------------------------------------------------
(* Cutting a view in two.                                                  *)
LEMMA SplitAt ==
    ASSUME NEW m, IsSequence(m), NEW n \in 0 .. Len(m)
    PROVE  m = Take(m, n) \o RowsAfter(m, n)
    <1>1. PICK a : a = Take(m, n)
        OBVIOUS
    <1>2. PICK b : b = RowsAfter(m, n)
        OBVIOUS
    <1>3. PICK p \in Nat : p = Len(m)
        BY SequenceDomain
    <1>4. IsSequence(a) /\ Len(a) = n /\ DOMAIN a = 1 .. n /\ \A i \in 1 .. n : a[i] = m[i]
        BY <1>1, TakeProperties
    <1>5. /\ IsSequence(b) /\ Len(b) = p - n /\ DOMAIN b = 1 .. (p - n)
          /\ \A i \in 1 .. (p - n) : b[i] = m[n + i]
        BY <1>2, <1>3, RowsAfterProperties
    <1>6. PICK c : c = a \o b
        OBVIOUS
    <1>7. /\ IsSequence(c) /\ Len(c) = Len(a) + Len(b)
          /\ \A i \in DOMAIN a : c[i] = a[i]
          /\ \A i \in DOMAIN b : c[Len(a) + i] = b[i]
        <2>1. IsSequence(a) /\ IsSequence(b)
            BY <1>4, <1>5
        <2>2. IsSequence(a \o b) /\ Len(a \o b) = Len(a) + Len(b)
            BY <2>1, ConcatJoins, Zenon DEF Joins
        <2>3. \A i \in DOMAIN a : (a \o b)[i] = a[i]
            BY <2>1, ConcatJoins, Zenon DEF Joins
        <2>4. \A i \in DOMAIN b : (a \o b)[Len(a) + i] = b[i]
            BY <2>1, ConcatPositions
        <2> QED  BY <1>6, <2>2, <2>3, <2>4, Zenon
    <1>8. n \in 0 .. p
        BY <1>3
    <1>9. Len(c) = p
        <2>1. n + (p - n) = p
            BY <1>8
        <2> QED  BY <1>4, <1>5, <1>7, <2>1
    <1>10. ASSUME NEW i \in 1 .. p PROVE c[i] = m[i]
        <2>1. CASE i \in 1 .. n
            BY <1>4, <1>7, <2>1
        <2>2. CASE i - n \in 1 .. (p - n)
            <3>1. n + (i - n) = i
                BY <1>8
            <3>2. c[n + (i - n)] = b[i - n] /\ b[i - n] = m[n + (i - n)]
                BY <1>4, <1>5, <1>7, <2>2, Zenon
            <3> QED  BY <3>1, <3>2, Zenon
        <2>3. i \in 1 .. n \/ i - n \in 1 .. (p - n)
            BY <1>8
        <2> QED  BY <2>1, <2>2, <2>3
    <1>11. c = m
        <2>1. IsSequence(c)
            BY <1>7
        <2>2. Len(c) = Len(m) /\ \A i \in 1 .. Len(c) : c[i] = m[i]
            BY <1>3, <1>9, <1>10, Zenon
        <2> QED  BY <2>1, <2>2, SameSequence
    <1> QED  BY <1>1, <1>2, <1>6, <1>11, Zenon

(* What is sound stays sound on both sides of a cut outside a run.         *)
LEMMA CutSound ==
    ASSUME NEW m, Sound(m), NEW n \in 0 .. Len(m), n < Len(m) => ~IsResult(m[n + 1])
    PROVE  /\ Sound(Take(m, n)) /\ Sound(RowsAfter(m, n))
           /\ m = Take(m, n) \o RowsAfter(m, n)
           /\ OpensRun(RowsAfter(m, n))
           /\ CallsAnswered(m) => CallsAnswered(Take(m, n)) /\ CallsAnswered(RowsAfter(m, n))
    <1>1. IsSequence(m)
        BY DEF Sound
    <1>2. PICK a : a = Take(m, n)
        OBVIOUS
    <1>3. PICK b : b = RowsAfter(m, n)
        OBVIOUS
    <1>4. PICK p \in Nat : p = Len(m)
        BY <1>1, SequenceDomain
    <1>5. IsSequence(a)
        BY <1>1, <1>2, TakeProperties
    <1>6. /\ IsSequence(b) /\ Len(b) = p - n
          /\ \A i \in 1 .. (p - n) : b[i] = m[n + i]
        BY <1>1, <1>3, <1>4, RowsAfterProperties
    <1>7. m = a \o b
        BY <1>1, <1>2, <1>3, SplitAt
    <1>8. OpensRun(b)
        <2> SUFFICES ASSUME p - n > 0 PROVE ~IsResult(b[1])
            BY <1>6 DEF OpensRun
        <2>1. 1 \in 1 .. (p - n) /\ n < p
            BY <1>4
        <2>2. b[1] = m[n + 1]
            BY <1>6, <2>1
        <2> QED  BY <1>4, <2>1, <2>2
    <1>9. /\ Sound(a \o b) <=> Sound(a) /\ Sound(b)
          /\ CallsAnswered(a \o b) <=> CallsAnswered(a) /\ CallsAnswered(b)
        BY <1>5, <1>6, <1>8, SoundConcat, Zenon
    <1> QED  BY <1>2, <1>3, <1>7, <1>8, <1>9, Zenon

LEMMA EmptySound == Sound(<<>>) /\ CallsAnswered(<<>>) /\ RepairUnanswered(<<>>) = <<>>
    <1>1. IsSequence(<<>>) /\ DOMAIN <<>> = {} /\ Range(<<>>) = {}
        BY EmptyIsSequence DEF Range
    <1>2. Sound(<<>>) /\ CallsAnswered(<<>>)
        BY <1>1 DEF Sound, WellShaped, NoOrphanResults, CallsAnswered
    <1>3. RepairUnanswered(<<>>) = <<>>
        BY <1>1, <1>2, RepairClosed
    <1> QED  BY <1>2, <1>3

(* The repair keeps a view sound and leaves no call without a result.      *)
LEMMA RepairCloses ==
    ASSUME NEW m, Sound(m)
    PROVE  /\ Sound(RepairUnanswered(m)) /\ CallsAnswered(RepairUnanswered(m))
           /\ OpensRun(RepairUnanswered(m))
    <1> DEFINE Closed(x) == Sound(RepairUnanswered(x)) /\ CallsAnswered(RepairUnanswered(x))
               G == {n \in Nat : \A x : Sound(x) /\ Len(x) <= n => Closed(x)}
    <1>1. 0 \in G
        <2> SUFFICES ASSUME NEW x, Sound(x), Len(x) <= 0 PROVE Closed(x)
            OBVIOUS
        <2>1. x = <<>>
            <3>1. IsSequence(x) /\ Len(x) \in Nat
                BY SequenceDomain DEF Sound
            <3>2. Len(x) = 0
                BY <3>1
            <3> QED  BY <3>1, <3>2, NoElements
        <2> QED  BY <2>1, EmptySound
    <1>2. ASSUME NEW n \in G PROVE n + 1 \in G
        <2> SUFFICES ASSUME NEW x, Sound(x), Len(x) <= n + 1 PROVE Closed(x)
            OBVIOUS
        <2>1. PICK p \in Nat : p = Len(x) /\ DOMAIN x = 1 .. p /\ IsSequence(x)
            BY SequenceDomain DEF Sound
        <2>2. CASE p = 0
            <3>1. x = <<>>
                BY <2>1, <2>2, NoElements
            <3> QED  BY <3>1, EmptySound
        <2>3. CASE p > 0
            <3>1. PICK s : s = RunStart(x, p)
                OBVIOUS
            <3>2. /\ s \in 0 .. p /\ (s > 0 => ~IsResult(x[s]))
                  /\ \A i \in 1 .. p : i > s => IsResult(x[i])
                BY <3>1, RunStartBounds
            <3>3. s > 0
                <4> SUFFICES ASSUME s = 0 PROVE FALSE
                    BY <3>2
                <4>1. IsResult(x[1])
                    BY <2>3, <3>2
                <4> QED  BY <2>1, <2>3, <4>1, SoundOpens DEF OpensRun
            <3>4. s - 1 \in 0 .. p /\ s - 1 + 1 = s /\ s - 1 <= n /\ s \in 1 .. p
                BY <2>1, <3>2, <3>3
            <3>5. PICK a : a = Take(x, s - 1)
                OBVIOUS
            <3>6. PICK b : b = RowsAfter(x, s - 1)
                OBVIOUS
            <3>7. Sound(a) /\ Sound(b) /\ x = a \o b /\ OpensRun(b)
                <4>1. s - 1 < p => ~IsResult(x[s - 1 + 1])
                    BY <3>2, <3>3, <3>4
                <4>2. s - 1 \in 0 .. Len(x) /\ (s - 1 < Len(x) => ~IsResult(x[s - 1 + 1]))
                    BY <2>1, <3>4, <4>1
                <4> QED  BY <3>5, <3>6, <4>2, CutSound
            <3>8. Len(a) <= n
                <4>1. Len(a) = s - 1
                    BY <2>1, <3>4, <3>5, TakeProperties
                <4> QED  BY <3>4, <4>1
            <3>9. Closed(a)
                BY <3>7, <3>8
            <3>10. OneRun(b)
                <4>1. /\ IsSequence(b) /\ Len(b) = p - (s - 1)
                      /\ \A i \in 1 .. (p - (s - 1)) : b[i] = x[s - 1 + i]
                    BY <2>1, <3>4, <3>6, RowsAfterProperties
                <4>2. Len(b) > 0
                    BY <3>4, <4>1
                <4>3. ~IsResult(b[1])
                    BY <3>7, <4>2 DEF OpensRun
                <4>4. ASSUME NEW k \in 2 .. (p - (s - 1)) PROVE IsResult(b[k])
                    <5>1. k \in 1 .. (p - (s - 1)) /\ s - 1 + k \in 1 .. p /\ s - 1 + k > s
                        BY <3>4
                    <5>2. IsResult(x[s - 1 + k])
                        BY <3>2, <5>1
                    <5> QED  BY <4>1, <5>1, <5>2
                <4> QED  BY <4>1, <4>2, <4>3, <4>4 DEF OneRun
            <3>11. Closed(b) /\ OpensRun(RepairUnanswered(b))
                BY <3>7, <3>10, RunCloses
            <3>12. RepairUnanswered(x) = RepairUnanswered(a) \o RepairUnanswered(b)
                BY <3>7, RepairConcat DEF Sound
            <3>13. PICK ra : ra = RepairUnanswered(a)
                OBVIOUS
            <3>14. PICK rb : rb = RepairUnanswered(b)
                OBVIOUS
            <3>15. Sound(ra) /\ CallsAnswered(ra) /\ Sound(rb) /\ CallsAnswered(rb) /\ OpensRun(rb)
                BY <3>9, <3>11, <3>13, <3>14
            <3>16. Sound(ra \o rb) /\ CallsAnswered(ra \o rb)
                BY <3>15, SoundConcat DEF Sound
            <3> QED  BY <3>12, <3>13, <3>14, <3>16
        <2> QED  BY <2>1, <2>2, <2>3
    <1>3. G = Nat
        <2> HIDE DEF G
        <2> QED  BY <1>1, <1>2, NaturalInduction DEF G
    <1>4. Closed(m)
        <2>1. Len(m) \in Nat /\ Len(m) <= Len(m)
            <3>1. Len(m) \in Nat
                BY SequenceDomain DEF Sound
            <3> QED  BY <3>1
        <2>2. Len(m) \in G
            BY <1>3, <2>1
        <2> QED  BY <2>1, <2>2
    <1> QED  BY <1>4, SoundOpens

-----------------------------------------------------------------------------
(* Prefixes, and what a turn puts behind a view.                           *)

LEMMA PrefixGrows ==
    ASSUME NEW s, IsSequence(s), NEW t, IsSequence(t), IsPrefix(s, t), NEW u, IsSequence(u)
    PROVE  IsPrefix(s, t \o u)
    <1>1. PICK n \in Nat : n = Len(s)
        BY SequenceDomain
    <1>2. PICK p \in Nat : p = Len(t) /\ DOMAIN t = 1 .. p
        BY SequenceDomain
    <1>3. PICK q \in Nat : q = Len(u)
        BY SequenceDomain
    <1>4. PICK c : c = t \o u
        OBVIOUS
    <1>5. IsSequence(c) /\ Len(c) = Len(t) + Len(u) /\ \A i \in DOMAIN t : c[i] = t[i]
        BY <1>4, ConcatJoins, Zenon DEF Joins
    <1>6. Len(c) = p + q
        BY <1>2, <1>3, <1>5
    <1>7. n <= p /\ Take(s, n) = Take(t, n)
        BY <1>1, <1>2 DEF IsPrefix, Take
    <1>8. n <= p + q /\ n \in 0 .. p /\ n \in 0 .. (p + q)
        BY <1>7
    <1>9. Take(c, n) = Take(t, n)
        <2>1. PICK x : x = Take(c, n)
            OBVIOUS
        <2>2. PICK y : y = Take(t, n)
            OBVIOUS
        <2>3. IsSequence(x) /\ Len(x) = n /\ \A i \in 1 .. n : x[i] = c[i]
            BY <1>5, <1>6, <1>8, <2>1, TakeProperties
        <2>4. IsSequence(y) /\ Len(y) = n /\ \A i \in 1 .. n : y[i] = t[i]
            BY <1>2, <1>8, <2>2, TakeProperties
        <2>5. \A i \in 1 .. n : c[i] = t[i]
            <3>1. \A i \in 1 .. n : i \in 1 .. p
                BY <1>8
            <3> QED  BY <1>2, <1>5, <3>1
        <2>6. \A i \in 1 .. Len(x) : x[i] = y[i]
            BY <2>3, <2>4, <2>5, Zenon
        <2> QED  BY <2>1, <2>2, <2>3, <2>4, <2>6, SameSequence, Zenon
    <1> QED  BY <1>1, <1>4, <1>6, <1>7, <1>8, <1>9 DEF IsPrefix, Take

LEMMA PrefixSelf ==
    ASSUME NEW s, IsSequence(s)
    PROVE  IsPrefix(s, s) /\ IsPrefix(<<>>, s)
    <1>1. Len(s) \in Nat
        BY SequenceDomain
    <1>2. IsPrefix(s, s)
        BY <1>1 DEF IsPrefix
    <1>3. Take(s, 0) = <<>> /\ Take(<<>>, 0) = <<>> /\ Len(<<>>) = 0
        BY TakeEnds, EmptyIsSequence
    <1>4. IsPrefix(<<>>, s)
        BY <1>1, <1>3 DEF IsPrefix, Take
    <1> QED  BY <1>2, <1>4

(* A concatenation without its second part.                                *)
LEMMA TakeConcat ==
    ASSUME NEW s, IsSequence(s), NEW t, IsSequence(t)
    PROVE  Take(s \o t, Len(s)) = s
    <1>1. PICK c : c = s \o t
        OBVIOUS
    <1>2. IsSequence(c) /\ Len(c) = Len(s) + Len(t) /\ \A i \in DOMAIN s : c[i] = s[i]
        BY <1>1, ConcatJoins, Zenon DEF Joins
    <1>3. PICK n \in Nat : n = Len(s) /\ DOMAIN s = 1 .. n
        BY SequenceDomain
    <1>4. n \in 0 .. Len(c)
        <2>1. PICK q \in Nat : q = Len(t)
            BY SequenceDomain
        <2>2. Len(c) = n + q
            BY <1>2, <1>3, <2>1
        <2> QED  BY <2>2
    <1>5. PICK x : x = Take(c, n)
        OBVIOUS
    <1>6. IsSequence(x) /\ Len(x) = n /\ \A i \in 1 .. n : x[i] = c[i]
        BY <1>2, <1>4, <1>5, TakeProperties
    <1>7. \A i \in 1 .. Len(x) : x[i] = s[i]
        BY <1>2, <1>3, <1>6, Zenon
    <1>8. x = s
        BY <1>3, <1>6, <1>7, SameSequence
    <1> QED  BY <1>1, <1>3, <1>5, <1>8, Zenon

(* User messages are sound by themselves.                                  *)
LEMMA UsersSound ==
    ASSUME NEW b, IsSequence(b), \A k \in DOMAIN b : b[k].type = "user"
    PROVE  Sound(b) /\ CallsAnswered(b) /\ OpensRun(b)
    <1>1. PICK n \in Nat : n = Len(b) /\ DOMAIN b = 1 .. n
        BY SequenceDomain
    <1>2. \A k \in 1 .. n : ~IsResult(b[k]) /\ b[k].type # "assistant"
        BY <1>1 DEF IsResult
    <1>3. WellShaped(b)
        BY <1>1, <1>2 DEF WellShaped, Range, Shaped
    <1>4. NoOrphanResults(b)
        BY <1>1, <1>2, OwnedOrOrphan
    <1>5. \A k \in 1 .. n : Lacking(b, k) = <<>>
        <2> SUFFICES ASSUME NEW k \in 1 .. n PROVE Lacking(b, k) = <<>>
            OBVIOUS
        <2>1. RunStart(b, k) = k
            <3>1. k \in Nat /\ k \in 0 .. k /\ ~IsResult(b[k])
                BY <1>2
            <3>2. \A i \in 1 .. k : i > k => IsResult(b[i])
                OBVIOUS
            <3> QED  BY <3>1, <3>2, RunStartIs
        <2> QED  BY <1>2, <2>1 DEF Lacking, MissingCalls
    <1>6. CallsAnswered(b)
        BY <1>1, <1>5, AnsweredOrLacking
    <1>7. Sound(b)
        BY <1>3, <1>4 DEF Sound
    <1> QED  BY <1>6, <1>7, SoundOpens

(* So is a message of the model with results of its calls, and it answers  *)
(* its calls when every call has a result.                                 *)
LEMMA BatchSound ==
    ASSUME NEW x, x.type = "assistant", IsSequence(x.calls), NEW rows, IsSequence(rows),
           \A k \in DOMAIN rows : /\ rows[k] = ToolResult(rows[k].call, rows[k].how)
                                  /\ rows[k].call \in ToSet(x.calls)
    PROVE  /\ Sound(<<x>> \o rows) /\ OpensRun(<<x>> \o rows)
           /\ Len(<<x>> \o rows) = Len(rows) + 1
           /\ (\A c \in ToSet(x.calls) : \E k \in DOMAIN rows : rows[k].call = c)
                 => CallsAnswered(<<x>> \o rows)
    <1>1. PICK s : s = <<x>>
        OBVIOUS
    <1>2. IsSequence(s) /\ Len(s) = 1 /\ s[1] = x
        BY <1>1, SingletonIsSequence
    <1>3. DOMAIN s = 1 .. 1
        BY <1>2, SequenceDomain
    <1>4. PICK b : b = s \o rows
        OBVIOUS
    <1>5. IsSequence(b) /\ Len(b) = Len(s) + Len(rows)
        <2>1. IsSequence(s)
            BY <1>2
        <2>2. Joins(s \o rows, s, rows)
            BY <2>1, ConcatJoins
        <2> QED  BY <1>4, <2>2, Zenon DEF Joins
    <1>6. /\ \A k \in DOMAIN s : b[k] = s[k]
          /\ \A k \in DOMAIN rows : b[Len(s) + k] = rows[k]
        <2>1. IsSequence(s)
            BY <1>2
        <2>2. Joins(s \o rows, s, rows)
            BY <2>1, ConcatJoins
        <2> QED  BY <1>4, <2>2, Zenon DEF Joins
    <1>7. PICK n \in Nat : n = Len(rows) /\ DOMAIN rows = 1 .. n
        BY SequenceDomain
    <1>8. Len(b) = n + 1 /\ DOMAIN b = 1 .. (n + 1)
        <2>1. Len(b) = n + 1
            BY <1>2, <1>5, <1>7
        <2> QED  BY <1>5, <2>1, SequenceDomain
    <1>9. b[1] = x
        BY <1>2, <1>3, <1>6
    <1>10. \A k \in 1 .. n : b[1 + k] = rows[k]
        BY <1>2, <1>6, <1>7, Zenon
    <1>11. \A k \in 2 .. (n + 1) : k - 1 \in 1 .. n /\ b[k] = rows[k - 1]
        <2> SUFFICES ASSUME NEW k \in 2 .. (n + 1)
                     PROVE  k - 1 \in 1 .. n /\ b[k] = rows[k - 1]
            OBVIOUS
        <2>1. k - 1 \in 1 .. n /\ 1 + (k - 1) = k
            OBVIOUS
        <2>2. b[1 + (k - 1)] = rows[k - 1]
            BY <1>10, <2>1
        <2> QED  BY <2>1, <2>2
    <1>12. \A k \in 1 .. n : /\ IsResult(rows[k]) /\ Shaped(rows[k])
                             /\ rows[k].call \in ToSet(x.calls)
        <2> SUFFICES ASSUME NEW k \in 1 .. n
                     PROVE  /\ IsResult(rows[k]) /\ Shaped(rows[k])
                            /\ rows[k].call \in ToSet(x.calls)
            OBVIOUS
        <2>1. rows[k] = ToolResult(rows[k].call, rows[k].how) /\ rows[k].call \in ToSet(x.calls)
            BY <1>7
        <2>2. IsResult(rows[k]) /\ rows[k].type # "assistant"
            BY <2>1 DEF ToolResult, IsResult
        <2> QED  BY <2>1, <2>2 DEF Shaped
    <1>13. ~IsResult(x)
        BY DEF IsResult
    <1>14. OneRun(b)
        <2>1. \A k \in 2 .. (n + 1) : IsResult(b[k])
            BY <1>11, <1>12
        <2>2. Len(b) > 0
            BY <1>8
        <2> QED  BY <1>5, <1>8, <1>9, <1>13, <2>1, <2>2 DEF OneRun
    <1>15. WellShaped(b)
        <2>1. Shaped(x)
            BY <1>13 DEF Shaped
        <2>2. \A k \in 1 .. (n + 1) : Shaped(b[k])
            <3>1. \A k \in 1 .. (n + 1) : k = 1 \/ k \in 2 .. (n + 1)
                OBVIOUS
            <3> QED  BY <1>9, <1>11, <1>12, <2>1, <3>1
        <2> QED  BY <1>8, <2>2 DEF WellShaped, Range
    <1>16. \A k \in 1 .. (n + 1) : RunStart(b, k) = 1 /\ (EndsRun(b, k) <=> k = n + 1)
        BY <1>8, <1>14, OneRunStart
    <1>17. NoOrphanResults(b)
        <2> SUFFICES ASSUME NEW k \in 1 .. (n + 1), IsResult(b[k]) PROVE Owned(b, k)
            BY <1>8, OwnedOrOrphan
        <2>1. k # 1
            BY <1>9, <1>13
        <2>2. k \in 2 .. (n + 1)
            BY <2>1
        <2>3. b[k].call \in ToSet(x.calls)
            BY <1>11, <1>12, <2>2
        <2> QED  BY <1>9, <1>16, <2>3 DEF Owned
    <1>18. ASSUME \A c \in ToSet(x.calls) : \E k \in DOMAIN rows : rows[k].call = c
           PROVE  CallsAnswered(b)
        <2>1. PICK calls : calls = x.calls
            OBVIOUS
        <2>2. PICK told : told = {b[i].call : i \in 2 .. (n + 1)}
            OBVIOUS
        <2>3. MissingCalls(b, 1, n + 1)
                = ElementsAt(calls, {i \in DOMAIN calls : calls[i] \notin told})
            <3>1. (1 + 1) .. (n + 1) = 2 .. (n + 1) /\ 1 # 0
                OBVIOUS
            <3> QED  BY <1>9, <2>1, <2>2, <3>1, Zenon DEF MissingCalls
        <2>4. ASSUME NEW i \in DOMAIN calls PROVE calls[i] \in told
            <3>1. calls[i] \in ToSet(x.calls)
                BY <2>1 DEF ToSet
            <3>2. PICK k \in 1 .. n : rows[k].call = calls[i]
                BY <1>7, <1>18, <3>1
            <3>3. 1 + k \in 2 .. (n + 1) /\ b[1 + k] = rows[k]
                BY <1>10
            <3> QED  BY <2>2, <3>2, <3>3
        <2>5. PICK P : P = {i \in DOMAIN calls : calls[i] \notin told}
            OBVIOUS
        <2>6. \A i \in DOMAIN calls : i \notin P
            BY <2>4, <2>5
        <2>7. ElementsAt(calls, P) = <<>>
            BY <2>1, <2>6, ElementsNone
        <2>8. Lacking(b, n + 1) = <<>>
            <3>1. RunStart(b, n + 1) = 1
                BY <1>16
            <3> QED  BY <2>3, <2>5, <2>7, <3>1, Zenon DEF Lacking
        <2> QED  BY <1>8, <1>16, <2>8, AnsweredOrLacking
    <1>19. OpensRun(b)
        BY <1>9, <1>13 DEF OpensRun
    <1> QED  BY <1>1, <1>4, <1>5, <1>7, <1>8, <1>15, <1>17, <1>18, <1>19, Zenon DEF Sound


-----------------------------------------------------------------------------
(* The token accounting: its fold, like the one of the count, as a         *)
(* function over the sets of positions.                                    *)

ZeroUsage == [input |-> 0, calls |-> 0]

Usage(l) == FoldLeft(AddUsage, ZeroUsage, l)

UsageBy(f, l, n) ==
    f = [s \in SUBSET (1 .. n) |->
            IF s = {} THEN ZeroUsage ELSE AddUsage(f[s \ {Max(s)}], l[Max(s)])]

LEMMA UsageByAt ==
    ASSUME NEW l, NEW n, NEW f, UsageBy(f, l, n), NEW s \in SUBSET (1 .. n)
    PROVE  /\ s = {} => f[s] = ZeroUsage
           /\ s # {} => f[s] = AddUsage(f[s \ {Max(s)}], l[Max(s)])
    <1> DEFINE e(t) == IF t = {} THEN ZeroUsage ELSE AddUsage(f[t \ {Max(t)}], l[Max(t)])
    <1>1. f = [t \in SUBSET (1 .. n) |-> e(t)]
        BY Zenon DEF UsageBy
    <1>2. f[s] = e(s)
        <2> HIDE DEF e
        <2> QED  BY <1>1
    <1> QED  BY <1>2

LEMMA UsageByExists ==
    ASSUME NEW l, NEW n \in Nat
    PROVE  \E f : UsageBy(f, l, n)
    <1> DEFINE G == {k \in Nat : \E f : UsageBy(f, l, k)}
    <1>1. 0 \in G
        <2> DEFINE f == [s \in SUBSET (1 .. 0) |-> ZeroUsage]
        <2>1. \A s \in SUBSET (1 .. 0) : s = {}
            OBVIOUS
        <2>2. f = [s \in SUBSET (1 .. 0) |->
                      IF s = {} THEN ZeroUsage ELSE AddUsage(f[s \ {Max(s)}], l[Max(s)])]
            BY <2>1
        <2> HIDE DEF f
        <2>3. UsageBy(f, l, 0)
            BY <2>2, Zenon DEF UsageBy
        <2> QED  BY <2>3
    <1>2. ASSUME NEW k \in G PROVE k + 1 \in G
        <2>1. PICK f : UsageBy(f, l, k)
            OBVIOUS
        <2> DEFINE g == [s \in SUBSET (1 .. (k + 1)) |->
                            IF k + 1 \in s THEN AddUsage(f[s \ {k + 1}], l[k + 1]) ELSE f[s]]
                   e(s) == IF s = {} THEN ZeroUsage ELSE AddUsage(g[s \ {Max(s)}], l[Max(s)])
        <2>2. k \in Nat
            OBVIOUS
        <2>3. ASSUME NEW s \in SUBSET (1 .. (k + 1))
              PROVE  g[s] = e(s)
            <3>1. CASE k + 1 \in s
                <4>1. Max(s) = k + 1 /\ s # {}
                    BY <2>2, <3>1, HighestIs
                <4>2. s \ {k + 1} \in SUBSET (1 .. (k + 1)) /\ k + 1 \notin s \ {k + 1}
                    OBVIOUS
                <4>3. g[s \ {k + 1}] = f[s \ {k + 1}]
                    BY <4>2
                <4>4. g[s] = AddUsage(f[s \ {k + 1}], l[k + 1])
                    BY <3>1
                <4> HIDE DEF g
                <4> QED  BY <4>1, <4>3, <4>4
            <3>2. CASE k + 1 \notin s
                <4>1. s \in SUBSET (1 .. k)
                    BY <2>2, <3>2
                <4>2. g[s] = f[s]
                    BY <3>2
                <4>3. PICK t : t = s \ {Max(s)}
                    OBVIOUS
                <4>4. t \in SUBSET (1 .. (k + 1)) /\ k + 1 \notin t
                    BY <3>2, <4>3
                <4>5. g[t] = f[t]
                    BY <4>4
                <4>6. /\ s = {} => f[s] = ZeroUsage
                      /\ s # {} => f[s] = AddUsage(f[s \ {Max(s)}], l[Max(s)])
                    BY <2>1, <4>1, UsageByAt
                <4> HIDE DEF g
                <4> QED  BY <4>2, <4>3, <4>5, <4>6
            <3> QED  BY <3>1, <3>2
        <2>4. g = [s \in SUBSET (1 .. (k + 1)) |-> g[s]]
            OBVIOUS
        <2> HIDE DEF g
        <2>5. UsageBy(g, l, k + 1)
            <3>1. g = [s \in SUBSET (1 .. (k + 1)) |-> e(s)]
                <4> HIDE DEF e
                <4> QED  BY <2>3, <2>4
            <3> QED  BY <3>1, Zenon DEF UsageBy
        <2> QED  BY <2>2, <2>5
    <1>3. G = Nat
        <2> HIDE DEF G
        <2> QED  BY <1>1, <1>2, NaturalInduction DEF G
    <1> QED  BY <1>3

LEMMA UsageBySteps ==
    ASSUME NEW l, NEW n \in Nat, NEW f, UsageBy(f, l, n)
    PROVE  /\ f[1 .. 0] = ZeroUsage
           /\ \A k \in Nat : k < n => f[1 .. (k + 1)] = AddUsage(f[1 .. k], l[k + 1])
    <1>1. f[1 .. 0] = ZeroUsage
        <2>1. 1 .. 0 \in SUBSET (1 .. n) /\ 1 .. 0 = {}
            OBVIOUS
        <2> QED  BY <2>1, UsageByAt
    <1>2. ASSUME NEW k \in Nat, k < n
          PROVE  f[1 .. (k + 1)] = AddUsage(f[1 .. k], l[k + 1])
        <2>1. PICK s : s = 1 .. (k + 1)
            OBVIOUS
        <2>2. s \in SUBSET (1 .. n) /\ s \in SUBSET (1 .. (k + 1)) /\ k + 1 \in s
              /\ s # {} /\ s \ {k + 1} = 1 .. k
            BY <1>2, <2>1
        <2>3. Max(s) = k + 1
            BY <2>2, HighestIs
        <2>4. f[s] = AddUsage(f[s \ {Max(s)}], l[Max(s)])
            BY <2>2, UsageByAt
        <2> QED  BY <2>1, <2>2, <2>3, <2>4
    <1> QED  BY <1>1, <1>2

LEMMA UsageIs ==
    ASSUME NEW l, IsSequence(l), NEW f, UsageBy(f, l, Len(l))
    PROVE  Usage(l) = f[1 .. Len(l)]
    <1>1. Len(l) \in Nat /\ DOMAIN l = 1 .. Len(l)
        BY SequenceDomain
    <1>2. PICK n : n = Len(l)
        OBVIOUS
    <1>3. PICK g : g = CHOOSE h : UsageBy(h, l, n)
        OBVIOUS
    <1>4. Usage(l) = (CHOOSE h : h = [s \in SUBSET (DOMAIN l) |->
              IF s = {} THEN ZeroUsage ELSE AddUsage(h[s \ {Max(s)}], l[Max(s)])])[DOMAIN l]
        BY Zenon DEF Usage, FoldLeft, MapThenFoldSet
    <1>5. Usage(l) = g[1 .. n]
        <2>1. Usage(l) = (CHOOSE h : h = [s \in SUBSET (1 .. n) |->
                  IF s = {} THEN ZeroUsage ELSE AddUsage(h[s \ {Max(s)}], l[Max(s)])])[1 .. n]
            BY <1>1, <1>2, <1>4, Zenon
        <2> QED  BY <1>3, <2>1, Zenon DEF UsageBy
    <1>6. UsageBy(f, l, n) /\ UsageBy(g, l, n)
        BY <1>2, <1>3, Zenon
    <1> DEFINE G == {k \in Nat : k <= n => f[1 .. k] = g[1 .. k]}
    <1>7. 0 \in G
        BY <1>1, <1>2, <1>6, UsageBySteps
    <1>8. ASSUME NEW k \in G PROVE k + 1 \in G
        <2> SUFFICES ASSUME k + 1 <= n PROVE f[1 .. (k + 1)] = g[1 .. (k + 1)]
            OBVIOUS
        <2>1. k \in Nat /\ k < n /\ k <= n /\ n \in Nat
            BY <1>1, <1>2
        <2>2. f[1 .. (k + 1)] = AddUsage(f[1 .. k], l[k + 1])
            BY <1>6, <2>1, UsageBySteps
        <2>3. g[1 .. (k + 1)] = AddUsage(g[1 .. k], l[k + 1])
            BY <1>6, <2>1, UsageBySteps
        <2>4. f[1 .. k] = g[1 .. k]
            BY <2>1
        <2> QED  BY <2>2, <2>3, <2>4
    <1>9. G = Nat
        <2> HIDE DEF G
        <2> QED  BY <1>7, <1>8, NaturalInduction DEF G
    <1> QED  BY <1>1, <1>2, <1>5, <1>9

(* The accounting of rows with priced messages, and of more of them.       *)
Priced(l) == \A k \in DOMAIN l : l[k].type = "assistant" => l[k].tokens \in Nat

LEMMA UsageGrows ==
    ASSUME NEW s, IsSequence(s), NEW m, IsSequence(m), Priced(s \o m)
    PROVE  Usage(s \o m).input >= Usage(s).input /\ Usage(s \o m).calls >= Usage(s).calls
    <1>1. PICK u : u = s \o m
        OBVIOUS
    <1>2. Joins(u, s, m) /\ Priced(u)
        BY <1>1, ConcatJoins
    <1>3. PICK k \in Nat : k = Len(s) /\ DOMAIN s = 1 .. k
        BY SequenceDomain
    <1>4. PICK n \in Nat : n = Len(u) /\ DOMAIN u = 1 .. n
        BY <1>2, SequenceDomain DEF Joins
    <1>5. k <= n /\ IsSequence(u) /\ \A i \in 1 .. k : u[i] = s[i]
        <2>1. Len(m) \in Nat
            BY SequenceDomain
        <2> QED  BY <1>2, <1>3, <1>4, <2>1 DEF Joins
    <1>6. PICK f : UsageBy(f, u, n)
        BY UsageByExists
    <1>7. PICK g : UsageBy(g, s, k)
        BY UsageByExists
    <1>8. /\ f[1 .. 0] = ZeroUsage
          /\ \A i \in Nat : i < n => f[1 .. (i + 1)] = AddUsage(f[1 .. i], u[i + 1])
        BY <1>6, UsageBySteps
    <1>9. /\ g[1 .. 0] = ZeroUsage
          /\ \A i \in Nat : i < k => g[1 .. (i + 1)] = AddUsage(g[1 .. i], s[i + 1])
        BY <1>7, UsageBySteps
    <1>10. Usage(u) = f[1 .. n] /\ Usage(s) = g[1 .. k]
        <2>1. UsageBy(f, u, Len(u)) /\ UsageBy(g, s, Len(s))
            BY <1>3, <1>4, <1>6, <1>7
        <2>2. Usage(u) = f[1 .. Len(u)]
            BY <1>5, <2>1, UsageIs
        <2>3. Usage(s) = g[1 .. Len(s)]
            BY <2>1, UsageIs
        <2> QED  BY <1>3, <1>4, <2>2, <2>3
    <1> DEFINE Same == {i \in Nat : i <= k => f[1 .. i] = g[1 .. i]}
    <1>11. Same = Nat
        <2>1. 0 \in Same
            BY <1>8, <1>9
        <2>2. ASSUME NEW i \in Same PROVE i + 1 \in Same
            <3> SUFFICES ASSUME i + 1 <= k PROVE f[1 .. (i + 1)] = g[1 .. (i + 1)]
                OBVIOUS
            <3>1. i \in Nat /\ i < k /\ i <= k /\ i < n /\ i + 1 \in 1 .. k
                BY <1>5
            <3>2. f[1 .. i] = g[1 .. i] /\ u[i + 1] = s[i + 1]
                BY <1>5, <3>1
            <3> QED  BY <1>8, <1>9, <3>1, <3>2
        <2> HIDE DEF Same
        <2> QED  BY <2>1, <2>2, NaturalInduction DEF Same
    <1>12. f[1 .. k] = g[1 .. k]
        BY <1>11
    <1> DEFINE Sums == {i \in Nat : i <= n => f[1 .. i] \in [input : Nat, calls : Nat]}
    <1>13. ASSUME NEW i \in Nat, i < n, f[1 .. i] \in [input : Nat, calls : Nat]
           PROVE  /\ f[1 .. (i + 1)] \in [input : Nat, calls : Nat]
                  /\ f[1 .. (i + 1)].input >= f[1 .. i].input
                  /\ f[1 .. (i + 1)].calls >= f[1 .. i].calls
        <2>1. f[1 .. (i + 1)] = AddUsage(f[1 .. i], u[i + 1]) /\ i + 1 \in 1 .. n
            BY <1>8, <1>13
        <2>2. u[i + 1].type = "assistant" => u[i + 1].tokens \in Nat
            BY <1>2, <1>4, <2>1 DEF Priced
        <2>3. PICK x \in [input : Nat, calls : Nat] : x = f[1 .. i]
            BY <1>13
        <2>4. PICK row : row = u[i + 1]
            OBVIOUS
        <2>5. /\ AddUsage(x, row) \in [input : Nat, calls : Nat]
              /\ AddUsage(x, row).input >= x.input /\ AddUsage(x, row).calls >= x.calls
            BY <2>2, <2>4 DEF AddUsage
        <2> QED  BY <2>1, <2>3, <2>4, <2>5
    <1>14. Sums = Nat
        <2>1. 0 \in Sums
            BY <1>8 DEF ZeroUsage
        <2>2. ASSUME NEW i \in Sums PROVE i + 1 \in Sums
            <3> SUFFICES ASSUME i + 1 <= n
                         PROVE  f[1 .. (i + 1)] \in [input : Nat, calls : Nat]
                OBVIOUS
            <3>1. i \in Nat /\ i < n /\ i <= n
                OBVIOUS
            <3> QED  BY <1>13, <3>1
        <2> HIDE DEF Sums
        <2> QED  BY <2>1, <2>2, NaturalInduction DEF Sums
    <1>15. \A i \in Nat : i <= n => f[1 .. i] \in [input : Nat, calls : Nat]
        BY <1>14
    <1> DEFINE More == {i \in Nat : k + i <= n =>
                          /\ f[1 .. (k + i)].input >= f[1 .. k].input
                          /\ f[1 .. (k + i)].calls >= f[1 .. k].calls}
    <1>16. More = Nat
        <2>0. f[1 .. k] \in [input : Nat, calls : Nat]
            BY <1>5, <1>15
        <2>1. 0 \in More
            <3>1. k + 0 = k
                OBVIOUS
            <3>2. f[1 .. k].input \in Nat /\ f[1 .. k].calls \in Nat
                BY <2>0
            <3> QED  BY <3>1, <3>2
        <2>2. ASSUME NEW i \in More PROVE i + 1 \in More
            <3> SUFFICES ASSUME k + (i + 1) <= n
                         PROVE  /\ f[1 .. (k + (i + 1))].input >= f[1 .. k].input
                                /\ f[1 .. (k + (i + 1))].calls >= f[1 .. k].calls
                OBVIOUS
            <3>1. PICK j \in Nat : j = k + i /\ j < n /\ j <= n /\ k + (i + 1) = j + 1
                OBVIOUS
            <3>2. f[1 .. j].input >= f[1 .. k].input /\ f[1 .. j].calls >= f[1 .. k].calls
                BY <3>1
            <3>3. f[1 .. j] \in [input : Nat, calls : Nat]
                BY <1>15, <3>1
            <3>4. /\ f[1 .. (j + 1)] \in [input : Nat, calls : Nat]
                  /\ f[1 .. (j + 1)].input >= f[1 .. j].input
                  /\ f[1 .. (j + 1)].calls >= f[1 .. j].calls
                BY <1>13, <3>1, <3>3
            <3>5. /\ f[1 .. (j + 1)].input >= f[1 .. k].input
                  /\ f[1 .. (j + 1)].calls >= f[1 .. k].calls
                <4>1. PICK a, b, c : a = f[1 .. k] /\ b = f[1 .. j] /\ c = f[1 .. (j + 1)]
                    OBVIOUS
                <4>2. /\ a.input \in Nat /\ b.input \in Nat /\ c.input \in Nat
                      /\ a.calls \in Nat /\ b.calls \in Nat /\ c.calls \in Nat
                    BY <2>0, <3>3, <3>4, <4>1
                <4>3. /\ b.input >= a.input /\ b.calls >= a.calls
                      /\ c.input >= b.input /\ c.calls >= b.calls
                    BY <3>2, <3>4, <4>1
                <4>4. c.input >= a.input /\ c.calls >= a.calls
                    BY <4>2, <4>3
                <4> QED  BY <4>1, <4>4
            <3> QED  BY <3>1, <3>5
        <2> HIDE DEF More
        <2> QED  BY <2>1, <2>2, NaturalInduction DEF More
    <1>17. f[1 .. n].input >= f[1 .. k].input /\ f[1 .. n].calls >= f[1 .. k].calls
        <2>1. PICK i : i = n - k
            OBVIOUS
        <2>2. i \in Nat /\ k + i = n
            BY <1>5, <2>1
        <2>3. i \in More
            BY <1>16, <2>2
        <2> QED  BY <2>2, <2>3
    <1> QED  BY <1>1, <1>10, <1>12, <1>17


(* The scope of billing starts behind the last /clear.                     *)
LEMMA BillingBounds ==
    ASSUME NEW l, IsSequence(l)
    PROVE  /\ BillingScopeStart(l) \in 0 .. Len(l)
           /\ BillingScopeStart(l) > 0 => IsConversationReset(l[BillingScopeStart(l)])
           /\ \A k \in 1 .. Len(l) : k > BillingScopeStart(l) => ~IsConversationReset(l[k])
    <1> DEFINE I == {i \in 1 .. Len(l) : IsConversationReset(l[i])}
    <1>1. BillingScopeStart(l) = IF I # {} THEN Max(I) ELSE 0
        BY DEF BillingScopeStart, SelectLastInSeq
    <1>2. Len(l) \in Nat /\ I \in SUBSET (1 .. Len(l))
        BY SequenceDomain
    <1>3. I # {} => Max(I) \in I /\ \A x \in I : x <= Max(I)
        <2> HIDE DEF I
        <2> QED  BY <1>2, HighestPosition
    <1>4. PICK n, b : n = Len(l) /\ b = BillingScopeStart(l)
        OBVIOUS
    <1>5. \A k : k \in I <=> k \in 1 .. n /\ IsConversationReset(l[k])
        BY <1>4
    <1>6. n \in Nat /\ I \subseteq 1 .. n
        BY <1>2, <1>4
    <1> HIDE DEF I
    <1>7. \/ I = {} /\ b = 0
          \/ b \in I /\ \A x \in I : x <= b
        BY <1>1, <1>3, <1>4, Zenon
    <1>8. b \in 0 .. n /\ (b > 0 => b \in I)
        <2>1. CASE b = 0
            BY <1>6, <2>1
        <2>2. CASE b \in I
            <3>1. b \in 1 .. n
                BY <1>6, <2>2
            <3> QED  BY <1>6, <2>2, <3>1
        <2> QED  BY <1>7, <2>1, <2>2
    <1>9. ASSUME NEW k \in 1 .. n, k > b
          PROVE  k \notin I
        BY <1>6, <1>7, <1>8, <1>9
    <1> QED  BY <1>4, <1>5, <1>8, <1>9

LEMMA BillingIs ==
    ASSUME NEW l, IsSequence(l), NEW n \in 0 .. Len(l),
           n > 0 => IsConversationReset(l[n]),
           \A k \in 1 .. Len(l) : k > n => ~IsConversationReset(l[k])
    PROVE  BillingScopeStart(l) = n
    <1>1. Len(l) \in Nat
        BY SequenceDomain
    <1> QED  BY <1>1, BillingBounds

(* Rows without a /clear never lower the totals.                           *)
LEMMA BillingGrows ==
    ASSUME NEW l, IsSequence(l), NEW rows, IsSequence(rows),
           \A k \in DOMAIN rows : ~IsConversationReset(rows[k]),
           Priced(l \o rows)
    PROVE  /\ CacheStats(l \o rows).input >= CacheStats(l).input
           /\ CacheStats(l \o rows).calls >= CacheStats(l).calls
    <1>1. PICK m : m = l \o rows
        OBVIOUS
    <1>2. Joins(m, l, rows) /\ Priced(m)
        BY <1>1, ConcatJoins
    <1>3. PICK n \in Nat : n = Len(l) /\ DOMAIN l = 1 .. n
        BY SequenceDomain
    <1>4. PICK r \in Nat : r = Len(rows) /\ DOMAIN rows = 1 .. r
        BY SequenceDomain
    <1>5. /\ IsSequence(m) /\ Len(m) = n + r
          /\ \A i \in 1 .. n : m[i] = l[i]
          /\ \A i \in 1 .. r : m[n + i] = rows[i]
        BY <1>2, <1>3, <1>4 DEF Joins
    <1>6. DOMAIN m = 1 .. (n + r)
        BY <1>5, SequenceDomain
    <1>7. PICK s : s = BillingScopeStart(l)
        OBVIOUS
    <1>8. /\ s \in 0 .. n /\ (s > 0 => IsConversationReset(l[s]))
          /\ \A k \in 1 .. n : k > s => ~IsConversationReset(l[k])
        BY <1>3, <1>7, BillingBounds
    <1>9. BillingScopeStart(m) = s
        <2>1. s \in 0 .. Len(m) /\ (s > 0 => IsConversationReset(m[s]))
            BY <1>5, <1>8
        <2>2. ASSUME NEW k \in 1 .. Len(m), k > s
              PROVE  ~IsConversationReset(m[k])
            <3>1. CASE k <= n
                BY <1>5, <1>8, <2>2, <3>1
            <3>2. CASE k > n
                <4>1. PICK i \in 1 .. r : k = n + i
                    <5>1. k - n \in 1 .. r /\ k = n + (k - n)
                        BY <1>5, <3>2
                    <5> QED  BY <5>1
                <4>2. m[k] = rows[i] /\ i \in DOMAIN rows
                    BY <1>4, <1>5, <4>1
                <4> QED  BY <4>2
            <3> QED  BY <1>5, <3>1, <3>2
        <2> QED  BY <1>5, <2>1, <2>2, BillingIs
    <1>10. PICK a : a = RowsAfter(l, s)
        OBVIOUS
    <1>11. IsSequence(a) /\ RowsAfter(m, s) = a \o rows
        BY <1>1, <1>3, <1>8, <1>10, RowsAfterConcat
    <1>12. Priced(a \o rows)
        <2>1. s \in 0 .. Len(m) /\ Len(m) - s \in Nat
            BY <1>5, <1>8
        <2>2. PICK b : b = RowsAfter(m, s)
            OBVIOUS
        <2>3. /\ IsSequence(b) /\ Len(b) = Len(m) - s
              /\ \A i \in 1 .. (Len(m) - s) : b[i] = m[s + i]
            BY <1>5, <2>1, <2>2, RowsAfterProperties
        <2>4. DOMAIN b = 1 .. (Len(m) - s)
            BY <2>1, <2>3, SequenceDomain
        <2>5. ASSUME NEW i \in DOMAIN b
              PROVE  b[i].type = "assistant" => b[i].tokens \in Nat
            <3>1. b[i] = m[s + i] /\ s + i \in DOMAIN m
                BY <1>5, <1>6, <1>8, <2>3, <2>4
            <3> QED  BY <1>2, <3>1 DEF Priced
        <2> QED  BY <1>11, <2>2, <2>5 DEF Priced
    <1>13. CacheStats(l) = Usage(a) /\ CacheStats(m) = Usage(a \o rows)
        BY <1>7, <1>9, <1>10, <1>11 DEF CacheStats, Usage, ZeroUsage
    <1> QED  BY <1>1, <1>11, <1>12, <1>13, UsageGrows

-----------------------------------------------------------------------------
(* Sequences joined and cut.                                               *)

LEMMA AppendJoins ==
    ASSUME NEW s, IsSequence(s), NEW x, NEW r, IsSequence(r)
    PROVE  Append(s, x) \o r = s \o (<<x>> \o r)
    <1>1. IsSequence(<<x>>) /\ Append(s, x) = s \o <<x>>
        BY AppendOne, SingletonIsSequence
    <1>2. PICK t : t = <<x>>
        OBVIOUS
    <1>3. Groups(s, t, r)
        BY <1>1, <1>2, ConcatGroups
    <1>4. (s \o t) \o r = s \o (t \o r)
        BY <1>3, Zenon DEF Groups
    <1> QED  BY <1>1, <1>2, <1>4, Zenon

LEMMA BatchGrows ==
    ASSUME NEW s, IsSequence(s), NEW w, IsSequence(w), NEW b, IsSequence(b), NEW row
    PROVE  (s \o w) \o Append(b, row) = Append((s \o w) \o b, row)
    <1>1. IsSequence(s \o w)
        BY ConcatIsSequence
    <1> QED  BY <1>1, AppendToConcat

LEMMA ElementsSplit ==
    ASSUME NEW t, IsSequence(t), NEW u, IsSequence(u), NEW P
    PROVE  \E Q : /\ ElementsAt(t \o u, P) = ElementsAt(t, P) \o ElementsAt(u, Q)
                  /\ \A k \in Q : k \in DOMAIN u /\ Len(t) + k \in P
    <1>1. PICK Q : Q = {k \in DOMAIN u : Len(t) + k \in P}
        OBVIOUS
    <1>2. \A k \in DOMAIN u : k \in Q <=> Len(t) + k \in P
        BY <1>1
    <1>3. ElementsAt(t \o u, P) = ElementsAt(t, P) \o ElementsAt(u, Q)
        <2>1. ElementsFollow(t, u, P, Q)
            BY <1>2, ElementsConcat
        <2> QED  BY <2>1, Zenon DEF ElementsFollow
    <1>4. \A k \in Q : k \in DOMAIN u /\ Len(t) + k \in P
        BY <1>1
    <1> QED  BY <1>3, <1>4, Zenon

(* Slices of a sequence, by the positions they lie between.                *)

Slice(s, a, b) == SubSeq(s, a + 1, b)

IsSlice(u, s, a, b) ==
    /\ IsSequence(u) /\ Len(u) = b - a
    /\ \A i \in 1 .. (b - a) : u[i] = s[a + i]

LEMMA SliceIs ==
    ASSUME NEW s, IsSequence(s), NEW a \in Nat, NEW b \in Nat, a <= b, b <= Len(s)
    PROVE  IsSlice(Slice(s, a, b), s, a, b)
    <1>1. PICK m \in Nat \ {0} : m = a + 1
        OBVIOUS
    <1>2. PICK u : u = SubSeq(s, m, b)
        OBVIOUS
    <1>3. /\ IsSequence(u) /\ Len(u) = IF m <= b THEN b - m + 1 ELSE 0
          /\ \A i \in 1 .. (b - m + 1) : u[i] = s[m + i - 1]
        BY <1>2, SubSeqIsSequence
    <1>4. Len(u) = b - a /\ b - m + 1 = b - a
        BY <1>1, <1>3
    <1>5. \A i \in 1 .. (b - a) : u[i] = s[a + i]
        <2> TAKE i \in 1 .. (b - a)
        <2>1. i \in Int /\ m + i - 1 = a + i
            BY <1>1
        <2> QED  BY <1>3, <1>4, <2>1
    <1>6. u = Slice(s, a, b)
        BY <1>1, <1>2 DEF Slice
    <1>7. IsSlice(u, s, a, b)
        BY <1>3, <1>4, <1>5 DEF IsSlice
    <1> QED  BY <1>6, <1>7

LEMMA SliceOfSlice ==
    ASSUME NEW s, IsSequence(s), NEW a \in Nat, NEW b \in Nat, a <= b, b <= Len(s),
           NEW p \in Nat, NEW q \in Nat, p <= q, q <= b - a
    PROVE  Slice(Slice(s, a, b), p, q) = Slice(s, a + p, a + q)
    <1>1. PICK u : u = Slice(s, a, b)
        OBVIOUS
    <1>2. IsSequence(u) /\ Len(u) = b - a /\ \A i \in 1 .. (b - a) : u[i] = s[a + i]
        BY <1>1, SliceIs DEF IsSlice
    <1>3. PICK v : v = Slice(u, p, q)
        OBVIOUS
    <1>4. IsSequence(v) /\ Len(v) = q - p /\ \A i \in 1 .. (q - p) : v[i] = u[p + i]
        <2>1. q <= Len(u)
            BY <1>2
        <2>2. IsSlice(v, u, p, q)
            BY <1>2, <1>3, <2>1, SliceIs
        <2> QED  BY <2>2 DEF IsSlice
    <1>5. PICK c \in Nat, d \in Nat : c = a + p /\ d = a + q
        OBVIOUS
    <1>6. PICK w : w = Slice(s, c, d)
        OBVIOUS
    <1>7. Len(s) \in Nat /\ c <= d /\ d <= Len(s) /\ d - c = q - p
        BY <1>5, SequenceDomain
    <1>8. IsSequence(w) /\ Len(w) = q - p /\ \A i \in 1 .. (q - p) : w[i] = s[c + i]
        <2>1. IsSlice(w, s, c, d)
            BY <1>6, <1>7, SliceIs
        <2>2. IsSequence(w) /\ Len(w) = d - c /\ \A i \in 1 .. (d - c) : w[i] = s[c + i]
            BY <2>1, Zenon DEF IsSlice
        <2> QED  BY <1>7, <2>2, Zenon
    <1>9. \A i \in 1 .. (q - p) : v[i] = w[i]
        <2> TAKE i \in 1 .. (q - p)
        <2>1. p + i \in 1 .. (b - a) /\ a + (p + i) = c + i
            BY <1>5
        <2> QED  BY <1>2, <1>4, <1>8, <2>1
    <1>10. v = w
        BY <1>4, <1>8, <1>9, SameSequence
    <1> QED  BY <1>1, <1>3, <1>5, <1>6, <1>10

LEMMA SlicesJoin ==
    ASSUME NEW s, IsSequence(s), NEW a \in Nat, NEW b \in Nat, NEW c \in Nat,
           a <= b, b <= c, c <= Len(s)
    PROVE  Slice(s, a, b) \o Slice(s, b, c) = Slice(s, a, c)
    <1>1. PICK u, v, w : u = Slice(s, a, b) /\ v = Slice(s, b, c) /\ w = Slice(s, a, c)
        OBVIOUS
    <1>0. Len(s) \in Nat /\ b <= Len(s) /\ a <= c
        BY SequenceDomain
    <1>2. IsSequence(u) /\ Len(u) = b - a /\ \A i \in 1 .. (b - a) : u[i] = s[a + i]
        BY <1>0, <1>1, SliceIs DEF IsSlice
    <1>3. IsSequence(v) /\ Len(v) = c - b /\ \A i \in 1 .. (c - b) : v[i] = s[b + i]
        BY <1>0, <1>1, SliceIs DEF IsSlice
    <1>4. IsSequence(w) /\ Len(w) = c - a /\ \A i \in 1 .. (c - a) : w[i] = s[a + i]
        BY <1>0, <1>1, SliceIs DEF IsSlice
    <1>5. PICK x : x = u \o v
        OBVIOUS
    <1>6. Joins(x, u, v)
        BY <1>2, <1>3, <1>5, ConcatJoins
    <1>7. DOMAIN u = 1 .. (b - a) /\ DOMAIN v = 1 .. (c - b)
        BY <1>2, <1>3, SequenceDomain
    <1>8. /\ IsSequence(x) /\ Len(x) = c - a
          /\ \A i \in 1 .. (b - a) : x[i] = s[a + i]
          /\ \A i \in 1 .. (c - b) : x[b - a + i] = s[b + i]
        <2>1. /\ IsSequence(x) /\ Len(x) = (b - a) + (c - b)
              /\ \A i \in 1 .. (b - a) : x[i] = u[i]
              /\ \A i \in 1 .. (c - b) : x[(b - a) + i] = v[i]
            BY <1>2, <1>3, <1>6, <1>7, Zenon DEF Joins
        <2>2. (b - a) + (c - b) = c - a
            OBVIOUS
        <2> QED  BY <1>2, <1>3, <2>1, <2>2
    <1>9. \A i \in 1 .. (c - a) : x[i] = w[i]
        <2> TAKE i \in 1 .. (c - a)
        <2>1. CASE i <= b - a
            BY <1>4, <1>8, <2>1
        <2>2. CASE i > b - a
            <3>1. PICK k \in 1 .. (c - b) : k = i - (b - a)
                BY <2>2
            <3>2. b - a + k = i /\ b + k = a + i
                BY <3>1
            <3> QED  BY <1>4, <1>8, <3>1, <3>2
        <2> QED  BY <2>1, <2>2
    <1>10. x = w
        BY <1>4, <1>8, <1>9, SameSequence
    <1> QED  BY <1>1, <1>5, <1>10

LEMMA SliceEnds ==
    ASSUME NEW s, IsSequence(s), NEW a \in Nat, a <= Len(s)
    PROVE  Slice(s, a, a) = <<>> /\ Slice(s, 0, a) = Take(s, a)
    <1>1. PICK u : u = Slice(s, a, a)
        OBVIOUS
    <1>2. IsSequence(u) /\ Len(u) = 0
        <2>1. IsSlice(u, s, a, a)
            BY <1>1, SliceIs
        <2> QED  BY <2>1 DEF IsSlice
    <1>3. u = <<>>
        BY <1>2, NoElements
    <1> QED  BY <1>1, <1>3 DEF Slice, Take

-----------------------------------------------------------------------------
(* Views that are sound.                                                   *)

(* A user message is sound by itself.                                      *)
LEMMA UserSound ==
    ASSUME NEW x, x.type = "user"
    PROVE  /\ Sound(<<x>>) /\ CallsAnswered(<<x>>) /\ OpensRun(<<x>>)
    <1>1. PICK b : b = <<x>>
        OBVIOUS
    <1>2. IsSequence(b) /\ Len(b) = 1 /\ b[1] = x
        BY <1>1, SingletonIsSequence
    <1>3. DOMAIN b = 1 .. 1
        BY <1>2, SequenceDomain
    <1>4. DOMAIN b = {1} /\ 1 \in DOMAIN b
        BY <1>3
    <1>5. ~IsResult(x) /\ x.type # "assistant"
        BY DEF IsResult
    <1>6. WellShaped(b)
        BY <1>2, <1>4, <1>5 DEF WellShaped, Range, Shaped
    <1>7. NoOrphanResults(b)
        BY <1>2, <1>4, <1>5, OwnedOrOrphan
    <1>8. OneRun(b)
        <2>1. 2 .. 1 = {}
            OBVIOUS
        <2> QED  BY <1>2, <1>5, <2>1 DEF OneRun
    <1>9. CallsAnswered(b)
        <2>1. RunStart(b, 1) = 1
            BY <1>2, <1>8, OneRunStart
        <2>2. Lacking(b, 1) = <<>>
            BY <1>2, <1>5, <2>1 DEF Lacking, MissingCalls
        <2> QED  BY <1>4, <2>2, AnsweredOrLacking
    <1>10. Sound(b)
        BY <1>2, <1>6, <1>7 DEF Sound
    <1> QED  BY <1>1, <1>9, <1>10, SoundOpens, Zenon

(* A view some of whose results are cut to a preview.                      *)
Retouches(t, s) ==
    /\ IsSequence(t) /\ Len(t) = Len(s)
    /\ \A i \in DOMAIN s : \/ t[i] = s[i]
                           \/ IsResult(s[i]) /\ t[i] = ToolResult(s[i].call, "preview")

LEMMA RetouchSound ==
    ASSUME NEW s, Sound(s), NEW t, Retouches(t, s)
    PROVE  Sound(t) /\ (CallsAnswered(s) => CallsAnswered(t))
    <1>1. PICK n \in Nat : n = Len(s) /\ DOMAIN s = 1 .. n
        BY SequenceDomain DEF Sound
    <1>2. IsSequence(t) /\ Len(t) = n /\ DOMAIN t = 1 .. n
        BY <1>1, SequenceDomain DEF Retouches
    <1>3. \A i \in 1 .. n : \/ t[i] = s[i]
                            \/ IsResult(s[i]) /\ t[i] = ToolResult(s[i].call, "preview")
        BY <1>1 DEF Retouches
    <1>4. \A i \in 1 .. n :
              /\ IsResult(t[i]) <=> IsResult(s[i])
              /\ IsResult(s[i]) => t[i].call = s[i].call
              /\ ~IsResult(s[i]) => t[i] = s[i]
        <2> SUFFICES ASSUME NEW i \in 1 .. n
                     PROVE  /\ IsResult(t[i]) <=> IsResult(s[i])
                            /\ IsResult(s[i]) => t[i].call = s[i].call
                            /\ ~IsResult(s[i]) => t[i] = s[i]
            OBVIOUS
        <2>1. CASE t[i] = s[i]
            BY <2>1
        <2>2. CASE IsResult(s[i]) /\ t[i] = ToolResult(s[i].call, "preview")
            BY <2>2 DEF IsResult, ToolResult
        <2> QED  BY <1>3, <2>1, <2>2
    <1>5. \A k \in 1 .. n : RunStart(t, k) = RunStart(s, k) /\ RunStart(s, k) \in 0 .. k
        <2> SUFFICES ASSUME NEW k \in 1 .. n
                     PROVE  RunStart(t, k) = RunStart(s, k) /\ RunStart(s, k) \in 0 .. k
            OBVIOUS
        <2>1. PICK a : a = RunStart(s, k)
            OBVIOUS
        <2>2. /\ a \in 0 .. k /\ (a > 0 => ~IsResult(s[a]))
              /\ \A i \in 1 .. k : i > a => IsResult(s[i])
            BY <2>1, RunStartBounds
        <2>3. a > 0 => ~IsResult(t[a])
            <3>1. a > 0 => a \in 1 .. n
                BY <2>2
            <3> QED  BY <1>4, <2>2, <3>1
        <2>4. \A i \in 1 .. k : i > a => IsResult(t[i])
            <3>1. \A i \in 1 .. k : i \in 1 .. n
                OBVIOUS
            <3> QED  BY <1>4, <2>2, <3>1
        <2>5. RunStart(t, k) = a
            BY <2>2, <2>3, <2>4, RunStartIs
        <2> QED  BY <2>1, <2>2, <2>5
    <1>6. \A k \in 1 .. n : EndsRun(t, k) <=> EndsRun(s, k)
        <2> SUFFICES ASSUME NEW k \in 1 .. n PROVE EndsRun(t, k) <=> EndsRun(s, k)
            OBVIOUS
        <2>1. k # n => k + 1 \in 1 .. n
            OBVIOUS
        <2>2. k # n => (IsResult(t[k + 1]) <=> IsResult(s[k + 1]))
            BY <1>4, <2>1
        <2> QED  BY <1>1, <1>2, <2>2, Zenon DEF EndsRun
    <1>7. \A k \in 1 .. n : Lacking(t, k) = Lacking(s, k)
        <2> SUFFICES ASSUME NEW k \in 1 .. n PROVE Lacking(t, k) = Lacking(s, k)
            OBVIOUS
        <2>1. PICK a : a = RunStart(s, k)
            OBVIOUS
        <2>2. a \in 0 .. k /\ RunStart(t, k) = a
            BY <1>5, <2>1
        <2>3. CASE a = 0
            BY <2>1, <2>2, <2>3 DEF Lacking, MissingCalls
        <2>4. CASE a # 0
            <3>1. a \in 1 .. n /\ ~IsResult(s[a])
                BY <2>1, <2>2, <2>4, RunStartBounds
            <3>2. t[a] = s[a]
                BY <1>4, <3>1
            <3>3. {t[r].call : r \in (a + 1) .. k} = {s[r].call : r \in (a + 1) .. k}
                <4>1. ASSUME NEW r \in (a + 1) .. k PROVE t[r].call = s[r].call
                    <5>1. r \in 1 .. k /\ r > a /\ r \in 1 .. n
                        BY <2>2
                    <5>2. IsResult(s[r])
                        BY <2>1, <5>1, RunStartBounds
                    <5> QED  BY <1>4, <5>1, <5>2
                <4> QED  BY <4>1
            <3> QED  BY <2>1, <2>2, <3>2, <3>3, Zenon DEF Lacking, MissingCalls
        <2> QED  BY <2>3, <2>4
    <1>8. WellShaped(t)
        <2>1. ASSUME NEW i \in 1 .. n PROVE Shaped(t[i])
            <3>1. s[i] \in Range(s)
                BY <1>1, SequenceDomain DEF Sound
            <3>2. Shaped(s[i])
                BY <3>1 DEF Sound, WellShaped
            <3>3. CASE t[i] = ToolResult(s[i].call, "preview")
                BY <3>3 DEF Shaped, ToolResult, IsResult
            <3> QED  BY <1>3, <3>2, <3>3
        <2> QED  BY <1>2, <2>1 DEF WellShaped, Range
    <1>9. NoOrphanResults(t)
        <2> SUFFICES ASSUME NEW k \in 1 .. n, IsResult(t[k]) PROVE Owned(t, k)
            BY <1>2, OwnedOrOrphan
        <2>1. IsResult(s[k]) /\ t[k].call = s[k].call
            BY <1>4
        <2>2. Owned(s, k)
            BY <1>1, <2>1, OwnedOrOrphan DEF Sound
        <2>3. PICK a : a = RunStart(s, k)
            OBVIOUS
        <2>4. a \in 1 .. n /\ ~IsResult(s[a])
            <3>1. a \in 0 .. k /\ (a > 0 => ~IsResult(s[a]))
                BY <2>3, RunStartBounds
            <3> QED  BY <2>2, <2>3, <3>1 DEF Owned
        <2>5. t[a] = s[a]
            BY <1>4, <2>4
        <2> QED  BY <1>5, <2>1, <2>2, <2>3, <2>5, Zenon DEF Owned
    <1>10. CallsAnswered(s) => CallsAnswered(t)
        BY <1>1, <1>2, <1>6, <1>7, AnsweredOrLacking, Zenon
    <1> QED  BY <1>2, <1>8, <1>9, <1>10 DEF Sound
=============================================================================
