--------------------------- MODULE AgentTurnProofs ---------------------------
(***************************************************************************)
(* Proofs about the agent loop: a turn, and the call it makes of the model.*)
(*                                                                         *)
(* AgentTurn, for every bound.  First what Compaction does to a view.      *)
(* Then the inductive invariant Inv, and from it the types, the tool       *)
(* ledger, that started calls are answered and completed turns honest; the *)
(* place of every tool result; InvView, and from it the requests and their *)
(* prefixes; the steered texts; the billing; and the row-level count.  The *)
(* places and the requests are those of a host whose /clear does not       *)
(* overlap a turn; the rest holds on the desktop too.                      *)
(*                                                                         *)
(* ReplyStream, for every number of calls, of deltas and of retries.       *)
(* First how a body is cut into frames, then how the deltas of the calls   *)
(* are assembled, and from both the inductive invariant StreamInv.         *)
(***************************************************************************)
EXTENDS AgentTurn, ReplyStream, TranscriptProofs, FiniteSetTheorems

-----------------------------------------------------------------------------
(* Compaction.                                                             *)

(* A view that is not empty has groups.                                    *)
LEMMA GroupsExist ==
    ASSUME NEW m, IsSequence(m), Len(m) > 0
    PROVE  /\ IsSequence(AtomicGroups(m)) /\ Len(AtomicGroups(m)) > 0
           /\ \A g \in 1 .. Len(AtomicGroups(m)) :
                 /\ AtomicGroups(m)[g] \in 1 .. Len(m)
                 /\ OpensGroup(m, AtomicGroups(m)[g])
    <1>1. PICK n \in Nat : n = Len(m) /\ DOMAIN m = 1 .. n /\ n > 0
        BY SequenceDomain
    <1>2. PICK s : s = [k \in 1 .. n |-> k]
        OBVIOUS
    <1>3. IsSequence(s) /\ DOMAIN s = 1 .. n /\ \A k \in 1 .. n : s[k] = k
        <2>1. s = [k \in 1 .. n |-> s[k]]
            BY <1>2
        <2> QED  BY <1>2, <2>1, ListIsSequence
    <1>4. PICK P : P = {k \in 1 .. n : OpensGroup(m, k)}
        OBVIOUS
    <1>5. PICK groups : groups = AtomicGroups(m)
        OBVIOUS
    <1>6. groups = ElementsAt(s, P)
        BY <1>1, <1>2, <1>4, <1>5, Zenon DEF AtomicGroups
    <1>7. IsSequence(groups) /\ Range(groups) = {s[k] : k \in {i \in DOMAIN s : i \in P}}
        BY <1>3, <1>6, ElementsRange
    <1>8. 1 \in P
        <2>1. RunStart(m, 1) \in 0 .. 1 /\ (RunStart(m, 1) > 0 => ~IsResult(m[RunStart(m, 1)]))
            BY RunStartBounds
        <2>2. CASE IsResult(m[1])
            <3>1. RunStart(m, 1) = 0
                BY <2>1, <2>2
            <3> QED  BY <1>1, <1>4, <3>1 DEF OpensGroup
        <2>3. CASE ~IsResult(m[1])
            BY <1>1, <1>4, <2>3 DEF OpensGroup
        <2> QED  BY <2>2, <2>3
    <1>9. Len(groups) > 0
        <2>1. 1 \in Range(groups)
            BY <1>1, <1>3, <1>7, <1>8
        <2>2. groups # <<>>
            BY <2>1 DEF Range
        <2>3. Len(groups) \in Nat
            BY <1>7, SequenceDomain
        <2>4. Len(groups) # 0
            BY <1>7, <2>2, NoElements
        <2> QED  BY <2>3, <2>4
    <1>10. ASSUME NEW g \in 1 .. Len(groups) PROVE groups[g] \in P
        <2>1. groups[g] \in Range(groups)
            BY <1>7, SequenceDomain
        <2> QED  BY <1>3, <1>7, <2>1
    <1> QED  BY <1>1, <1>4, <1>5, <1>7, <1>9, <1>10

(* The groups of a sound view begin at messages that are no results.       *)
LEMMA GroupsOpen ==
    ASSUME NEW m, Sound(m), Len(m) > 0
    PROVE  /\ IsSequence(AtomicGroups(m)) /\ Len(AtomicGroups(m)) > 0
           /\ \A g \in 1 .. Len(AtomicGroups(m)) :
                 AtomicGroups(m)[g] \in 1 .. Len(m) /\ ~IsResult(m[AtomicGroups(m)[g]])
    <1>1. PICK n \in Nat : n = Len(m) /\ DOMAIN m = 1 .. n /\ IsSequence(m)
        BY SequenceDomain DEF Sound
    <1>2. ASSUME NEW k \in 1 .. n, OpensGroup(m, k) PROVE ~IsResult(m[k])
        <2> SUFFICES ASSUME IsResult(m[k]) PROVE FALSE
            OBVIOUS
        <2>1. Owned(m, k)
            BY <1>1, OwnedOrOrphan DEF Sound
        <2>2. RunStart(m, k) \in 0 .. k /\ RunStart(m, k) > 0
            BY <2>1, RunStartBounds DEF Owned
        <2> QED  BY <1>2, <2>1, <2>2 DEF OpensGroup, Owned
    <1> QED  BY <1>1, <1>2, GroupsExist

LEMMA FirstKeptIsGroup ==
    ASSUME NEW m, NEW groups, NEW budget, IsSequence(groups), Len(groups) > 0
    PROVE  FirstKeptGroup(m, groups, budget) \in 1 .. Len(groups)
    <1>1. PICK n \in Nat : n = Len(groups) /\ n > 0
        BY SequenceDomain
    <1> DEFINE Fits(g) == g \in {1, n} \/ Len(m) - groups[g] + 1 <= budget
               S == {g \in 1 .. n : \A h \in g .. n : Fits(h)}
    <1>2. FirstKeptGroup(m, groups, budget) = Min(S)
        BY <1>1, Zenon DEF FirstKeptGroup
    <1>3. n \in S
        BY <1>1
    <1>4. S \in SUBSET Nat /\ S \subseteq 1 .. n
        OBVIOUS
    <1>5. Min(S) \in S
        <2> HIDE DEF S
        <2> QED  BY <1>3, <1>4, LowestPosition
    <1> QED  BY <1>1, <1>2, <1>4, <1>5

LEMMA TruncateRetouches ==
    ASSUME NEW x, Shaped(x)
    PROVE  \/ TruncateToolResult(x) = x
           \/ IsResult(x) /\ TruncateToolResult(x) = ToolResult(x.call, "preview")
    <1>1. CASE IsResult(x) /\ x.how = "ran"
        <2>1. PICK c : c = x.call
            OBVIOUS
        <2>2. PICK h : h = x.how
            OBVIOUS
        <2>3. x = ToolResult(c, h)
            BY <1>1, <2>1, <2>2 DEF Shaped
        <2>4. TruncateToolResult(x) = [x EXCEPT !.how = "preview"]
            BY <1>1 DEF TruncateToolResult
        <2>5. [ToolResult(c, h) EXCEPT !.how = "preview"] = ToolResult(c, "preview")
            BY DEF ToolResult
        <2> QED  BY <1>1, <2>1, <2>3, <2>4, <2>5, Zenon
    <1>2. CASE ~(IsResult(x) /\ x.how = "ran")
        BY <1>2 DEF TruncateToolResult
    <1> QED  BY <1>1, <1>2

(* Compaction cuts outside the runs: what it keeps of a view that the wire *)
(* takes, the wire takes.                                                  *)
LEMMA CompactSound ==
    ASSUME NEW m, Sound(m), CallsAnswered(m), NEW max \in Nat
    PROVE  Sound(CompactByCount(m, max)) /\ CallsAnswered(CompactByCount(m, max))
    <1>1. CASE max = 0 \/ Len(m) <= max
        BY <1>1, EmptySound DEF CompactByCount
    <1>2. CASE ~(max = 0 \/ Len(m) <= max)
        <2>1. PICK n \in Nat : n = Len(m) /\ DOMAIN m = 1 .. n /\ IsSequence(m)
            BY SequenceDomain DEF Sound
        <2>2. n > 0
            BY <1>2, <2>1
        <2>3. PICK groups : groups = AtomicGroups(m)
            OBVIOUS
        <2>4. /\ IsSequence(groups) /\ Len(groups) > 0
              /\ \A g \in 1 .. Len(groups) : groups[g] \in 1 .. n /\ ~IsResult(m[groups[g]])
            BY <2>1, <2>2, <2>3, GroupsOpen
        <2>5. PICK start : start = groups[FirstKeptGroup(m, groups, max - 1)]
            OBVIOUS
        <2>6. start \in 1 .. n /\ ~IsResult(m[start])
            BY <2>4, <2>5, FirstKeptIsGroup
        <2>7. PICK pinned : pinned = IF Len(groups) = 1 THEN Len(m) ELSE groups[2] - 1
            OBVIOUS
        <2>8. pinned \in 0 .. n /\ (pinned < n => ~IsResult(m[pinned + 1]))
            <3>1. CASE Len(groups) = 1
                BY <2>1, <2>7, <3>1
            <3>2. CASE Len(groups) # 1
                <4>1. 2 \in 1 .. Len(groups)
                    <5>1. PICK k : k = Len(groups)
                        OBVIOUS
                    <5>2. k \in Nat /\ k > 0 /\ k # 1
                        BY <2>4, <3>2, <5>1, SequenceDomain
                    <5>3. 2 \in 1 .. k
                        BY <5>2
                    <5> QED  BY <5>1, <5>3
                <4>2. groups[2] \in 1 .. n /\ ~IsResult(m[groups[2]])
                    BY <2>4, <4>1
                <4>3. pinned = groups[2] - 1
                    BY <2>7, <3>2
                <4>4. pinned + 1 = groups[2]
                    BY <4>2, <4>3
                <4> QED  BY <4>2, <4>3, <4>4
            <3> QED  BY <3>1, <3>2
        <2>9. PICK newest : newest = groups[Len(groups)]
            OBVIOUS
        <2>10. PICK kept : kept = [i \in 1 .. (n - start + 1) |->
                                      IF start + i - 1 < newest
                                      THEN TruncateToolResult(m[start + i - 1])
                                      ELSE m[start + i - 1]]
            OBVIOUS
        <2>11. PICK a : a = Take(m, pinned)
            OBVIOUS
        <2>12. PICK b : b = <<Notice>>
            OBVIOUS
        <2>13. \/ CompactByCount(m, max) = <<>>
               \/ CompactByCount(m, max) = (a \o b) \o kept
            BY <1>2, <2>1, <2>3, <2>5, <2>7, <2>9, <2>10, <2>11, <2>12, Zenon
               DEF CompactByCount, Take
        <2>14. Sound(a) /\ CallsAnswered(a)
            BY <2>1, <2>8, <2>11, CutSound
        <2>15. Sound(b) /\ CallsAnswered(b) /\ OpensRun(b)
            BY <2>12, UserSound DEF Notice, User
        <2>16. PICK rest : rest = RowsAfter(m, start - 1)
            OBVIOUS
        <2>17. start - 1 \in 0 .. n /\ start - 1 + 1 = start
            BY <2>6
        <2>18. Sound(rest) /\ CallsAnswered(rest)
            <3>1. start - 1 \in 0 .. Len(m) /\ (start - 1 < Len(m) => ~IsResult(m[start - 1 + 1]))
                BY <2>1, <2>6, <2>17
            <3> QED  BY <2>16, <3>1, CutSound
        <2>19. PICK l \in Nat : l = n - start + 1
            BY <2>6
        <2>20. /\ Len(rest) = l /\ DOMAIN rest = 1 .. l
               /\ \A i \in 1 .. l : rest[i] = m[start + i - 1]
            <3>1. /\ Len(rest) = n - (start - 1) /\ DOMAIN rest = 1 .. (n - (start - 1))
                  /\ \A i \in 1 .. (n - (start - 1)) : rest[i] = m[start - 1 + i]
                BY <2>1, <2>16, <2>17, RowsAfterProperties
            <3>2. n - (start - 1) = l
                BY <2>6, <2>19
            <3>3. \A i \in 1 .. l : start - 1 + i = start + i - 1
                BY <2>6
            <3> QED  BY <3>1, <3>2, <3>3
        <2>21. IsSequence(kept) /\ Len(kept) = l
            <3>1. kept = [i \in 1 .. l |-> kept[i]]
                BY <2>10, <2>19
            <3> QED  BY <3>1, ListIsSequence
        <2>22. Retouches(kept, rest)
            <3> SUFFICES ASSUME NEW i \in 1 .. l
                         PROVE  \/ kept[i] = rest[i]
                                \/ IsResult(rest[i]) /\ kept[i] = ToolResult(rest[i].call, "preview")
                BY <2>20, <2>21 DEF Retouches
            <3>1. kept[i] = rest[i] \/ kept[i] = TruncateToolResult(rest[i])
                BY <2>10, <2>19, <2>20
            <3>2. rest[i] \in Range(rest)
                BY <2>20 DEF Range
            <3>3. Shaped(rest[i])
                BY <2>18, <3>2 DEF Sound, WellShaped
            <3> QED  BY <3>1, <3>3, TruncateRetouches
        <2>23. Sound(kept) /\ CallsAnswered(kept) /\ OpensRun(kept)
            BY <2>18, <2>22, RetouchSound, SoundOpens
        <2>24. Sound(a \o b) /\ CallsAnswered(a \o b)
            BY <2>14, <2>15, SoundConcat DEF Sound
        <2>25. PICK ab : ab = a \o b
            OBVIOUS
        <2>26. Sound(ab \o kept) /\ CallsAnswered(ab \o kept)
            BY <2>23, <2>24, <2>25, SoundConcat DEF Sound
        <2> QED  BY <2>13, <2>25, <2>26, EmptySound
    <1> QED  BY <1>1, <1>2

(* Over the threshold, the budget is a number of messages.                 *)
LEMMA TargetIsNatural ==
    ASSUME NEW m, IsSequence(m), NEW tokens, tokens # 0, ~(tokens <= Threshold)
    PROVE  \E max \in Nat : BudgetCompact(m, tokens) = CompactByCount(m, max)
    <1>1. PICK target : target = (Len(m) * TargetPct) \div 100
        OBVIOUS
    <1>2. PICK max : max = IF target < 1 THEN 1 ELSE target
        OBVIOUS
    <1>3. max \in Nat
        <2>1. PICK n \in Nat : n = Len(m)
            BY SequenceDomain
        <2>2. n * TargetPct \in Nat
            BY CompactionAssumption
        <2>3. \A x \in Nat : x \div 100 \in Nat
            OBVIOUS
        <2>4. target \in Nat
            BY <1>1, <2>1, <2>2, <2>3
        <2> QED  BY <1>2, <2>4
    <1>4. BudgetCompact(m, tokens) = CompactByCount(m, max)
        BY <1>1, <1>2, Zenon DEF BudgetCompact
    <1> QED  BY <1>3, <1>4

LEMMA BudgetSound ==
    ASSUME NEW m, Sound(m), CallsAnswered(m), NEW tokens
    PROVE  Sound(BudgetCompact(m, tokens)) /\ CallsAnswered(BudgetCompact(m, tokens))
    <1>1. FallbackMaxMessages \in Nat /\ TargetPct \in Nat
        BY CompactionAssumption
    <1>2. CASE tokens = 0
        BY <1>1, <1>2, CompactSound DEF BudgetCompact
    <1>3. CASE tokens # 0 /\ tokens <= Threshold
        BY <1>3, EmptySound DEF BudgetCompact
    <1>4. CASE tokens # 0 /\ ~(tokens <= Threshold)
        <2>1. PICK max \in Nat : BudgetCompact(m, tokens) = CompactByCount(m, max)
            BY <1>4, TargetIsNatural DEF Sound
        <2> QED  BY <2>1, CompactSound
    <1> QED  BY <1>2, <1>3, <1>4

(* Of any view, compaction leaves a sequence of well shaped messages.      *)
LEMMA CompactShaped ==
    ASSUME NEW m, IsSequence(m), WellShaped(m), NEW max \in Nat
    PROVE  IsSequence(CompactByCount(m, max)) /\ WellShaped(CompactByCount(m, max))
    <1>1. IsSequence(<<>>) /\ WellShaped(<<>>)
        BY EmptyIsSequence DEF WellShaped, Range
    <1>2. CASE max = 0 \/ Len(m) <= max
        BY <1>1, <1>2 DEF CompactByCount
    <1>3. CASE ~(max = 0 \/ Len(m) <= max)
        <2>1. PICK n \in Nat : n = Len(m) /\ DOMAIN m = 1 .. n
            BY SequenceDomain
        <2>2. n > 0
            BY <1>3, <2>1
        <2>3. PICK groups : groups = AtomicGroups(m)
            OBVIOUS
        <2>4. /\ IsSequence(groups) /\ Len(groups) > 0
              /\ \A g \in 1 .. Len(groups) : groups[g] \in 1 .. n
            BY <2>1, <2>2, <2>3, GroupsExist
        <2>5. PICK start : start = groups[FirstKeptGroup(m, groups, max - 1)]
            OBVIOUS
        <2>6. start \in 1 .. n
            BY <2>4, <2>5, FirstKeptIsGroup
        <2>7. PICK pinned : pinned = IF Len(groups) = 1 THEN Len(m) ELSE groups[2] - 1
            OBVIOUS
        <2>8. pinned \in 0 .. n
            <3>1. CASE Len(groups) = 1
                BY <2>1, <2>7, <3>1
            <3>2. CASE Len(groups) # 1
                <4>1. Len(groups) \in Nat
                    BY <2>4, SequenceDomain
                <4>2. 2 \in 1 .. Len(groups)
                    BY <2>4, <3>2, <4>1
                <4>3. groups[2] \in 1 .. n
                    BY <2>4, <4>2
                <4> QED  BY <2>7, <3>2, <4>3
            <3> QED  BY <3>1, <3>2
        <2>9. PICK newest : newest = groups[Len(groups)]
            OBVIOUS
        <2>10. PICK kept : kept = [i \in 1 .. (n - start + 1) |->
                                      IF start + i - 1 < newest
                                      THEN TruncateToolResult(m[start + i - 1])
                                      ELSE m[start + i - 1]]
            OBVIOUS
        <2>11. PICK a : a = Take(m, pinned)
            OBVIOUS
        <2>12. PICK b : b = <<Notice>>
            OBVIOUS
        <2>13. \/ CompactByCount(m, max) = <<>>
               \/ CompactByCount(m, max) = (a \o b) \o kept
            BY <1>3, <2>1, <2>3, <2>5, <2>7, <2>9, <2>10, <2>11, <2>12, Zenon
               DEF CompactByCount, Take
        <2>14. \A i \in 1 .. n : Shaped(m[i])
            BY <2>1 DEF WellShaped, Range
        <2>15. IsSequence(a) /\ WellShaped(a)
            <3>1. /\ IsSequence(a) /\ DOMAIN a = 1 .. pinned
                  /\ \A i \in 1 .. pinned : a[i] = m[i]
                BY <2>1, <2>8, <2>11, TakeProperties
            <3>2. \A i \in 1 .. pinned : i \in 1 .. n
                BY <2>8
            <3> QED  BY <2>14, <3>1, <3>2 DEF WellShaped, Range
        <2>16. IsSequence(b) /\ WellShaped(b)
            BY <2>12, UserSound DEF Notice, User, Sound
        <2>17. PICK l \in Nat : l = n - start + 1
            BY <2>6
        <2>18. IsSequence(kept) /\ WellShaped(kept)
            <3>1. kept = [i \in 1 .. l |-> kept[i]] /\ DOMAIN kept = 1 .. l
                BY <2>10, <2>17
            <3>2. ASSUME NEW i \in 1 .. l PROVE Shaped(kept[i])
                <4>1. PICK x : x = m[start + i - 1]
                    OBVIOUS
                <4>2. start + i - 1 \in 1 .. n
                    BY <2>6, <2>17
                <4>3. Shaped(x)
                    BY <2>14, <4>1, <4>2
                <4>4. kept[i] = x \/ kept[i] = TruncateToolResult(x)
                    BY <2>10, <2>17, <4>1
                <4>5. Shaped(TruncateToolResult(x))
                    <5>1. \A c : Shaped(ToolResult(c, "preview"))
                        BY DEF Shaped, ToolResult, IsResult
                    <5> QED  BY <4>3, <5>1, TruncateRetouches
                <4> QED  BY <4>3, <4>4, <4>5
            <3>3. IsSequence(kept)
                BY <3>1, ListIsSequence
            <3> QED  BY <3>1, <3>2, <3>3 DEF WellShaped, Range
        <2>19. PICK ab : ab = a \o b
            OBVIOUS
        <2>20. IsSequence(ab) /\ WellShaped(ab)
            <3>1. IsSequence(ab) /\ Range(ab) = Range(a) \cup Range(b)
                BY <2>15, <2>16, <2>19, ConcatIsSequence, RangeConcat
            <3> QED  BY <2>15, <2>16, <3>1 DEF WellShaped
        <2>21. PICK c : c = ab \o kept
            OBVIOUS
        <2>22. IsSequence(c) /\ WellShaped(c)
            <3>1. IsSequence(c) /\ Range(c) = Range(ab) \cup Range(kept)
                BY <2>18, <2>20, <2>21, ConcatIsSequence, RangeConcat
            <3> QED  BY <2>18, <2>20, <3>1 DEF WellShaped
        <2> QED  BY <1>1, <2>13, <2>19, <2>21, <2>22
    <1> QED  BY <1>2, <1>3

LEMMA BudgetShaped ==
    ASSUME NEW m, IsSequence(m), WellShaped(m), NEW tokens
    PROVE  IsSequence(BudgetCompact(m, tokens)) /\ WellShaped(BudgetCompact(m, tokens))
    <1>1. IsSequence(<<>>) /\ WellShaped(<<>>)
        BY EmptyIsSequence DEF WellShaped, Range
    <1>2. CASE tokens = 0
        BY <1>2, CompactionAssumption, CompactShaped DEF BudgetCompact
    <1>3. CASE tokens # 0 /\ tokens <= Threshold
        BY <1>1, <1>3 DEF BudgetCompact
    <1>4. CASE tokens # 0 /\ ~(tokens <= Threshold)
        <2>1. IsSequence(m)
            OBVIOUS
        <2>2. PICK max \in Nat : BudgetCompact(m, tokens) = CompactByCount(m, max)
            BY <1>4, TargetIsNatural
        <2> QED  BY <2>2, CompactShaped
    <1> QED  BY <1>2, <1>3, <1>4

-----------------------------------------------------------------------------
(* The log.                                                                *)

Quiet(row) == row.type # "assistant" /\ ~IsResult(row)

(* What a step that leaves calls and results alone does to the log.        *)
LogSteady ==
    /\ IsSequence(log)' /\ Len(log) \in Nat /\ Len(log)' \in Nat /\ Len(log) <= Len(log)'
    /\ AskedCalls(log') = AskedCalls(log)
    /\ AnsweredCalls(log') = AnsweredCalls(log)
    /\ InvLog => InvLog'

LEMMA LogUnchanged ==
    ASSUME IsSequence(log), log' = log
    PROVE  LogSteady
    <1>1. IsSequence(log') /\ (InvLog => InvLog') /\ Len(log) \in Nat
        BY SequenceDomain DEF InvLog, ResultsInPlace, AssistantRows
    <1> QED  BY <1>1 DEF LogSteady

LEMMA QuietTail ==
    ASSUME IsSequence(log), IsSequence(log'), Len(log) <= Len(log'),
           \A i \in DOMAIN log : log'[i] = log[i],
           \A i \in (Len(log) + 1) .. Len(log') : Quiet(log'[i])
    PROVE  LogSteady
    <1>1. /\ Len(log) \in Nat /\ DOMAIN log = 1 .. Len(log)
          /\ Len(log') \in Nat /\ DOMAIN log' = 1 .. Len(log')
        BY SequenceDomain
    <1>2. AssistantRows(log') = AssistantRows(log)
        BY <1>1 DEF AssistantRows, Quiet
    <1>3. {j \in DOMAIN log' : IsResult(log'[j])} = {j \in DOMAIN log : IsResult(log[j])}
        BY <1>1 DEF Quiet, IsResult
    <1>4. \A k \in AssistantRows(log) : k \in DOMAIN log /\ log'[k] = log[k]
        BY DEF AssistantRows
    <1>5. AskedCalls(log') = AskedCalls(log)
        BY <1>2, <1>4 DEF AskedCalls
    <1>6. AnsweredCalls(log') = AnsweredCalls(log)
        BY <1>3 DEF AnsweredCalls
    <1>7. ASSUME InvLog PROVE InvLog'
        <2>1. \A k \in AssistantRows(log') : Numbered(log'[k], k)
            BY <1>2, <1>4, <1>7 DEF InvLog
        <2>2. ResultsInPlace'
            BY <1>2, <1>3, <1>4, <1>7 DEF InvLog, ResultsInPlace
        <2> QED  BY <2>1, <2>2 DEF InvLog
    <1> QED  BY <1>1, <1>5, <1>6, <1>7 DEF LogSteady

LEMMA QuietAppend ==
    ASSUME IsSequence(log), NEW row, Quiet(row), log' = Append(log, row)
    PROVE  LogSteady
    <1>1. /\ IsSequence(log') /\ Len(log') = Len(log) + 1
          /\ \A i \in DOMAIN log : log'[i] = log[i]
          /\ log'[Len(log) + 1] = row
        BY AppendIsSequence
    <1>2. Len(log) \in Nat
        BY SequenceDomain
    <1> QED  BY <1>1, <1>2, QuietTail

LEMMA QuietConcat ==
    ASSUME IsSequence(log), NEW rows, IsSequence(rows),
           \A i \in DOMAIN rows : Quiet(rows[i]), log' = log \o rows
    PROVE  LogSteady
    <1>1. /\ IsSequence(log') /\ Len(log') = Len(log) + Len(rows)
          /\ \A i \in DOMAIN log : log'[i] = log[i]
          /\ \A i \in DOMAIN rows : log'[Len(log) + i] = rows[i]
        BY ConcatIsSequence
    <1>2. Len(log) \in Nat /\ Len(rows) \in Nat /\ DOMAIN rows = 1 .. Len(rows)
        BY SequenceDomain
    <1>3. ASSUME NEW i \in (Len(log) + 1) .. Len(log')
          PROVE  Quiet(log'[i])
        <2>1. i - Len(log) \in DOMAIN rows /\ Len(log) + (i - Len(log)) = i
            BY <1>1, <1>2
        <2> QED  BY <1>1, <2>1
    <1> QED  BY <1>1, <1>2, <1>3, QuietTail

LEMMA AssistantAppend ==
    ASSUME IsSequence(log), NEW row, row.type = "assistant", log' = Append(log, row)
    PROVE  /\ IsSequence(log)' /\ Len(log) \in Nat
           /\ Len(log') = Len(log) + 1 /\ log'[Len(log')] = row
           /\ AskedCalls(log') = AskedCalls(log) \cup ToSet(row.calls)
           /\ AnsweredCalls(log') = AnsweredCalls(log)
           /\ InvLog /\ Numbered(row, Len(log) + 1) => InvLog'
    <1>1. /\ IsSequence(log') /\ Len(log') = Len(log) + 1
          /\ \A i \in DOMAIN log : log'[i] = log[i]
          /\ log'[Len(log) + 1] = row
        BY AppendIsSequence
    <1>2. /\ Len(log) \in Nat /\ DOMAIN log = 1 .. Len(log)
          /\ DOMAIN log' = 1 .. (Len(log) + 1)
        BY <1>1, SequenceDomain
    <1>3. AssistantRows(log') = AssistantRows(log) \cup {Len(log) + 1}
        BY <1>1, <1>2 DEF AssistantRows
    <1>4. {j \in DOMAIN log' : IsResult(log'[j])} = {j \in DOMAIN log : IsResult(log[j])}
        BY <1>1, <1>2 DEF IsResult
    <1>5. \A k \in AssistantRows(log) : k \in DOMAIN log /\ log'[k] = log[k]
        BY <1>1 DEF AssistantRows
    <1>6. AskedCalls(log') = AskedCalls(log) \cup ToSet(row.calls)
        BY <1>1, <1>3, <1>5 DEF AskedCalls
    <1>7. AnsweredCalls(log') = AnsweredCalls(log)
        BY <1>1, <1>4 DEF AnsweredCalls
    <1>8. ASSUME InvLog, Numbered(row, Len(log) + 1) PROVE InvLog'
        <2>1. \A k \in AssistantRows(log') : Numbered(log'[k], k)
            BY <1>1, <1>3, <1>5, <1>8 DEF InvLog
        <2>2. ResultsInPlace'
            BY <1>1, <1>3, <1>4, <1>5, <1>8 DEF InvLog, ResultsInPlace
        <2> QED  BY <2>1, <2>2 DEF InvLog
    <1> QED  BY <1>1, <1>2, <1>6, <1>7, <1>8

LEMMA ResultAppend ==
    ASSUME IsSequence(log), NEW c, NEW how, log' = Append(log, ToolResult(c, how))
    PROVE  /\ IsSequence(log)' /\ Len(log) \in Nat
           /\ Len(log') = Len(log) + 1
           /\ \A j \in DOMAIN log : log'[j] = log[j]
           /\ IsResult(log'[Len(log) + 1]) /\ log'[Len(log) + 1].call = c
           /\ AssistantRows(log') = AssistantRows(log)
           /\ AskedCalls(log') = AskedCalls(log)
           /\ AnsweredCalls(log') = AnsweredCalls(log) \cup {c}
    <1> DEFINE result == ToolResult(c, how)
    <1>1. /\ IsSequence(log') /\ Len(log') = Len(log) + 1
          /\ \A j \in DOMAIN log : log'[j] = log[j]
          /\ log'[Len(log) + 1] = result
        BY AppendIsSequence
    <1>2. /\ Len(log) \in Nat /\ DOMAIN log = 1 .. Len(log)
          /\ DOMAIN log' = 1 .. (Len(log) + 1)
        BY <1>1, SequenceDomain
    <1>3. result.type = "tool_result" /\ result.call = c
        BY DEF ToolResult
    <1> HIDE DEF result
    <1>4. AssistantRows(log') = AssistantRows(log)
        BY <1>1, <1>2, <1>3 DEF AssistantRows
    <1>5. {j \in DOMAIN log' : IsResult(log'[j])}
            = {j \in DOMAIN log : IsResult(log[j])} \cup {Len(log) + 1}
        BY <1>1, <1>2, <1>3 DEF IsResult
    <1>6. \A j \in AssistantRows(log) : j \in DOMAIN log /\ log'[j] = log[j]
        BY <1>1 DEF AssistantRows
    <1>7. AskedCalls(log') = AskedCalls(log)
        BY <1>4, <1>6 DEF AskedCalls
    <1>8. AnsweredCalls(log') = AnsweredCalls(log) \cup {c}
        <2> DEFINE old == {j \in DOMAIN log : IsResult(log[j])}
        <2>1. \A j \in old : log'[j] = log[j]
            BY <1>1
        <2>2. AnsweredCalls(log') = {log'[j].call : j \in old \cup {Len(log) + 1}}
            BY <1>5 DEF AnsweredCalls
        <2>3. AnsweredCalls(log) = {log[j].call : j \in old}
            BY DEF AnsweredCalls
        <2> HIDE DEF old
        <2>4. log'[Len(log) + 1].call = c
            BY <1>1, <1>3
        <2>5. {log'[j].call : j \in old} = {log[j].call : j \in old}
            BY <2>1
        <2>6. {log'[j].call : j \in old \cup {Len(log) + 1}}
                = {log'[j].call : j \in old} \cup {log'[Len(log) + 1].call}
            OBVIOUS
        <2> QED  BY <2>2, <2>3, <2>4, <2>5, <2>6
    <1> QED  BY <1>1, <1>2, <1>3, <1>4, <1>7, <1>8 DEF IsResult

-----------------------------------------------------------------------------
(* The invariant.                                                          *)

LEMMA BoundsAreNaturals ==
    /\ MaxTurns \in Nat /\ MaxToolCalls \in Nat /\ MaxRetries \in Nat
    /\ MaxTexts \in Nat /\ MaxBatch \in Nat
    BY AgentTurnAssumption

LEMMA InvInit == Init => Inv
    <1> SUFFICES ASSUME Init PROVE Inv
        OBVIOUS
    <1> USE AgentTurnAssumption, BoundsAreNaturals
    <1>1. IsSequence(<<>>) /\ Len(<<>>) = 0
        BY EmptyIsSequence
    <1>2. log = <<>> /\ reply.calls = <<>> /\ DOMAIN log = {}
        BY DEF Init, NoReply, Assistant
    <1>3. LoopOK
        <2>1. pc \in Steps
            BY DEF Init, Steps
        <2>2. iter \in 0 .. MaxTurns /\ attempt \in 0 .. MaxRetries + 1
            BY DEF Init
        <2>3. slots \in Seq({"ready", "failed"})
            BY EmptyIsSequence DEF Init
        <2>4. Len(slots) <= Len(Calls) /\ recorded \in 0 .. Len(Calls)
            BY <1>2, EmptyIsSequence DEF Init, Calls
        <2>5. running \subseteq started /\ failed \in BOOLEAN
            BY DEF Init
        <2> QED  BY <2>1, <2>2, <2>3, <2>4, <2>5 DEF LoopOK
    <1>4. InputOK
        <2>1. typed \in 0 .. MaxTexts /\ prompt \in 0 .. typed
            BY DEF Init
        <2>2. steer \in Seq(1 .. typed)
            BY EmptyIsSequence DEF Init
        <2>3. signal \in BOOLEAN /\ clearing \in BOOLEAN /\ pressed \in BOOLEAN
            BY DEF Init
        <2> QED  BY <2>1, <2>2, <2>3 DEF InputOK
    <1>5. UsedOK
        BY DEF Init, UsedOK, Limit, Bounds
    <1>6. InvControl
        BY DEF Init, InvControl
    <1>7. InvReply
        BY <1>1, <1>2 DEF Init, InvReply, NoReply, Assistant
    <1>8. InvCalls
        <2>1. AskedCalls(log) = {} /\ AnsweredCalls(log) = {}
            BY <1>2 DEF AskedCalls, AnsweredCalls, AssistantRows
        <2>2. pc = "idle" /\ started = {} /\ DOMAIN Calls = {}
            BY <1>2, EmptyIsSequence DEF Init, Calls
        <2> QED  BY <2>1, <2>2 DEF InvCalls
    <1> QED  BY <1>1, <1>2, <1>3, <1>4, <1>5, <1>6, <1>7, <1>8 DEF Inv, TypeOK

(* A step that starts and records no call: the calls of the message being  *)
(* handled stay what they are.                                             *)
LEMMA CallsSteady ==
    ASSUME Inv, LogSteady, reply' = reply, started' = started,
           pc' \in {"reply", "gate"} => pc' = pc,
           pc' \in {"running", "discard"} => pc' = pc /\ recorded' = recorded,
           pc' = "gate" => recorded' = recorded
    PROVE  InvCalls'
    <1>1. Calls' = Calls
        BY DEF Calls
    <1>2. /\ started' \subseteq AskedCalls(log') /\ AnsweredCalls(log') \subseteq AskedCalls(log')
          /\ \A c \in AskedCalls(log') : c[1] \in 1 .. Len(log')
          /\ \A i, j \in DOMAIN Calls' : Calls'[i] = Calls'[j] => i = j
        BY <1>1 DEF Inv, InvCalls, LogSteady
    <1>3. /\ pc' = "reply" => \A c \in ToSet(Calls)' : c[1] \in 1 .. (Len(log') + 1)
          /\ pc' = "reply" => ToSet(Calls)' \cap AskedCalls(log') = {}
        BY <1>1 DEF Inv, InvCalls, LogSteady
    <1>4. /\ pc' \in {"gate", "running", "discard"} => ToSet(Calls)' \subseteq AskedCalls(log')
          /\ pc' \in {"gate", "running", "discard"} =>
                \A i \in DOMAIN Calls' : i > recorded' => Calls'[i] \notin AnsweredCalls(log')
          /\ pc' = "gate" => ToSet(Calls)' \cap started' = {}
        BY <1>1 DEF Inv, InvCalls, LogSteady
    <1> QED  BY <1>2, <1>3, <1>4 DEF InvCalls

LEMMA NoCalls ==
    ASSUME NEW k
    PROVE  CallIds(k, 0) = <<>>
    <1>1. 1 .. 0 = {}
        OBVIOUS
    <1> QED  BY <1>1 DEF CallIds

(* A new message: its calls are numbered by a row that is not there yet.   *)
LEMMA CallsNew ==
    ASSUME Inv, log' = log, started' = started, pc' = "reply",
           NEW n \in Nat, reply'.calls = CallIds(Len(log) + 1, n)
    PROVE  InvCalls' /\ IsSequence(reply'.calls)
    <1>1. PICK calls : calls = reply'.calls
        OBVIOUS
    <1>2. PICK k : k = Len(log) + 1
        OBVIOUS
    <1>3. calls = [i \in 1 .. n |-> calls[i]] /\ \A i \in 1 .. n : calls[i] = <<k, i>>
        BY <1>1, <1>2 DEF CallIds
    <1>4. IsSequence(calls) /\ Len(calls) = n
        BY <1>3, ListIsSequence
    <1>5. DOMAIN calls = 1 .. n /\ Calls' = calls
        BY <1>1, <1>3 DEF Calls
    <1>6. Len(log) \in Nat
        BY SequenceDomain DEF Inv, TypeOK
    <1>7. \A c \in ToSet(calls) : c[1] = k
        BY <1>3, <1>5 DEF ToSet
    <1>8. \A i, j \in DOMAIN calls : calls[i] = calls[j] => i = j
        BY <1>3, <1>5
    <1>9. /\ AskedCalls(log') = AskedCalls(log) /\ AnsweredCalls(log') = AnsweredCalls(log)
          /\ Len(log') = Len(log)
        OBVIOUS
    <1>10. /\ started' \subseteq AskedCalls(log') /\ AnsweredCalls(log') \subseteq AskedCalls(log')
           /\ \A c \in AskedCalls(log') : c[1] \in 1 .. Len(log')
        BY <1>9 DEF Inv, InvCalls
    <1>11. \A c \in ToSet(calls) : c[1] \in 1 .. (Len(log') + 1)
        BY <1>2, <1>6, <1>7, <1>9
    <1>12. ToSet(calls) \cap AskedCalls(log') = {}
        BY <1>2, <1>6, <1>7, <1>9, <1>10
    <1>13. InvCalls'
        BY <1>5, <1>8, <1>10, <1>11, <1>12 DEF InvCalls
    <1> QED  BY <1>1, <1>4, <1>13

LEMMA SpendPreserves ==
    ASSUME UsedOK, NEW b \in Bounds, Spend(b)
    PROVE  UsedOK'
    BY AgentTurnAssumption DEF UsedOK, Spend, Limit, Bounds

(* A step that ends the turn, by a return or by a crash.                   *)
LEMMA ReturnPreserves ==
    ASSUME Inv, Return, LogSteady, typed' = typed, started' = started,
           steer' \in Seq(1 .. typed),
           signal' \in BOOLEAN, clearing' \in BOOLEAN, pressed' \in BOOLEAN, UsedOK'
    PROVE  Inv'
    <1> USE BoundsAreNaturals
    <1>1. IsSequence(<<>>) /\ Len(<<>>) = 0
        BY EmptyIsSequence
    <1>2. reply'.calls = <<>>
        BY DEF Return, NoReply, Assistant
    <1>3. LoopOK'
        <2>1. pc' \in Steps
            BY DEF Return, Steps
        <2>2. iter' \in 0 .. MaxTurns /\ attempt' \in 0 .. MaxRetries + 1
            BY DEF Return
        <2>3. slots' \in Seq({"ready", "failed"})
            BY EmptyIsSequence DEF Return
        <2>4. Len(slots') <= Len(Calls') /\ recorded' \in 0 .. Len(Calls')
            BY <1>2, EmptyIsSequence DEF Return, Calls
        <2>5. running' \subseteq started' /\ failed' \in BOOLEAN
            BY DEF Return
        <2> QED  BY <2>1, <2>2, <2>3, <2>4, <2>5 DEF LoopOK
    <1>4. InputOK'
        BY DEF Inv, TypeOK, InputOK, Return
    <1>5. InvControl'
        BY DEF InvControl, Return
    <1>6. InvReply'
        BY <1>1, <1>2 DEF InvReply, Return, NoReply, Assistant
    <1>7. InvCalls'
        <2>1. pc' = "idle" /\ DOMAIN Calls' = {}
            BY <1>2, EmptyIsSequence DEF Return, Calls
        <2>2. /\ started' \subseteq AskedCalls(log')
              /\ AnsweredCalls(log') \subseteq AskedCalls(log')
              /\ \A c \in AskedCalls(log') : c[1] \in 1 .. Len(log')
            BY DEF Inv, InvCalls, LogSteady
        <2> QED  BY <2>1, <2>2 DEF InvCalls
    <1> QED  BY <1>3, <1>4, <1>5, <1>6, <1>7 DEF Inv, TypeOK, LogSteady

LEMMA HostFailsPreserves ==
    ASSUME Inv, HostFails
    PROVE  Inv'
    <1>1. LogSteady
        BY LogUnchanged DEF Inv, TypeOK, HostFails
    <1>2. UsedOK'
        BY SpendPreserves DEF Inv, TypeOK, HostFails, Bounds
    <1> QED  BY <1>1, <1>2, ReturnPreserves DEF Inv, TypeOK, InputOK, HostFails

LEMMA RunTurnPreserves ==
    ASSUME Inv, RunTurn
    PROVE  Inv'
    <1> USE BoundsAreNaturals
    <1>1. LogSteady
        BY LogUnchanged DEF Inv, TypeOK, RunTurn
    <1>2. LoopOK'
        BY DEF Inv, TypeOK, LoopOK, InvControl, Steps, Calls, RunTurn
    <1>3. InputOK'
        <2>1. typed \in Nat /\ steer \in Seq(1 .. typed)
            BY DEF Inv, TypeOK, InputOK
        <2>2. steer' \in Seq(1 .. typed')
            BY <2>1, SequenceWidens, 1 .. typed \subseteq 1 .. (typed + 1) DEF RunTurn
        <2>3. typed' \in 0 .. MaxTexts /\ prompt' \in 0 .. typed'
            BY <2>1 DEF RunTurn
        <2>4. signal' \in BOOLEAN /\ clearing' \in BOOLEAN /\ pressed' \in BOOLEAN
            BY DEF Inv, TypeOK, InputOK, RunTurn
        <2> QED  BY <2>2, <2>3, <2>4 DEF InputOK
    <1>4. UsedOK'
        BY DEF Inv, TypeOK, UsedOK, RunTurn
    <1>5. InvControl'
        BY DEF Inv, InvControl, TypeOK, LoopOK, RunTurn
    <1>6. InvReply'
        BY DEF Inv, InvReply, RunTurn
    <1>7. InvCalls'
        BY <1>1, CallsSteady DEF RunTurn
    <1> QED  BY <1>1, <1>2, <1>3, <1>4, <1>5, <1>6, <1>7 DEF Inv, TypeOK, LogSteady

LEMMA OpenLogPreserves ==
    ASSUME Inv, OpenLog
    PROVE  Inv'
    <1> USE BoundsAreNaturals
    <1>1. CASE HostFails
        BY <1>1, HostFailsPreserves
    <1>2. CASE ~HostFails
        <2> USE <1>2
        <2>1. LogSteady
            BY LogUnchanged DEF Inv, TypeOK, OpenLog
        <2>2. LoopOK'
            BY DEF Inv, TypeOK, LoopOK, InvControl, Steps, Calls, OpenLog
        <2>3. InputOK'
            BY DEF Inv, TypeOK, InputOK, OpenLog
        <2>4. UsedOK'
            BY DEF Inv, TypeOK, UsedOK, OpenLog
        <2>5. InvControl'
            BY DEF Inv, InvControl, TypeOK, LoopOK, OpenLog
        <2>6. InvReply'
            BY DEF Inv, InvReply, OpenLog
        <2>7. InvCalls'
            BY <2>1, CallsSteady DEF OpenLog
        <2> QED  BY <2>1, <2>2, <2>3, <2>4, <2>5, <2>6, <2>7 DEF Inv, TypeOK, LogSteady
    <1> QED  BY <1>1, <1>2

LEMMA PrepareTurnPreserves ==
    ASSUME Inv, PrepareTurn
    PROVE  Inv'
    <1> USE BoundsAreNaturals
    <1>1. LogSteady
        BY LogUnchanged DEF Inv, TypeOK, PrepareTurn
    <1>2. LoopOK'
        BY DEF Inv, TypeOK, LoopOK, InvControl, Steps, Calls, PrepareTurn, turnVars
    <1>3. InputOK'
        BY DEF Inv, TypeOK, InputOK, PrepareTurn, turnVars
    <1>4. UsedOK'
        BY DEF Inv, TypeOK, UsedOK, PrepareTurn, turnVars
    <1>5. InvControl'
        BY DEF Inv, InvControl, TypeOK, LoopOK, PrepareTurn, turnVars
    <1>6. InvReply'
        BY DEF Inv, InvReply, PrepareTurn, turnVars
    <1>7. InvCalls'
        BY <1>1, CallsSteady DEF PrepareTurn, turnVars
    <1> QED  BY <1>1, <1>2, <1>3, <1>4, <1>5, <1>6, <1>7 DEF Inv, TypeOK, LogSteady

LEMMA LoopExhaustedPreserves ==
    ASSUME Inv, LoopExhausted
    PROVE  Inv'
    <1> USE BoundsAreNaturals
    <1>1. LogSteady
        BY LogUnchanged DEF Inv, TypeOK, LoopExhausted
    <1>2. LoopOK'
        BY DEF Inv, TypeOK, LoopOK, InvControl, Steps, Calls, LoopExhausted, turnVars
    <1>3. InputOK'
        BY DEF Inv, TypeOK, InputOK, LoopExhausted, turnVars
    <1>4. UsedOK'
        BY DEF Inv, TypeOK, UsedOK, LoopExhausted, turnVars
    <1>5. InvControl'
        BY DEF Inv, InvControl, TypeOK, LoopOK, LoopExhausted, turnVars
    <1>6. InvReply'
        BY DEF Inv, InvReply, LoopExhausted, turnVars
    <1>7. InvCalls'
        BY <1>1, CallsSteady DEF LoopExhausted, turnVars
    <1> QED  BY <1>1, <1>2, <1>3, <1>4, <1>5, <1>6, <1>7 DEF Inv, TypeOK, LogSteady

LEMMA SkipRequestPreserves ==
    ASSUME Inv, SkipRequest
    PROVE  Inv'
    <1> USE BoundsAreNaturals
    <1>1. LogSteady
        BY LogUnchanged DEF Inv, TypeOK, SkipRequest
    <1>2. LoopOK'
        BY DEF Inv, TypeOK, LoopOK, InvControl, Steps, Calls, SkipRequest, Assistant
    <1>3. InputOK'
        BY DEF Inv, TypeOK, InputOK, SkipRequest, Assistant
    <1>4. UsedOK'
        BY DEF Inv, TypeOK, UsedOK, SkipRequest, Assistant
    <1>5. InvControl'
        BY DEF Inv, InvControl, TypeOK, LoopOK, SkipRequest, Assistant
    <1>6. InvReply' /\ InvCalls'
        <2>1. 0 \in Nat /\ reply'.calls = CallIds(Len(log) + 1, 0)
            BY NoCalls DEF SkipRequest, Assistant
        <2>2. log' = log /\ started' = started /\ pc' = "reply" /\ reply'.type = "assistant"
            BY DEF SkipRequest, Assistant
        <2> QED  BY <2>1, <2>2, CallsNew DEF InvReply
    <1> QED  BY <1>1, <1>2, <1>3, <1>4, <1>5, <1>6 DEF Inv, TypeOK, LogSteady

LEMMA RequestPreserves ==
    ASSUME Inv, Request
    PROVE  Inv'
    <1> USE BoundsAreNaturals
    <1>1. LogSteady
        BY LogUnchanged DEF Inv, TypeOK, Request, CountAttempt
    <1>2. LoopOK'
        BY DEF Inv, TypeOK, LoopOK, InvControl, Steps, Calls, Request, CountAttempt
    <1>3. InputOK'
        BY DEF Inv, TypeOK, InputOK, Request, CountAttempt
    <1>4. UsedOK'
        BY DEF Inv, TypeOK, UsedOK, Request, CountAttempt
    <1>5. InvControl'
        BY DEF Inv, InvControl, TypeOK, LoopOK, Request, CountAttempt
    <1>6. InvReply'
        BY DEF Inv, InvReply, Request, CountAttempt
    <1>7. InvCalls'
        BY <1>1, CallsSteady DEF Request, CountAttempt
    <1> QED  BY <1>1, <1>2, <1>3, <1>4, <1>5, <1>6, <1>7 DEF Inv, TypeOK, LogSteady

LEMMA StreamDonePreserves ==
    ASSUME Inv, StreamDone
    PROVE  Inv'
    <1> USE BoundsAreNaturals
    <1>1. LogSteady
        BY LogUnchanged DEF Inv, TypeOK, StreamDone
    <1>2. LoopOK'
        BY DEF Inv, TypeOK, LoopOK, InvControl, Steps, Calls, StreamDone, Assistant, CallIds, IsSequence, Range, Numbered
    <1>3. InputOK'
        BY DEF Inv, TypeOK, InputOK, StreamDone, Assistant, CallIds, IsSequence, Range, Numbered
    <1>4. UsedOK'
        BY DEF Inv, TypeOK, UsedOK, StreamDone, Assistant, CallIds, IsSequence, Range, Numbered
    <1>5. InvControl'
        BY DEF Inv, InvControl, TypeOK, LoopOK, StreamDone, Assistant, CallIds, IsSequence, Range, Numbered
    <1>6. InvReply' /\ InvCalls'
        <2>1. PICK n \in 0 .. MaxBatch : reply'.calls = CallIds(Len(log) + 1, n)
            BY DEF StreamDone, Assistant
        <2>2. log' = log /\ started' = started /\ pc' = "reply" /\ reply'.type = "assistant"
            BY DEF StreamDone, Assistant
        <2>3. n \in Nat
            BY <2>1
        <2> QED  BY <2>1, <2>2, <2>3, CallsNew DEF InvReply
    <1> QED  BY <1>1, <1>2, <1>3, <1>4, <1>5, <1>6 DEF Inv, TypeOK, LogSteady

LEMMA StreamErrorPreserves ==
    ASSUME Inv, StreamError
    PROVE  Inv'
    <1> USE BoundsAreNaturals
    <1>1. LogSteady
        BY LogUnchanged DEF Inv, TypeOK, StreamError
    <1>2. LoopOK'
        BY EmptyIsSequence DEF Inv, TypeOK, LoopOK, InvControl, Steps, Calls, StreamError, Assistant
    <1>3. InputOK'
        BY DEF Inv, TypeOK, InputOK, StreamError, Assistant
    <1>4. UsedOK'
        BY DEF Inv, TypeOK, UsedOK, StreamError, Assistant
    <1>5. InvControl'
        BY DEF Inv, InvControl, TypeOK, LoopOK, StreamError, Assistant
    <1>6. InvReply' /\ InvCalls'
        <2>1. CASE pc' = "ask" /\ reply' = reply
            BY <1>1, <2>1, CallsSteady DEF Inv, InvReply, StreamError
        <2>2. CASE pc' = "reply" /\ reply' = Assistant(<<>>, 0, "error")
            <3>1. 0 \in Nat /\ reply'.calls = CallIds(Len(log) + 1, 0)
                BY <2>2, NoCalls DEF Assistant
            <3>2. log' = log /\ started' = started /\ reply'.type = "assistant"
                BY <2>2 DEF StreamError, Assistant
            <3> QED  BY <2>2, <3>1, <3>2, CallsNew DEF InvReply
        <2> QED  BY <2>1, <2>2 DEF StreamError
    <1> QED  BY <1>1, <1>2, <1>3, <1>4, <1>5, <1>6 DEF Inv, TypeOK, LogSteady

LEMMA DiscardDonePreserves ==
    ASSUME Inv, DiscardDone
    PROVE  Inv'
    <1> USE BoundsAreNaturals
    <1>1. LogSteady
        BY LogUnchanged DEF Inv, TypeOK, DiscardDone
    <1>2. LoopOK'
        BY DEF Inv, TypeOK, LoopOK, InvControl, Steps, Calls, DiscardDone
    <1>3. InputOK'
        BY DEF Inv, TypeOK, InputOK, DiscardDone
    <1>4. UsedOK'
        BY DEF Inv, TypeOK, UsedOK, DiscardDone
    <1>5. InvControl'
        BY DEF Inv, InvControl, TypeOK, LoopOK, DiscardDone
    <1>6. InvReply'
        BY DEF Inv, InvReply, DiscardDone
    <1>7. InvCalls'
        BY <1>1, CallsSteady DEF DiscardDone
    <1> QED  BY <1>1, <1>2, <1>3, <1>4, <1>5, <1>6, <1>7 DEF Inv, TypeOK, LogSteady

LEMMA GateCallPreserves ==
    ASSUME Inv, GateCall
    PROVE  Inv'
    <1> USE BoundsAreNaturals
    <1>1. LogSteady
        BY LogUnchanged DEF Inv, TypeOK, GateCall
    <1>2. LoopOK'
        BY DEF Inv, TypeOK, LoopOK, InvControl, Steps, Calls, GateCall
    <1>3. InputOK'
        BY DEF Inv, TypeOK, InputOK, GateCall
    <1>4. UsedOK'
        BY DEF Inv, TypeOK, UsedOK, GateCall
    <1>5. InvControl'
        BY DEF Inv, InvControl, TypeOK, LoopOK, GateCall
    <1>6. InvReply'
        BY DEF Inv, InvReply, GateCall
    <1>7. InvCalls'
        BY <1>1, CallsSteady DEF GateCall
    <1> QED  BY <1>1, <1>2, <1>3, <1>4, <1>5, <1>6, <1>7 DEF Inv, TypeOK, LogSteady

LEMMA ToolEndsPreserves ==
    ASSUME Inv, ToolEnds
    PROVE  Inv'
    <1> USE BoundsAreNaturals
    <1>1. LogSteady
        BY LogUnchanged DEF Inv, TypeOK, ToolEnds
    <1>2. LoopOK'
        BY DEF Inv, TypeOK, LoopOK, InvControl, Steps, Calls, ToolEnds
    <1>3. InputOK'
        BY DEF Inv, TypeOK, InputOK, ToolEnds
    <1>4. UsedOK'
        BY DEF Inv, TypeOK, UsedOK, ToolEnds
    <1>5. InvControl'
        BY DEF Inv, InvControl, TypeOK, LoopOK, ToolEnds
    <1>6. InvReply'
        BY DEF Inv, InvReply, ToolEnds
    <1>7. InvCalls'
        BY <1>1, CallsSteady DEF ToolEnds
    <1> QED  BY <1>1, <1>2, <1>3, <1>4, <1>5, <1>6, <1>7 DEF Inv, TypeOK, LogSteady

LEMMA BatchDonePreserves ==
    ASSUME Inv, BatchDone
    PROVE  Inv'
    <1> USE BoundsAreNaturals
    <1>1. LogSteady
        BY LogUnchanged DEF Inv, TypeOK, BatchDone
    <1>2. LoopOK'
        BY DEF Inv, TypeOK, LoopOK, InvControl, Steps, Calls, BatchDone
    <1>3. InputOK'
        BY DEF Inv, TypeOK, InputOK, BatchDone
    <1>4. UsedOK'
        BY DEF Inv, TypeOK, UsedOK, BatchDone
    <1>5. InvControl'
        BY DEF Inv, InvControl, TypeOK, LoopOK, BatchDone
    <1>6. InvReply'
        BY DEF Inv, InvReply, BatchDone
    <1>7. InvCalls'
        BY <1>1, CallsSteady DEF BatchDone
    <1> QED  BY <1>1, <1>2, <1>3, <1>4, <1>5, <1>6, <1>7 DEF Inv, TypeOK, LogSteady

LEMMA SteerPreserves ==
    ASSUME Inv, Steer
    PROVE  Inv'
    <1> USE BoundsAreNaturals
    <1>1. LogSteady
        BY LogUnchanged DEF Inv, TypeOK, Steer
    <1>2. LoopOK'
        BY DEF Inv, TypeOK, LoopOK, InvControl, Steps, Calls, Steer, Enqueue, turnVars
    <1>3. InputOK'
        BY DEF Inv, TypeOK, InputOK, Steer, Enqueue, turnVars
    <1>4. UsedOK'
        BY DEF Inv, TypeOK, UsedOK, Steer, Enqueue, turnVars
    <1>5. InvControl'
        BY DEF Inv, InvControl, TypeOK, LoopOK, Steer, Enqueue, turnVars
    <1>6. InvReply'
        BY DEF Inv, InvReply, Steer, Enqueue, turnVars
    <1>7. InvCalls'
        BY <1>1, CallsSteady DEF Steer, Enqueue, turnVars
    <1> QED  BY <1>1, <1>2, <1>3, <1>4, <1>5, <1>6, <1>7 DEF Inv, TypeOK, LogSteady

LEMMA CancelPreserves ==
    ASSUME Inv, Cancel
    PROVE  Inv'
    <1> USE BoundsAreNaturals
    <1>1. LogSteady
        BY LogUnchanged DEF Inv, TypeOK, Cancel
    <1>2. LoopOK'
        BY DEF Inv, TypeOK, LoopOK, InvControl, Steps, Calls, Cancel, turnVars
    <1>3. InputOK'
        BY DEF Inv, TypeOK, InputOK, Cancel, turnVars
    <1>4. UsedOK'
        BY SpendPreserves DEF Inv, TypeOK, Bounds, Cancel, turnVars
    <1>5. InvControl'
        BY DEF Inv, InvControl, TypeOK, LoopOK, Cancel, turnVars
    <1>6. InvReply'
        BY DEF Inv, InvReply, Cancel, turnVars
    <1>7. InvCalls'
        BY <1>1, CallsSteady DEF Cancel, turnVars
    <1> QED  BY <1>1, <1>2, <1>3, <1>4, <1>5, <1>6, <1>7 DEF Inv, TypeOK, LogSteady

LEMMA BeginClearPreserves ==
    ASSUME Inv, BeginClear
    PROVE  Inv'
    <1> USE BoundsAreNaturals
    <1>1. LogSteady
        BY LogUnchanged DEF Inv, TypeOK, BeginClear
    <1>2. LoopOK'
        BY DEF Inv, TypeOK, LoopOK, InvControl, Steps, Calls, BeginClear, turnVars
    <1>3. InputOK'
        BY DEF Inv, TypeOK, InputOK, BeginClear, turnVars
    <1>4. UsedOK'
        BY SpendPreserves DEF Inv, TypeOK, Bounds, BeginClear, turnVars
    <1>5. InvControl'
        BY DEF Inv, InvControl, TypeOK, LoopOK, BeginClear, turnVars
    <1>6. InvReply'
        BY DEF Inv, InvReply, BeginClear, turnVars
    <1>7. InvCalls'
        BY <1>1, CallsSteady DEF BeginClear, turnVars
    <1> QED  BY <1>1, <1>2, <1>3, <1>4, <1>5, <1>6, <1>7 DEF Inv, TypeOK, LogSteady

(* The steps that append to the log before the loop.                       *)
LEMMA FrameTurnPreserves ==
    ASSUME Inv, FrameTurn
    PROVE  Inv'
    <1> USE BoundsAreNaturals
    <1>1. CASE HostFails
        BY <1>1, HostFailsPreserves
    <1>2. CASE ~HostFails
        <2> USE <1>2
        <2>1. LogSteady
            BY QuietAppend DEF Inv, TypeOK, FrameTurn, TurnStart, Quiet, IsResult
        <2>2. LoopOK'
            BY DEF Inv, TypeOK, LoopOK, Steps, Calls, FrameTurn, turnVars
        <2>3. InputOK'
            BY DEF Inv, TypeOK, InputOK, FrameTurn, turnVars
        <2>4. UsedOK'
            BY DEF Inv, TypeOK, UsedOK, FrameTurn
        <2>5. InvControl'
            BY DEF Inv, InvControl, FrameTurn, turnVars
        <2>6. InvReply'
            BY DEF Inv, InvReply, FrameTurn, turnVars
        <2>7. InvCalls'
            BY <2>1, CallsSteady DEF FrameTurn, turnVars
        <2> QED  BY <2>1, <2>2, <2>3, <2>4, <2>5, <2>6, <2>7 DEF Inv, TypeOK, LogSteady
    <1> QED  BY <1>1, <1>2

LEMMA BudgetSteady ==
    ASSUME Inv, Budget
    PROVE  LogSteady
    <1> DEFINE view == BudgetCompact(context, pressure)
               row  == Compacted(view, DroppedCount(context, view))
    <1>1. log' = log \/ log' = Append(log, row)
        BY DEF Budget, HostFails
    <1>2. Quiet(row)
        BY DEF Compacted, Quiet, IsResult
    <1> HIDE DEF row
    <1> QED  BY <1>1, <1>2, LogUnchanged, QuietAppend DEF Inv, TypeOK

LEMMA BudgetPreserves ==
    ASSUME Inv, Budget
    PROVE  Inv'
    <1> USE BoundsAreNaturals
    <1>1. CASE HostFails
        BY <1>1, HostFailsPreserves
    <1>2. CASE ~HostFails
        <2>1. LogSteady
            BY BudgetSteady
        <2>2. /\ pc = "budget" /\ pc' = "prompt"
              /\ UNCHANGED <<prompt, iter, attempt, reply, slots, running, recorded,
                             failed, steer, signal, clearing, typed, started, pressed,
                             used>>
            BY <1>2 DEF Budget, turnVars
        <2>3. LoopOK'
            BY <2>2 DEF Inv, TypeOK, LoopOK, Steps, Calls
        <2>4. InputOK'
            BY <2>2 DEF Inv, TypeOK, InputOK
        <2>5. UsedOK'
            BY <2>2 DEF Inv, TypeOK, UsedOK
        <2>6. InvControl'
            BY <2>2 DEF Inv, InvControl
        <2>7. InvReply'
            BY <2>2 DEF Inv, InvReply
        <2>8. InvCalls'
            BY <2>1, <2>2, CallsSteady
        <2> QED  BY <2>1, <2>3, <2>4, <2>5, <2>6, <2>7, <2>8 DEF Inv, TypeOK, LogSteady
    <1> QED  BY <1>1, <1>2

LEMMA PromptPreserves ==
    ASSUME Inv, Prompt
    PROVE  Inv'
    <1> USE BoundsAreNaturals
    <1>1. CASE HostFails
        BY <1>1, HostFailsPreserves
    <1>2. CASE ~HostFails
        <2> USE <1>2
        <2>1. LogSteady
            BY QuietAppend DEF Inv, TypeOK, Prompt, User, Quiet, IsResult
        <2>2. LoopOK'
            BY DEF Inv, TypeOK, LoopOK, Steps, Calls, Prompt
        <2>3. InputOK'
            BY DEF Inv, TypeOK, InputOK, Prompt
        <2>4. UsedOK'
            BY DEF Inv, TypeOK, UsedOK, Prompt
        <2>5. InvControl'
            BY DEF Inv, InvControl, Prompt
        <2>6. InvReply'
            BY DEF Inv, InvReply, Prompt
        <2>7. InvCalls'
            BY <2>1, CallsSteady DEF Prompt
        <2> QED  BY <2>1, <2>2, <2>3, <2>4, <2>5, <2>6, <2>7 DEF Inv, TypeOK, LogSteady
    <1> QED  BY <1>1, <1>2

(* The other ends of a turn.                                               *)
LEMMA EndTurnPreserves ==
    ASSUME Inv, EndTurn
    PROVE  Inv'
    <1>1. LogSteady
        BY LogUnchanged, QuietAppend
        DEF Inv, TypeOK, EndTurn, TurnEnd, Quiet, IsResult
    <1>2. UsedOK'
        <2>1. CASE Spend("faults")
            BY <2>1, SpendPreserves DEF Inv, TypeOK, Bounds
        <2>2. CASE used' = used
            BY <2>2 DEF Inv, TypeOK, UsedOK
        <2> QED  BY <2>1, <2>2 DEF EndTurn
    <1> QED  BY <1>1, <1>2, ReturnPreserves DEF Inv, TypeOK, InputOK, EndTurn

LEMMA CrashPreserves ==
    ASSUME Inv, Crash
    PROVE  Inv'
    <1>1. LogSteady
        BY LogUnchanged DEF Inv, TypeOK, Crash
    <1>2. UsedOK'
        BY SpendPreserves DEF Inv, TypeOK, Crash, Bounds
    <1>3. steer' \in Seq(1 .. typed)
        BY EmptyIsSequence DEF Crash
    <1> QED  BY <1>1, <1>2, <1>3, ReturnPreserves DEF Inv, TypeOK, InputOK, Crash

LEMMA MarkClearedPreserves ==
    ASSUME Inv, MarkCleared
    PROVE  Inv'
    <1> USE BoundsAreNaturals
    <1>1. LogSteady
        BY LogUnchanged, QuietAppend DEF Inv, TypeOK, MarkCleared, Cleared, Quiet, IsResult
    <1>2. LoopOK'
        BY DEF Inv, TypeOK, LoopOK, Steps, Calls, MarkCleared, turnVars
    <1>3. InputOK'
        BY DEF Inv, TypeOK, InputOK, MarkCleared, turnVars
    <1>4. UsedOK'
        <2>1. CASE Spend("faults")
            BY <2>1, SpendPreserves DEF Inv, TypeOK, Bounds
        <2>2. CASE used' = used
            BY <2>2 DEF Inv, TypeOK, UsedOK
        <2> QED  BY <2>1, <2>2 DEF MarkCleared
    <1>5. InvControl'
        BY DEF Inv, InvControl, MarkCleared, turnVars
    <1>6. InvReply'
        BY DEF Inv, InvReply, InvControl, MarkCleared, turnVars
    <1>7. InvCalls'
        BY <1>1, CallsSteady DEF MarkCleared, turnVars
    <1> QED  BY <1>1, <1>2, <1>3, <1>4, <1>5, <1>6, <1>7 DEF Inv, TypeOK, LogSteady

(* The steps of the loop that append to the log.  A drained queue reaches  *)
(* the log as its messages, or as the first of them when an append fails.  *)
Injected(queue, n) == [i \in 1 .. n |-> User(queue[i], "steer")]

LEMMA Drained ==
    ASSUME Inv, DrainSteer
    PROVE  \E n \in 0 .. Len(steer) :
              /\ log' = log \o Injected(steer, n)
              /\ \/ /\ n = Len(steer) /\ context' = context \o Injected(steer, n)
                    /\ pc' = "ask" /\ UNCHANGED <<failed, used>>
                 \/ LoopFails /\ UNCHANGED context
    <1> DEFINE users == [i \in DOMAIN steer |-> User(steer[i], "steer")]
    <1>1. Len(steer) \in Nat /\ DOMAIN steer = 1 .. Len(steer)
        BY DEF Inv, TypeOK, InputOK
    <1>2. users = Injected(steer, Len(steer))
        BY <1>1 DEF Injected
    <1>3. ASSUME NEW n \in 0 .. Len(steer) - 1
          PROVE  SubSeq(users, 1, n) = Injected(steer, n)
        BY <1>1 DEF Injected
    <1>4. \/ /\ log' = log \o users /\ context' = context \o users
             /\ pc' = "ask" /\ UNCHANGED <<failed, used>>
          \/ \E n \in 0 .. Len(steer) - 1 :
                log' = log \o SubSeq(users, 1, n) /\ LoopFails /\ UNCHANGED context
        BY DEF DrainSteer
    <1> HIDE DEF users
    <1>5. CASE \E n \in 0 .. Len(steer) - 1 :
                  log' = log \o SubSeq(users, 1, n) /\ LoopFails /\ UNCHANGED context
        <2>1. PICK n \in 0 .. Len(steer) - 1 :
                  log' = log \o SubSeq(users, 1, n) /\ LoopFails /\ UNCHANGED context
            BY <1>5
        <2>2. log' = log \o Injected(steer, n) /\ n \in 0 .. Len(steer)
            BY <1>1, <1>3, <2>1
        <2> QED  BY <2>1, <2>2
    <1>6. CASE /\ log' = log \o users /\ context' = context \o users
               /\ pc' = "ask" /\ UNCHANGED <<failed, used>>
        <2>1. Len(steer) \in 0 .. Len(steer)
            BY <1>1
        <2> QED  BY <1>2, <1>6, <2>1
    <1> QED  BY <1>4, <1>5, <1>6

LEMMA InjectedRows ==
    ASSUME Inv, NEW n \in 0 .. Len(steer)
    PROVE  /\ IsSequence(Injected(steer, n)) /\ Len(Injected(steer, n)) = n
           /\ DOMAIN Injected(steer, n) = 1 .. n
           /\ \A i \in 1 .. n : Injected(steer, n)[i] = User(steer[i], "steer")
    <1>1. n \in Nat
        BY DEF Inv, TypeOK, InputOK
    <1>2. Injected(steer, n) = [i \in 1 .. n |-> Injected(steer, n)[i]]
        BY DEF Injected
    <1>3. IsSequence(Injected(steer, n)) /\ Len(Injected(steer, n)) = n
        BY <1>1, <1>2, ListIsSequence
    <1> QED  BY <1>3 DEF Injected

LEMMA DrainSteerSteady ==
    ASSUME Inv, DrainSteer
    PROVE  LogSteady
    <1>1. PICK n \in 0 .. Len(steer) : log' = log \o Injected(steer, n)
        BY Drained
    <1>2. \A i \in 1 .. n : Quiet(User(steer[i], "steer"))
        BY DEF Quiet, User, IsResult
    <1>3. IsSequence(Injected(steer, n))
          /\ \A i \in DOMAIN Injected(steer, n) : Quiet(Injected(steer, n)[i])
        BY <1>2, InjectedRows
    <1> QED  BY <1>1, <1>3, QuietConcat DEF Inv, TypeOK

LEMMA DrainSteerPreserves ==
    ASSUME Inv, DrainSteer
    PROVE  Inv'
    <1> USE BoundsAreNaturals
    <1>1. LogSteady
        BY DrainSteerSteady
    <1>2. /\ pc = "top" /\ pc' \in {"ask", "end"} /\ iter < MaxTurns
          /\ iter' = iter + 1 /\ attempt' = 0 /\ steer' = <<>>
          /\ failed' \in {failed, TRUE}
          /\ used' = used \/ Spend("faults")
          /\ UNCHANGED <<prompt, reply, slots, running, recorded, signal, clearing, typed,
                         started, pressed>>
        BY DEF DrainSteer, MayIterate, LoopFails
    <1>3. LoopOK'
        <2>1. iter' \in 0 .. MaxTurns /\ attempt' \in 0 .. MaxRetries + 1
            BY <1>2 DEF Inv, TypeOK, LoopOK
        <2>2. pc' \in Steps /\ failed' \in BOOLEAN
            BY <1>2 DEF Inv, TypeOK, LoopOK, Steps
        <2> QED  BY <1>2, <2>1, <2>2 DEF Inv, TypeOK, LoopOK, Calls
    <1>4. InputOK'
        BY <1>2, EmptyIsSequence DEF Inv, TypeOK, InputOK
    <1>5. UsedOK'
        <2>1. CASE Spend("faults")
            BY <2>1, SpendPreserves DEF Inv, TypeOK, Bounds
        <2>2. CASE used' = used
            BY <2>2 DEF Inv, TypeOK, UsedOK
        <2> QED  BY <1>2, <2>1, <2>2
    <1>6. InvControl'
        BY <1>2 DEF Inv, InvControl
    <1>7. InvReply'
        BY <1>2 DEF Inv, InvReply
    <1>8. InvCalls'
        BY <1>1, <1>2, CallsSteady
    <1> QED  BY <1>1, <1>3, <1>4, <1>5, <1>6, <1>7, <1>8 DEF Inv, TypeOK, LogSteady

(* A failed persist inside the loop.                                       *)
LEMMA LoopFailsPreserves ==
    ASSUME Inv, LoopFails,
           UNCHANGED <<log, prompt, context, pressure, iter, attempt, reply, slots, running,
                       recorded, steer, signal, clearing, typed, started, sent, pressed>>,
           pc \in {"reply", "discard", "running"}, pc = "running" => running = {}
    PROVE  Inv'
    <1> USE BoundsAreNaturals
    <1>1. LogSteady
        BY LogUnchanged DEF Inv, TypeOK
    <1>2. LoopOK'
        BY DEF Inv, TypeOK, LoopOK, Steps, Calls, LoopFails
    <1>3. InputOK'
        BY DEF Inv, TypeOK, InputOK
    <1>4. UsedOK'
        BY SpendPreserves DEF Inv, TypeOK, Bounds, LoopFails
    <1>5. InvControl'
        BY DEF Inv, InvControl, LoopFails
    <1>6. InvReply'
        BY DEF Inv, InvReply, LoopFails
    <1>7. InvCalls'
        BY <1>1, CallsSteady DEF LoopFails
    <1> QED  BY <1>1, <1>2, <1>3, <1>4, <1>5, <1>6, <1>7 DEF Inv, TypeOK, LogSteady

LEMMA PersistReplyPreserves ==
    ASSUME Inv, PersistReply
    PROVE  Inv'
    <1> USE BoundsAreNaturals
    <1>1. CASE LoopFails /\ UNCHANGED <<log, context>>
        BY <1>1, LoopFailsPreserves DEF PersistReply
    <1>2. CASE log' = Append(log, reply) /\ UNCHANGED <<failed, used>>
        <2>1. /\ IsSequence(log') /\ Len(log) \in Nat /\ Len(log') = Len(log) + 1
              /\ AskedCalls(log') = AskedCalls(log) \cup ToSet(Calls)
              /\ AnsweredCalls(log') = AnsweredCalls(log)
            BY <1>2, AssistantAppend DEF Inv, TypeOK, InvReply, Calls
        <2>2. /\ pc = "reply" /\ pc' \in {"gate", "discard", "end"}
              /\ UNCHANGED <<prompt, iter, attempt, reply, slots, running, recorded, steer,
                             signal, clearing, typed, started, pressed>>
            <3>1. pc' \in {"gate", "discard", "end"} \/ pc' = "end"
                BY <1>2 DEF PersistReply, LoopFails
            <3> QED  BY <3>1 DEF PersistReply
        <2>3. LoopOK'
            BY <1>2, <2>2 DEF Inv, TypeOK, LoopOK, Steps, Calls
        <2>4. InputOK'
            BY <2>2 DEF Inv, TypeOK, InputOK
        <2>5. UsedOK'
            BY <1>2 DEF Inv, TypeOK, UsedOK
        <2>6. InvControl'
            BY <2>2 DEF Inv, InvControl
        <2>7. InvReply'
            BY <2>2 DEF Inv, InvReply
        <2>8. InvCalls'
            <3>1. Calls' = Calls
                BY <2>2 DEF Calls
            <3>2. ToSet(Calls) \cap AskedCalls(log) = {}
                BY <2>2 DEF Inv, InvCalls
            <3>3. /\ started' \subseteq AskedCalls(log')
                  /\ AnsweredCalls(log') \subseteq AskedCalls(log')
                  /\ \A c \in AskedCalls(log') : c[1] \in 1 .. Len(log')
                BY <2>1, <2>2 DEF Inv, InvCalls
            <3>4. ToSet(Calls) \cap started' = {}
                BY <2>2, <3>2 DEF Inv, InvCalls
            <3>5. \A i \in DOMAIN Calls : Calls[i] \notin AnsweredCalls(log')
                BY <2>1, <3>2 DEF Inv, InvCalls, ToSet
            <3>6. \A i, j \in DOMAIN Calls : Calls[i] = Calls[j] => i = j
                BY DEF Inv, InvCalls
            <3>7. ToSet(Calls) \subseteq AskedCalls(log')
                BY <2>1
            <3> QED  BY <2>2, <3>1, <3>3, <3>4, <3>5, <3>6, <3>7 DEF InvCalls
        <2> QED  BY <2>1, <2>3, <2>4, <2>5, <2>6, <2>7, <2>8 DEF Inv, TypeOK
    <1> QED  BY <1>1, <1>2 DEF PersistReply

(* The batch is started: its calls are on record and none is answered yet. *)
LEMMA DispatchIsNew ==
    ASSUME Inv, Dispatch
    PROVE  /\ running' \subseteq AskedCalls(log) \ AnsweredCalls(log)
           /\ running' \cap started = {}
    <1>1. running' \subseteq ToSet(Calls)
        <2>1. /\ DOMAIN slots = 1 .. Len(slots) /\ Len(slots) \in Nat
              /\ DOMAIN Calls = 1 .. Len(Calls) /\ Len(slots) <= Len(Calls)
              /\ Len(Calls) \in Nat
            BY SequenceDomain DEF Inv, TypeOK, LoopOK, InvReply, Calls
        <2>2. DOMAIN slots \subseteq DOMAIN Calls
            BY <2>1
        <2> QED  BY <2>2 DEF Dispatch, ToSet
    <1>2. \A c \in ToSet(Calls) : c \notin AnsweredCalls(log)
        <2>1. recorded = 0 /\ pc = "gate"
            BY DEF Inv, InvControl, Dispatch
        <2>2. \A i \in DOMAIN Calls : i > 0
            BY SequenceDomain DEF Inv, InvReply, Calls
        <2> QED  BY <2>1, <2>2 DEF Inv, InvCalls, ToSet
    <1>3. ToSet(Calls) \subseteq AskedCalls(log) /\ ToSet(Calls) \cap started = {}
        BY DEF Inv, InvCalls, Dispatch
    <1> QED  BY <1>1, <1>2, <1>3

LEMMA DispatchPreserves ==
    ASSUME Inv, Dispatch
    PROVE  Inv'
    <1> USE BoundsAreNaturals
    <1>1. LogSteady
        BY LogUnchanged DEF Inv, TypeOK, Dispatch
    <1>2. /\ pc = "gate" /\ pc' = "running" /\ started' = started \cup running'
          /\ UNCHANGED <<log, prompt, iter, attempt, reply, slots, recorded, failed, steer,
                         signal, clearing, typed, pressed, used>>
        BY DEF Dispatch
    <1>3. LoopOK'
        BY <1>2 DEF Inv, TypeOK, LoopOK, Steps, Calls
    <1>4. InputOK'
        BY <1>2 DEF Inv, TypeOK, InputOK
    <1>5. UsedOK'
        BY <1>2 DEF Inv, TypeOK, UsedOK
    <1>6. InvControl'
        BY <1>2 DEF Inv, InvControl, TypeOK, LoopOK
    <1>7. InvReply'
        BY <1>2 DEF Inv, InvReply
    <1>8. InvCalls'
        <2>1. Calls' = Calls
            BY <1>2 DEF Calls
        <2>2. started' \subseteq AskedCalls(log)
            BY <1>2, DispatchIsNew DEF Inv, InvCalls
        <2> QED  BY <1>2, <2>1, <2>2 DEF Inv, InvCalls
    <1> QED  BY <1>1, <1>3, <1>4, <1>5, <1>6, <1>7, <1>8 DEF Inv, TypeOK, LogSteady

(* One result is recorded, of a truncated message or of a batch.           *)
LEMMA ResultStep ==
    ASSUME Inv, NEW how,
           pc \in {"discard", "running"}, recorded < Len(Calls),
           log' = Append(log, ToolResult(Calls[recorded + 1], how))
    PROVE  /\ IsSequence(log') /\ Len(log') = Len(log) + 1 /\ Len(log) \in Nat
           /\ recorded \in Nat /\ recorded + 1 \in DOMAIN Calls
           /\ Calls[recorded + 1] \in AskedCalls(log) \ AnsweredCalls(log)
           /\ AskedCalls(log') = AskedCalls(log)
           /\ AnsweredCalls(log') = AnsweredCalls(log) \cup {Calls[recorded + 1]}
    <1>1. /\ IsSequence(log) /\ recorded \in Nat
          /\ Len(Calls) \in Nat /\ DOMAIN Calls = 1 .. Len(Calls)
        BY SequenceDomain DEF Inv, TypeOK, LoopOK, InvReply, Calls
    <1>2. recorded + 1 \in DOMAIN Calls /\ recorded + 1 > recorded
        BY <1>1
    <1>3. Calls[recorded + 1] \in AskedCalls(log)
        BY <1>2 DEF Inv, InvCalls, ToSet
    <1>4. Calls[recorded + 1] \notin AnsweredCalls(log)
        BY <1>2 DEF Inv, InvCalls
    <1>5. PICK c : c = Calls[recorded + 1]
        OBVIOUS
    <1>6. /\ IsSequence(log)' /\ Len(log) \in Nat /\ Len(log') = Len(log) + 1
          /\ AskedCalls(log') = AskedCalls(log)
          /\ AnsweredCalls(log') = AnsweredCalls(log) \cup {c}
        BY <1>1, <1>5, ResultAppend
    <1> QED  BY <1>1, <1>2, <1>3, <1>4, <1>5, <1>6

LEMMA ResultPreserves ==
    ASSUME Inv, NEW how,
           pc \in {"discard", "running"}, recorded < Len(Calls),
           pc = "running" => recorded < Len(slots),
           log' = Append(log, ToolResult(Calls[recorded + 1], how)),
           recorded' = recorded + 1,
           UNCHANGED <<pc, prompt, iter, attempt, reply, slots, running, failed, steer,
                       signal, clearing, typed, started, pressed, used>>
    PROVE  Inv'
    <1> USE BoundsAreNaturals
    <1>1. /\ IsSequence(log') /\ Len(log') = Len(log) + 1 /\ Len(log) \in Nat
          /\ recorded \in Nat /\ recorded + 1 \in DOMAIN Calls
          /\ AskedCalls(log') = AskedCalls(log)
          /\ AnsweredCalls(log') = AnsweredCalls(log) \cup {Calls[recorded + 1]}
          /\ Calls[recorded + 1] \in AskedCalls(log)
        BY ResultStep
    <1>2. LoopOK'
        <2>1. Len(Calls) \in Nat /\ recorded' \in 0 .. Len(Calls)
            BY <1>1, SequenceDomain DEF Inv, InvReply, Calls
        <2> QED  BY <2>1 DEF Inv, TypeOK, LoopOK, Calls
    <1>3. InputOK'
        BY DEF Inv, TypeOK, InputOK
    <1>4. UsedOK'
        BY DEF Inv, TypeOK, UsedOK
    <1>5. InvControl'
        BY <1>1 DEF Inv, InvControl, TypeOK, LoopOK
    <1>6. InvReply'
        BY DEF Inv, InvReply
    <1>7. InvCalls'
        <2>1. Calls' = Calls
            BY DEF Calls
        <2>2. /\ started' \subseteq AskedCalls(log')
              /\ AnsweredCalls(log') \subseteq AskedCalls(log')
              /\ \A c \in AskedCalls(log') : c[1] \in 1 .. Len(log')
            BY <1>1 DEF Inv, InvCalls
        <2>3. \A i, j \in DOMAIN Calls : Calls[i] = Calls[j] => i = j
            BY DEF Inv, InvCalls
        <2>4. ASSUME NEW i \in DOMAIN Calls, i > recorded + 1
              PROVE  Calls[i] \notin AnsweredCalls(log')
            <3>1. i > recorded /\ i # recorded + 1
                BY <1>1, <2>4, SequenceDomain DEF Inv, InvReply, Calls
            <3>2. Calls[i] \notin AnsweredCalls(log)
                BY <3>1 DEF Inv, InvCalls
            <3>3. Calls[i] # Calls[recorded + 1]
                BY <1>1, <2>3, <3>1
            <3> QED  BY <1>1, <3>2, <3>3
        <2>5. ToSet(Calls) \subseteq AskedCalls(log')
            BY <1>1 DEF Inv, InvCalls
        <2> QED  BY <2>1, <2>2, <2>3, <2>4, <2>5 DEF InvCalls
    <1> QED  BY <1>1, <1>2, <1>3, <1>4, <1>5, <1>6, <1>7 DEF Inv, TypeOK

LEMMA DiscardCallPreserves ==
    ASSUME Inv, DiscardCall
    PROVE  Inv'
    <1>1. CASE LoopFails /\ UNCHANGED <<log, context, recorded>>
        BY <1>1, LoopFailsPreserves DEF DiscardCall
    <1>2. CASE /\ log' = Append(log, ToolResult(Calls[recorded + 1], "failed"))
               /\ recorded' = recorded + 1 /\ UNCHANGED <<pc, failed, used>>
        BY <1>2, ResultPreserves DEF DiscardCall
    <1> QED  BY <1>1, <1>2 DEF DiscardCall

LEMMA RecordResultPreserves ==
    ASSUME Inv, RecordResult
    PROVE  Inv'
    <1> DEFINE how == IF slots[recorded + 1] = "ready" THEN "ran" ELSE "failed"
    <1>1. CASE LoopFails /\ UNCHANGED <<log, recorded>>
        BY <1>1, LoopFailsPreserves DEF RecordResult
    <1>2. CASE /\ log' = Append(log, ToolResult(Calls[recorded + 1], how))
               /\ recorded' = recorded + 1 /\ UNCHANGED <<pc, failed, used>>
        <2>1. recorded < Len(slots) /\ recorded < Len(Calls)
            BY SequenceDomain DEF Inv, TypeOK, LoopOK, InvReply, Calls, RecordResult
        <2> HIDE DEF how
        <2> QED  BY <1>2, <2>1, ResultPreserves DEF RecordResult
    <1> QED  BY <1>1, <1>2 DEF RecordResult, ResultOf

LEMMA StutterPreserves ==
    ASSUME Inv, UNCHANGED vars
    PROVE  Inv'
    <1> USE BoundsAreNaturals
    <1>1. LogSteady
        BY LogUnchanged DEF Inv, TypeOK, vars
    <1>2. TypeOK'
        BY DEF Inv, TypeOK, LoopOK, InputOK, UsedOK, Calls, vars, turnVars
    <1>3. InvControl'
        BY DEF Inv, InvControl, vars, turnVars
    <1>4. InvReply'
        BY DEF Inv, InvReply, vars, turnVars
    <1>5. InvCalls'
        BY <1>1, CallsSteady DEF vars, turnVars
    <1> QED  BY <1>1, <1>2, <1>3, <1>4, <1>5 DEF Inv, LogSteady

-----------------------------------------------------------------------------
(* The theorems.                                                           *)

LEMMA InvStep ==
    ASSUME Inv, [Next]_vars
    PROVE  Inv'
    <1>1. CASE TurnStep
        BY <1>1, OpenLogPreserves, FrameTurnPreserves, BudgetPreserves, PromptPreserves,
           PrepareTurnPreserves, LoopExhaustedPreserves, DrainSteerPreserves,
           SkipRequestPreserves, RequestPreserves, StreamDonePreserves,
           StreamErrorPreserves, PersistReplyPreserves, DiscardCallPreserves,
           DiscardDonePreserves, GateCallPreserves, DispatchPreserves, ToolEndsPreserves,
           RecordResultPreserves, BatchDonePreserves, EndTurnPreserves
        DEF TurnStep, HostStep, Awaited
    <1>2. CASE Environment
        BY <1>2, RunTurnPreserves, SteerPreserves, CancelPreserves, BeginClearPreserves,
           MarkClearedPreserves, CrashPreserves
        DEF Environment
    <1>3. CASE UNCHANGED vars
        BY <1>3, StutterPreserves
    <1> QED  BY <1>1, <1>2, <1>3 DEF Next, Finished

(* Inv holds in every reachable state, of a host whose /clear waits for    *)
(* the turn (gateway, CLI) and of one whose /clear does not (desktop).     *)
THEOREM Invariance == Spec => []Inv
    <1>1. Init => Inv
        BY InvInit
    <1>2. Inv /\ [Next]_vars => Inv'
        BY InvStep
    <1> QED  BY <1>1, <1>2, PTL DEF Spec

(* Type correctness, loop counters within their limits included.           *)
THEOREM TypeCorrect == Spec => []TypeOK
    <1>1. Inv => TypeOK
        BY DEF Inv
    <1> QED  BY <1>1, Invariance, PTL

-----------------------------------------------------------------------------
(* Refinement: the turns implement the tool ledger.                        *)

LedgerSteady == LogSteady /\ started' = started

LEMMA SteadyStep ==
    ASSUME Inv,
           \/ OpenLog \/ FrameTurn \/ Budget \/ Prompt \/ PrepareTurn
           \/ LoopExhausted \/ DrainSteer \/ SkipRequest \/ Request
           \/ StreamDone \/ StreamError \/ DiscardDone
           \/ GateCall \/ ToolEnds \/ BatchDone \/ EndTurn
           \/ Environment \/ UNCHANGED vars
    PROVE  LedgerSteady
    <1> USE DEF LedgerSteady
    <1>1. CASE Budget
        BY <1>1, BudgetSteady DEF Budget, HostFails
    <1>2. CASE DrainSteer
        BY <1>2, DrainSteerSteady DEF DrainSteer
    <1>3. CASE FrameTurn
        BY <1>3, LogUnchanged, QuietAppend
        DEF Inv, TypeOK, FrameTurn, HostFails, TurnStart, Quiet, IsResult
    <1>4. CASE Prompt
        BY <1>4, LogUnchanged, QuietAppend
        DEF Inv, TypeOK, Prompt, HostFails, User, Quiet, IsResult
    <1>5. CASE EndTurn
        BY <1>5, LogUnchanged, QuietAppend
        DEF Inv, TypeOK, EndTurn, TurnEnd, Quiet, IsResult
    <1>6. CASE MarkCleared
        BY <1>6, LogUnchanged, QuietAppend
        DEF Inv, TypeOK, MarkCleared, Cleared, Quiet, IsResult
    <1>7. CASE \/ OpenLog \/ PrepareTurn \/ LoopExhausted \/ SkipRequest \/ Request
               \/ StreamDone \/ StreamError \/ DiscardDone
               \/ GateCall \/ ToolEnds \/ BatchDone
        BY <1>7, LogUnchanged
        DEF Inv, TypeOK, OpenLog, HostFails, PrepareTurn, LoopExhausted, SkipRequest, Request,
            StreamDone, StreamError, DiscardDone, GateCall, ToolEnds, BatchDone
    <1>8. CASE \/ RunTurn \/ Steer \/ Cancel \/ BeginClear \/ Crash \/ UNCHANGED vars
        BY <1>8, LogUnchanged
        DEF Inv, TypeOK, RunTurn, Steer, Cancel, BeginClear, Crash, vars
    <1> QED  BY <1>1, <1>2, <1>3, <1>4, <1>5, <1>6, <1>7, <1>8 DEF Environment

LEMMA LedgerStep ==
    ASSUME Inv, [Next]_vars
    PROVE  [Ledger!Next]_(Ledger!ledger)
    <1>1. CASE LedgerSteady
        BY <1>1 DEF LedgerSteady, LogSteady, Ledger!ledger
    <1>2. CASE LoopFails /\ log' = log /\ started' = started
        BY <1>2 DEF Ledger!ledger
    <1>3. CASE PersistReply
        <2>1. CASE log' = Append(log, reply)
            <3>1. /\ AskedCalls(log') = AskedCalls(log) \cup ToSet(reply.calls)
                  /\ AnsweredCalls(log') = AnsweredCalls(log)
                BY <1>3, <2>1, AssistantAppend DEF Inv, TypeOK, InvReply, PersistReply
            <3>2. started' = started
                BY <1>3 DEF PersistReply
            <3> QED  BY <3>1, <3>2 DEF Ledger!Next, Ledger!Ask
        <2> QED  BY <1>2, <1>3, <2>1 DEF PersistReply
    <1>4. CASE Dispatch
        BY <1>4, DispatchIsNew DEF Dispatch, Ledger!Next, Ledger!Run
    <1>5. ASSUME NEW how, DiscardCall \/ RecordResult,
                 log' = Append(log, ToolResult(Calls[recorded + 1], how))
          PROVE  Ledger!Next
        <2>1. pc \in {"discard", "running"} /\ recorded < Len(Calls) /\ started' = started
            BY <1>5, SequenceDomain
            DEF Inv, TypeOK, LoopOK, InvReply, Calls, DiscardCall, RecordResult
        <2>2. /\ Calls[recorded + 1] \in AskedCalls(log) \ AnsweredCalls(log)
              /\ AskedCalls(log') = AskedCalls(log)
              /\ AnsweredCalls(log') = AnsweredCalls(log) \cup {Calls[recorded + 1]}
            BY <1>5, <2>1, ResultStep
        <2> QED  BY <2>1, <2>2 DEF Ledger!Next, Ledger!Answer
    <1>6. CASE DiscardCall
        BY <1>2, <1>5, <1>6 DEF DiscardCall
    <1>7. CASE RecordResult
        <2> DEFINE how == IF slots[recorded + 1] = "ready" THEN "ran" ELSE "failed"
        <2>1. \/ log' = Append(log, ToolResult(Calls[recorded + 1], how))
              \/ LoopFails /\ log' = log
            BY <1>7 DEF RecordResult, ResultOf
        <2>2. started' = started
            BY <1>7 DEF RecordResult
        <2> HIDE DEF how
        <2> QED  BY <1>2, <1>5, <1>7, <2>1, <2>2
    <1> QED  BY <1>1, <1>3, <1>4, <1>6, <1>7, SteadyStep 
             DEF Next, TurnStep, HostStep, Awaited, Finished

(* A tool call is on record before it is run, is run at most once and      *)
(* answered at most once, across turns, crashes and storage faults.        *)
THEOREM ImplementsLedger == Spec => LedgerSpec
    <1>1. Init => Ledger!Init
        BY DEF Init, Ledger!Init, AskedCalls, AnsweredCalls, AssistantRows
    <1>2. Inv /\ [Next]_vars => [Ledger!Next]_(Ledger!ledger)
        BY LedgerStep
    <1> QED  BY <1>1, <1>2, Invariance, PTL DEF Spec, LedgerSpec, Ledger!Spec

-----------------------------------------------------------------------------
(* Started calls are answered.                                             *)

LEMMA UsedGrows ==
    ASSUME [Next]_vars
    PROVE  used' = used \/ \E b \in Bounds : Spend(b)
    <1>1. CASE \/ OpenLog \/ FrameTurn \/ Prompt \/ PrepareTurn
               \/ LoopExhausted \/ SkipRequest \/ Request
               \/ StreamDone \/ StreamError \/ DiscardDone
               \/ GateCall \/ Dispatch \/ ToolEnds \/ BatchDone
        BY <1>1
        DEF OpenLog, FrameTurn, Prompt, HostFails, PrepareTurn, LoopExhausted,
            SkipRequest, Request, StreamDone, StreamError, DiscardDone, GateCall,
            Dispatch, ToolEnds, BatchDone, Bounds
    <1>2. CASE Budget
        BY <1>2 DEF Budget, HostFails, Bounds
    <1>3. CASE DrainSteer \/ PersistReply \/ DiscardCall \/ RecordResult \/ EndTurn
        BY <1>3
        DEF DrainSteer, PersistReply, DiscardCall, RecordResult, EndTurn, LoopFails, Bounds
    <1>4. CASE Environment
        BY <1>4 DEF Environment, RunTurn, Steer, Cancel, BeginClear, MarkCleared, Crash, Bounds
    <1>5. CASE UNCHANGED vars
        BY <1>5 DEF vars
    <1> QED  BY <1>1, <1>2, <1>3, <1>4, <1>5 
             DEF Next, TurnStep, HostStep, Awaited, Finished

(* Once disturbed, always disturbed.                                       *)
LEMMA UndisturbedBefore ==
    ASSUME Inv, [Next]_vars, Undisturbed'
    PROVE  Undisturbed
    <1>1. used \in [Bounds -> Nat]
        BY DEF Inv, TypeOK, UsedOK
    <1>2. CASE used' = used
        BY <1>2 DEF Undisturbed
    <1>3. CASE \E b \in Bounds : Spend(b)
        BY <1>1, <1>3 DEF Undisturbed, Spend, Bounds
    <1> QED  BY <1>2, <1>3, UsedGrows

LEMMA FaultDisturbs ==
    ASSUME Inv, NEW b \in {"crashes", "faults"}, Spend(b)
    PROVE  ~Undisturbed'
    <1>1. used \in [Bounds -> Nat] /\ b \in Bounds
        BY DEF Inv, TypeOK, UsedOK, Bounds
    <1> QED  BY <1>1 DEF Undisturbed, Spend

LEMMA AnsweredStep ==
    ASSUME Inv, InvAnswered, [Next]_vars
    PROVE  InvAnswered'
    <1> DEFINE Had == AnsweredCalls(log)
    <1> SUFFICES ASSUME Undisturbed'
                 PROVE  started' \subseteq
                            AnsweredCalls(log')
                            \cup (IF pc' = "running" THEN Pending' ELSE {})
        BY DEF InvAnswered
    <1>1. started \subseteq Had \cup (IF pc = "running" THEN Pending ELSE {})
        BY UndisturbedBefore DEF InvAnswered
    <1>2. ~LoopFails /\ ~Crash
        BY FaultDisturbs DEF LoopFails, Crash
    <1>3. CASE \/ OpenLog \/ FrameTurn \/ Budget \/ Prompt \/ PrepareTurn
               \/ LoopExhausted \/ DrainSteer \/ SkipRequest \/ Request
               \/ StreamDone \/ StreamError \/ DiscardDone
               \/ GateCall \/ EndTurn
        <2>1. AnsweredCalls(log') = AnsweredCalls(log) /\ started' = started
            BY <1>3, SteadyStep DEF LedgerSteady, LogSteady
        <2>2. pc # "running"
            BY <1>3
            DEF OpenLog, HostFails, FrameTurn, Budget, Prompt, PrepareTurn, LoopExhausted, DrainSteer,
                SkipRequest, Request, StreamDone, StreamError, DiscardDone, GateCall, EndTurn
        <2> QED  BY <1>1, <2>1, <2>2
    <1>4. CASE \/ ToolEnds \/ RunTurn \/ Steer \/ Cancel \/ BeginClear \/ MarkCleared
               \/ UNCHANGED vars
        <2>1. AnsweredCalls(log') = AnsweredCalls(log) /\ started' = started
            BY <1>4, SteadyStep DEF LedgerSteady, LogSteady, Environment
        <2>2. /\ UNCHANGED <<reply, slots, recorded>>
              /\ pc' = pc \/ pc = "idle"
            BY <1>4 DEF ToolEnds, RunTurn, Steer, Cancel, BeginClear, MarkCleared, vars, turnVars
        <2>3. Pending' = Pending
            BY <2>2 DEF Pending, Calls
        <2> QED  BY <1>1, <2>1, <2>2, <2>3
    <1>5. CASE BatchDone
        <2>1. AnsweredCalls(log') = AnsweredCalls(log) /\ started' = started
            BY <1>5, SteadyStep DEF LedgerSteady, LogSteady
        <2>2. Pending = {}
            <3>1. recorded = Len(slots) /\ DOMAIN slots = 1 .. Len(slots) /\ Len(slots) \in Nat
                BY <1>5 DEF BatchDone, BatchRecorded, Inv, TypeOK, LoopOK
            <3> QED  BY <3>1 DEF Pending
        <2> QED  BY <1>1, <2>1, <2>2
    <1>6. CASE PersistReply
        <2>1. log' = Append(log, reply) /\ started' = started /\ pc = "reply"
            BY <1>2, <1>6 DEF PersistReply
        <2>2. AnsweredCalls(log') = AnsweredCalls(log)
            BY <1>6, <2>1, AssistantAppend DEF Inv, TypeOK, InvReply
        <2> QED  BY <1>1, <2>1, <2>2
    <1>7. CASE Dispatch
        <2>1. pc # "running" /\ pc' = "running" /\ started' = started \cup running'
              /\ UNCHANGED <<log, reply, slots, recorded>>
            BY <1>7 DEF Dispatch
        <2>2. recorded = 0 /\ DOMAIN slots = 1 .. Len(slots) /\ Len(slots) \in Nat
            BY <1>7 DEF Dispatch, Inv, InvControl, TypeOK, LoopOK
        <2>3. running' = Pending
            BY <1>7, <2>2 DEF Dispatch, Pending
        <2>4. Pending' = Pending
            BY <2>1 DEF Pending, Calls
        <2> QED  BY <1>1, <2>1, <2>3, <2>4
    <1>8. ASSUME NEW how, pc \in {"discard", "running"}, recorded < Len(Calls),
                 pc' = pc, UNCHANGED <<reply, slots, started>>, recorded' = recorded + 1,
                 log' = Append(log, ToolResult(Calls[recorded + 1], how))
          PROVE  started' \subseteq
                     AnsweredCalls(log') \cup (IF pc' = "running" THEN Pending' ELSE {})
        <2>1. AnsweredCalls(log') = AnsweredCalls(log) \cup {Calls[recorded + 1]}
            BY <1>8, ResultStep
        <2>2. recorded \in Nat /\ DOMAIN slots = 1 .. Len(slots) /\ Len(slots) \in Nat
            BY <1>8, ResultStep DEF Inv, TypeOK, LoopOK
        <2>3. Pending \subseteq Pending' \cup {Calls[recorded + 1]}
            BY <1>8, <2>2 DEF Pending, Calls
        <2> QED  BY <1>1, <1>8, <2>1, <2>3
    <1>9. CASE DiscardCall
        BY <1>2, <1>8, <1>9 DEF DiscardCall
    <1>10. CASE RecordResult
        <2> DEFINE how == IF slots[recorded + 1] = "ready" THEN "ran" ELSE "failed"
        <2>1. log' = Append(log, ToolResult(Calls[recorded + 1], how))
            BY <1>2, <1>10 DEF RecordResult, ResultOf
        <2>2. recorded < Len(Calls)
            BY <1>10, SequenceDomain
            DEF Inv, TypeOK, LoopOK, InvReply, Calls, RecordResult
        <2>3. pc = "running" /\ pc' = pc /\ UNCHANGED <<reply, slots, started>>
              /\ recorded' = recorded + 1
            BY <1>2, <1>10 DEF RecordResult
        <2> HIDE DEF how
        <2> QED  BY <1>8, <2>1, <2>2, <2>3
    <1> QED  BY <1>2, <1>3, <1>4, <1>5, <1>6, <1>7, <1>9, <1>10
             DEF Next, TurnStep, HostStep, Awaited, Environment, Finished

(* A tool that was started has its result in the log at every boundary of  *)
(* the loop, however many cancels arrive: only a crash or a failed append  *)
(* leaves it open.                                                         *)
THEOREM StartedIsAnswered == Spec => []DispatchedAnswered
    <1>1. Init => InvAnswered
        BY DEF Init, InvAnswered
    <1>2. Inv /\ InvAnswered /\ [Next]_vars => InvAnswered'
        BY AnsweredStep
    <1>3. InvAnswered => DispatchedAnswered
        BY DEF InvAnswered, DispatchedAnswered
    <1> QED  BY <1>1, <1>2, <1>3, Invariance, PTL DEF Spec

-----------------------------------------------------------------------------
(* Results stand behind the message that asked for them, on a host whose   *)
(* /clear waits for the turn.                                              *)

LEMMA TurnKeepsSlot ==
    ASSUME TurnStep
    PROVE  pc # "idle" /\ clearing' = clearing
    <1>1. CASE \/ OpenLog \/ FrameTurn \/ Prompt \/ PrepareTurn \/ LoopExhausted
               \/ SkipRequest \/ Request \/ StreamDone \/ StreamError \/ DiscardDone
               \/ GateCall \/ Dispatch \/ ToolEnds \/ BatchDone
        BY <1>1
        DEF OpenLog, FrameTurn, Prompt, HostFails, PrepareTurn, LoopExhausted,
            SkipRequest, Request, StreamDone, StreamError, DiscardDone, GateCall, Dispatch,
            ToolEnds, BatchDone
    <1>2. CASE Budget
        BY <1>2 DEF Budget, HostFails
    <1>3. CASE DrainSteer \/ PersistReply \/ DiscardCall \/ RecordResult \/ EndTurn
        BY <1>3 DEF DrainSteer, PersistReply, DiscardCall, RecordResult, EndTurn
    <1> QED  BY <1>1, <1>2, <1>3 DEF TurnStep, HostStep, Awaited

LEMMA SlotStep ==
    ASSUME ~Desktop, InvSlot, [Next]_vars
    PROVE  InvSlot'
    <1>1. CASE TurnStep
        BY <1>1, TurnKeepsSlot DEF InvSlot
    <1>2. CASE Environment
        BY <1>2
        DEF InvSlot, Environment, RunTurn, Steer, Cancel, BeginClear, MarkCleared, Crash,
            Return
    <1>3. CASE UNCHANGED vars
        BY <1>3 DEF InvSlot, vars
    <1> QED  BY <1>1, <1>2, <1>3 DEF Next, Finished

(* Such a host has no turn while it clears.                                *)
LEMMA SlotInvariance ==
    ASSUME ~Desktop
    PROVE  Spec => []InvSlot
    <1>1. Init => InvSlot
        BY DEF Init, InvSlot
    <1>2. InvSlot /\ [Next]_vars => InvSlot'
        BY SlotStep
    <1> QED  BY <1>1, <1>2, PTL DEF Spec

(* The message being handled stays where it is.                            *)
LEMMA TailStays ==
    ASSUME InvTail, log' = log, reply' = reply, recorded' = recorded, pc' = pc
    PROVE  InvTail'
    BY DEF InvTail

(* Without a message being handled, the log may end as it likes.           *)
LEMMA TailFree ==
    ASSUME pc' \notin {"reply", "gate", "running", "discard"}
    PROVE  InvTail'
    BY DEF InvTail

LEMMA TailNew ==
    ASSUME log' = log, pc' = "reply", reply'.type = "assistant",
           NEW n \in Nat, reply'.calls = CallIds(Len(log) + 1, n)
    PROVE  InvTail'
    <1>1. PICK calls : calls = reply'.calls
        OBVIOUS
    <1>2. PICK k : k = Len(log) + 1
        OBVIOUS
    <1>3. calls = [i \in 1 .. n |-> calls[i]] /\ \A i \in 1 .. n : calls[i] = <<k, i>>
        BY <1>1, <1>2 DEF CallIds
    <1>4. IsSequence(calls)
        BY <1>3, ListIsSequence
    <1>5. DOMAIN calls = 1 .. n
        BY <1>3
    <1>6. Numbered(reply', k)
        BY <1>1, <1>3, <1>4, <1>5 DEF Numbered
    <1> QED  BY <1>2, <1>6 DEF InvTail

(* A result lands behind the others of its message.                        *)
LEMMA ResultLands ==
    ASSUME Inv, InvLog, InvTail, NEW how,
           pc \in {"discard", "running"}, recorded < Len(Calls),
           log' = Append(log, ToolResult(Calls[recorded + 1], how)),
           recorded' = recorded + 1, pc' = pc, reply' = reply
    PROVE  InvLog' /\ InvTail'
    <1> DEFINE k == Len(log) - recorded
    <1>1. /\ Len(log) \in Nat /\ Len(log') = Len(log) + 1 /\ DOMAIN log = 1 .. Len(log)
          /\ DOMAIN log' = 1 .. (Len(log) + 1)
          /\ \A j \in DOMAIN log : log'[j] = log[j]
          /\ IsResult(log'[Len(log) + 1]) /\ log'[Len(log) + 1].call = Calls[recorded + 1]
          /\ AssistantRows(log') = AssistantRows(log)
        <2>1. PICK c : c = Calls[recorded + 1]
            OBVIOUS
        <2>2. IsSequence(log)
            BY DEF Inv, TypeOK
        <2>3. /\ IsSequence(log)' /\ Len(log) \in Nat
              /\ Len(log') = Len(log) + 1
              /\ \A j \in DOMAIN log : log'[j] = log[j]
              /\ IsResult(log'[Len(log) + 1]) /\ log'[Len(log) + 1].call = c
              /\ AssistantRows(log') = AssistantRows(log)
            BY <2>1, <2>2, ResultAppend
        <2>4. DOMAIN log = 1 .. Len(log) /\ DOMAIN log' = 1 .. (Len(log) + 1)
            BY <2>2, <2>3, SequenceDomain
        <2> QED  BY <2>1, <2>3, <2>4
    <1>2. recorded \in Nat /\ recorded + 1 \in DOMAIN Calls
        BY ResultStep
    <1>3. k \in Nat /\ k \in DOMAIN log /\ log[k] = reply
        BY <1>1, <1>2 DEF InvTail
    <1>4. k \in AssistantRows(log)
        BY <1>3 DEF AssistantRows, Inv, InvReply
    <1>5. Calls[recorded + 1] = <<k, recorded + 1>>
        BY <1>2, <1>3, <1>4 DEF InvLog, Numbered, Calls
    <1>6. \A j \in AssistantRows(log) : j \in DOMAIN log /\ log'[j] = log[j]
        BY <1>1 DEF AssistantRows
    <1>7. ResultsInPlace'
        <2> SUFFICES ASSUME NEW p \in DOMAIN log', IsResult(log'[p])
                     PROVE  /\ p = log'[p].call[1] + log'[p].call[2]
                            /\ log'[p].call[1] \in AssistantRows(log')
                            /\ log'[p].call[2] \in DOMAIN log'[log'[p].call[1]].calls
            BY DEF ResultsInPlace
        <2>1. CASE p = Len(log) + 1
            <3>1. log'[p].call[1] = k /\ log'[p].call[2] = recorded + 1
                BY <1>1, <1>5, <2>1
            <3>2. p = k + (recorded + 1)
                BY <1>1, <1>2, <2>1
            <3>3. log'[k] = reply
                BY <1>1, <1>3
            <3> HIDE DEF k
            <3> QED  BY <1>1, <1>2, <1>4, <3>1, <3>2, <3>3 DEF Calls
        <2>2. CASE p # Len(log) + 1
            <3>1. p \in DOMAIN log /\ log'[p] = log[p]
                BY <1>1, <2>2
            <3>2. /\ p = log[p].call[1] + log[p].call[2]
                  /\ log[p].call[1] \in AssistantRows(log)
                  /\ log[p].call[2] \in DOMAIN log[log[p].call[1]].calls
                BY <3>1 DEF InvLog, ResultsInPlace
            <3> QED  BY <1>1, <1>6, <3>1, <3>2
        <2> QED  BY <2>1, <2>2
    <1>8. \A j \in AssistantRows(log') : Numbered(log'[j], j)
        BY <1>1, <1>6 DEF InvLog
    <1>9. Len(log') - recorded' = k
        BY <1>1, <1>2
    <1>10. InvTail'
        <2>1. log'[k] = reply /\ k > 0
            BY <1>1, <1>3
        <2> HIDE DEF k
        <2> QED  BY <1>9, <2>1 DEF InvTail
    <1> QED  BY <1>7, <1>8, <1>10 DEF InvLog

LEMMA PersistPlaced ==
    ASSUME Inv, InvLog, InvTail, PersistReply
    PROVE  InvLog' /\ InvTail'
    <1>1. CASE LoopFails /\ log' = log
        <2>1. InvTail'
            BY <1>1, TailFree DEF LoopFails
        <2> QED  BY <1>1, <2>1, LogUnchanged DEF Inv, TypeOK, LogSteady
    <1>2. CASE log' = Append(log, reply)
        <2>1. pc = "reply" /\ Numbered(reply, Len(log) + 1)
            BY DEF PersistReply, InvTail
        <2>2. /\ Len(log) \in Nat /\ Len(log') = Len(log) + 1 /\ log'[Len(log')] = reply
              /\ InvLog'
            BY <1>2, <2>1, AssistantAppend DEF Inv, TypeOK, InvReply
        <2>3. pc' # "reply" /\ recorded' = 0 /\ reply' = reply
            BY <2>1 DEF PersistReply, LoopFails, Inv, InvControl
        <2> QED  BY <2>2, <2>3 DEF InvTail
    <1> QED  BY <1>1, <1>2 DEF PersistReply

LEMMA PlacesStep ==
    ASSUME ~Desktop, Inv, InvPlaces, [Next]_vars
    PROVE  InvPlaces'
    <1>1. InvSlot /\ InvLog /\ InvTail /\ InvSlot'
        BY SlotStep DEF InvPlaces
    <1> SUFFICES InvLog' /\ InvTail'
        BY <1>1 DEF InvPlaces
    <1>2. LedgerSteady => InvLog'
        BY <1>1 DEF LedgerSteady, LogSteady
    <1>3. CASE \/ OpenLog \/ FrameTurn \/ Budget \/ Prompt \/ PrepareTurn
               \/ LoopExhausted \/ DrainSteer \/ Request \/ DiscardDone \/ BatchDone
               \/ EndTurn \/ RunTurn \/ MarkCleared \/ Crash
        <2>1. pc' \notin {"reply", "gate", "running", "discard"}
            <3>1. CASE Budget \/ DrainSteer
                BY <3>1 DEF Budget, HostFails, Return, DrainSteer, LoopFails
            <3>2. CASE MarkCleared
                BY <1>1, <3>2 DEF InvSlot, MarkCleared
            <3>3. CASE \/ OpenLog \/ FrameTurn \/ Prompt \/ PrepareTurn
                       \/ LoopExhausted \/ Request \/ DiscardDone \/ BatchDone
                       \/ EndTurn \/ RunTurn \/ Crash
                BY <3>3
                DEF OpenLog, FrameTurn, Prompt, HostFails, Return, PrepareTurn,
                    LoopExhausted, Request, DiscardDone, BatchDone, EndTurn, RunTurn, Crash
            <3> QED  BY <1>3, <3>1, <3>2, <3>3
        <2> QED  BY <1>2, <1>3, <2>1, TailFree, SteadyStep DEF Environment
    <1>4. CASE SkipRequest \/ StreamDone \/ StreamError
        <2>1. /\ log' = log
              /\ \/ pc' = "ask"
                 \/ /\ pc' = "reply" /\ reply'.type = "assistant"
                    /\ \E n \in Nat : reply'.calls = CallIds(Len(log) + 1, n)
            <3>1. CallIds(Len(log) + 1, 0) = <<>>
                BY NoCalls
            <3>2. 0 .. MaxBatch \subseteq Nat
                BY BoundsAreNaturals
            <3>3. CASE SkipRequest \/ StreamError
                BY <3>1, <3>3 DEF SkipRequest, StreamError, Assistant
            <3>4. CASE StreamDone
                BY <3>2, <3>4 DEF StreamDone, Assistant
            <3> QED  BY <1>4, <3>3, <3>4
        <2> QED  BY <1>2, <1>4, <2>1, TailFree, TailNew, SteadyStep
    <1>5. CASE PersistReply
        BY <1>1, <1>5, PersistPlaced
    <1>6. CASE Dispatch
        <2>1. /\ pc = "gate" /\ pc' = "running"
              /\ UNCHANGED <<log, reply, recorded, started>> \/ UNCHANGED <<log, reply, recorded>>
            BY <1>6 DEF Dispatch
        <2>2. recorded = 0 /\ Len(log) \in Nat
            BY <2>1, SequenceDomain DEF Inv, TypeOK, InvControl
        <2>3. InvTail'
            BY <1>1, <2>1, <2>2 DEF InvTail
        <2> QED  BY <1>1, <2>1, <2>3, LogUnchanged DEF Inv, TypeOK, LogSteady
    <1>7. CASE DiscardCall
        <2>1. CASE LoopFails /\ log' = log
            BY <1>1, <2>1, TailFree, LogUnchanged DEF LoopFails, Inv, TypeOK, LogSteady
        <2>2. CASE log' = Append(log, ToolResult(Calls[recorded + 1], "failed")) /\ pc' = pc
                   /\ recorded' = recorded + 1
            BY <1>1, <1>7, <2>2, ResultLands DEF DiscardCall
        <2> QED  BY <1>7, <2>1, <2>2 DEF DiscardCall
    <1>8. CASE RecordResult
        <2> DEFINE how == IF slots[recorded + 1] = "ready" THEN "ran" ELSE "failed"
        <2>1. CASE LoopFails /\ log' = log
            BY <1>1, <2>1, TailFree, LogUnchanged DEF LoopFails, Inv, TypeOK, LogSteady
        <2>2. CASE log' = Append(log, ToolResult(Calls[recorded + 1], how)) /\ pc' = pc
                   /\ recorded' = recorded + 1
            <3>1. pc = "running" /\ reply' = reply /\ recorded < Len(Calls)
                BY <1>8, SequenceDomain
                DEF Inv, TypeOK, LoopOK, InvReply, Calls, RecordResult
            <3> HIDE DEF how
            <3> QED  BY <1>1, <2>2, <3>1, ResultLands
        <2> QED  BY <1>8, <2>1, <2>2 DEF RecordResult, ResultOf
    <1>9. CASE \/ GateCall \/ ToolEnds \/ Steer \/ Cancel \/ BeginClear \/ UNCHANGED vars
        <2>1. UNCHANGED <<log, reply, recorded, pc>>
            BY <1>9 DEF GateCall, ToolEnds, Steer, Cancel, BeginClear, vars, turnVars
        <2> QED  BY <1>1, <1>2, <1>9, <2>1, TailStays, SteadyStep DEF Environment
    <1> QED  BY <1>3, <1>4, <1>5, <1>6, <1>7, <1>8, <1>9
             DEF Next, TurnStep, HostStep, Awaited, Environment, Finished

(* Every result of the log stands right behind the message that asked for  *)
(* it, in declaration order, whatever batch limit, crash or storage fault, *)
(* on a host whose /clear waits for the turn.                              *)
THEOREM ResultsStayInPlace ==
    ASSUME ~Desktop
    PROVE  Spec => []ResultsInPlace
    <1>1. Init => InvPlaces
        BY EmptyIsSequence
        DEF Init, InvPlaces, InvSlot, InvLog, InvTail, ResultsInPlace, AssistantRows
    <1>2. Inv /\ InvPlaces /\ [Next]_vars => InvPlaces'
        BY PlacesStep
    <1>3. InvPlaces => ResultsInPlace
        BY DEF InvPlaces, InvLog
    <1> QED  BY <1>1, <1>2, <1>3, Invariance, PTL DEF Spec

-----------------------------------------------------------------------------
(* A completed turn is an honest one.                                      *)

(* Rows that neither close a turn, nor open one, nor are messages of the   *)
(* model.                                                                  *)
Plain(row) == row.type \notin {"assistant", "turn_start", "turn_end"}

LogPlain ==
    /\ IsSequence(log') /\ Len(log) <= Len(log')
    /\ \A i \in DOMAIN log : log'[i] = log[i]
    /\ \A i \in (Len(log) + 1) .. Len(log') : Plain(log'[i])

LEMMA PlainSame ==
    ASSUME IsSequence(log), log' = log
    PROVE  LogPlain
    BY SequenceDomain DEF LogPlain

LEMMA PlainAppend ==
    ASSUME IsSequence(log), NEW row, Plain(row), log' = Append(log, row)
    PROVE  LogPlain
    BY AppendIsSequence, SequenceDomain DEF LogPlain

LEMMA PlainDrain ==
    ASSUME Inv, DrainSteer
    PROVE  LogPlain
    <1>1. PICK n \in 0 .. Len(steer) : log' = log \o Injected(steer, n)
        BY Drained
    <1>2. /\ IsSequence(log) /\ Len(log) \in Nat /\ DOMAIN log = 1 .. Len(log)
          /\ n \in Nat
        BY SequenceDomain DEF Inv, TypeOK, InputOK
    <1>3. /\ IsSequence(log') /\ Len(log') = Len(log) + n
          /\ \A i \in DOMAIN log : log'[i] = log[i]
          /\ \A i \in 1 .. n : log'[Len(log) + i] = User(steer[i], "steer")
        BY <1>1, <1>2, InjectedRows, ConcatIsSequence
    <1>4. ASSUME NEW i \in (Len(log) + 1) .. Len(log')
          PROVE  Plain(log'[i])
        <2>1. i - Len(log) \in 1 .. n /\ Len(log) + (i - Len(log)) = i
            BY <1>2, <1>3
        <2>2. log'[i] = User(steer[i - Len(log)], "steer")
            BY <1>3, <2>1
        <2> QED  BY <2>2 DEF Plain, User
    <1> QED  BY <1>2, <1>3, <1>4 DEF LogPlain

(* The two searches depend on the rows up to n only, stay within them and  *)
(* pass over rows of other types.                                          *)
LEMMA LastBounds ==
    ASSUME NEW l, NEW n \in Nat
    PROVE  /\ LastReply(l, n) \in 0 .. n /\ LastFrame(l, n) \in 0 .. n
           /\ LastReply(l, n) > 0 => l[LastReply(l, n)].type = "assistant"
           /\ n > 0 /\ l[n].type = "assistant" => LastReply(l, n) = n
           /\ n > 0 /\ l[n].type = "turn_start" => LastFrame(l, n) = n
    <1> DEFINE A == {i \in 1 .. n : l[i].type = "assistant"}
               S == {i \in 1 .. n : l[i].type = "turn_start"}
    <1>1. LastReply(l, n) = IF A # {} THEN Max(A) ELSE 0
        BY DEF LastReply, SelectLastInSubSeq
    <1>2. LastFrame(l, n) = IF S # {} THEN Max(S) ELSE 0
        BY DEF LastFrame, SelectLastInSubSeq
    <1>3. A # {} => Max(A) \in A /\ \A x \in A : x <= Max(A)
        <2>1. A \in SUBSET (1 .. n)
            OBVIOUS
        <2> HIDE DEF A
        <2> QED  BY <2>1, HighestPosition
    <1>4. S # {} => Max(S) \in S /\ \A x \in S : x <= Max(S)
        <2>1. S \in SUBSET (1 .. n)
            OBVIOUS
        <2> HIDE DEF S
        <2> QED  BY <2>1, HighestPosition
    <1>5. LastReply(l, n) \in 0 .. n /\ (LastReply(l, n) > 0 => LastReply(l, n) \in A)
        BY <1>1, <1>3
    <1>6. LastFrame(l, n) \in 0 .. n
        BY <1>2, <1>4
    <1>7. ASSUME n > 0, l[n].type = "assistant"
          PROVE  LastReply(l, n) = n
        <2>1. n \in A
            BY <1>7
        <2>2. n <= Max(A) /\ Max(A) <= n /\ Max(A) \in Nat
            BY <1>3, <2>1
        <2> HIDE DEF A
        <2> QED  BY <1>1, <2>1, <2>2
    <1>8. ASSUME n > 0, l[n].type = "turn_start"
          PROVE  LastFrame(l, n) = n
        <2>1. n \in S
            BY <1>8
        <2>2. n <= Max(S) /\ Max(S) <= n /\ Max(S) \in Nat
            BY <1>4, <2>1
        <2> HIDE DEF S
        <2> QED  BY <1>2, <2>1, <2>2
    <1> QED  BY <1>5, <1>6, <1>7, <1>8

LEMMA LastCongruence ==
    ASSUME NEW l, NEW m, NEW n \in Nat, \A i \in 1 .. n : m[i] = l[i]
    PROVE  LastReply(m, n) = LastReply(l, n) /\ LastFrame(m, n) = LastFrame(l, n)
    <1>1. {i \in 1 .. n : m[i].type = "assistant"} = {i \in 1 .. n : l[i].type = "assistant"}
        OBVIOUS
    <1>2. {i \in 1 .. n : m[i].type = "turn_start"} = {i \in 1 .. n : l[i].type = "turn_start"}
        OBVIOUS
    <1> QED  BY <1>1, <1>2 DEF LastReply, LastFrame, SelectLastInSubSeq

LEMMA LastSkips ==
    ASSUME NEW l, NEW n \in Nat, NEW m \in Nat, n <= m
    PROVE  /\ (\A i \in (n + 1) .. m : l[i].type # "assistant")
                => LastReply(l, m) = LastReply(l, n)
           /\ (\A i \in (n + 1) .. m : l[i].type # "turn_start")
                => LastFrame(l, m) = LastFrame(l, n)
    <1>1. ASSUME \A i \in (n + 1) .. m : l[i].type # "assistant"
          PROVE  LastReply(l, m) = LastReply(l, n)
        <2>1. {i \in 1 .. m : l[i].type = "assistant"} = {i \in 1 .. n : l[i].type = "assistant"}
            BY <1>1
        <2> QED  BY <2>1 DEF LastReply, SelectLastInSubSeq
    <1>2. ASSUME \A i \in (n + 1) .. m : l[i].type # "turn_start"
          PROVE  LastFrame(l, m) = LastFrame(l, n)
        <2>1. {i \in 1 .. m : l[i].type = "turn_start"} = {i \in 1 .. n : l[i].type = "turn_start"}
            BY <1>2
        <2> QED  BY <2>1 DEF LastFrame, SelectLastInSubSeq
    <1> QED  BY <1>1, <1>2

LEMMA PlainKeepsLast ==
    ASSUME IsSequence(log), LogPlain
    PROVE  /\ LastReply(log', Len(log')) = LastReply(log, Len(log))
           /\ LastFrame(log', Len(log')) = LastFrame(log, Len(log))
           /\ LET a == LastReply(log, Len(log)) IN a > 0 => log'[a] = log[a]
    <1>1. /\ Len(log) \in Nat /\ DOMAIN log = 1 .. Len(log) /\ Len(log') \in Nat
          /\ Len(log) <= Len(log')
        BY SequenceDomain DEF LogPlain
    <1>2. LastReply(log', Len(log)) = LastReply(log, Len(log))
          /\ LastFrame(log', Len(log)) = LastFrame(log, Len(log))
        BY <1>1, LastCongruence DEF LogPlain
    <1>3. LastReply(log', Len(log')) = LastReply(log', Len(log))
          /\ LastFrame(log', Len(log')) = LastFrame(log', Len(log))
        BY <1>1, LastSkips DEF LogPlain, Plain
    <1>4. LastReply(log, Len(log)) \in 0 .. Len(log)
        BY <1>1, LastBounds
    <1> QED  BY <1>1, <1>2, <1>3, <1>4 DEF LogPlain

(* What a log that grew owes for its rows.                                 *)
LEMMA HonestGrows ==
    ASSUME IsSequence(log), CompletedEndsWell,
           IsSequence(log'), Len(log) <= Len(log'),
           \A i \in DOMAIN log : log'[i] = log[i],
           \A i \in (Len(log) + 1) .. Len(log') :
               log'[i] = TurnEnd("completed") => EndsWell(log', i)
    PROVE  CompletedEndsWell'
    <1>1. /\ Len(log) \in Nat /\ DOMAIN log = 1 .. Len(log)
          /\ Len(log') \in Nat /\ DOMAIN log' = 1 .. Len(log')
        BY SequenceDomain
    <1>2. ASSUME NEW p \in DOMAIN log', log'[p] = TurnEnd("completed")
          PROVE  EndsWell(log', p)
        <2>1. CASE p \in DOMAIN log
            <3>1. LastReply(log', p) = LastReply(log, p)
                  /\ LastFrame(log', p) = LastFrame(log, p)
                BY <1>1, <2>1, LastCongruence
            <3>2. LastReply(log, p) \in 0 .. p /\ LastFrame(log, p) \in 0 .. p
                BY <1>1, <2>1, LastBounds
            <3>3. EndsWell(log, p)
                BY <1>2, <2>1 DEF CompletedEndsWell, EndsWell
            <3>4. ASSUME LastReply(log, p) > LastFrame(log, p)
                  PROVE  log'[LastReply(log, p)] = log[LastReply(log, p)]
                BY <1>1, <2>1, <3>2, <3>4
            <3> QED  BY <3>1, <3>3, <3>4 DEF EndsWell
        <2> QED  BY <1>1, <1>2, <2>1
    <1> QED  BY <1>2 DEF CompletedEndsWell, EndsWell

LEMMA PlainIsHonest ==
    ASSUME IsSequence(log), CompletedEndsWell, LogPlain
    PROVE  CompletedEndsWell'
    <1>1. \A i \in (Len(log) + 1) .. Len(log') : log'[i] # TurnEnd("completed")
        BY DEF LogPlain, Plain, TurnEnd
    <1> QED  BY <1>1, HonestGrows DEF LogPlain

(* The step cases of InvHonest: a step inside the frame of a turn that     *)
(* appends plain rows, and the end of a turn.                              *)
LEMMA HonestInside ==
    ASSUME Inv, InvHonest, LogPlain, UNCHANGED <<reply, signal>>,
           pc \notin {"idle", "open", "frame", "reply"},
           failed' \in {failed, TRUE},
           pc' \in {"idle", "open", "frame", "budget", "prompt", "prepare"} => reply = NoReply
    PROVE  InvHonest'
    <1>1. CompletedEndsWell'
        BY PlainIsHonest DEF Inv, TypeOK, InvHonest
    <1>2. ASSUME ~failed', LastReply(log', Len(log')) > LastFrame(log', Len(log'))
          PROVE  log'[LastReply(log', Len(log'))] = reply'
        <2> DEFINE a == LastReply(log, Len(log))
        <2>1. /\ LastReply(log', Len(log')) = a
              /\ LastFrame(log', Len(log')) = LastFrame(log, Len(log))
              /\ a > 0 => log'[a] = log[a]
            BY PlainKeepsLast DEF Inv, TypeOK
        <2>2. a \in Nat /\ LastFrame(log, Len(log)) \in Nat
            BY LastBounds, SequenceDomain DEF Inv, TypeOK
        <2>3. log[a] = reply
            BY <1>2, <2>1 DEF InvHonest, Inv, TypeOK, LoopOK
        <2> HIDE DEF a
        <2> QED  BY <1>2, <2>1, <2>2, <2>3
    <1>3. reply.stop = "aborted" => signal
        BY DEF InvHonest
    <1> QED  BY <1>1, <1>2, <1>3 DEF InvHonest

LEMMA HonestReturn ==
    ASSUME Return, CompletedEndsWell'
    PROVE  InvHonest'
    BY DEF Return, InvHonest, NoReply, Assistant

LEMMA HonestStep ==
    ASSUME Inv, InvHonest, [Next]_vars
    PROVE  InvHonest'
    <1> USE DEF InvHonest
    <1>0. IsSequence(log) /\ failed \in BOOLEAN
        BY DEF Inv, TypeOK, LoopOK
    <1>1. ASSUME log' = log
          PROVE  LogPlain /\ CompletedEndsWell'
        BY <1>0, <1>1, PlainSame, PlainIsHonest
    <1>2. ASSUME NEW row, Plain(row), log' = Append(log, row)
          PROVE  LogPlain /\ CompletedEndsWell'
        BY <1>0, <1>2, PlainAppend, PlainIsHonest
    <1>3. CASE RunTurn \/ (OpenLog /\ ~HostFails)
        <2>1. log' = log /\ reply' = reply /\ signal' = signal
              /\ pc \in {"idle", "open"} /\ pc' \in {"open", "frame"}
            BY <1>3 DEF RunTurn, OpenLog
        <2> QED  BY <1>1, <2>1
    <1>4. CASE HostFails
        BY <1>1, <1>4, HonestReturn DEF HostFails
    <1>5. CASE FrameTurn
        <2>1. CASE log' = Append(log, TurnStart)
                   /\ pc' = "budget" /\ UNCHANGED <<turnVars, signal>>
            <3>1. /\ IsSequence(log') /\ Len(log') = Len(log) + 1
                  /\ \A i \in DOMAIN log : log'[i] = log[i]
                  /\ log'[Len(log) + 1] = TurnStart /\ Len(log) \in Nat
                BY <1>0, <2>1, AppendIsSequence, SequenceDomain
            <3>2. CompletedEndsWell'
                BY <1>0, <3>1, HonestGrows DEF TurnStart, TurnEnd
            <3>3. LastFrame(log', Len(log')) = Len(log') /\ LastReply(log', Len(log')) <= Len(log')
                BY <3>1, LastBounds DEF TurnStart
            <3>4. reply' = reply /\ signal' = signal /\ pc = "frame"
                BY <1>5, <2>1 DEF FrameTurn, turnVars
            <3>5. LastReply(log', Len(log')) \in Nat /\ Len(log') \in Nat
                BY <3>1, LastBounds
            <3>6. ~(LastReply(log', Len(log')) > LastFrame(log', Len(log')))
                BY <3>3, <3>5
            <3> QED  BY <2>1, <3>2, <3>4, <3>6
        <2> QED  BY <1>4, <1>5, <2>1 DEF FrameTurn
    <1>6. CASE Budget /\ ~HostFails
        <2> DEFINE view == BudgetCompact(context, pressure)
                   row  == Compacted(view, DroppedCount(context, view))
        <2>1. log' = log \/ log' = Append(log, row)
            BY <1>6 DEF Budget
        <2>2. Plain(row)
            BY DEF Compacted, Plain
        <2>3. pc = "budget" /\ pc' = "prompt" /\ UNCHANGED <<reply, signal, failed>>
            BY <1>6 DEF Budget, turnVars
        <2> HIDE DEF row
        <2> QED  BY <1>1, <1>2, <2>1, <2>2, <2>3, HonestInside
    <1>7. CASE Prompt /\ ~HostFails
        <2>1. log' = Append(log, User(prompt, "prompt")) /\ Plain(User(prompt, "prompt"))
            BY <1>7 DEF Prompt, Plain, User
        <2>2. pc = "prompt" /\ pc' = "prepare" /\ UNCHANGED <<reply, signal, failed>>
            BY <1>7 DEF Prompt
        <2> QED  BY <1>2, <2>1, <2>2, HonestInside
    <1>8. CASE PrepareTurn
        <2>1. log' = log /\ reply' = reply /\ failed' = failed /\ pc = "prepare" /\ pc' = "top"
            BY <1>8 DEF PrepareTurn, turnVars
        <2>2. reply = NoReply
            BY <2>1
        <2>3. reply'.stop # "aborted"
            BY <2>1, <2>2 DEF NoReply, Assistant
        <2> QED  BY <1>1, <2>1, <2>3
    <1>9. CASE LoopExhausted \/ Request \/ DiscardDone \/ GateCall \/ Dispatch \/ ToolEnds
               \/ BatchDone
        <2>1. log' = log /\ UNCHANGED <<reply, signal, failed>>
              /\ pc \in {"top", "ask", "discard", "gate", "running"}
              /\ pc' \in {"end", "stream", "top", "gate", "running"}
            BY <1>9 DEF LoopExhausted, Request, DiscardDone, GateCall, Dispatch, ToolEnds,
                        BatchDone, turnVars
        <2> QED  BY <1>1, <2>1, HonestInside
    <1>10. CASE DrainSteer
        <2>1. UNCHANGED <<reply, signal>> /\ pc = "top" /\ pc' \in {"ask", "end"}
              /\ failed' \in {failed, TRUE}
            BY <1>10 DEF DrainSteer, LoopFails
        <2> QED  BY <1>10, <2>1, PlainDrain, HonestInside
    <1>11. CASE SkipRequest \/ StreamDone \/ StreamError
        <2>1. log' = log /\ signal' = signal /\ failed' = failed
            BY <1>11 DEF SkipRequest, StreamDone, StreamError
        <2>2. CASE pc' = "reply" /\ (reply'.stop = "aborted" => signal)
            BY <1>1, <2>1, <2>2
        <2>3. CASE pc = "stream" /\ pc' = "ask" /\ reply' = reply
            BY <1>1, <2>1, <2>3, HonestInside
        <2>4. SkipRequest => pc' = "reply" /\ signal
            BY DEF SkipRequest
        <2>5. StreamDone => pc' = "reply" /\ (reply'.stop = "aborted" => signal)
            BY DEF StreamDone, Assistant
        <2>6. StreamError => \/ pc' = "reply" /\ reply'.stop # "aborted"
                             \/ pc = "stream" /\ pc' = "ask" /\ reply' = reply
            BY DEF StreamError, Assistant
        <2> QED  BY <1>11, <2>2, <2>3, <2>4, <2>5, <2>6
    <1>12. CASE LoopFails /\ log' = log /\ UNCHANGED <<reply, signal>>
        BY <1>1, <1>12 DEF LoopFails
    <1>13. CASE PersistReply /\ log' = Append(log, reply)
        <2>1. /\ UNCHANGED <<reply, signal>> /\ pc = "reply"
              /\ pc' \in {"gate", "discard", "end"}
            BY <1>13 DEF PersistReply, LoopFails
        <2>2. /\ IsSequence(log') /\ Len(log') = Len(log) + 1
              /\ \A i \in DOMAIN log : log'[i] = log[i]
              /\ log'[Len(log) + 1] = reply /\ Len(log) \in Nat
            BY <1>0, <1>13, AppendIsSequence, SequenceDomain
        <2>3. reply.type = "assistant"
            BY DEF Inv, InvReply
        <2>4. CompletedEndsWell'
            BY <1>0, <2>2, <2>3, HonestGrows DEF TurnEnd
        <2>5. LastReply(log', Len(log')) = Len(log')
            BY <2>2, <2>3, LastBounds
        <2> QED  BY <2>1, <2>2, <2>4, <2>5
    <1>14. CASE (DiscardCall \/ RecordResult) /\ ~LoopFails
        <2>1. /\ \E row : log' = Append(log, row) /\ Plain(row)
              /\ UNCHANGED <<reply, signal, failed>>
              /\ pc \in {"discard", "running"} /\ pc' = pc
            BY <1>14 DEF DiscardCall, RecordResult, ResultOf, ToolResult, Plain
        <2> QED  BY <1>2, <2>1, HonestInside
    <1>15. CASE EndTurn
        <2>1. CASE log' = Append(log, TurnEnd(Reason))
            <3> DEFINE n == Len(log)
                       a == LastReply(log, n)
            <3>1. /\ IsSequence(log') /\ Len(log') = n + 1
                  /\ \A i \in DOMAIN log : log'[i] = log[i]
                  /\ log'[n + 1] = TurnEnd(Reason) /\ n \in Nat /\ DOMAIN log = 1 .. n
                BY <1>0, <2>1, AppendIsSequence, SequenceDomain
            <3>2. ASSUME TurnEnd(Reason) = TurnEnd("completed")
                  PROVE  EndsWell(log', n + 1)
                <4>1. Reason = "completed"
                    BY <3>2 DEF TurnEnd
                <4>2. ~failed /\ ~signal /\ reply.stop # "error"
                    BY <4>1 DEF Reason
                <4>3. LastReply(log', n + 1) = a /\ LastFrame(log', n + 1) = LastFrame(log, n)
                    <5>1. LastReply(log', n) = a /\ LastFrame(log', n) = LastFrame(log, n)
                        BY <3>1, LastCongruence
                    <5>2. \A i \in (n + 1) .. (n + 1) :
                              log'[i].type \notin {"assistant", "turn_start"}
                        BY <3>1 DEF TurnEnd
                    <5>3. n + 1 \in Nat /\ n <= n + 1
                        BY <3>1
                    <5> HIDE DEF n, a
                    <5> QED  BY <3>1, <5>1, <5>2, <5>3, LastSkips
                <4>4. a \in 0 .. n /\ LastFrame(log, n) \in 0 .. n
                    BY <3>1, LastBounds
                <4>5. ASSUME a > LastFrame(log, n)
                      PROVE  log'[a] = reply
                    <5>1. log[a] = reply
                        BY <1>15, <4>2, <4>5 DEF EndTurn
                    <5>2. a \in DOMAIN log
                        BY <3>1, <4>4, <4>5
                    <5> QED  BY <3>1, <5>1, <5>2
                <4> QED  BY <4>2, <4>3, <4>5 DEF EndsWell
            <3>3. CompletedEndsWell'
                BY <1>0, <3>1, <3>2, HonestGrows
            <3> QED  BY <1>15, <3>3, HonestReturn DEF EndTurn
        <2> QED  BY <1>1, <1>15, <2>1, HonestReturn DEF EndTurn
    <1>16. CASE Crash
        BY <1>1, <1>16, HonestReturn DEF Crash
    <1>17. CASE Steer \/ Cancel \/ BeginClear \/ MarkCleared \/ UNCHANGED vars
        <2>1. /\ UNCHANGED <<pc, reply, failed>> /\ signal' \in {signal, TRUE}
              /\ log' = log \/ log' = Append(log, Cleared)
            BY <1>17 DEF Steer, Cancel, BeginClear, MarkCleared, vars, turnVars
        <2>2. Plain(Cleared)
            BY DEF Plain, Cleared
        <2>3. LogPlain /\ CompletedEndsWell'
            BY <1>1, <1>2, <2>1, <2>2
        <2>4. /\ LastReply(log', Len(log')) = LastReply(log, Len(log))
              /\ LastFrame(log', Len(log')) = LastFrame(log, Len(log))
              /\ LET a == LastReply(log, Len(log)) IN a > 0 => log'[a] = log[a]
            BY <1>0, <2>3, PlainKeepsLast
        <2>5. LastReply(log, Len(log)) \in Nat /\ LastFrame(log, Len(log)) \in Nat
            BY <1>0, LastBounds, SequenceDomain
        <2>6. ASSUME LastReply(log, Len(log)) > LastFrame(log, Len(log))
              PROVE  log'[LastReply(log, Len(log))] = log[LastReply(log, Len(log))]
            BY <2>4, <2>5, <2>6
        <2>7. reply'.stop = "aborted" => signal'
            <3>1. reply.stop = "aborted" => signal
                OBVIOUS
            <3>2. signal => signal'
                BY <1>17, Zenon
                DEF Steer, Cancel, BeginClear, MarkCleared, vars, turnVars
            <3>3. reply' = reply
                BY <2>1
            <3> QED  BY <3>1, <3>2, <3>3
        <2>8. ASSUME pc' \notin {"idle", "open", "frame", "reply"}, ~failed',
                     LastReply(log', Len(log')) > LastFrame(log', Len(log'))
              PROVE  log'[LastReply(log', Len(log'))] = reply'
            BY <2>1, <2>4, <2>6, <2>8
        <2> QED  BY <2>1, <2>3, <2>7, <2>8
    <1>18. CASE PersistReply
        BY <1>12, <1>13, <1>18 DEF PersistReply
    <1>19. CASE DiscardCall \/ RecordResult
        <2>1. CASE LoopFails
            <3>1. \/ log' = log \/ ~LoopFails
                  \/ \E row : log' = Append(log, row) /\ Plain(row)
                BY <1>19 DEF DiscardCall, RecordResult, ResultOf, ToolResult, Plain
            <3>2. UNCHANGED <<reply, signal>> /\ pc \in {"discard", "running"}
                BY <1>19 DEF DiscardCall, RecordResult
            <3>3. LogPlain
                BY <1>1, <1>2, <2>1, <3>1
            <3> QED  BY <2>1, <3>2, <3>3, HonestInside DEF LoopFails
        <2> QED  BY <1>14, <1>19, <2>1
    <1> QED  BY <1>3, <1>4, <1>5, <1>6, <1>7, <1>8, <1>9, <1>10, <1>11, <1>15, <1>16, <1>17,
                <1>18, <1>19
             DEF Next, TurnStep, HostStep, Awaited, Environment, Finished

(* The messages of the turn, and the results of their calls.               *)
LEMMA AnsweredGrow ==
    ASSUME IsSequence(log), IsSequence(log'), Len(log) <= Len(log'),
           \A i \in DOMAIN log : log'[i] = log[i]
    PROVE  AnsweredCalls(log) \subseteq AnsweredCalls(log')
    <1>1. DOMAIN log \subseteq DOMAIN log'
        BY SequenceDomain
    <1> QED  BY <1>1 DEF AnsweredCalls

LEMMA LeavesGrow ==
    ASSUME IsSequence(log), CompletedLeavesNoCall,
           IsSequence(log'), Len(log) <= Len(log'),
           \A i \in DOMAIN log : log'[i] = log[i],
           \A i \in (Len(log) + 1) .. Len(log') :
               log'[i] = TurnEnd("completed") => LeavesNoCall(log', i)
    PROVE  CompletedLeavesNoCall'
    <1>1. /\ Len(log) \in Nat /\ DOMAIN log = 1 .. Len(log)
          /\ Len(log') \in Nat /\ DOMAIN log' = 1 .. Len(log')
        BY SequenceDomain
    <1>2. ASSUME NEW p \in DOMAIN log', log'[p] = TurnEnd("completed")
          PROVE  LeavesNoCall(log', p)
        <2>1. CASE p \in DOMAIN log
            <3>1. LastFrame(log', p) = LastFrame(log, p)
                BY <1>1, <2>1, LastCongruence
            <3>2. RepliesOfTurn(log', p) = RepliesOfTurn(log, p)
                BY <1>1, <2>1, <3>1 DEF RepliesOfTurn, AssistantRows
            <3>3. \A k \in RepliesOfTurn(log, p) : log'[k] = log[k]
                BY DEF RepliesOfTurn, AssistantRows
            <3>4. LeavesNoCall(log, p)
                BY <1>2, <2>1 DEF CompletedLeavesNoCall
            <3> QED  BY <3>2, <3>3, <3>4, AnsweredGrow DEF LeavesNoCall
        <2> QED  BY <1>1, <1>2, <2>1
    <1> QED  BY <1>2 DEF CompletedLeavesNoCall

LEMMA PlainKeepsTurn ==
    ASSUME IsSequence(log), LogPlain
    PROVE  /\ RepliesOfTurn(log', Len(log')) = RepliesOfTurn(log, Len(log))
           /\ \A k \in RepliesOfTurn(log, Len(log)) : log'[k] = log[k]
           /\ AnsweredCalls(log) \subseteq AnsweredCalls(log')
           /\ CompletedLeavesNoCall => CompletedLeavesNoCall'
    <1>1. /\ Len(log) \in Nat /\ DOMAIN log = 1 .. Len(log)
          /\ Len(log') \in Nat /\ DOMAIN log' = 1 .. Len(log') /\ Len(log) <= Len(log')
          /\ \A i \in DOMAIN log : log'[i] = log[i]
        BY SequenceDomain DEF LogPlain
    <1>2. LastFrame(log', Len(log')) = LastFrame(log, Len(log))
        BY PlainKeepsLast
    <1>3. AssistantRows(log') = AssistantRows(log)
        BY <1>1 DEF LogPlain, Plain, AssistantRows
    <1>4. RepliesOfTurn(log', Len(log')) = RepliesOfTurn(log, Len(log))
        BY <1>1, <1>2, <1>3 DEF RepliesOfTurn, AssistantRows
    <1>5. \A k \in RepliesOfTurn(log, Len(log)) : log'[k] = log[k]
        BY <1>1 DEF RepliesOfTurn, AssistantRows
    <1>6. \A i \in (Len(log) + 1) .. Len(log') : log'[i] # TurnEnd("completed")
        BY DEF LogPlain, Plain, TurnEnd
    <1> QED  BY <1>1, <1>4, <1>5, <1>6, AnsweredGrow, LeavesGrow DEF LogPlain

(* A step of the loop that appends plain rows: what the batch owed it      *)
(* still owes or has answered.                                             *)
LEMMA BatchesInside ==
    ASSUME Inv, InvBatches, LogPlain, reply' = reply, signal => signal', Looping,
           failed' \in {failed, TRUE}, pc' \notin {"budget", "prompt", "prepare"},
           pc' = "running" /\ Len(slots') < Len(Calls)' => signal',
           ~failed' /\ ~signal' =>
               \A i \in DOMAIN Calls :
                   Owed(reply, i) => Owed(reply, i)' \/ Calls[i] \in AnsweredCalls(log')
    PROVE  InvBatches'
    <1>1. IsSequence(log) /\ failed \in BOOLEAN /\ signal \in BOOLEAN
        BY DEF Inv, TypeOK, LoopOK, InputOK
    <1>2. /\ RepliesOfTurn(log', Len(log')) = RepliesOfTurn(log, Len(log))
          /\ \A k \in RepliesOfTurn(log, Len(log)) : log'[k] = log[k]
          /\ AnsweredCalls(log) \subseteq AnsweredCalls(log')
          /\ CompletedLeavesNoCall'
        BY <1>1, PlainKeepsTurn DEF InvBatches
    <1>3. ASSUME ~failed', ~signal' PROVE TurnAnswered'
        <2>1. TurnAnswered
            BY <1>1, <1>3 DEF InvBatches
        <2>2. ASSUME NEW k \in RepliesOfTurn(log', Len(log')), ActedOn(log'[k]),
                     NEW i \in DOMAIN log'[k].calls
              PROVE  log'[k].calls[i] \in AnsweredCalls(log') \/ Owed(log[k], i)'
            <3>1. log'[k] = log[k] /\ k \in RepliesOfTurn(log, Len(log))
                BY <1>2, <2>2
            <3>2. log[k].calls[i] \in AnsweredCalls(log) \/ Owed(log[k], i)
                BY <2>1, <2>2, <3>1 DEF TurnAnswered
            <3>3. CASE Owed(log[k], i)
                <4>1. log[k] = reply
                    BY <3>3 DEF Owed
                <4>2. i \in DOMAIN Calls /\ Calls[i] = log[k].calls[i]
                    BY <2>2, <3>1, <4>1 DEF Calls
                <4>3. Owed(reply, i)
                    BY <3>3, <4>1
                <4>4. Owed(reply, i)' \/ Calls[i] \in AnsweredCalls(log')
                    BY <1>3, <4>2, <4>3
                <4>5. Owed(reply, i)' => Owed(log[k], i)'
                    BY <3>1, <4>1 DEF Owed
                <4> QED  BY <3>1, <4>2, <4>4, <4>5
            <3> QED  BY <1>2, <3>1, <3>2, <3>3
        <2> QED  BY <2>2 DEF TurnAnswered
    <1> QED  BY <1>2, <1>3 DEF InvBatches

LEMMA BatchesReturn ==
    ASSUME pc' = "idle" \/ pc' = "open" \/ pc' = "frame", CompletedLeavesNoCall'
    PROVE  InvBatches'
    BY DEF InvBatches, Looping

LEMMA BatchesStep ==
    ASSUME Inv, InvBatches, [Next]_vars
    PROVE  InvBatches'
    <1>0. /\ IsSequence(log) /\ Len(log) \in Nat /\ DOMAIN log = 1 .. Len(log)
          /\ failed \in BOOLEAN /\ signal \in BOOLEAN /\ CompletedLeavesNoCall
          /\ recorded \in Nat /\ Len(slots) \in Nat
          /\ Len(Calls) \in Nat /\ DOMAIN Calls = 1 .. Len(Calls)
        BY SequenceDomain
        DEF Inv, TypeOK, LoopOK, InputOK, InvReply, Calls, InvBatches
    <1>1. ASSUME log' = log
          PROVE  LogPlain /\ CompletedLeavesNoCall'
        BY <1>0, <1>1, PlainSame, PlainKeepsTurn
    <1>2. ASSUME NEW row, Plain(row), log' = Append(log, row)
          PROVE  LogPlain /\ CompletedLeavesNoCall'
        BY <1>0, <1>2, PlainAppend, PlainKeepsTurn
    <1>3. CASE RunTurn \/ (OpenLog /\ ~HostFails)
        <2>1. log' = log /\ pc' \in {"open", "frame"}
            BY <1>3 DEF RunTurn, OpenLog
        <2> QED  BY <1>1, <2>1, BatchesReturn
    <1>4. CASE HostFails \/ Crash
        <2>1. log' = log /\ pc' = "idle"
            BY <1>4 DEF HostFails, Crash, Return
        <2> QED  BY <1>1, <2>1, BatchesReturn
    <1>5. CASE FrameTurn /\ ~HostFails
        <2>1. log' = Append(log, TurnStart) /\ pc' = "budget"
            BY <1>5 DEF FrameTurn
        <2>2. /\ IsSequence(log') /\ Len(log') = Len(log) + 1
              /\ \A i \in DOMAIN log : log'[i] = log[i]
              /\ log'[Len(log) + 1] = TurnStart
            BY <1>0, <2>1, AppendIsSequence
        <2>3. CompletedLeavesNoCall'
            BY <1>0, <2>2, LeavesGrow DEF TurnStart, TurnEnd
        <2>4. LastFrame(log', Len(log')) = Len(log')
            BY <1>0, <2>2, LastBounds DEF TurnStart
        <2>5. RepliesOfTurn(log', Len(log')) = {}
            BY <1>0, <2>2, <2>4, SequenceDomain DEF RepliesOfTurn, AssistantRows
        <2> QED  BY <2>1, <2>3, <2>5 DEF InvBatches, Looping
    <1>6. CASE (Budget \/ Prompt) /\ ~HostFails
        <2> DEFINE view == BudgetCompact(context, pressure)
                   row  == Compacted(view, DroppedCount(context, view))
        <2>1. \/ log' = log \/ log' = Append(log, row)
              \/ log' = Append(log, User(prompt, "prompt"))
            BY <1>6 DEF Budget, Prompt
        <2>2. Plain(row) /\ Plain(User(prompt, "prompt"))
            BY DEF Compacted, User, Plain
        <2>3. pc \in {"budget", "prompt"} /\ pc' \in {"prompt", "prepare"}
            BY <1>6 DEF Budget, Prompt
        <2> HIDE DEF row
        <2>4. LogPlain /\ CompletedLeavesNoCall'
            BY <1>1, <1>2, <2>1, <2>2
        <2>5. RepliesOfTurn(log', Len(log')) = {}
            BY <1>0, <2>3, <2>4, PlainKeepsTurn DEF InvBatches
        <2> QED  BY <2>3, <2>4, <2>5 DEF InvBatches, Looping
    <1>7. CASE PrepareTurn
        <2>1. log' = log /\ pc = "prepare" /\ pc' = "top"
            BY <1>7 DEF PrepareTurn
        <2>2. RepliesOfTurn(log', Len(log')) = {}
            BY <2>1 DEF InvBatches
        <2> QED  BY <1>1, <2>1, <2>2 DEF InvBatches, TurnAnswered
    <1>8. CASE LoopExhausted \/ Request
        <2>1. log' = log /\ UNCHANGED <<reply, signal, failed>>
              /\ pc \in {"top", "ask"} /\ pc' \in {"end", "stream"}
            BY <1>8 DEF LoopExhausted, Request, turnVars
        <2> QED  BY <1>1, <2>1, BatchesInside DEF Owed, InBatch, Looping
    <1>9. CASE DrainSteer
        <2>1. UNCHANGED <<reply, signal>> /\ pc = "top" /\ pc' \in {"ask", "end"}
              /\ failed' \in {failed, TRUE}
            BY <1>9 DEF DrainSteer, LoopFails
        <2> QED  BY <1>9, <2>1, PlainDrain, BatchesInside DEF Owed, InBatch, Looping
    <1>10. CASE SkipRequest \/ StreamDone \/ StreamError
        <2>1. /\ log' = log /\ signal' = signal /\ failed' = failed
              /\ pc \in {"ask", "stream"} /\ pc' \in {"ask", "reply"}
            BY <1>10 DEF SkipRequest, StreamDone, StreamError
        <2>2. ASSUME ~failed', ~signal' PROVE TurnAnswered'
            <3>1. TurnAnswered /\ ~InBatch
                BY <2>1, <2>2 DEF InvBatches, Looping, InBatch
            <3> QED  BY <2>1, <3>1 DEF TurnAnswered, Owed
        <2> QED  BY <1>1, <2>1, <2>2 DEF InvBatches
    <1>11. CASE LoopFails /\ log' = log /\ UNCHANGED <<reply, signal>>
                /\ pc \in {"reply", "discard", "running"}
        BY <1>1, <1>11, BatchesInside DEF LoopFails, Looping
    <1>12. CASE PersistReply /\ log' = Append(log, reply)
        <2>1. /\ UNCHANGED <<reply, signal, recorded>> /\ pc = "reply" /\ recorded = 0
              /\ failed' \in {failed, TRUE} /\ pc' \in {"gate", "discard", "end"}
            BY <1>12 DEF PersistReply, LoopFails, Inv, InvControl
        <2>2. /\ IsSequence(log') /\ Len(log') = Len(log) + 1
              /\ \A i \in DOMAIN log : log'[i] = log[i]
              /\ log'[Len(log) + 1] = reply
            BY <1>0, <1>12, AppendIsSequence
        <2>3. reply.type = "assistant" /\ DOMAIN log' = 1 .. (Len(log) + 1)
            BY <1>0, <2>2, SequenceDomain DEF Inv, InvReply
        <2>4. CompletedLeavesNoCall'
            BY <1>0, <2>2, <2>3, LeavesGrow DEF TurnEnd
        <2>5. LastFrame(log', Len(log')) = LastFrame(log, Len(log))
            <3>1. LastFrame(log', Len(log)) = LastFrame(log, Len(log))
                BY <1>0, <2>2, LastCongruence
            <3>2. \A i \in (Len(log) + 1) .. Len(log') : log'[i].type # "turn_start"
                BY <1>0, <2>2, <2>3
            <3> QED  BY <1>0, <2>2, <3>1, <3>2, LastSkips
        <2>6. ASSUME NEW k \in RepliesOfTurn(log', Len(log')), k # Len(log) + 1
              PROVE  k \in RepliesOfTurn(log, Len(log)) /\ log'[k] = log[k]
            BY <1>0, <2>2, <2>3, <2>5, <2>6 DEF RepliesOfTurn, AssistantRows
        <2>7. ASSUME ~failed', ~signal' PROVE TurnAnswered'
            <3>1. TurnAnswered /\ ~InBatch /\ ~failed
                <4>1. signal' = signal /\ (failed' = failed \/ failed' = TRUE)
                    BY <2>1
                <4>2. ~failed
                    BY <2>7, <4>1
                <4>20. ~signal
                    BY <2>7, <4>1
                <4>3. Looping /\ ~InBatch
                    BY <2>1 DEF Looping, InBatch
                <4> QED  BY <4>2, <4>20, <4>3 DEF InvBatches
            <3>2. ASSUME NEW k \in RepliesOfTurn(log', Len(log')), ActedOn(log'[k]),
                         NEW i \in DOMAIN log'[k].calls
                  PROVE  log'[k].calls[i] \in AnsweredCalls(log') \/ Owed(log[k], i)'
                <4>1. CASE k # Len(log) + 1
                    <5>1. k \in RepliesOfTurn(log, Len(log)) /\ log'[k] = log[k]
                        BY <2>6, <4>1
                    <5>2. log[k].calls[i] \in AnsweredCalls(log)
                        BY <3>1, <3>2, <5>1 DEF TurnAnswered, Owed
                    <5> QED  BY <1>0, <2>2, <5>1, <5>2, AnsweredGrow
                <4>2. CASE k = Len(log) + 1
                    <5>1. log'[k] = reply /\ log'[k] = reply'
                        BY <2>1, <2>2, <4>2
                    <5>2. pc' \in {"gate", "discard"}
                        BY <1>12, <2>7, <3>2, <5>1 DEF PersistReply, ActedOn, LoopFails
                    <5>3. i > recorded'
                        BY <1>0, <2>1, <3>2, <5>1 DEF Calls
                    <5> QED  BY <5>1, <5>2, <5>3 DEF Owed, InBatch
                <4> QED  BY <4>1, <4>2
            <3> QED  BY <3>2 DEF TurnAnswered
        <2> QED  BY <2>1, <2>4, <2>7 DEF InvBatches
    <1>13. CASE (DiscardCall \/ RecordResult) /\ ~LoopFails
        <2>1. PICK how :
              /\ log' = Append(log, ToolResult(Calls[recorded + 1], how))
              /\ UNCHANGED <<reply, signal, failed, slots>> /\ recorded' = recorded + 1
              /\ pc \in {"discard", "running"} /\ pc' = pc
            BY <1>13 DEF DiscardCall, RecordResult, ResultOf
        <2>2. Plain(ToolResult(Calls[recorded + 1], how))
            BY DEF Plain, ToolResult
        <2>3. AnsweredCalls(log') = AnsweredCalls(log) \cup {Calls[recorded + 1]}
            BY <1>0, <2>1, ResultAppend
        <2>4. ASSUME NEW i \in DOMAIN Calls, Owed(reply, i)
              PROVE  Owed(reply, i)' \/ Calls[i] \in AnsweredCalls(log')
            <3>1. CASE i = recorded + 1
                BY <2>3, <3>1
            <3>2. CASE i # recorded + 1
                <4>1. i > recorded'
                    BY <1>0, <2>1, <2>4, <3>2 DEF Owed
                <4> QED  BY <2>1, <2>4, <4>1 DEF Owed, InBatch
            <3> QED  BY <3>1, <3>2
        <2>5. pc' = "running" /\ Len(slots') < Len(Calls)' => signal'
            BY <2>1 DEF InvBatches, Calls
        <2> QED  BY <1>2, <2>1, <2>2, <2>4, <2>5, BatchesInside DEF Looping
    <1>14. CASE GateCall \/ Dispatch \/ ToolEnds
        <2>1. /\ log' = log /\ UNCHANGED <<reply, signal, failed, recorded>>
              /\ pc \in {"gate", "running"} /\ pc' \in {"gate", "running"}
              /\ pc' = "gate" \/ slots' = slots
            BY <1>14 DEF GateCall, Dispatch, ToolEnds
        <2>2. pc' = "running" /\ Len(slots') < Len(Calls)' => signal'
            BY <1>0, <1>14, <2>1 DEF GateCall, Dispatch, ToolEnds, InvBatches, Calls
        <2> QED  BY <1>1, <2>1, <2>2, BatchesInside DEF Looping, Owed, InBatch
    <1>15. CASE BatchDone \/ DiscardDone
        <2>1. /\ log' = log /\ UNCHANGED <<reply, signal, failed>>
              /\ pc \in {"discard", "running"} /\ pc' = "top"
            BY <1>15 DEF BatchDone, DiscardDone
        <2>2. ASSUME ~signal', NEW i \in DOMAIN Calls PROVE ~Owed(reply, i)
            <3>1. CASE BatchDone
                <4>1. pc = "running" /\ recorded = Len(slots) /\ ~signal
                    BY <2>1, <2>2, <3>1 DEF BatchDone, BatchRecorded
                <4> QED  BY <1>0, <4>1 DEF InvBatches, Owed
            <3>2. CASE DiscardDone
                <4>1. recorded = Len(Calls)
                    BY <3>2 DEF DiscardDone
                <4> QED  BY <1>0, <4>1 DEF Owed
            <3> QED  BY <1>15, <3>1, <3>2
        <2> QED  BY <1>1, <2>1, <2>2, BatchesInside DEF Looping
    <1>16. CASE EndTurn
        <2>1. CASE log' = Append(log, TurnEnd(Reason))
            <3> DEFINE n == Len(log)
            <3>1. /\ IsSequence(log') /\ Len(log') = n + 1
                  /\ \A i \in DOMAIN log : log'[i] = log[i]
                  /\ log'[n + 1] = TurnEnd(Reason)
                BY <1>0, <2>1, AppendIsSequence
            <3>2. ASSUME TurnEnd(Reason) = TurnEnd("completed")
                  PROVE  LeavesNoCall(log', n + 1)
                <4>1. ~failed /\ ~signal
                    BY <3>2 DEF TurnEnd, Reason
                <4>2. TurnAnswered /\ ~InBatch
                    BY <1>16, <4>1 DEF EndTurn, InvBatches, Looping, InBatch
                <4>3. LastFrame(log', n + 1) = LastFrame(log, n)
                    <5>1. LastFrame(log', n) = LastFrame(log, n)
                        BY <1>0, <3>1, LastCongruence
                    <5>2. \A i \in (n + 1) .. (n + 1) : log'[i].type # "turn_start"
                        BY <1>0, <3>1 DEF TurnEnd
                    <5>3. n \in Nat /\ n + 1 \in Nat /\ n <= n + 1
                        BY <1>0
                    <5> HIDE DEF n
                    <5>4. LastFrame(log', n + 1) = LastFrame(log', n)
                        BY <5>2, <5>3, LastSkips
                    <5> QED  BY <5>1, <5>4
                <4>4. ASSUME NEW k \in RepliesOfTurn(log', n + 1)
                      PROVE  k \in RepliesOfTurn(log, n) /\ log'[k] = log[k]
                    <5>1. k # n + 1
                        BY <1>0, <3>1, <4>4 DEF RepliesOfTurn, AssistantRows, TurnEnd
                    <5>2. DOMAIN log' = 1 .. (n + 1)
                        BY <3>1, SequenceDomain
                    <5> QED
                        BY <1>0, <3>1, <4>3, <4>4, <5>1, <5>2
                        DEF RepliesOfTurn, AssistantRows
                <4>5. \A k \in RepliesOfTurn(log, n) :
                          ActedOn(log[k]) => \A i \in DOMAIN log[k].calls :
                              log[k].calls[i] \in AnsweredCalls(log)
                    BY <4>2 DEF TurnAnswered, Owed
                <4>6. AnsweredCalls(log) \subseteq AnsweredCalls(log')
                    BY <1>0, <3>1, AnsweredGrow
                <4> QED  BY <4>4, <4>5, <4>6 DEF LeavesNoCall, ToSet
            <3>3. CompletedLeavesNoCall'
                BY <1>0, <3>1, <3>2, LeavesGrow
            <3> QED  BY <1>16, <3>3, BatchesReturn DEF EndTurn, Return
        <2> QED  BY <1>1, <1>16, <2>1, BatchesReturn DEF EndTurn, Return
    <1>17. CASE Steer \/ Cancel \/ BeginClear \/ MarkCleared \/ UNCHANGED vars
        <2>1. /\ UNCHANGED <<pc, reply, failed, slots, recorded>>
              /\ log' = log \/ log' = Append(log, Cleared)
            BY <1>17 DEF Steer, Cancel, BeginClear, MarkCleared, vars, turnVars
        <2>2. signal => signal'
            BY <1>17, Zenon DEF Steer, Cancel, BeginClear, MarkCleared, vars, turnVars
        <2>3. Plain(Cleared)
            BY DEF Plain, Cleared
        <2>4. LogPlain /\ CompletedLeavesNoCall'
            BY <1>1, <1>2, <2>1, <2>3
        <2>5. pc' = "running" /\ Len(slots') < Len(Calls)' => signal'
            BY <2>1, <2>2 DEF InvBatches, Calls
        <2>6. CASE Looping
            BY <2>1, <2>2, <2>4, <2>5, <2>6, BatchesInside DEF Looping, Owed, InBatch
        <2>7. CASE ~Looping
            <3>1. RepliesOfTurn(log', Len(log')) = RepliesOfTurn(log, Len(log))
                BY <1>0, <2>4, PlainKeepsTurn
            <3> QED  BY <2>1, <2>4, <2>5, <2>7, <3>1 DEF InvBatches, Looping
        <2> QED  BY <2>6, <2>7
    <1>18. CASE PersistReply
        <2>1. \/ log' = Append(log, reply)
              \/ LoopFails /\ log' = log /\ UNCHANGED <<reply, signal>> /\ pc = "reply"
            BY <1>18 DEF PersistReply
        <2> QED  BY <1>11, <1>12, <1>18, <2>1
    <1>19. CASE DiscardCall \/ RecordResult
        <2>1. CASE LoopFails
            <3>1. /\ UNCHANGED <<reply, signal>> /\ pc \in {"discard", "running"}
                  /\ \/ log' = log
                     \/ \E how : log' = Append(log, ToolResult(Calls[recorded + 1], how))
                BY <1>19 DEF DiscardCall, RecordResult, ResultOf
            <3>2. LogPlain
                BY <1>1, <1>2, <3>1 DEF Plain, ToolResult
            <3> QED  BY <2>1, <3>1, <3>2, BatchesInside DEF LoopFails, Looping
        <2> QED  BY <1>13, <1>19, <2>1
    <1> QED  BY <1>3, <1>4, <1>5, <1>6, <1>7, <1>8, <1>9, <1>10, <1>14, <1>15, <1>16,
                <1>17, <1>18, <1>19
             DEF Next, TurnStep, HostStep, Awaited, Environment, Finished

(* A turn the log calls completed ended in a message that was neither      *)
(* aborted nor an error, and each call it acted on has its result.         *)
THEOREM CompletedTurnsAreHonest == Spec => []CompletedIsHonest
    <1>1. Init => InvHonest /\ InvBatches
        <2> SUFFICES ASSUME Init PROVE InvHonest /\ InvBatches
            OBVIOUS
        <2>1. log = <<>> /\ DOMAIN log = {} /\ reply = NoReply /\ pc = "idle"
            BY DEF Init
        <2> QED
            BY <2>1 DEF InvHonest, InvBatches, CompletedEndsWell, CompletedLeavesNoCall,
                        Looping, NoReply, Assistant
    <1>2. Inv /\ InvHonest /\ [Next]_vars => InvHonest'
        BY HonestStep
    <1>3. Inv /\ InvBatches /\ [Next]_vars => InvBatches'
        BY BatchesStep
    <1>4. InvHonest /\ InvBatches => CompletedIsHonest
        BY DEF InvHonest, InvBatches, CompletedIsHonest, CompletedEndsWell,
               CompletedLeavesNoCall
    <1> QED  BY <1>1, <1>2, <1>3, <1>4, Invariance, PTL DEF Spec

-----------------------------------------------------------------------------
(* The view of the log.                                                    *)

(* The message being handled, with the results recorded for it.            *)
Batch == <<reply>> \o BatchRows

LEMMA BatchRowsAre ==
    ASSUME Inv, InBatch
    PROVE  /\ IsSequence(BatchRows) /\ Len(BatchRows) = recorded
           /\ recorded \in Nat /\ recorded <= Len(Calls)
           /\ IsSequence(Calls) /\ Len(Calls) \in Nat /\ DOMAIN Calls = 1 .. Len(Calls)
           /\ DOMAIN BatchRows = 1 .. recorded
           /\ \A i \in 1 .. recorded :
                 /\ BatchRows[i] = ToolResult(BatchRows[i].call, BatchRows[i].how)
                 /\ BatchRows[i].call = Calls[i]
                 /\ BatchRows[i].call \in ToSet(Calls)
    <1>1. IsSequence(Calls) /\ Len(Calls) \in Nat /\ DOMAIN Calls = 1 .. Len(Calls)
        BY SequenceDomain DEF Inv, InvReply, Calls
    <1>2. recorded \in Nat /\ recorded <= Len(Calls)
        BY <1>1 DEF Inv, TypeOK, LoopOK
    <1>3. BatchRows = [i \in 1 .. recorded |-> BatchRows[i]]
        BY DEF BatchRows
    <1>4. IsSequence(BatchRows) /\ Len(BatchRows) = recorded
        BY <1>2, <1>3, ListIsSequence
    <1>5. DOMAIN BatchRows = 1 .. recorded
        BY <1>3
    <1>6. ASSUME NEW i \in 1 .. recorded
          PROVE  /\ BatchRows[i] = ToolResult(BatchRows[i].call, BatchRows[i].how)
                 /\ BatchRows[i].call = Calls[i]
                 /\ BatchRows[i].call \in ToSet(Calls)
        <2>1. i \in DOMAIN Calls
            BY <1>1, <1>2
        <2>2. \E how : BatchRows[i] = ToolResult(Calls[i], how)
            BY DEF BatchRows, ResultOf
        <2>3. BatchRows[i] = ToolResult(BatchRows[i].call, BatchRows[i].how)
              /\ BatchRows[i].call = Calls[i]
            BY <2>2 DEF ToolResult
        <2>4. Calls[i] \in ToSet(Calls)
            BY <2>1 DEF ToSet
        <2> QED  BY <2>3, <2>4
    <1> QED  BY <1>1, <1>2, <1>4, <1>5, <1>6

LEMMA BatchIs ==
    ASSUME Inv, InBatch
    PROVE  /\ IsSequence(Batch) /\ Len(Batch) = recorded + 1
           /\ Sound(Batch) /\ OpensRun(Batch)
           /\ recorded = Len(Calls) => CallsAnswered(Batch)
    <1> DEFINE rows == BatchRows
    <1>1. /\ IsSequence(rows) /\ Len(rows) = recorded /\ DOMAIN rows = 1 .. recorded
          /\ \A k \in DOMAIN rows : /\ rows[k] = ToolResult(rows[k].call, rows[k].how)
                                    /\ rows[k].call \in ToSet(reply.calls)
        BY BatchRowsAre DEF Calls
    <1>2. reply.type = "assistant" /\ IsSequence(reply.calls)
        BY DEF Inv, InvReply
    <1>3. ASSUME recorded = Len(Calls)
          PROVE  \A c \in ToSet(reply.calls) : \E k \in DOMAIN rows : rows[k].call = c
        <2> TAKE c \in ToSet(reply.calls)
        <2>1. PICK k \in DOMAIN Calls : Calls[k] = c
            BY DEF Calls, ToSet
        <2>2. k \in DOMAIN rows /\ rows[k].call = c
            BY <1>3, <2>1, BatchRowsAre
        <2> QED  BY <2>2
    <1>4. IsSequence(<<reply>> \o rows)
        BY <1>1, SingletonIsSequence, ConcatIsSequence
    <1> HIDE DEF rows
    <1>5. /\ Sound(<<reply>> \o rows) /\ OpensRun(<<reply>> \o rows)
          /\ Len(<<reply>> \o rows) = Len(rows) + 1
          /\ (\A c \in ToSet(reply.calls) : \E k \in DOMAIN rows : rows[k].call = c)
                => CallsAnswered(<<reply>> \o rows)
        BY <1>1, <1>2, BatchSound
    <1>6. Batch = <<reply>> \o rows
        BY DEF Batch, rows
    <1> QED  BY <1>1, <1>3, <1>4, <1>5, <1>6

LEMMA ViewFacts ==
    ASSUME Inv, InvLogView
    PROVE  /\ IsSequence(log) /\ Based(log) /\ Sound(View)
           /\ IsSequence(View) /\ WellShaped(View)
           /\ IsSequence(Settled) /\ Sound(Settled)
           /\ IsSequence(RepairUnanswered(View)) /\ IsSequence(RepairUnanswered(Settled))
           /\ IsSequence(sent) /\ IsPrefix(sent, RepairUnanswered(View))
           /\ ~InBatch => Settled = View
           /\ InBatch =>
                 /\ View = Settled \o Batch
                 /\ RepairUnanswered(View)
                      = RepairUnanswered(Settled) \o RepairUnanswered(Batch)
    <1> DEFINE n == Len(View) - (IF InBatch THEN recorded + 1 ELSE 0)
    <1>1. /\ IsSequence(log) /\ Based(log) /\ Sound(View) /\ IsSequence(sent)
          /\ IsPrefix(sent, RepairUnanswered(Settled))
        BY DEF InvLogView, Inv, TypeOK
    <1>2. IsSequence(View) /\ WellShaped(View)
        BY <1>1 DEF Sound
    <1>3. ~InBatch => Settled = View
        BY <1>2, TakeEnds DEF Settled, Take
    <1>4. InBatch => /\ IsSequence(Settled) /\ Sound(Settled)
                     /\ View = Settled \o Batch
                     /\ RepairUnanswered(View)
                          = RepairUnanswered(Settled) \o RepairUnanswered(Batch)
        <2> SUFFICES ASSUME InBatch
                     PROVE  /\ IsSequence(Settled) /\ Sound(Settled)
                            /\ View = Settled \o Batch
                            /\ RepairUnanswered(View)
                                 = RepairUnanswered(Settled) \o RepairUnanswered(Batch)
            OBVIOUS
        <2>1. Len(View) \in Nat /\ recorded \in Nat /\ recorded < Len(View)
            BY <1>2, SequenceDomain, BatchRowsAre DEF InvLogView
        <2>2. n \in 0 .. Len(View) /\ Settled = Take(View, n)
            BY <2>1 DEF Settled, Take
        <2>3. IsSequence(Settled)
            BY <1>2, <2>2, TakeProperties
        <2>4. View = Settled \o Batch
            <3>1. View = Append(Settled, reply) \o BatchRows
                BY DEF InvLogView
            <3>2. IsSequence(BatchRows)
                BY BatchRowsAre
            <3>3. Append(Settled, reply) \o BatchRows = Settled \o (<<reply>> \o BatchRows)
                BY <2>3, <3>2, AppendJoins
            <3> QED  BY <3>1, <3>3, Zenon DEF Batch
        <2>5. IsSequence(Batch) /\ OpensRun(Batch) /\ Sound(Batch)
            BY BatchIs
        <2>6. Sound(Settled)
            BY <1>1, <2>3, <2>4, <2>5, SoundConcat
        <2>7. RepairUnanswered(Settled \o Batch)
                = RepairUnanswered(Settled) \o RepairUnanswered(Batch)
            BY <2>3, <2>5, <2>6, RepairConcat DEF Sound
        <2> QED  BY <2>3, <2>4, <2>6, <2>7
    <1>5. IsSequence(Settled) /\ Sound(Settled)
        BY <1>1, <1>2, <1>3, <1>4
    <1>6. IsSequence(RepairUnanswered(View)) /\ IsSequence(RepairUnanswered(Settled))
        BY <1>1, <1>5, PartsIsList DEF Sound
    <1>7. IsPrefix(sent, RepairUnanswered(View))
        <2>1. CASE InBatch
            <3>1. IsSequence(RepairUnanswered(Batch))
                BY <2>1, BatchIs, PartsIsList DEF Sound
            <3> QED  BY <1>1, <1>4, <1>6, <2>1, <3>1, PrefixGrows
        <2> QED  BY <1>1, <1>3, <2>1
    <1> QED  BY <1>1, <1>2, <1>3, <1>4, <1>5, <1>6, <1>7

(* The log grows by user messages and turn markers, outside a batch.       *)
LEMMA LogGrows ==
    ASSUME Inv, InvLogView, NEW rows, IsSequence(rows),
           \A k \in DOMAIN rows : rows[k].type \in {"user", "turn_start", "turn_end"},
           log' = log \o rows, sent' = sent, ~InBatch'
    PROVE  /\ InvLogView' /\ View' = View \o Surface(rows)
           /\ RepairUnanswered(View)' = RepairUnanswered(View) \o Surface(rows)
    <1> DEFINE S == Surface(rows)
    <1>1. PICK v : v = View
        OBVIOUS
    <1>2. /\ IsSequence(log) /\ Based(log) /\ Sound(v) /\ IsSequence(v) /\ WellShaped(v)
          /\ IsSequence(sent) /\ IsPrefix(sent, RepairUnanswered(v))
          /\ IsSequence(RepairUnanswered(v))
        BY <1>1, ViewFacts
    <1>3. IsSequence(S) /\ Range(S) = {rows[k] : k \in {i \in DOMAIN rows : IsMessage(rows[i])}}
        BY SurfaceRange
    <1>4. \A k \in DOMAIN S : S[k].type = "user"
        <2> SUFFICES ASSUME NEW k \in DOMAIN S
                     PROVE  S[k].type = "user"
            OBVIOUS
        <2>1. S[k] \in Range(S)
            BY DEF Range
        <2>2. PICK i \in DOMAIN rows : IsMessage(rows[i]) /\ S[k] = rows[i]
            BY <1>3, <2>1
        <2>3. rows[i].type \in {"user", "turn_start", "turn_end"}
            BY <2>2
        <2> QED  BY <2>2, <2>3 DEF IsMessage
    <1> HIDE DEF S
    <1>5. Sound(S) /\ CallsAnswered(S) /\ OpensRun(S) /\ RepairUnanswered(S) = S
        BY <1>3, <1>4, UsersSound, RepairClosed
    <1>6. View' = v \o S
        <2>1. \A k \in DOMAIN rows : ~IsCheckpoint(rows[k])
            BY DEF IsCheckpoint
        <2>2. DeriveMessages(log \o rows) = DeriveMessages(log) \o Surface(rows)
            BY <1>2, <2>1, DeriveConcat DEF Based
        <2> QED  BY <1>1, <2>2 DEF View, S
    <1>7. IsSequence(v \o S) /\ Sound(v \o S)
        BY <1>2, <1>3, <1>5, ConcatIsSequence, SoundConcat
    <1>8. RepairUnanswered(v \o S) = RepairUnanswered(v) \o S
        BY <1>2, <1>3, <1>5, RepairConcat DEF Sound
    <1>9. IsPrefix(sent, RepairUnanswered(v \o S))
        BY <1>2, <1>3, <1>8, PrefixGrows
    <1>10. Settled' = v \o S
        <2>1. SubSeq(v \o S, 1, Len(v \o S)) = v \o S /\ Len(v \o S) \in Nat
            BY <1>7, TakeEnds, SequenceDomain DEF Take
        <2>2. Len(v \o S) - 0 = Len(v \o S)
            BY <2>1
        <2> QED  BY <1>6, <2>1, <2>2 DEF Settled
    <1>11. Based(log')
        <2> SUFFICES ASSUME NEW k \in DOMAIN (log \o rows), (log \o rows)[k].type = "compacted"
                     PROVE  IsSequence((log \o rows)[k].base)
            BY DEF Based
        <2>1. (log \o rows)[k] \in Range(log \o rows)
            BY DEF Range
        <2>2. (log \o rows)[k] \in Range(log) \/ (log \o rows)[k] \in Range(rows)
            BY <1>2, <2>1, RangeConcat
        <2>3. (log \o rows)[k] \notin Range(rows)
            BY DEF Range
        <2> QED  BY <1>2, <2>2, <2>3 DEF Range, Based
    <1>12. InvLogView'
        BY <1>2, <1>6, <1>7, <1>9, <1>10, <1>11 DEF InvLogView
    <1>13. RepairUnanswered(View)' = RepairUnanswered(View) \o S
        BY <1>1, <1>6, <1>8
    <1> QED  BY <1>1, <1>6, <1>12, <1>13 DEF S

(* The log stays, outside a batch or out of one.                           *)
LEMMA LogStands ==
    ASSUME Inv, InvLogView, log' = log, sent' = sent, ~InBatch'
    PROVE  InvLogView' /\ View' = View
    <1>1. IsSequence(<<>>) /\ DOMAIN <<>> = {} /\ log \o <<>> = log
        BY EmptyIsSequence, EmptyConcat DEF Inv, TypeOK
    <1>2. InvLogView'
        BY <1>1, LogGrows
    <1> QED  BY <1>2 DEF View

(* A checkpoint restarts the view.                                         *)
LEMMA LogRestarts ==
    ASSUME Inv, InvLogView, NEW row, row.type \in {"cleared", "compacted"},
           row.type = "compacted" => Sound(row.base),
           log' = Append(log, row), sent' = <<>>, ~InBatch'
    PROVE  InvLogView' /\ View' = IF row.type = "compacted" THEN row.base ELSE <<>>
    <1> DEFINE base == IF row.type = "compacted" THEN row.base ELSE <<>>
    <1>1. PICK b : b = base
        OBVIOUS
    <1>2. IsSequence(log) /\ Based(log)
        BY ViewFacts
    <1>3. Sound(b) /\ IsSequence(b)
        BY <1>1, EmptySound DEF Sound
    <1>4. View' = b
        <2>1. IsCheckpoint(row) /\ (row.type = "compacted" => IsSequence(row.base))
            BY DEF IsCheckpoint, Sound
        <2> QED  BY <1>1, <1>2, <2>1, DeriveCheckpoint DEF View, Based
    <1>5. Settled' = b
        <2>1. SubSeq(b, 1, Len(b)) = b /\ Len(b) \in Nat
            BY <1>3, TakeEnds, SequenceDomain DEF Take
        <2>2. Len(b) - 0 = Len(b)
            BY <2>1
        <2> QED  BY <1>4, <2>1, <2>2 DEF Settled
    <1>6. Based(log')
        BY <1>2, AppendIsSequence, SequenceDomain DEF Based, Sound
    <1>7. IsSequence(RepairUnanswered(b))
        BY <1>3, PartsIsList DEF Sound
    <1>8. IsSequence(<<>>) /\ IsPrefix(<<>>, RepairUnanswered(b))
        BY <1>7, PrefixSelf, EmptyIsSequence
    <1>9. InvLogView'
        BY <1>3, <1>4, <1>5, <1>6, <1>8 DEF InvLogView
    <1> QED  BY <1>1, <1>4, <1>9

(* Nothing of the batch moves.                                             *)
LEMMA BatchStands ==
    ASSUME Inv, InvLogView, InBatch, InBatch',
           UNCHANGED <<log, sent, reply, recorded, BatchRows>>
    PROVE  InvLogView' /\ View' = View /\ Settled' = Settled
    <1>1. View' = View
        BY DEF View
    <1>2. Settled' = Settled
        BY <1>1 DEF Settled
    <1> QED  BY <1>1, <1>2 DEF InvLogView

(* One more result of the batch is recorded.                               *)
LEMMA BatchRecords ==
    ASSUME Inv, InvLogView, InBatch, InBatch', NEW row, Shaped(row), IsResult(row),
           row.call \in ToSet(Calls),
           log' = Append(log, row), sent' = sent, reply' = reply, recorded' = recorded + 1,
           BatchRows' = Append(BatchRows, row)
    PROVE  /\ InvLogView' /\ Settled' = Settled /\ View' = Append(View, row)
    <1>1. PICK v : v = View
        OBVIOUS
    <1>2. PICK s : s = Settled
        OBVIOUS
    <1>3. PICK b : b = BatchRows
        OBVIOUS
    <1>4. PICK r \in Nat : r = recorded
        BY BatchRowsAre
    <1>5. /\ IsSequence(log) /\ Based(log) /\ IsSequence(v) /\ IsSequence(s) /\ Sound(s)
          /\ IsSequence(sent) /\ IsPrefix(sent, RepairUnanswered(s))
        BY <1>1, <1>2, ViewFacts DEF InvLogView
    <1>6. /\ IsSequence(b) /\ Len(b) = r /\ DOMAIN b = 1 .. r
          /\ \A i \in 1 .. r : /\ b[i] = ToolResult(b[i].call, b[i].how)
                               /\ b[i].call \in ToSet(Calls)
        BY <1>3, <1>4, BatchRowsAre
    <1>7. v = Append(s, reply) \o b /\ r < Len(v)
        BY <1>1, <1>2, <1>3, <1>4 DEF InvLogView
    <1>8. View' = Append(v, row)
        <2>1. ~IsCheckpoint(row) /\ IsMessage(row)
            BY DEF IsCheckpoint, IsMessage, IsResult
        <2> QED  BY <1>1, <1>5, <2>1, DeriveAppend DEF View
    <1>9. IsSequence(Append(v, row)) /\ Len(Append(v, row)) = Len(v) + 1 /\ Len(v) \in Nat
        BY <1>5, AppendIsSequence, SequenceDomain
    <1>10. PICK a : a = Append(s, reply)
        OBVIOUS
    <1>11. PICK c : c = Append(b, row)
        OBVIOUS
    <1>12. /\ IsSequence(c) /\ DOMAIN c = 1 .. (r + 1)
           /\ \A i \in 1 .. r : c[i] = b[i]
           /\ c[r + 1] = row
        BY <1>6, <1>11, AppendIsSequence, SequenceDomain
    <1>13. PICK w : w = <<reply>>
        OBVIOUS
    <1>14. /\ v = s \o (w \o b) /\ Append(v, row) = a \o c
           /\ Append(v, row) = s \o (w \o c)
        <2>1. IsSequence(w) /\ a = s \o w
            BY <1>5, <1>10, <1>13, SingletonIsSequence, AppendOne
        <2>2. (s \o w) \o b = s \o (w \o b) /\ (s \o w) \o c = s \o (w \o c)
            <3>1. IsSequence(s) /\ IsSequence(b) /\ IsSequence(c)
                BY <1>5, <1>6, <1>12
            <3>2. Groups(s, w, b) /\ Groups(s, w, c)
                BY <2>1, <3>1, ConcatGroups
            <3> QED  BY <3>2, Zenon DEF Groups
        <2>3. (s \o w) \o Append(b, row) = Append((s \o w) \o b, row)
            BY <1>5, <1>6, <2>1, BatchGrows
        <2>4. v = (s \o w) \o b
            BY <1>7, <1>10, <2>1, Zenon
        <2> QED  BY <1>11, <2>1, <2>2, <2>3, <2>4, Zenon
    <1>15. Sound(w \o c) /\ OpensRun(w \o c)
        <2>1. \A k \in DOMAIN c : /\ c[k] = ToolResult(c[k].call, c[k].how)
                                  /\ c[k].call \in ToSet(reply.calls)
            <3> SUFFICES ASSUME NEW k \in DOMAIN c
                         PROVE  /\ c[k] = ToolResult(c[k].call, c[k].how)
                                /\ c[k].call \in ToSet(reply.calls)
                OBVIOUS
            <3>1. CASE k = r + 1
                BY <1>12, <3>1 DEF Shaped, Calls
            <3>2. CASE k \in 1 .. r
                BY <1>6, <1>12, <3>2 DEF Calls
            <3> QED  BY <1>12, <3>1, <3>2
        <2>2. reply.type = "assistant" /\ IsSequence(reply.calls)
            BY DEF Inv, InvReply
        <2> QED  BY <1>12, <1>13, <2>1, <2>2, BatchSound
    <1>16. Sound(Append(v, row))
        BY <1>5, <1>15, <1>14, SoundConcat DEF Sound
    <1>17. Settled' = s
        <2>1. Len(Append(v, row)) - (r + 1 + 1) = Len(v) - (r + 1)
            BY <1>9
        <2>2. Settled' = SubSeq(Append(v, row), 1, Len(v) - (r + 1))
            BY <1>4, <1>8, <2>1 DEF Settled
        <2>3. IsSequence(w) /\ Len(w) = 1
            BY <1>13, SingletonIsSequence
        <2>4. IsSequence(w \o b) /\ IsSequence(w \o c) /\ Len(w \o b) = r + 1
            <3>1. Joins(w \o b, w, b) /\ Joins(w \o c, w, c)
                BY <1>6, <1>12, <2>3, ConcatJoins
            <3> QED  BY <1>6, <2>3, <3>1 DEF Joins
        <2>5. Joins(v, s, w \o b) /\ Len(s) \in Nat
            <3>1. Joins(s \o (w \o b), s, w \o b) /\ Len(s) \in Nat
                BY <1>5, <2>4, ConcatJoins, SequenceDomain
            <3> QED  BY <1>14, <3>1, Zenon
        <2>6. Len(v) - (r + 1) = Len(s)
            BY <2>4, <2>5 DEF Joins
        <2>7. SubSeq(s \o (w \o c), 1, Len(s)) = s
            BY <1>5, <2>4, TakeConcat DEF Take
        <2> QED  BY <1>14, <2>2, <2>6, <2>7
    <1>18. Based(log')
        BY <1>5, AppendIsSequence, SequenceDomain DEF Based, IsResult
    <1>19. recorded' < Len(View')
        BY <1>4, <1>7, <1>8, <1>9
    <1>20. View' = Append(Settled, reply)' \o BatchRows'
        BY <1>3, <1>8, <1>10, <1>11, <1>17, <1>14
    <1>21. InvLogView'
        BY <1>2, <1>5, <1>8, <1>16, <1>17, <1>18, <1>19, <1>20 DEF InvLogView
    <1> QED  BY <1>1, <1>2, <1>8, <1>17, <1>21

(* The message of the model reaches the log, with or without a batch.      *)
LEMMA ReplyEnters ==
    ASSUME Inv, InvLogView, pc = "reply", log' = Append(log, reply), sent' = sent,
           reply' = reply, recorded' = recorded
    PROVE  /\ InvLogView' /\ View' = Append(View, reply)
           /\ InBatch' => Settled' = View
           /\ BatchRows' = <<>>
    <1>1. PICK v : v = View
        OBVIOUS
    <1>2. recorded = 0 /\ ~InBatch
        BY DEF Inv, InvControl, InBatch
    <1>3. /\ IsSequence(log) /\ Based(log) /\ IsSequence(v) /\ Sound(v) /\ v = Settled
          /\ IsSequence(sent) /\ IsPrefix(sent, RepairUnanswered(v))
          /\ IsSequence(RepairUnanswered(v))
        BY <1>1, <1>2, ViewFacts
    <1>4. reply.type = "assistant" /\ IsSequence(reply.calls)
        BY DEF Inv, InvReply
    <1>5. View' = Append(v, reply)
        <2>1. ~IsCheckpoint(reply) /\ IsMessage(reply)
            BY <1>4 DEF IsCheckpoint, IsMessage
        <2> QED  BY <1>1, <1>3, <2>1, DeriveAppend DEF View
    <1>6. BatchRows' = <<>>
        <2>1. 1 .. recorded' = {}
            BY <1>2
        <2> QED  BY <2>1 DEF BatchRows
    <1>7. /\ IsSequence(<<reply>>) /\ Sound(<<reply>>) /\ OpensRun(<<reply>>)
          /\ Append(v, reply) = v \o <<reply>>
        <2>1. IsSequence(<<>>) /\ DOMAIN <<>> = {} /\ IsSequence(<<reply>>)
            BY EmptyIsSequence, SingletonIsSequence
        <2>2. <<reply>> \o <<>> = <<reply>>
            BY <2>1, EmptyConcat
        <2>3. Sound(<<reply>> \o <<>>) /\ OpensRun(<<reply>> \o <<>>)
            BY <1>4, <2>1, BatchSound
        <2> QED  BY <1>3, <2>1, <2>2, <2>3, AppendOne
    <1>8. /\ IsSequence(Append(v, reply)) /\ Len(Append(v, reply)) = Len(v) + 1
          /\ Len(v) \in Nat /\ Sound(Append(v, reply))
        <2>1. IsSequence(Append(v, reply)) /\ Len(Append(v, reply)) = Len(v) + 1
            BY <1>3, AppendIsSequence
        <2>2. Len(v) \in Nat
            BY <1>3, SequenceDomain
        <2>3. PICK one : one = <<reply>>
            OBVIOUS
        <2>4. IsSequence(one) /\ Sound(one) /\ OpensRun(one)
            BY <1>7, <2>3
        <2>5. Sound(v \o one)
            BY <1>3, <2>4, SoundConcat
        <2> QED  BY <1>7, <2>1, <2>2, <2>3, <2>5
    <1>9. Based(log')
        BY <1>3, <1>4, AppendIsSequence, SequenceDomain DEF Based
    <1>10. CASE InBatch'
        <2>1. Settled' = v
            <3>1. Settled' = SubSeq(Append(v, reply), 1, Len(v))
                <4>1. Len(Append(v, reply)) - (0 + 1) = Len(v)
                    BY <1>8
                <4> QED  BY <1>2, <1>5, <1>10, <4>1 DEF Settled
            <3> QED  BY <1>3, <1>7, <3>1, TakeConcat DEF Take
        <2>2. View' = Append(Settled, reply)' \o BatchRows'
            BY <1>5, <1>6, <1>8, <2>1, EmptyConcat
        <2>3. recorded' < Len(View')
            BY <1>2, <1>5, <1>8
        <2>4. InvLogView'
            BY <1>3, <1>5, <1>8, <1>9, <2>1, <2>2, <2>3 DEF InvLogView
        <2> QED  BY <1>1, <1>5, <1>6, <2>1, <2>4
    <1>11. CASE ~InBatch'
        <2>1. Settled' = Append(v, reply)
            <3>1. SubSeq(Append(v, reply), 1, Len(Append(v, reply))) = Append(v, reply)
                BY <1>8, TakeEnds DEF Take
            <3>2. Len(Append(v, reply)) - 0 = Len(Append(v, reply))
                BY <1>8
            <3> QED  BY <1>5, <1>11, <3>1, <3>2 DEF Settled
        <2>2. RepairUnanswered(v \o <<reply>>)
                = RepairUnanswered(v) \o RepairUnanswered(<<reply>>)
              /\ IsSequence(RepairUnanswered(<<reply>>))
            BY <1>3, <1>7, RepairConcat, PartsIsList DEF Sound
        <2>3. IsPrefix(sent, RepairUnanswered(Append(v, reply)))
            BY <1>3, <1>7, <2>2, PrefixGrows
        <2>4. InvLogView'
            BY <1>3, <1>5, <1>8, <1>9, <1>11, <2>1, <2>3 DEF InvLogView
        <2> QED  BY <1>1, <1>5, <1>6, <1>11, <2>4
    <1> QED  BY <1>10, <1>11

(* A request is the repaired view, and the next ones extend it.            *)
LEMMA RequestSends ==
    ASSUME Inv, InvLogView, log' = log, ~InBatch, ~InBatch',
           sent' = RepairUnanswered(View)
    PROVE  InvLogView' /\ View' = View
    <1>1. PICK v : v = View
        OBVIOUS
    <1>2. Based(log) /\ Sound(v) /\ IsSequence(RepairUnanswered(v)) /\ v = Settled
        BY <1>1, ViewFacts
    <1>3. IsPrefix(sent', RepairUnanswered(v))
        BY <1>1, <1>2, PrefixSelf
    <1>4. View' = v
        BY <1>1 DEF View
    <1>5. Settled' = v
        BY <1>1, <1>2, <1>4 DEF Settled
    <1> QED  BY <1>1, <1>2, <1>3, <1>4, <1>5 DEF InvLogView

-----------------------------------------------------------------------------
(* What the turn works with.                                               *)

LEMMA AtRest ==
    ASSUME pc' \in {"idle", "open", "end"}
    PROVE  ~InBatch' /\ InvContext'
    BY DEF InBatch, InvContext

(* The variables the view and its parts are read from stay.                *)
LEMMA Calm ==
    ASSUME Inv, InvLogView, UNCHANGED <<log, pc, reply, slots, recorded, sent>>
    PROVE  InvLogView' /\ View' = View /\ Settled' = Settled /\ BatchRows' = BatchRows
    <1>1. BatchRows' = BatchRows
        BY DEF BatchRows, ResultOf, Calls
    <1>2. View' = View /\ InBatch' = InBatch
        BY DEF View, InBatch
    <1>3. Settled' = Settled
        BY <1>2 DEF Settled
    <1>4. InvLogView'
        BY <1>1, <1>2, <1>3 DEF InvLogView
    <1> QED  BY <1>1, <1>2, <1>3, <1>4

LEMMA RunTurnEnds ==
    ASSUME Inv, InvLogView, log' = log, sent' = sent, pc' \in {"idle", "open", "end"}
    PROVE  InvView'
    BY AtRest, LogStands DEF InvView

LEMMA OpenLogView ==
    ASSUME Inv, InvView, OpenLog
    PROVE  InvView'
    <1>1. CASE HostFails
        <2>1. log' = log /\ sent' = sent /\ pc' = "idle"
            BY <1>1 DEF HostFails, Return
        <2> QED  BY <2>1, RunTurnEnds DEF InvView
    <1>2. CASE ~HostFails
        <2>1. /\ log' = log /\ sent' = sent /\ pc' = "frame"
              /\ context' = RepairUnanswered(View)
            BY <1>2 DEF OpenLog, View
        <2>2. InvLogView' /\ View' = View
            BY <2>1, LogStands DEF InvView, InBatch
        <2>3. InvContext'
            BY <2>1, <2>2 DEF InvContext
        <2> QED  BY <2>2, <2>3 DEF InvView
    <1> QED  BY <1>1, <1>2

(* One row of the host's: a turn marker or the prompt.                     *)
LEMMA HostRow ==
    ASSUME Inv, InvLogView, NEW row, row.type \in {"user", "turn_start", "turn_end"},
           log' = Append(log, row), sent' = sent, ~InBatch'
    PROVE  /\ InvLogView'
           /\ RepairUnanswered(View)'
                = IF row.type = "user" THEN Append(RepairUnanswered(View), row)
                  ELSE RepairUnanswered(View)
    <1> DEFINE rows == <<row>>
    <1>1. /\ IsSequence(rows) /\ Len(rows) = 1 /\ rows[1] = row
          /\ DOMAIN rows = {1} /\ log' = log \o rows
        BY SingletonIsSequence, AppendOne DEF Inv, TypeOK
    <1>2. \A k \in DOMAIN rows : rows[k].type \in {"user", "turn_start", "turn_end"}
        BY <1>1
    <1>3. Surface(rows) = IF row.type = "user" THEN rows ELSE <<>>
        <2>1. CASE row.type = "user"
            <3>1. \A k \in DOMAIN rows : IsMessage(rows[k])
                BY <1>1, <2>1 DEF IsMessage
            <3> QED  BY <1>1, <2>1, <3>1, SurfaceMessages
        <2>2. CASE row.type # "user"
            <3>1. \A k \in DOMAIN rows : ~IsMessage(rows[k])
                BY <1>1, <2>2 DEF IsMessage
            <3> QED  BY <1>1, <2>2, <3>1, SurfaceMessages
        <2> QED  BY <2>1, <2>2
    <1> HIDE DEF rows
    <1>4. /\ InvLogView'
          /\ RepairUnanswered(View)' = RepairUnanswered(View) \o Surface(rows)
        BY <1>1, <1>2, LogGrows
    <1>5. PICK w : w = RepairUnanswered(View)
        OBVIOUS
    <1>6. IsSequence(w)
        BY <1>5, ViewFacts
    <1>7. w \o <<>> = w /\ w \o rows = Append(w, row)
        BY <1>6, EmptyConcat, AppendOne DEF rows
    <1> QED  BY <1>3, <1>4, <1>5, <1>7

LEMMA FrameTurnView ==
    ASSUME Inv, InvView, FrameTurn
    PROVE  InvView'
    <1>1. CASE HostFails
        BY <1>1, RunTurnEnds DEF HostFails, Return, InvView
    <1>2. CASE /\ log' = Append(log, TurnStart) /\ pc' = "budget"
               /\ UNCHANGED <<turnVars, sent>>
        <2>1. TurnStart.type = "turn_start"
            BY DEF TurnStart
        <2>2. InvLogView' /\ RepairUnanswered(View)' = RepairUnanswered(View)
            BY <1>2, <2>1, HostRow DEF InvView, InBatch
        <2>3. context' = RepairUnanswered(View)
            BY <1>2 DEF FrameTurn, InvView, InvContext, turnVars
        <2>4. InvContext'
            BY <1>2, <2>2, <2>3 DEF InvContext
        <2> QED  BY <2>2, <2>4 DEF InvView
    <1> QED  BY <1>1, <1>2 DEF FrameTurn

LEMMA PromptView ==
    ASSUME Inv, InvView, Prompt
    PROVE  InvView'
    <1> DEFINE user == User(prompt, "prompt")
    <1>1. CASE HostFails
        BY <1>1, RunTurnEnds DEF HostFails, Return, InvView
    <1>2. CASE /\ log' = Append(log, user) /\ pc' = "prepare"
               /\ context' = Append(context, user) /\ sent' = sent
        <2>1. PICK x : x = user
            OBVIOUS
        <2>2. x.type = "user"
            BY <2>1 DEF User
        <2> HIDE DEF user
        <2>3. InvLogView' /\ RepairUnanswered(View)' = Append(RepairUnanswered(View), x)
            BY <1>2, <2>1, <2>2, HostRow DEF InvView, InBatch
        <2>4. context' = Append(RepairUnanswered(View), x)
            BY <1>2, <2>1 DEF Prompt, InvView, InvContext
        <2>5. InvContext'
            BY <1>2, <2>3, <2>4 DEF InvContext
        <2> QED  BY <2>3, <2>5 DEF InvView
    <1> QED  BY <1>1, <1>2 DEF Prompt

LEMMA BudgetView ==
    ASSUME Inv, InvView, Budget
    PROVE  InvView'
    <1>1. PICK v : v = BudgetCompact(context, pressure)
        OBVIOUS
    <1>2. context = RepairUnanswered(View) /\ pc = "budget"
        BY DEF Budget, InvView, InvContext
    <1>3. CASE HostFails
        BY <1>3, RunTurnEnds DEF HostFails, Return, InvView
    <1>4. CASE log' = log /\ sent' = sent /\ context' = context /\ pc' = "prompt"
        <2>1. InvLogView' /\ View' = View
            BY <1>4, LogStands DEF InvView, InBatch
        <2>2. InvContext'
            BY <1>2, <1>4, <2>1 DEF InvContext
        <2> QED  BY <2>1, <2>2 DEF InvView
    <1>5. CASE /\ log' = Append(log, Compacted(v, DroppedCount(context, v)))
               /\ context' = v /\ sent' = <<>> /\ pc' = "prompt"
        <2>1. PICK row : row = Compacted(v, DroppedCount(context, v))
            OBVIOUS
        <2>2. row.type = "compacted" /\ row.base = v
            BY <2>1 DEF Compacted
        <2>3. Sound(context) /\ CallsAnswered(context)
            BY <1>2, ViewFacts, RepairCloses DEF InvView
        <2>4. Sound(v) /\ CallsAnswered(v)
            BY <1>1, <2>3, BudgetSound
        <2>5. InvLogView' /\ View' = v
            BY <1>5, <2>1, <2>2, <2>4, LogRestarts DEF InvView, InBatch
        <2>6. RepairUnanswered(v) = v
            BY <2>4, RepairClosed DEF Sound
        <2>7. InvContext'
            BY <1>5, <2>5, <2>6 DEF InvContext
        <2> QED  BY <2>5, <2>7 DEF InvView
    <1>6. \/ HostFails
          \/ log' = log /\ sent' = sent /\ context' = context /\ pc' = "prompt"
          \/ /\ log' = Append(log, Compacted(v, DroppedCount(context, v)))
             /\ context' = v /\ sent' = <<>> /\ pc' = "prompt"
        BY <1>1 DEF Budget, turnVars
    <1> QED  BY <1>3, <1>4, <1>5, <1>6

(* The steps between two appends that leave the batch alone.               *)
LEMMA DrainSteerView ==
    ASSUME Inv, InvView, DrainSteer
    PROVE  InvView'
    <1>1. PICK n \in 0 .. Len(steer) :
              /\ log' = log \o Injected(steer, n)
              /\ \/ /\ n = Len(steer) /\ context' = context \o Injected(steer, n)
                    /\ pc' = "ask"
                 \/ LoopFails
        BY Drained
    <1>2. PICK rows : rows = Injected(steer, n)
        OBVIOUS
    <1>3. /\ IsSequence(rows)
          /\ \A k \in DOMAIN rows : rows[k].type = "user"
        <2>1. \A i : User(steer[i], "steer").type = "user"
            BY DEF User
        <2>2. /\ IsSequence(rows) /\ DOMAIN rows = 1 .. n
              /\ \A i \in 1 .. n : rows[i] = User(steer[i], "steer")
            BY <1>2, InjectedRows
        <2> QED  BY <2>1, <2>2
    <1>4. Surface(rows) = rows
        BY <1>3, SurfaceMessages DEF IsMessage
    <1>5. /\ InvLogView'
          /\ RepairUnanswered(View)' = RepairUnanswered(View) \o rows
        <2>1. pc' \in {"ask", "end"} /\ sent' = sent
            BY <1>1 DEF LoopFails, DrainSteer
        <2>2. ~InBatch'
            BY <2>1 DEF InBatch
        <2>3. log' = log \o rows
            BY <1>1, <1>2
        <2>4. \A k \in DOMAIN rows : rows[k].type \in {"user", "turn_start", "turn_end"}
            BY <1>3
        <2>5. InvLogView' /\ RepairUnanswered(View)' = RepairUnanswered(View) \o Surface(rows)
            BY <1>3, <2>1, <2>2, <2>3, <2>4, LogGrows DEF InvView
        <2> QED  BY <1>4, <2>5
    <1>6. CASE LoopFails
        BY <1>5, <1>6, AtRest DEF LoopFails, InvView, DrainSteer
    <1>7. CASE context' = context \o Injected(steer, n) /\ pc' = "ask"
        <2>1. signal' = signal /\ pc = "top"
            BY DEF DrainSteer
        <2>2. ~signal => context = RepairUnanswered(View)
            BY <2>1 DEF InvView, InvContext
        <2>3. ~signal => context' = RepairUnanswered(View)'
            BY <1>2, <1>5, <1>7, <2>2
        <2>4. InvContext'
            BY <1>7, <2>1, <2>3 DEF InvContext
        <2> QED  BY <1>5, <2>4 DEF InvView
    <1> QED  BY <1>1, <1>6, <1>7

LEMMA AskView ==
    ASSUME Inv, InvView, PrepareTurn \/ SkipRequest \/ StreamDone \/ StreamError
    PROVE  InvView'
    <1>1. /\ log' = log /\ sent' = sent /\ context' = context
          /\ pc' \in {"top", "ask", "reply"}
          /\ \/ pc \in {"prepare", "stream"}
             \/ signal'
        BY DEF PrepareTurn, SkipRequest, StreamDone, StreamError, turnVars
    <1>2. InvLogView' /\ View' = View
        BY <1>1, LogStands DEF InvView, InBatch
    <1>3. ~signal' => context' = RepairUnanswered(View)
        BY <1>1 DEF InvView, InvContext
    <1>4. InvContext'
        BY <1>1, <1>2, <1>3 DEF InvContext
    <1> QED  BY <1>2, <1>4 DEF InvView

LEMMA RequestView ==
    ASSUME Inv, InvView, Request
    PROVE  InvView'
    <1>1. /\ log' = log /\ sent' = context /\ context' = context /\ pc' = "stream"
          /\ pc = "ask" /\ ~signal
        BY DEF Request
    <1>2. context = RepairUnanswered(View)
        BY <1>1 DEF InvView, InvContext
    <1>3. InvLogView' /\ View' = View
        BY <1>1, <1>2, RequestSends DEF InvView, InBatch
    <1>4. InvContext'
        BY <1>1, <1>2, <1>3 DEF InvContext
    <1> QED  BY <1>3, <1>4 DEF InvView

LEMMA PersistReplyView ==
    ASSUME Inv, InvView, PersistReply
    PROVE  InvView'
    <1>1. CASE LoopFails /\ UNCHANGED <<log, context>>
        BY <1>1, RunTurnEnds DEF PersistReply, LoopFails, InvView
    <1>2. CASE /\ log' = Append(log, reply) /\ context' = Append(context, reply)
               /\ pc' = CASE reply.stop = "tool_use"   -> "gate"
                          [] reply.stop = "max_tokens" -> "discard"
                          [] OTHER                     -> "end"
        <2>1. pc = "reply" /\ UNCHANGED <<sent, reply, recorded, signal, slots>>
              /\ pc' \in {"gate", "discard", "end"}
            BY <1>2 DEF PersistReply
        <2>2. /\ InvLogView' /\ (InBatch' => Settled' = View) /\ BatchRows' = <<>>
            BY <1>2, <2>1, ReplyEnters DEF InvView
        <2>3. ASSUME InBatch', ~signal'
              PROVE  context' = Append(RepairUnanswered(Settled), reply)'
            <3>1. context = RepairUnanswered(View)
                BY <2>1, <2>3 DEF InvView, InvContext
            <3>2. Settled' = View
                BY <2>2, <2>3
            <3> QED  BY <1>2, <2>1, <3>1, <3>2
        <2>4. ASSUME InBatch', ~signal'
              PROVE  context' = (Append(RepairUnanswered(Settled), reply) \o BatchRows)'
            <3>1. PICK w : w = RepairUnanswered(View)
                OBVIOUS
            <3>2. IsSequence(w)
                BY <3>1, ViewFacts DEF InvView
            <3>3. Append(w, reply) \o <<>> = Append(w, reply)
                BY <3>2, AppendIsSequence, EmptyConcat
            <3>4. Append(RepairUnanswered(Settled), reply)' = Append(w, reply)
                BY <2>1, <2>2, <2>4, <3>1
            <3> QED  BY <2>2, <2>3, <2>4, <3>3, <3>4
        <2>5. InvContext'
            BY <2>1, <2>3, <2>4 DEF InvContext, InBatch
        <2> QED  BY <2>2, <2>5 DEF InvView
    <1> QED  BY <1>1, <1>2 DEF PersistReply

(* Every call of the message has its result: the repair has nothing to add.*)
LEMMA BatchCloses ==
    ASSUME Inv, InvLogView, InBatch, recorded = Len(Calls)
    PROVE  RepairUnanswered(View) = Append(RepairUnanswered(Settled), reply) \o BatchRows
    <1>1. PICK w : w = RepairUnanswered(Settled)
        OBVIOUS
    <1>2. IsSequence(w) /\ RepairUnanswered(View) = w \o RepairUnanswered(Batch)
        BY <1>1, ViewFacts
    <1>3. RepairUnanswered(Batch) = Batch
        BY BatchIs, RepairClosed
    <1>4. IsSequence(BatchRows)
        BY BatchRowsAre
    <1>5. Append(w, reply) \o BatchRows = w \o (<<reply>> \o BatchRows)
        BY <1>2, <1>4, AppendJoins
    <1>6. Append(w, reply) \o BatchRows = w \o Batch
        BY <1>5, Zenon DEF Batch
    <1> QED  BY <1>1, <1>2, <1>3, <1>6

LEMMA DiscardDoneView ==
    ASSUME Inv, InvView, DiscardDone
    PROVE  InvView'
    <1>1. /\ log' = log /\ sent' = sent /\ context' = context /\ pc' = "top"
          /\ pc = "discard" /\ recorded = Len(Calls) /\ signal' = signal
        BY DEF DiscardDone
    <1>2. InvLogView' /\ View' = View
        BY <1>1, LogStands DEF InvView, InBatch
    <1>3. RepairUnanswered(View) = Append(RepairUnanswered(Settled), reply) \o BatchRows
        BY <1>1, BatchCloses DEF InvView, InBatch
    <1>4. ~signal' => context' = RepairUnanswered(View)
        BY <1>1, <1>3 DEF InvView, InvContext
    <1>5. InvContext'
        BY <1>1, <1>2, <1>4 DEF InvContext
    <1> QED  BY <1>2, <1>5 DEF InvView

LEMMA BatchDoneView ==
    ASSUME Inv, InvView, BatchDone
    PROVE  InvView'
    <1>1. /\ log' = log /\ sent' = sent /\ pc' = "top"
          /\ context' = context \o [i \in DOMAIN slots |-> ResultOf(i)]
          /\ pc = "running" /\ recorded = Len(slots) /\ signal' = signal
        BY DEF BatchDone, BatchRecorded
    <1>2. InvLogView' /\ View' = View
        BY <1>1, LogStands DEF InvView, InBatch
    <1>3. [i \in DOMAIN slots |-> ResultOf(i)] = BatchRows
        BY <1>1 DEF BatchRows, Inv, TypeOK, LoopOK
    <1>4. ASSUME ~signal'
          PROVE  context' = RepairUnanswered(View)
        <2>1. Len(slots) = Len(Calls)
            <3>1. Len(slots) \in Nat /\ Len(slots) <= Len(Calls) /\ Len(Calls) \in Nat
                BY <1>1, BatchRowsAre DEF Inv, TypeOK, LoopOK, InBatch
            <3>2. ~(Len(slots) < Len(Calls))
                BY <1>1, <1>4 DEF InvView, InvContext
            <3> QED  BY <3>1, <3>2
        <2>2. context = Append(RepairUnanswered(Settled), reply)
            BY <1>1, <1>4 DEF InvView, InvContext
        <2>3. RepairUnanswered(View) = Append(RepairUnanswered(Settled), reply) \o BatchRows
            BY <1>1, <2>1, BatchCloses DEF InvView, InBatch
        <2> QED  BY <1>1, <1>3, <2>2, <2>3
    <1>5. InvContext'
        BY <1>1, <1>2, <1>4 DEF InvContext
    <1> QED  BY <1>2, <1>5 DEF InvView

LEMMA GateView ==
    ASSUME Inv, InvView, GateCall \/ Dispatch
    PROVE  InvView'
    <1>1. /\ UNCHANGED <<log, sent, reply, recorded, context, signal>>
          /\ pc = "gate" /\ pc' \in {"gate", "running"}
        BY DEF GateCall, Dispatch
    <1>2. recorded = 0
        BY <1>1 DEF Inv, InvControl
    <1>3. BatchRows = <<>> /\ BatchRows' = <<>>
        <2>1. 1 .. recorded = {} /\ 1 .. recorded' = {}
            BY <1>1, <1>2
        <2>2. BatchRows = <<>>
            BY <2>1 DEF BatchRows
        <2>3. BatchRows' = <<>>
            BY <2>1 DEF BatchRows
        <2> QED  BY <2>2, <2>3
    <1>4. InvLogView' /\ View' = View /\ Settled' = Settled
        BY <1>1, <1>3, BatchStands DEF InvView, InBatch
    <1>5. pc' = "running" /\ Len(slots') < Len(Calls') => signal'
        <2> SUFFICES ASSUME Dispatch, Len(slots) < Len(Calls)
                     PROVE  signal
            BY <1>1 DEF GateCall, Dispatch, Calls
        <2>1. Len(slots) \in Nat /\ Len(Calls) \in Nat
            BY <1>1, BatchRowsAre DEF Inv, TypeOK, LoopOK, InBatch
        <2> QED  BY <2>1 DEF Dispatch
    <1>6. ~signal' => context' = Append(RepairUnanswered(Settled), reply)'
        BY <1>1, <1>4 DEF InvView, InvContext
    <1>7. InvContext'
        BY <1>1, <1>5, <1>6 DEF InvContext
    <1> QED  BY <1>4, <1>7 DEF InvView

(* One more result joins the batch.                                        *)
LEMMA NextRow ==
    ASSUME Inv, InBatch, NEW row, recorded' = recorded + 1,
           \A i \in 1 .. recorded : BatchRows'[i] = BatchRows[i],
           BatchRows'[recorded + 1] = row
    PROVE  BatchRows' = Append(BatchRows, row)
    <1>1. PICK b : b = BatchRows
        OBVIOUS
    <1>2. PICK r \in Nat : r = recorded
        BY BatchRowsAre
    <1>3. PICK c : c = BatchRows'
        OBVIOUS
    <1>4. IsSequence(b) /\ Len(b) = r /\ DOMAIN b = 1 .. r
        BY <1>1, <1>2, BatchRowsAre
    <1>5. c = [i \in 1 .. (r + 1) |-> c[i]]
        BY <1>2, <1>3 DEF BatchRows
    <1>6. IsSequence(c) /\ Len(c) = r + 1
        BY <1>5, ListIsSequence
    <1>7. PICK a : a = Append(b, row)
        OBVIOUS
    <1>8. /\ IsSequence(a) /\ Len(a) = r + 1
          /\ \A i \in 1 .. r : a[i] = b[i]
          /\ a[r + 1] = row
        BY <1>4, <1>7, AppendIsSequence
    <1>9. \A i \in 1 .. (r + 1) : a[i] = c[i]
        BY <1>1, <1>2, <1>3, <1>8
    <1>10. a = c
        BY <1>6, <1>8, <1>9, SameSequence
    <1> QED  BY <1>1, <1>3, <1>7, <1>10

LEMMA DiscardCallView ==
    ASSUME Inv, InvView, DiscardCall
    PROVE  InvView'
    <1>1. CASE LoopFails /\ UNCHANGED <<log, context, recorded>>
        BY <1>1, RunTurnEnds DEF DiscardCall, LoopFails, InvView
    <1>2. CASE /\ log' = Append(log, ToolResult(Calls[recorded + 1], "failed"))
               /\ context' = Append(context, ToolResult(Calls[recorded + 1], "failed"))
               /\ recorded' = recorded + 1 /\ pc' = pc
        <2>1. PICK row : row = ToolResult(Calls[recorded + 1], "failed")
            OBVIOUS
        <2>2. /\ pc = "discard" /\ recorded < Len(Calls)
              /\ UNCHANGED <<sent, reply, signal, slots>>
            BY DEF DiscardCall
        <2>3. InBatch /\ InBatch'
            BY <1>2, <2>2 DEF InBatch
        <2>4. /\ recorded + 1 \in DOMAIN Calls
              /\ recorded \in Nat
            BY <2>2, <2>3, BatchRowsAre
        <2>5. Shaped(row) /\ IsResult(row) /\ row.call \in ToSet(Calls)
            BY <2>1, <2>4 DEF Shaped, IsResult, ToolResult, ToSet
        <2>6. BatchRows' = Append(BatchRows, row)
            <3>1. \A i \in 1 .. recorded : BatchRows'[i] = BatchRows[i]
                BY <1>2, <2>2, <2>4 DEF BatchRows, Calls
            <3>2. BatchRows'[recorded + 1] = row
                <4>1. recorded + 1 \in 1 .. recorded'
                    BY <1>2, <2>4
                <4> QED  BY <1>2, <2>1, <2>2, <4>1 DEF BatchRows, Calls
            <3> QED  BY <1>2, <2>3, <3>1, <3>2, NextRow
        <2>7. InvLogView' /\ Settled' = Settled
            BY <1>2, <2>1, <2>2, <2>3, <2>5, <2>6, BatchRecords DEF InvView
        <2>8. ASSUME ~signal'
              PROVE  context' = (Append(RepairUnanswered(Settled), reply) \o BatchRows)'
            <3>1. PICK w : w = RepairUnanswered(Settled)
                OBVIOUS
            <3>2. IsSequence(Append(w, reply)) /\ IsSequence(BatchRows)
                BY <2>3, <3>1, ViewFacts, AppendIsSequence, BatchRowsAre DEF InvView
            <3>3. context = Append(w, reply) \o BatchRows
                BY <2>2, <2>8, <3>1 DEF InvView, InvContext
            <3>4. Append(w, reply) \o Append(BatchRows, row)
                    = Append(Append(w, reply) \o BatchRows, row)
                BY <3>2, AppendToConcat
            <3>5. context' = Append(w, reply) \o Append(BatchRows, row)
                BY <1>2, <2>1, <3>3, <3>4, Zenon
            <3> QED  BY <2>2, <2>6, <2>7, <3>1, <3>5
        <2>9. InvContext'
            BY <1>2, <2>2, <2>8 DEF InvContext
        <2> QED  BY <2>7, <2>9 DEF InvView
    <1> QED  BY <1>1, <1>2 DEF DiscardCall

LEMMA RecordResultView ==
    ASSUME Inv, InvView, RecordResult
    PROVE  InvView'
    <1>1. CASE LoopFails /\ UNCHANGED <<log, recorded>>
        BY <1>1, RunTurnEnds DEF RecordResult, LoopFails, InvView
    <1>2. CASE /\ log' = Append(log, ResultOf(recorded + 1))
               /\ recorded' = recorded + 1 /\ pc' = pc
        <2>1. PICK row : row = ResultOf(recorded + 1)
            OBVIOUS
        <2>2. /\ pc = "running" /\ recorded < Len(slots)
              /\ UNCHANGED <<sent, reply, signal, slots, context>>
            BY DEF RecordResult
        <2>3. InBatch /\ InBatch'
            BY <1>2, <2>2 DEF InBatch
        <2>4. recorded + 1 \in DOMAIN Calls /\ recorded \in Nat
            BY <2>2, <2>3, BatchRowsAre DEF Inv, TypeOK, LoopOK
        <2>5. Shaped(row) /\ IsResult(row) /\ row.call \in ToSet(Calls)
            BY <2>1, <2>4 DEF Shaped, IsResult, ToolResult, ResultOf, ToSet
        <2>6. BatchRows' = Append(BatchRows, row)
            <3>1. \A i \in 1 .. recorded : BatchRows'[i] = BatchRows[i]
                BY <1>2, <2>2, <2>4 DEF BatchRows, ResultOf, Calls
            <3>2. BatchRows'[recorded + 1] = row
                <4>1. recorded + 1 \in 1 .. recorded'
                    BY <1>2, <2>4
                <4> QED  BY <1>2, <2>1, <2>2, <4>1 DEF BatchRows, ResultOf, Calls
            <3> QED  BY <1>2, <2>3, <3>1, <3>2, NextRow
        <2>7. InvLogView' /\ Settled' = Settled
            BY <1>2, <2>1, <2>2, <2>3, <2>5, <2>6, BatchRecords DEF InvView
        <2>8. /\ Len(slots') < Len(Calls') => signal'
              /\ ~signal' => context' = Append(RepairUnanswered(Settled), reply)'
            BY <2>2, <2>7 DEF InvView, InvContext, Calls
        <2>9. InvContext'
            BY <1>2, <2>2, <2>8 DEF InvContext
        <2> QED  BY <2>7, <2>9 DEF InvView
    <1> QED  BY <1>1, <1>2 DEF RecordResult

(* Nothing of the turn moves, but a cancel may arrive or a tool end.       *)
LEMMA CalmView ==
    ASSUME Inv, InvView, UNCHANGED <<log, pc, context, reply, slots, recorded, sent>>,
           signal => signal'
    PROVE  InvView'
    <1>1. InvLogView' /\ View' = View /\ Settled' = Settled /\ BatchRows' = BatchRows
        BY Calm DEF InvView
    <1>2. Calls' = Calls
        BY DEF Calls
    <1>3. ~signal' => ~signal
        OBVIOUS
    <1>4. /\ pc \in {"frame", "budget", "prompt", "prepare", "stream"} =>
                context' = RepairUnanswered(View)'
          /\ pc = "stream" => sent' = context'
          /\ pc = "running" /\ Len(slots') < Len(Calls') => signal'
        BY <1>1, <1>2 DEF InvView, InvContext
    <1>5. ASSUME ~signal'
          PROVE  /\ pc \in {"top", "ask", "reply"} => context' = RepairUnanswered(View)'
                 /\ pc \in {"gate", "running"} =>
                       context' = Append(RepairUnanswered(Settled), reply)'
                 /\ pc = "discard" =>
                       context' = (Append(RepairUnanswered(Settled), reply) \o BatchRows)'
        BY <1>1, <1>3, <1>5 DEF InvView, InvContext
    <1>6. InvContext'
        BY <1>4, <1>5 DEF InvContext
    <1> QED  BY <1>1, <1>6 DEF InvView

LEMMA MarkClearedView ==
    ASSUME InvSlot, Inv, InvView, MarkCleared
    PROVE  InvView'
    <1>1. pc = "idle" /\ pc' = "idle" /\ ~InBatch'
        BY DEF MarkCleared, InvSlot, InBatch
    <1>2. CASE log' = Append(log, Cleared) /\ sent' = <<>>
        <2>1. PICK row : row = Cleared
            OBVIOUS
        <2>2. row.type = "cleared"
            BY <2>1 DEF Cleared
        <2>3. InvLogView'
            BY <1>1, <1>2, <2>1, <2>2, LogRestarts DEF InvView
        <2> QED  BY <1>1, <2>3, AtRest DEF InvView
    <1>3. CASE UNCHANGED <<log, sent>>
        BY <1>1, <1>3, RunTurnEnds DEF InvView
    <1> QED  BY <1>2, <1>3 DEF MarkCleared

LEMMA EndTurnView ==
    ASSUME Inv, InvView, EndTurn
    PROVE  InvView'
    <1>1. pc' = "idle" /\ sent' = sent /\ ~InBatch'
        BY DEF EndTurn, Return, InBatch
    <1>2. CASE log' = Append(log, TurnEnd(Reason))
        <2>1. PICK row : row = TurnEnd(Reason)
            OBVIOUS
        <2>2. row.type = "turn_end"
            BY <2>1 DEF TurnEnd
        <2>3. InvLogView'
            BY <1>1, <1>2, <2>1, <2>2, HostRow DEF InvView
        <2> QED  BY <1>1, <2>3, AtRest DEF InvView
    <1>3. CASE log' = log
        BY <1>1, <1>3, RunTurnEnds DEF InvView
    <1> QED  BY <1>2, <1>3 DEF EndTurn

LEMMA ViewStep ==
    ASSUME InvSlot, Inv, InvView, [Next]_vars
    PROVE  InvView'
    <1>1. CASE RunTurn \/ LoopExhausted \/ Crash
        <2>1. log' = log /\ sent' = sent /\ pc' \in {"idle", "open", "end"}
            BY <1>1 DEF RunTurn, LoopExhausted, Crash, Return
        <2> QED  BY <2>1, RunTurnEnds DEF InvView
    <1>2. CASE ToolEnds \/ Steer \/ Cancel \/ BeginClear \/ UNCHANGED vars
        <2>1. UNCHANGED <<log, pc, context, reply, slots, recorded, sent>>
            BY <1>2 DEF ToolEnds, Steer, Cancel, BeginClear, vars, turnVars
        <2>2. signal => signal'
            BY <1>2, Zenon DEF ToolEnds, Steer, Cancel, BeginClear, vars, turnVars
        <2> QED  BY <2>1, <2>2, CalmView
    <1> QED  BY <1>1, <1>2, OpenLogView, FrameTurnView, BudgetView, PromptView, AskView,
                DrainSteerView, RequestView, PersistReplyView, DiscardCallView,
                DiscardDoneView, GateView, RecordResultView, BatchDoneView, EndTurnView,
                MarkClearedView
             DEF Next, TurnStep, HostStep, Awaited, Environment, Finished

(* What the turn works with is the repaired view of the log, and that view *)
(* is sound, at every step: what stands behind the theorems on requests.   *)
(* A /clear that overlaps a turn leaves the turn with a view of its own.   *)
THEOREM ViewInvariance ==
    ASSUME ~Desktop
    PROVE  Spec => []InvView
    <1>1. Init => InvView
        <2> SUFFICES ASSUME Init PROVE InvView
            OBVIOUS
        <2>1. log = <<>> /\ sent = <<>> /\ pc = "idle" /\ ~InBatch
            BY DEF Init, InBatch
        <2>2. Based(log) /\ IsSequence(log) /\ DOMAIN log = {}
            BY <2>1, EmptyIsSequence DEF Based
        <2>3. View = <<>>
            BY <2>1, EmptyView DEF View
        <2>4. Settled = <<>>
            <3>1. SubSeq(<<>>, 1, Len(<<>>)) = <<>> /\ Len(<<>>) - 0 = Len(<<>>)
                BY EmptyIsSequence, TakeEnds, SequenceDomain DEF Take
            <3> QED  BY <2>1, <2>3, <3>1 DEF Settled
        <2>5. Sound(<<>>) /\ RepairUnanswered(<<>>) = <<>> /\ IsPrefix(<<>>, <<>>)
            BY EmptySound, PrefixSelf, EmptyIsSequence
        <2>6. InvLogView
            BY <2>1, <2>2, <2>3, <2>4, <2>5, EmptyIsSequence DEF InvLogView
        <2>7. InvContext
            BY <2>1 DEF InvContext
        <2> QED  BY <2>6, <2>7 DEF InvView
    <1>2. InvSlot /\ Inv /\ InvView /\ [Next]_vars => InvView'
        BY ViewStep
    <1> QED  BY <1>1, <1>2, Invariance, SlotInvariance, PTL DEF Spec

(* In every request a declared call is answered among the results that     *)
(* follow its message at once, and no result stands without its call,      *)
(* after aborts, failed appends, crashes and compactions alike.            *)
THEOREM RequestsAreWellFormed ==
    ASSUME ~Desktop
    PROVE  Spec => []WireWellFormed
    <1>1. Inv /\ InvView => WireWellFormed
        <2> SUFFICES ASSUME Inv, InvView, pc = "stream"
                     PROVE  CallsAnswered(sent) /\ NoOrphanResults(sent)
            BY DEF WireWellFormed
        <2>1. sent = RepairUnanswered(View)
            BY DEF InvView, InvContext
        <2>2. Sound(RepairUnanswered(View)) /\ CallsAnswered(RepairUnanswered(View))
            BY ViewFacts, RepairCloses DEF InvView
        <2> QED  BY <2>1, <2>2 DEF Sound
    <1> QED  BY <1>1, Invariance, ViewInvariance, PTL

(* What a request sends is what a restart would derive from the log.       *)
THEOREM RequestsArePersisted ==
    ASSUME ~Desktop
    PROVE  Spec => []SendWhatYouPersist
    <1>1. InvView => SendWhatYouPersist
        BY DEF InvView, InvContext, View, SendWhatYouPersist
    <1> QED  BY <1>1, ViewInvariance, PTL

LEMMA OnlyRequests ==
    ASSUME [Next]_vars, pc = "ask", pc' = "stream"
    PROVE  Request
    <1>1. CASE Environment
        BY <1>1 DEF Environment, RunTurn, Steer, Cancel, BeginClear, MarkCleared, Crash,
                    Return, turnVars
    <1>2. CASE TurnStep
        BY <1>2
        DEF TurnStep, HostStep, Awaited, OpenLog, HostFails, FrameTurn, Budget, Prompt, PrepareTurn, LoopExhausted,
            DrainSteer, SkipRequest, StreamDone, StreamError, PersistReply, DiscardCall,
            DiscardDone, GateCall, Dispatch, ToolEnds, RecordResult, BatchDone, EndTurn
    <1>3. CASE UNCHANGED vars
        BY <1>3 DEF vars
    <1> QED  BY <1>1, <1>2, <1>3 DEF Next, Finished

LEMMA RequestExtends ==
    ASSUME Inv, InvView, Request
    PROVE  IsPrefix(sent, sent')
    <1>1. sent' = context /\ pc = "ask" /\ ~signal
        BY DEF Request
    <1>2. context = RepairUnanswered(View)
        BY <1>1 DEF InvView, InvContext
    <1>3. IsPrefix(sent, RepairUnanswered(View))
        BY ViewFacts DEF InvView
    <1> QED  BY <1>1, <1>2, <1>3

(* Between two checkpoints a request extends the request before it.        *)
THEOREM RequestsExtend ==
    ASSUME ~Desktop
    PROVE  Spec => PrefixStable
    <1>1. Inv /\ InvView /\ [Next]_vars
             => [pc = "ask" /\ pc' = "stream" => IsPrefix(sent, sent')]_vars
        BY OnlyRequests, RequestExtends
    <1> QED  BY <1>1, Invariance, ViewInvariance, PTL DEF Spec, PrefixStable

-----------------------------------------------------------------------------
(* Nothing typed is lost.                                                  *)

Steered(row) == row.type = "user" /\ row.from = "steer"

SteeredRows(l) == ElementsAt(l, {k \in DOMAIN l : Steered(l[k])})

UserTexts(l) == {row.text : row \in {r \in ToSet(l) : r.type = "user"}}

LEMMA SteeredTextsAre ==
    ASSUME NEW l, IsSequence(l)
    PROVE  /\ IsSequence(SteeredRows(l)) /\ IsSequence(SteeredTexts(l))
           /\ Len(SteeredTexts(l)) = Len(SteeredRows(l))
           /\ DOMAIN SteeredTexts(l) = DOMAIN SteeredRows(l)
           /\ \A i \in DOMAIN SteeredRows(l) : SteeredTexts(l)[i] = SteeredRows(l)[i].text
           /\ Range(SteeredTexts(l)) \subseteq UserTexts(l)
    <1> DEFINE P == {k \in DOMAIN l : Steered(l[k])}
    <1>1. P = {k \in DOMAIN l : l[k].type = "user" /\ l[k].from = "steer"}
        BY DEF Steered
    <1>2. PICK rows : rows = SteeredRows(l)
        OBVIOUS
    <1>3. SteeredTexts(l) = [i \in DOMAIN rows |-> rows[i].text]
        BY <1>1, <1>2, Zenon DEF SteeredTexts, SteeredRows
    <1>4. IsSequence(rows) /\ Range(rows) = {l[k] : k \in P \cap DOMAIN l}
        BY <1>2, ElementsRange DEF SteeredRows
    <1>5. PICK t : t = SteeredTexts(l)
        OBVIOUS
    <1>6. PICK n \in Nat : n = Len(rows) /\ DOMAIN rows = 1 .. n
        BY <1>4, SequenceDomain
    <1>7. t = [i \in 1 .. n |-> t[i]] /\ \A i \in 1 .. n : t[i] = rows[i].text
        BY <1>3, <1>5, <1>6
    <1>8. IsSequence(t) /\ Len(t) = n /\ DOMAIN t = 1 .. n
        BY <1>7, ListIsSequence
    <1>9. Range(t) \subseteq UserTexts(l)
        <2> SUFFICES ASSUME NEW i \in 1 .. n
                     PROVE  t[i] \in UserTexts(l)
            BY <1>8 DEF Range
        <2>1. rows[i] \in Range(rows)
            BY <1>6 DEF Range
        <2>2. PICK k \in P : rows[i] = l[k]
            BY <1>4, <2>1
        <2>3. l[k] \in ToSet(l) /\ l[k].type = "user"
            BY DEF ToSet, Steered
        <2> QED  BY <1>7, <2>2, <2>3 DEF UserTexts
    <1> QED  BY <1>2, <1>4, <1>5, <1>6, <1>7, <1>8, <1>9

LEMMA SteeredConcat ==
    ASSUME NEW l, IsSequence(l), NEW m, IsSequence(m)
    PROVE  SteeredTexts(l \o m) = SteeredTexts(l) \o SteeredTexts(m)
    <1>1. Joins(l \o m, l, m)
        BY ConcatJoins
    <1>2. PICK u : u = l \o m
        OBVIOUS
    <1>3. IsSequence(u) /\ Len(u) = Len(l) + Len(m)
          /\ (\A i \in DOMAIN l : u[i] = l[i]) /\ (\A i \in DOMAIN m : u[Len(l) + i] = m[i])
        BY <1>1, <1>2 DEF Joins
    <1> DEFINE P == {k \in DOMAIN u : Steered(u[k])}
               A == {k \in DOMAIN l : Steered(l[k])}
               B == {k \in DOMAIN m : Steered(m[k])}
    <1>4. /\ Len(l) \in Nat /\ DOMAIN l = 1 .. Len(l)
          /\ Len(m) \in Nat /\ DOMAIN m = 1 .. Len(m)
          /\ DOMAIN u = 1 .. Len(u)
        BY <1>3, SequenceDomain
    <1>5. \A k \in DOMAIN m : k \in B <=> Len(l) + k \in P
        BY <1>3, <1>4
    <1>6. ElementsAt(l \o m, P) = ElementsAt(l, P) \o ElementsAt(m, B)
        <2> HIDE DEF P, B
        <2>1. ElementsFollow(l, m, P, B)
            BY <1>5, ElementsConcat
        <2> QED  BY <2>1, Zenon DEF ElementsFollow
    <1>7. ElementsAt(l, P) = ElementsAt(l, A)
        <2>1. \A k \in DOMAIN l : k \in P <=> k \in A
            BY <1>3, <1>4
        <2>2. [k \in DOMAIN l |-> IF k \in P THEN <<l[k]>> ELSE <<>>]
                = [k \in DOMAIN l |-> IF k \in A THEN <<l[k]>> ELSE <<>>]
            <3> HIDE DEF P, A
            <3> QED  BY <2>1
        <2> HIDE DEF P, A
        <2> QED  BY <2>2, Zenon DEF ElementsAt
    <1>8. SteeredRows(u) = SteeredRows(l) \o SteeredRows(m)
        BY <1>2, <1>6, <1>7, Zenon DEF SteeredRows
    <1>9. PICK a : a = SteeredRows(l)
        OBVIOUS
    <1>10. PICK b : b = SteeredRows(m)
        OBVIOUS
    <1>11. PICK c : c = SteeredRows(u)
        OBVIOUS
    <1>12. /\ IsSequence(a) /\ IsSequence(b) /\ IsSequence(c)
           /\ IsSequence(SteeredTexts(l)) /\ IsSequence(SteeredTexts(m))
           /\ IsSequence(SteeredTexts(u))
           /\ Len(SteeredTexts(l)) = Len(a) /\ Len(SteeredTexts(m)) = Len(b)
           /\ Len(SteeredTexts(u)) = Len(c)
           /\ \A i \in DOMAIN a : SteeredTexts(l)[i] = a[i].text
           /\ \A i \in DOMAIN b : SteeredTexts(m)[i] = b[i].text
           /\ \A i \in DOMAIN c : SteeredTexts(u)[i] = c[i].text
        BY <1>3, <1>9, <1>10, <1>11, SteeredTextsAre
    <1>13. Joins(c, a, b)
        <2>1. Joins(a \o b, a, b)
            BY <1>12, ConcatJoins
        <2> QED  BY <1>8, <1>9, <1>10, <1>11, <2>1, Zenon
    <1>14. PICK s : s = SteeredTexts(l)
        OBVIOUS
    <1>15. PICK t : t = SteeredTexts(m)
        OBVIOUS
    <1>16. PICK v : v = SteeredTexts(u)
        OBVIOUS
    <1>17. Joins(s \o t, s, t)
        BY <1>12, <1>14, <1>15, ConcatJoins
    <1>18. PICK w : w = s \o t
        OBVIOUS
    <1>19. Joins(w, s, t)
        BY <1>17, <1>18, Zenon
    <1>20. /\ Len(a) \in Nat /\ DOMAIN a = 1 .. Len(a)
           /\ Len(b) \in Nat /\ DOMAIN b = 1 .. Len(b)
           /\ Len(c) = Len(a) + Len(b) /\ DOMAIN c = 1 .. Len(c)
           /\ DOMAIN s = 1 .. Len(a) /\ DOMAIN t = 1 .. Len(b)
        BY <1>12, <1>13, <1>14, <1>15, SequenceDomain DEF Joins
    <1>21. Len(v) = Len(w) /\ IsSequence(v) /\ IsSequence(w) /\ Len(v) = Len(a) + Len(b)
        BY <1>12, <1>14, <1>15, <1>16, <1>19, <1>20 DEF Joins
    <1>22. ASSUME NEW i \in 1 .. Len(v)
           PROVE  v[i] = w[i]
        <2>1. CASE i \in 1 .. Len(a)
            BY <1>12, <1>13, <1>14, <1>16, <1>19, <1>20, <1>21, <2>1 DEF Joins
        <2>2. CASE i \in (Len(a) + 1) .. (Len(a) + Len(b))
            <3>1. PICK j \in 1 .. Len(b) : i = Len(a) + j
                <4>1. PICK p \in Nat : p = Len(a)
                    BY <1>20
                <4>2. PICK q \in Nat : q = Len(b)
                    BY <1>20
                <4>3. i - p \in 1 .. q /\ i = p + (i - p)
                    BY <2>2, <4>1, <4>2
                <4> QED  BY <4>1, <4>2, <4>3
            <3>2. c[i] = b[j] /\ i \in DOMAIN c
                BY <1>13, <1>20, <3>1 DEF Joins
            <3>3. w[Len(s) + j] = t[j]
                BY <1>19, <1>20, <3>1 DEF Joins
            <3>4. Len(s) = Len(a)
                BY <1>12, <1>14
            <3>5. v[i] = c[i].text /\ t[j] = b[j].text
                BY <1>12, <1>15, <1>16, <1>20, <3>1, <3>2
            <3> QED  BY <3>1, <3>2, <3>3, <3>4, <3>5
        <2> QED  BY <1>20, <1>21, <2>1, <2>2
    <1>23. v = w
        BY <1>21, <1>22, SameSequence
    <1> QED  BY <1>2, <1>14, <1>15, <1>16, <1>18, <1>23, Zenon

LEMMA UserTextsConcat ==
    ASSUME NEW l, IsSequence(l), NEW m, IsSequence(m)
    PROVE  UserTexts(l \o m) = UserTexts(l) \cup UserTexts(m)
    <1>1. Range(l \o m) = Range(l) \cup Range(m)
        BY RangeConcat
    <1>2. ToSet(l \o m) = ToSet(l) \cup ToSet(m)
        BY <1>1 DEF ToSet, Range
    <1> QED  BY <1>2 DEF UserTexts


(* What a step does to the texts: the queue is injected or lost, or a text *)
(* joins it, or at most the prompt reaches the log.                        *)
HostRows ==
    /\ steer' = steer
    /\ \/ log' = log
       \/ \E row : /\ log' = Append(log, row) /\ ~Steered(row)
                   /\ row.type = "user" => row = User(prompt, "prompt") /\ pc = "prompt"

LEMMA InputStep ==
    ASSUME Inv, [Next]_vars
    PROVE  DrainSteer \/ Steer \/ Crash \/ (HostRows /\ ~DrainSteer)
    <1>1. CASE \/ RunTurn \/ OpenLog \/ PrepareTurn \/ LoopExhausted \/ SkipRequest
               \/ Request \/ StreamDone \/ StreamError \/ DiscardDone \/ GateCall
               \/ Dispatch \/ ToolEnds \/ BatchDone \/ Cancel \/ BeginClear
               \/ UNCHANGED vars
        <2>1. log' = log /\ steer' = steer
            BY <1>1 DEF RunTurn, OpenLog, HostFails, PrepareTurn, LoopExhausted, SkipRequest, Request,
                        StreamDone, StreamError, DiscardDone, GateCall, Dispatch, ToolEnds,
                        BatchDone, Cancel, BeginClear, vars
        <2> QED  BY <2>1 DEF HostRows
    <1>2. CASE FrameTurn
        <2>1. ~Steered(TurnStart) /\ TurnStart.type # "user"
            BY DEF Steered, TurnStart
        <2> QED  BY <1>2, <2>1 DEF FrameTurn, HostFails, HostRows
    <1>3. CASE Budget
        <2>1. PICK row : row = Compacted(BudgetCompact(context, pressure),
                               DroppedCount(context, BudgetCompact(context, pressure)))
            OBVIOUS
        <2>2. ~Steered(row) /\ row.type # "user"
            BY <2>1 DEF Steered, Compacted
        <2>3. steer' = steer /\ (log' = log \/ log' = Append(log, row))
            BY <1>3, <2>1 DEF Budget, HostFails
        <2> QED  BY <2>2, <2>3 DEF HostRows
    <1>4. CASE Prompt
        <2>1. PICK row : row = User(prompt, "prompt")
            OBVIOUS
        <2>2. ~Steered(row)
            BY <2>1 DEF Steered, User
        <2>3. steer' = steer /\ (log' = log \/ log' = Append(log, row)) /\ pc = "prompt"
            BY <1>4, <2>1 DEF Prompt, HostFails
        <2> QED  BY <2>1, <2>2, <2>3 DEF HostRows
    <1>5. CASE PersistReply
        <2>1. ~Steered(reply) /\ reply.type # "user"
            BY DEF Steered, Inv, InvReply
        <2> QED  BY <1>5, <2>1 DEF PersistReply, HostRows
    <1>6. CASE DiscardCall \/ RecordResult
        <2>1. PICK row : row \in {ToolResult(Calls[recorded + 1], "failed"),
                                  ResultOf(recorded + 1)}
                         /\ (log' = log \/ log' = Append(log, row))
            BY <1>6 DEF DiscardCall, RecordResult
        <2>2. ~Steered(row) /\ row.type # "user"
            BY <2>1 DEF Steered, ToolResult, ResultOf
        <2>3. steer' = steer
            BY <1>6 DEF DiscardCall, RecordResult
        <2> QED  BY <2>1, <2>2, <2>3 DEF HostRows
    <1>7. CASE EndTurn
        <2>1. ~Steered(TurnEnd(Reason)) /\ TurnEnd(Reason).type # "user"
            BY DEF Steered, TurnEnd
        <2> QED  BY <1>7, <2>1 DEF EndTurn, HostRows
    <1>8. CASE MarkCleared
        <2>1. ~Steered(Cleared) /\ Cleared.type # "user"
            BY DEF Steered, Cleared
        <2> QED  BY <1>8, <2>1 DEF MarkCleared, HostRows
    <1> QED  BY <1>1, <1>2, <1>3, <1>4, <1>5, <1>6, <1>7, <1>8
             DEF Next, TurnStep, HostStep, Awaited, Environment, Finished

(* The texts that reach the log with a drained queue.                      *)
LEMMA InjectedTexts ==
    ASSUME Inv, NEW n \in 0 .. Len(steer)
    PROVE  /\ SteeredTexts(Injected(steer, n)) = Take(steer, n)
           /\ UserTexts(Injected(steer, n)) = Range(Take(steer, n))
    <1>1. PICK rows : rows = Injected(steer, n)
        OBVIOUS
    <1>2. /\ IsSequence(rows) /\ Len(rows) = n /\ DOMAIN rows = 1 .. n
          /\ \A i \in 1 .. n : rows[i] = User(steer[i], "steer")
        BY <1>1, InjectedRows
    <1>3. IsSequence(steer) /\ n \in Nat
        <2>1. steer \in Seq(1 .. typed)
            BY DEF Inv, TypeOK, InputOK
        <2> QED  BY <2>1, TypedIsSequence
    <1>4. PICK t : t = Take(steer, n)
        OBVIOUS
    <1>5. /\ IsSequence(t) /\ Len(t) = n /\ DOMAIN t = 1 .. n
          /\ \A i \in 1 .. n : t[i] = steer[i]
        BY <1>3, <1>4, TakeProperties
    <1>6. \A i \in 1 .. n : /\ rows[i].type = "user" /\ rows[i].from = "steer"
                            /\ rows[i].text = t[i]
        BY <1>2, <1>5 DEF User
    <1>7. SteeredRows(rows) = rows
        <2> DEFINE P == {k \in DOMAIN rows : Steered(rows[k])}
        <2>1. P = DOMAIN rows
            BY <1>2, <1>6 DEF Steered
        <2>2. \A k \in DOMAIN rows : k \in P
            BY <2>1
        <2> HIDE DEF P
        <2>3. ElementsAt(rows, P) = rows
            BY <1>2, <2>2, ElementsAll
        <2> QED  BY <2>3, Zenon DEF SteeredRows, P
    <1>8. PICK s : s = SteeredTexts(rows)
        OBVIOUS
    <1>9. /\ IsSequence(s) /\ Len(s) = n
          /\ \A i \in 1 .. n : s[i] = rows[i].text
        BY <1>2, <1>7, <1>8, SteeredTextsAre
    <1>10. s = t
        BY <1>5, <1>6, <1>9, SameSequence
    <1>11. UserTexts(rows) = Range(t)
        BY <1>2, <1>5, <1>6 DEF UserTexts, ToSet, Range
    <1> QED  BY <1>1, <1>4, <1>8, <1>10, <1>11


LEMMA SteeredNone ==
    ASSUME NEW m, IsSequence(m), \A k \in DOMAIN m : ~Steered(m[k])
    PROVE  SteeredTexts(m) = <<>>
    <1> DEFINE P == {k \in DOMAIN m : Steered(m[k])}
    <1>1. \A k \in DOMAIN m : k \notin P
        OBVIOUS
    <1> HIDE DEF P
    <1>2. ElementsAt(m, P) = <<>>
        BY <1>1, ElementsNone
    <1>3. SteeredRows(m) = <<>>
        BY <1>2, Zenon DEF SteeredRows, P
    <1>4. PICK s : s = SteeredTexts(m)
        OBVIOUS
    <1>5. IsSequence(s) /\ Len(s) = 0
        BY <1>3, <1>4, SteeredTextsAre
    <1> QED  BY <1>4, <1>5, NoElements

LEMMA HostRowsKeepTexts ==
    ASSUME Inv, HostRows
    PROVE  SteeredTexts(log') = SteeredTexts(log)
    <1>1. CASE log' = log
        BY <1>1
    <1>2. ASSUME NEW row, log' = Append(log, row), ~Steered(row)
          PROVE  SteeredTexts(log') = SteeredTexts(log)
        <2>1. IsSequence(log)
            BY DEF Inv, TypeOK
        <2>2. PICK m : m = <<row>>
            OBVIOUS
        <2>3. IsSequence(m) /\ Len(m) = 1 /\ m[1] = row /\ log' = log \o m
            BY <1>2, <2>1, <2>2, SingletonIsSequence, AppendOne
        <2>4. \A k \in DOMAIN m : ~Steered(m[k])
            BY <1>2, <2>3, SequenceDomain
        <2>5. SteeredTexts(m) = <<>>
            BY <2>3, <2>4, SteeredNone
        <2>6. SteeredTexts(log \o m) = SteeredTexts(log) \o SteeredTexts(m)
            BY <2>1, <2>3, SteeredConcat
        <2>7. SteeredTexts(log) \o <<>> = SteeredTexts(log)
            BY <2>1, SteeredTextsAre, EmptyConcat
        <2> QED  BY <2>3, <2>5, <2>6, <2>7, Zenon
    <1> QED  BY <1>1, <1>2 DEF HostRows

LEMMA TypedBounds ==
    ASSUME Inv, InvTyped
    PROVE  /\ typed \in Nat /\ IsSequence(steer) /\ Range(steer) \subseteq 1 .. typed
           /\ \A i \in DOMAIN (SteeredTexts(log) \o steer) :
                 (SteeredTexts(log) \o steer)[i] \in 0 .. typed
    <1>1. typed \in Nat /\ IsSequence(log)
        BY AgentTurnAssumption DEF Inv, TypeOK, InputOK
    <1>2. steer \in Seq(1 .. typed)
        BY DEF Inv, TypeOK, InputOK
    <1>3. IsSequence(steer)
        BY <1>2, TypedIsSequence
    <1>4. Range(steer) \subseteq 1 .. typed
        BY <1>1, <1>2 DEF Range
    <1>5. Range(SteeredTexts(log)) \subseteq 0 .. typed
        <2>1. Range(SteeredTexts(log)) \subseteq UserTexts(log)
            BY <1>1, SteeredTextsAre
        <2>2. UserTexts(log) \subseteq 0 .. typed
            BY DEF UserTexts, InvTyped, ToSet
        <2> QED  BY <2>1, <2>2
    <1>6. PICK s : s = SteeredTexts(log) \o steer
        OBVIOUS
    <1>7. Range(s) \subseteq 0 .. typed
        <2>1. Range(SteeredTexts(log) \o steer) = Range(SteeredTexts(log)) \cup Range(steer)
            BY <1>1, <1>3, SteeredTextsAre, RangeConcat
        <2> QED  BY <1>4, <1>5, <1>6, <2>1
    <1>8. \A i \in DOMAIN s : s[i] \in 0 .. typed
        BY <1>7 DEF Range
    <1> QED  BY <1>1, <1>3, <1>4, <1>6, <1>8

LEMMA OrderStep ==
    ASSUME Inv, InvTyped, [Next]_vars
    PROVE  SteeredInOrder'
    <1>1. /\ IsSequence(log) /\ IsSequence(steer) /\ IsSequence(SteeredTexts(log))
        BY TypedBounds, SteeredTextsAre DEF Inv, TypeOK
    <1>2. PICK s : s = SteeredTexts(log)
        OBVIOUS
    <1>3. Increasing(s \o steer)
        BY <1>2 DEF InvTyped, NothingTypedIsLost, SteeredInOrder, Increasing
    <1>4. ASSUME NEW n \in 0 .. Len(steer), SteeredTexts(log') \o steer' = s \o Take(steer, n)
          PROVE  SteeredInOrder'
        <2>1. IsSequence(s)
            BY <1>1, <1>2
        <2>2. Increasing(s \o Take(steer, n))
            BY <1>1, <1>3, <2>1, IncreasingTake
        <2> QED  BY <1>4, <2>2 DEF SteeredInOrder, Increasing
    <1>5. CASE HostRows
        <2>1. SteeredTexts(log') \o steer' = s \o steer
            BY <1>2, <1>5, HostRowsKeepTexts DEF HostRows
        <2> QED  BY <1>3, <2>1 DEF SteeredInOrder, Increasing
    <1>6. CASE Crash
        <2>1. 0 \in 0 .. Len(steer) /\ Take(steer, 0) = <<>>
            BY <1>1, TakeEnds, SequenceDomain
        <2>2. log' = log /\ steer' = <<>>
            BY <1>6 DEF Crash
        <2> QED  BY <1>2, <1>4, <2>1, <2>2
    <1>7. CASE DrainSteer
        <2>1. PICK n \in 0 .. Len(steer) : log' = log \o Injected(steer, n)
            BY <1>7, Drained
        <2>2. steer' = <<>>
            BY <1>7 DEF DrainSteer
        <2>3. PICK t : t = Take(steer, n)
            OBVIOUS
        <2>4. IsSequence(t)
            BY <1>1, <2>3, TakeProperties
        <2>5. PICK rows : rows = Injected(steer, n)
            OBVIOUS
        <2>6. IsSequence(rows) /\ SteeredTexts(rows) = t
            BY <2>3, <2>5, InjectedRows, InjectedTexts
        <2>7. SteeredTexts(log \o rows) = SteeredTexts(log) \o SteeredTexts(rows)
            BY <1>1, <2>6, SteeredConcat
        <2>8. SteeredTexts(log') = s \o t
            BY <1>2, <2>1, <2>5, <2>6, <2>7
        <2>9. IsSequence(s \o t)
            BY <1>1, <1>2, <2>4, ConcatIsSequence
        <2>10. (s \o t) \o <<>> = s \o t
            BY <2>9, EmptyConcat
        <2>11. SteeredTexts(log') \o steer' = s \o t
            BY <2>2, <2>8, <2>10
        <2> QED  BY <1>4, <2>3, <2>11
    <1>8. CASE Steer
        <2>1. log' = log /\ steer' = Append(steer, typed + 1)
            BY <1>8 DEF Steer, Enqueue
        <2>2. PICK u : u = s \o steer
            OBVIOUS
        <2>3. IsSequence(u) /\ s \o Append(steer, typed + 1) = Append(u, typed + 1)
            <3>1. IsSequence(s) /\ IsSequence(steer)
                BY <1>1, <1>2
            <3>2. IsSequence(u)
                BY <2>2, <3>1, ConcatIsSequence
            <3>3. s \o Append(steer, typed + 1) = Append(s \o steer, typed + 1)
                BY <3>1, AppendToConcat
            <3> QED  BY <2>2, <3>2, <3>3
        <2>4. typed \in Nat /\ \A i \in DOMAIN u : u[i] \in 0 .. typed
            BY <1>2, <2>2, TypedBounds
        <2>5. Increasing(Append(u, typed + 1))
            <3>1. \A i \in DOMAIN u : u[i] \in Int /\ u[i] < typed + 1
                BY <2>4
            <3>2. typed + 1 \in Int
                BY <2>4
            <3> QED  BY <1>3, <2>2, <2>3, <3>1, <3>2, IncreasingAppend
        <2> QED  BY <1>2, <2>1, <2>3, <2>5 DEF SteeredInOrder, Increasing
    <1> QED  BY <1>5, <1>6, <1>7, <1>8, InputStep


(* The texts on their way: in the log, in the queue or opening the turn.   *)
Opening == pc \in {"open", "frame", "budget", "prompt"}

Kept == UserTexts(log) \cup ToSet(steer) \cup (IF Opening THEN {prompt} ELSE {})

LEMMA KeptMeans == InvTyped /\ Undisturbed => 1 .. typed = Kept
    BY DEF InvTyped, NothingTypedIsLost, Kept, Opening, UserTexts

LEMMA RowTexts ==
    ASSUME IsSequence(log), NEW row, log' = Append(log, row)
    PROVE  UserTexts(log') = UserTexts(log) \cup (IF row.type = "user" THEN {row.text} ELSE {})
    <1>1. PICK m : m = <<row>>
        OBVIOUS
    <1>2. IsSequence(m) /\ Len(m) = 1 /\ m[1] = row /\ log' = log \o m
        BY <1>1, SingletonIsSequence, AppendOne
    <1>3. DOMAIN m = {1}
        BY <1>2, SequenceDomain
    <1>4. UserTexts(m) = IF row.type = "user" THEN {row.text} ELSE {}
        BY <1>2, <1>3 DEF UserTexts, ToSet
    <1> QED  BY <1>2, <1>4, UserTextsConcat

(* A step of the host that loses nothing.                                  *)
HostKeeps ==
    \/ /\ pc = "idle" /\ pc' = "open" /\ log' = log
       /\ typed' = typed + 1 /\ prompt' = typed + 1
    \/ /\ pc = "prompt" /\ pc' = "prepare" /\ log' = Append(log, User(prompt, "prompt"))
       /\ typed' = typed
    \/ /\ typed' = typed /\ Opening' = Opening
       /\ Opening => prompt' = prompt
       /\ \/ log' = log
          \/ \E row : log' = Append(log, row) /\ row.type # "user"

LEMMA HostKeepsStep ==
    ASSUME Inv, [Next]_vars, ~DrainSteer, ~Steer, ~Crash, ~HostFails
    PROVE  HostKeeps /\ steer' = steer
    <1>0. steer' = steer
        BY InputStep DEF HostRows
    <1>1. CASE RunTurn
        BY <1>0, <1>1 DEF RunTurn, HostKeeps
    <1>2. CASE \/ OpenLog \/ PrepareTurn \/ LoopExhausted \/ SkipRequest
               \/ Request \/ StreamDone \/ StreamError \/ DiscardDone \/ GateCall
               \/ Dispatch \/ ToolEnds \/ BatchDone \/ Cancel \/ BeginClear
               \/ UNCHANGED vars
        <2>1. /\ log' = log /\ typed' = typed /\ prompt' = prompt
              /\ \/ pc' = pc
                 \/ pc = "open" /\ pc' = "frame"
                 \/ /\ pc \in {"prepare", "top", "ask", "stream", "discard", "gate", "running"}
                    /\ pc' \in {"top", "end", "reply", "stream", "ask", "running"}
            BY <1>2 DEF OpenLog, HostFails, PrepareTurn, LoopExhausted, SkipRequest, Request, StreamDone,
                        StreamError, DiscardDone, GateCall, Dispatch, ToolEnds,
                        BatchDone, Cancel, BeginClear, vars, turnVars
        <2>2. Opening' = Opening
            BY <2>1 DEF Opening
        <2> QED  BY <1>0, <2>1, <2>2 DEF HostKeeps
    <1>3. CASE FrameTurn
        <2>1. TurnStart.type # "user"
            BY DEF TurnStart
        <2>2. /\ log' = Append(log, TurnStart) /\ pc = "frame" /\ pc' = "budget"
              /\ typed' = typed /\ prompt' = prompt
            BY <1>3 DEF FrameTurn, turnVars
        <2>3. Opening' = Opening
            BY <2>2 DEF Opening
        <2> QED  BY <1>0, <2>1, <2>2, <2>3 DEF HostKeeps
    <1>4. CASE Budget
        <2>1. PICK row : row = Compacted(BudgetCompact(context, pressure),
                               DroppedCount(context, BudgetCompact(context, pressure)))
            OBVIOUS
        <2>2. row.type # "user"
            BY <2>1 DEF Compacted
        <2>3. /\ log' = log \/ log' = Append(log, row)
              /\ pc = "budget" /\ pc' = "prompt" /\ typed' = typed /\ prompt' = prompt
            BY <1>4, <2>1 DEF Budget, turnVars
        <2>4. Opening' = Opening
            BY <2>3 DEF Opening
        <2> QED  BY <1>0, <2>2, <2>3, <2>4 DEF HostKeeps
    <1>5. CASE Prompt
        BY <1>0, <1>5 DEF Prompt, HostKeeps
    <1>6. CASE PersistReply
        <2>1. reply.type # "user"
            BY DEF Inv, InvReply
        <2>2. /\ pc = "reply" /\ pc' \in {"gate", "discard", "end"} /\ typed' = typed
              /\ log' = log \/ log' = Append(log, reply)
            BY <1>6 DEF PersistReply, LoopFails
        <2>3. Opening' = Opening /\ ~Opening
            BY <2>2 DEF Opening
        <2> QED  BY <1>0, <2>1, <2>2, <2>3 DEF HostKeeps
    <1>7. CASE DiscardCall \/ RecordResult
        <2>1. PICK row : row \in {ToolResult(Calls[recorded + 1], "failed"),
                                  ResultOf(recorded + 1)}
                         /\ (log' = log \/ log' = Append(log, row))
            BY <1>7 DEF DiscardCall, RecordResult
        <2>2. row.type # "user"
            BY <2>1 DEF ToolResult, ResultOf
        <2>3. pc \in {"discard", "running"} /\ pc' \in {pc, "end"} /\ typed' = typed
            BY <1>7 DEF DiscardCall, RecordResult, LoopFails
        <2>4. Opening' = Opening /\ ~Opening
            BY <2>3 DEF Opening
        <2> QED  BY <1>0, <2>1, <2>2, <2>3, <2>4 DEF HostKeeps
    <1>8. CASE EndTurn
        <2>1. PICK row : row = TurnEnd(Reason)
            OBVIOUS
        <2>2. row.type # "user"
            BY <2>1 DEF TurnEnd
        <2>3. /\ log' = log \/ log' = Append(log, row)
              /\ pc = "end" /\ pc' = "idle" /\ typed' = typed
            BY <1>8, <2>1 DEF EndTurn, Return
        <2>4. Opening' = Opening /\ ~Opening
            BY <2>3 DEF Opening
        <2> QED  BY <1>0, <2>2, <2>3, <2>4 DEF HostKeeps
    <1>9. CASE MarkCleared
        <2>1. Cleared.type # "user"
            BY DEF Cleared
        <2>2. /\ log' = log \/ log' = Append(log, Cleared)
              /\ pc' = pc /\ typed' = typed /\ prompt' = prompt
            BY <1>9 DEF MarkCleared, turnVars
        <2>3. Opening' = Opening
            BY <2>2 DEF Opening
        <2> QED  BY <1>0, <2>1, <2>2, <2>3 DEF HostKeeps
    <1> QED  BY <1>1, <1>2, <1>3, <1>4, <1>5, <1>6, <1>7, <1>8, <1>9
             DEF Next, TurnStep, HostStep, Awaited, Environment, Finished

LEMMA KeptStep ==
    ASSUME Inv, InvTyped, [Next]_vars, Undisturbed'
    PROVE  1 .. typed' = Kept'
    <1>1. typed \in Nat /\ IsSequence(log) /\ IsSequence(steer) /\ 1 .. typed = Kept
        BY TypedBounds, UndisturbedBefore, KeptMeans DEF Inv, TypeOK
    <1>2. ~LoopFails /\ ~Crash /\ ~HostFails
        BY FaultDisturbs DEF LoopFails, Crash, HostFails
    <1>3. CASE DrainSteer
        <2>1. PICK n \in 0 .. Len(steer) :
                  /\ log' = log \o Injected(steer, n)
                  /\ n = Len(steer) /\ pc' = "ask"
            BY <1>2, <1>3, Drained
        <2>2. steer' = <<>> /\ typed' = typed /\ pc = "top"
            BY <1>3 DEF DrainSteer
        <2>3. PICK rows : rows = Injected(steer, n)
            OBVIOUS
        <2>4. IsSequence(rows)
            BY <2>3, InjectedRows
        <2>5. UserTexts(rows) = ToSet(steer)
            <3>1. UserTexts(Injected(steer, n)) = Range(Take(steer, n))
                BY InjectedTexts
            <3>2. Take(steer, n) = steer
                BY <1>1, <2>1, TakeEnds
            <3> QED  BY <2>3, <3>1, <3>2 DEF Range, ToSet
        <2>6. UserTexts(log') = UserTexts(log) \cup ToSet(steer)
            BY <1>1, <2>1, <2>3, <2>4, <2>5, UserTextsConcat
        <2>7. ToSet(<<>>) = {}
            BY EmptyIsSequence DEF ToSet
        <2>8. ~Opening /\ ~Opening'
            BY <2>1, <2>2 DEF Opening
        <2>9. Kept' = UserTexts(log) \cup ToSet(steer)
            BY <2>2, <2>6, <2>7, <2>8 DEF Kept
        <2> QED  BY <1>1, <2>2, <2>8, <2>9 DEF Kept
    <1>4. CASE Steer
        <2>1. /\ log' = log /\ steer' = Append(steer, typed + 1) /\ typed' = typed + 1
              /\ pc' = pc /\ prompt' = prompt
            BY <1>4 DEF Steer, Enqueue, turnVars
        <2>2. ToSet(steer') = ToSet(steer) \cup {typed + 1}
            <3>1. PICK n \in Nat : n = Len(steer) /\ DOMAIN steer = 1 .. n
                BY <1>1, SequenceDomain
            <3>2. PICK u : u = steer'
                OBVIOUS
            <3>3. /\ IsSequence(u) /\ Len(u) = n + 1
                  /\ \A i \in 1 .. n : u[i] = steer[i]
                  /\ u[n + 1] = typed + 1
                BY <1>1, <2>1, <3>1, <3>2, AppendIsSequence
            <3>4. DOMAIN u = 1 .. (n + 1)
                BY <3>3, SequenceDomain
            <3>5. ToSet(u) = ToSet(steer) \cup {typed + 1}
                <4>1. 1 .. (n + 1) = 1 .. n \cup {n + 1}
                    BY <3>1
                <4> QED  BY <3>1, <3>3, <3>4, <4>1 DEF ToSet
            <3> QED  BY <3>2, <3>5
        <2>3. Opening' = Opening
            BY <2>1 DEF Opening
        <2>4. Kept' = Kept \cup {typed + 1}
            BY <2>1, <2>2, <2>3 DEF Kept
        <2>5. 1 .. (typed + 1) = 1 .. typed \cup {typed + 1}
            BY <1>1
        <2> QED  BY <1>1, <2>1, <2>4, <2>5
    <1>5. CASE HostKeeps /\ steer' = steer
        <2>1. CASE /\ pc = "idle" /\ pc' = "open" /\ log' = log
                   /\ typed' = typed + 1 /\ prompt' = typed + 1
            <3>1. ~Opening /\ Opening'
                BY <2>1 DEF Opening
            <3>2. Kept' = Kept \cup {typed + 1}
                BY <1>5, <2>1, <3>1 DEF Kept
            <3>3. 1 .. (typed + 1) = 1 .. typed \cup {typed + 1}
                BY <1>1
            <3> QED  BY <1>1, <2>1, <3>2, <3>3
        <2>2. CASE /\ pc = "prompt" /\ pc' = "prepare"
                   /\ log' = Append(log, User(prompt, "prompt")) /\ typed' = typed
            <3>1. Opening /\ ~Opening'
                BY <2>2 DEF Opening
            <3>2. PICK row : row = User(prompt, "prompt")
                OBVIOUS
            <3>3. row.type = "user" /\ row.text = prompt
                BY <3>2 DEF User
            <3>4. UserTexts(log') = UserTexts(log) \cup {prompt}
                BY <1>1, <2>2, <3>2, <3>3, RowTexts
            <3>5. Kept' = Kept
                BY <1>5, <3>1, <3>4 DEF Kept
            <3> QED  BY <1>1, <2>2, <3>5
        <2>3. CASE /\ typed' = typed /\ Opening' = Opening
                   /\ Opening => prompt' = prompt
                   /\ \/ log' = log
                      \/ \E row : log' = Append(log, row) /\ row.type # "user"
            <3>1. UserTexts(log') = UserTexts(log)
                <4>1. CASE log' = log
                    BY <4>1
                <4>2. ASSUME NEW row, log' = Append(log, row), row.type # "user"
                      PROVE  UserTexts(log') = UserTexts(log)
                    BY <1>1, <4>2, RowTexts
                <4> QED  BY <2>3, <4>1, <4>2
            <3>2. Kept' = Kept
                <4>1. CASE Opening
                    BY <1>5, <2>3, <3>1, <4>1 DEF Kept
                <4>2. CASE ~Opening
                    BY <1>5, <2>3, <3>1, <4>2 DEF Kept
                <4> QED  BY <4>1, <4>2
            <3> QED  BY <1>1, <2>3, <3>2
        <2> QED  BY <1>5, <2>1, <2>2, <2>3 DEF HostKeeps
    <1> QED  BY <1>2, <1>3, <1>4, <1>5, HostKeepsStep


LEMMA TypedGrows ==
    ASSUME [Next]_vars
    PROVE  typed' = typed \/ typed' = typed + 1
    <1>1. CASE Environment
        BY <1>1 DEF Environment, RunTurn, Steer, Cancel, BeginClear, MarkCleared, Crash
    <1>2. CASE TurnStep
        BY <1>2
        DEF TurnStep, HostStep, Awaited, OpenLog, FrameTurn, Budget, Prompt, HostFails, PrepareTurn,
            LoopExhausted, DrainSteer, SkipRequest, Request, StreamDone, StreamError,
            PersistReply, DiscardCall, DiscardDone, GateCall, Dispatch, ToolEnds,
            RecordResult, BatchDone, EndTurn
    <1>3. CASE UNCHANGED vars
        BY <1>3 DEF vars
    <1> QED  BY <1>1, <1>2, <1>3 DEF Next, Finished

LEMMA TypedStep ==
    ASSUME Inv, InvTyped, [Next]_vars
    PROVE  InvTyped'
    <1>1. SteeredInOrder'
        BY OrderStep
    <1>2. Undisturbed' => 1 .. typed' = Kept'
        BY KeptStep
    <1>3. NothingTypedIsLost'
        BY <1>1, <1>2 DEF NothingTypedIsLost, Kept, Opening, UserTexts
    <1>4. typed' \in Nat /\ typed \in Nat /\ typed <= typed' /\ IsSequence(log)
          /\ prompt \in 0 .. typed /\ UserTexts(log) \subseteq 0 .. typed
        <2>1. typed \in Nat
            BY TypedBounds
        <2>2. typed' = typed \/ typed' = typed + 1
            BY TypedGrows
        <2> QED  BY <2>1, <2>2 DEF Inv, TypeOK, InputOK, InvTyped, UserTexts, ToSet
    <1>5. UserTexts(log') \subseteq 0 .. typed'
        <2>1. CASE DrainSteer
            <3>1. PICK n \in 0 .. Len(steer) : log' = log \o Injected(steer, n)
                BY <2>1, Drained
            <3>2. PICK rows : rows = Injected(steer, n)
                OBVIOUS
            <3>3. IsSequence(rows) /\ UserTexts(rows) = Range(Take(steer, n))
                BY <3>2, InjectedRows, InjectedTexts
            <3>4. Range(Take(steer, n)) \subseteq 1 .. typed
                <4>1. IsSequence(steer)
                    BY TypedBounds
                <4>2. /\ DOMAIN Take(steer, n) = 1 .. n
                      /\ \A i \in 1 .. n : Take(steer, n)[i] = steer[i]
                    BY <4>1, TakeProperties
                <4>3. PICK m \in Nat : m = Len(steer) /\ DOMAIN steer = 1 .. m
                    BY <4>1, SequenceDomain
                <4>4. \A i \in 1 .. n : i \in DOMAIN steer
                    BY <4>3
                <4>5. \A i \in DOMAIN steer : steer[i] \in 1 .. typed
                    BY TypedBounds DEF Range
                <4>6. \A i \in 1 .. n : steer[i] \in 1 .. typed
                    BY <4>4, <4>5
                <4> QED  BY <4>2, <4>6 DEF Range
            <3>5. UserTexts(log') = UserTexts(log) \cup UserTexts(rows)
                BY <1>4, <3>1, <3>2, <3>3, UserTextsConcat
            <3> QED  BY <1>4, <3>3, <3>4, <3>5
        <2>2. CASE log' = log
            BY <1>4, <2>2
        <2>3. ASSUME NEW row, log' = Append(log, row),
                     row.type = "user" => row = User(prompt, "prompt")
              PROVE  UserTexts(log') \subseteq 0 .. typed'
            <3>1. row.type = "user" => row.text = prompt
                BY <2>3 DEF User
            <3>2. UserTexts(log') = UserTexts(log) \cup (IF row.type = "user" THEN {row.text} ELSE {})
                BY <1>4, <2>3, RowTexts
            <3> QED  BY <1>4, <3>1, <3>2
        <2> QED  BY <2>1, <2>2, <2>3, InputStep DEF HostRows, Steer, Crash
    <1>6. \A k \in DOMAIN log' : log'[k].type = "user" => log'[k].text \in 0 .. typed'
        BY <1>5 DEF UserTexts, ToSet
    <1> QED  BY <1>3, <1>6 DEF InvTyped

(* Texts steered into a turn reach the log in the order they were typed,   *)
(* each once, and no text is lost while the process lives and the disk     *)
(* works.                                                                  *)
THEOREM TypedIsKept == Spec => []NothingTypedIsLost
    <1>1. Init => InvTyped
        <2> SUFFICES ASSUME Init PROVE InvTyped
            OBVIOUS
        <2>1. log = <<>> /\ steer = <<>> /\ typed = 0 /\ pc = "idle"
            BY DEF Init
        <2>2. DOMAIN <<>> = {} /\ IsSequence(<<>>)
            BY EmptyIsSequence
        <2>3. SteeredTexts(<<>>) = <<>>
            BY <2>2, SteeredNone
        <2>4. SteeredInOrder
            <3>1. <<>> \o <<>> = <<>>
                BY <2>2, EmptyConcat
            <3> QED  BY <2>1, <2>2, <2>3, <3>1 DEF SteeredInOrder
        <2>5. 1 .. 0 = {} /\ ToSet(<<>>) = {}
            BY <2>2 DEF ToSet
        <2>6. NothingTypedIsLost
            BY <2>1, <2>4, <2>5 DEF NothingTypedIsLost
        <2> QED  BY <2>1, <2>2, <2>6 DEF InvTyped
    <1>2. Inv /\ InvTyped /\ [Next]_vars => InvTyped'
        BY TypedStep
    <1>3. InvTyped => NothingTypedIsLost
        BY DEF InvTyped
    <1> QED  BY <1>1, <1>2, <1>3, Invariance, PTL DEF Spec

-----------------------------------------------------------------------------
(* The token accounting.  A step adds rows to the log, none of them a      *)
(* /clear unless it is MarkCleared's, and the only message it can add is   *)
(* the one being handled.                                                  *)
LogAdds ==
    \/ log' = log
    \/ \E row : /\ log' = Append(log, row) /\ row.type # "cleared"
                /\ row.type = "assistant" => row = reply

LEMMA LogAddsStep ==
    ASSUME Inv, [Next]_vars, ~DrainSteer, ~MarkCleared
    PROVE  LogAdds
    <1>1. CASE \/ RunTurn \/ OpenLog \/ PrepareTurn \/ LoopExhausted \/ SkipRequest
               \/ Request \/ StreamDone \/ StreamError \/ DiscardDone \/ GateCall
               \/ Dispatch \/ ToolEnds \/ BatchDone \/ Steer \/ Cancel \/ BeginClear
               \/ Crash \/ UNCHANGED vars
        <2>1. log' = log
            BY <1>1 DEF RunTurn, OpenLog, HostFails, PrepareTurn, LoopExhausted, SkipRequest, Request,
                        StreamDone, StreamError, DiscardDone, GateCall, Dispatch, ToolEnds,
                        BatchDone, Steer, Cancel, BeginClear, Crash, vars
        <2> QED  BY <2>1 DEF LogAdds
    <1>2. CASE FrameTurn
        BY <1>2 DEF FrameTurn, HostFails, TurnStart, LogAdds
    <1>3. CASE Budget
        <2>1. PICK row : row = Compacted(BudgetCompact(context, pressure),
                               DroppedCount(context, BudgetCompact(context, pressure)))
            OBVIOUS
        <2>2. row.type = "compacted"
            BY <2>1 DEF Compacted
        <2>3. log' = log \/ log' = Append(log, row)
            BY <1>3, <2>1 DEF Budget, HostFails
        <2> QED  BY <2>2, <2>3 DEF LogAdds
    <1>4. CASE Prompt
        <2>1. PICK row : row = User(prompt, "prompt")
            OBVIOUS
        <2>2. row.type = "user"
            BY <2>1 DEF User
        <2>3. log' = log \/ log' = Append(log, row)
            BY <1>4, <2>1 DEF Prompt, HostFails
        <2> QED  BY <2>2, <2>3 DEF LogAdds
    <1>5. CASE PersistReply
        <2>1. reply.type # "cleared"
            BY DEF Inv, InvReply
        <2> QED  BY <1>5, <2>1 DEF PersistReply, LogAdds
    <1>6. CASE DiscardCall \/ RecordResult
        <2>1. PICK row : row \in {ToolResult(Calls[recorded + 1], "failed"),
                                  ResultOf(recorded + 1)}
                         /\ (log' = log \/ log' = Append(log, row))
            BY <1>6 DEF DiscardCall, RecordResult
        <2>2. row.type = "tool_result"
            BY <2>1 DEF ToolResult, ResultOf
        <2> QED  BY <2>1, <2>2 DEF LogAdds
    <1>7. CASE EndTurn
        <2>1. PICK row : row = TurnEnd(Reason)
            OBVIOUS
        <2>2. row.type = "turn_end"
            BY <2>1 DEF TurnEnd
        <2>3. log' = log \/ log' = Append(log, row)
            BY <1>7, <2>1 DEF EndTurn
        <2> QED  BY <2>2, <2>3 DEF LogAdds
    <1> QED  BY <1>1, <1>2, <1>3, <1>4, <1>5, <1>6, <1>7
             DEF Next, TurnStep, HostStep, Awaited, Environment, Finished

LEMMA PricedAppend ==
    ASSUME IsSequence(log), Priced(log), NEW row,
           row.type = "assistant" => row.tokens \in Nat,
           log' = Append(log, row)
    PROVE  Priced(log')
    <1>1. PICK n \in Nat : n = Len(log) /\ DOMAIN log = 1 .. n
        BY SequenceDomain
    <1>2. PICK u : u = Append(log, row)
        OBVIOUS
    <1>3. /\ IsSequence(u) /\ Len(u) = n + 1
          /\ \A i \in 1 .. n : u[i] = log[i]
          /\ u[n + 1] = row
        BY <1>1, <1>2, AppendIsSequence
    <1>4. DOMAIN u = 1 .. (n + 1)
        BY <1>3, SequenceDomain
    <1>5. ASSUME NEW i \in DOMAIN u, u[i].type = "assistant"
          PROVE  u[i].tokens \in Nat
        <2>1. CASE i \in 1 .. n
            BY <1>1, <1>3, <1>5, <2>1 DEF Priced
        <2>2. CASE i = n + 1
            BY <1>3, <1>5, <2>2
        <2> QED  BY <1>4, <2>1, <2>2
    <1> QED  BY <1>2, <1>5 DEF Priced

LEMMA PricedDrain ==
    ASSUME Inv, Priced(log), NEW n \in 0 .. Len(steer), log' = log \o Injected(steer, n)
    PROVE  Priced(log')
    <1>1. PICK rows : rows = Injected(steer, n)
        OBVIOUS
    <1>2. /\ IsSequence(rows) /\ IsSequence(log)
          /\ \A i \in DOMAIN rows : rows[i].type = "user"
        <2>1. \A text : User(text, "steer").type = "user"
            BY DEF User
        <2>2. /\ IsSequence(rows) /\ DOMAIN rows = 1 .. n
              /\ \A i \in 1 .. n : rows[i] = User(steer[i], "steer")
            BY <1>1, InjectedRows
        <2> QED  BY <2>1, <2>2 DEF Inv, TypeOK
    <1>3. Range(log \o rows) = Range(log) \cup Range(rows)
        BY <1>2, RangeConcat
    <1>4. \A row \in Range(log) \cup Range(rows) : row.type = "assistant" => row.tokens \in Nat
        BY <1>2 DEF Range, Priced
    <1> QED  BY <1>1, <1>3, <1>4 DEF Range, Priced

LEMMA PricedStep ==
    ASSUME Inv, InvPriced, [Next]_vars
    PROVE  InvPriced'
    <1>1. IsSequence(log) /\ Priced(log) /\ reply.tokens \in Nat
        BY DEF Inv, TypeOK, InvPriced, AssistantRows, Priced
    <1>2. Priced(log')
        <2>1. CASE DrainSteer
            BY <1>1, <2>1, Drained, PricedDrain
        <2>2. CASE MarkCleared
            BY <1>1, <2>2, PricedAppend DEF MarkCleared, Cleared
        <2>3. CASE LogAdds
            BY <1>1, <2>3, PricedAppend DEF LogAdds
        <2> QED  BY <2>1, <2>2, <2>3, LogAddsStep
    <1>3. reply'.tokens \in Nat
        <2>1. ASSUME NEW calls, NEW tokens \in Nat, NEW why, reply' = Assistant(calls, tokens, why)
              PROVE  reply'.tokens \in Nat
            BY <2>1 DEF Assistant
        <2>2. CASE StreamDone
            <3>1. PICK n \in 0 .. MaxBatch, tokens \in TokenReports,
                       why \in {"end_turn", "tool_use", "max_tokens"} :
                      reply' = Assistant(CallIds(Len(log) + 1, n), tokens,
                                         IF signal THEN "aborted" ELSE why)
                BY <2>2 DEF StreamDone
            <3>2. tokens \in Nat
                BY AgentTurnAssumption
            <3> QED  BY <2>1, <3>1, <3>2
        <2>3. CASE reply' = NoReply \/ SkipRequest \/ StreamError
            BY <1>1, <2>1, <2>3 DEF NoReply, SkipRequest, StreamError
        <2>4. CASE reply' = reply
            BY <1>1, <2>4
        <2>5. StreamDone \/ SkipRequest \/ StreamError \/ reply' = NoReply \/ reply' = reply
            <3>1. CASE Environment
                BY <3>1 DEF Environment, RunTurn, Steer, Cancel, BeginClear, MarkCleared,
                            Crash, Return, turnVars
            <3>2. CASE TurnStep /\ ~StreamDone /\ ~SkipRequest /\ ~StreamError
                BY <3>2
                DEF TurnStep, HostStep, Awaited, OpenLog, FrameTurn, Budget, Prompt, HostFails, PrepareTurn,
                    LoopExhausted, DrainSteer, Request, PersistReply, DiscardCall, DiscardDone,
                    GateCall, Dispatch, ToolEnds, RecordResult, BatchDone, EndTurn, Return,
                    turnVars
            <3>3. CASE UNCHANGED vars
                BY <3>3 DEF vars, turnVars
            <3> QED  BY <3>1, <3>2, <3>3 DEF Next, Finished
        <2> QED  BY <2>2, <2>3, <2>4, <2>5
    <1> QED  BY <1>2, <1>3 DEF InvPriced, AssistantRows, Priced

(* What one step does to the totals.                                       *)
LEMMA BillingStep ==
    ASSUME Inv, InvPriced, [Next]_vars
    PROVE  \/ /\ CacheStats(log').input >= CacheStats(log).input
              /\ CacheStats(log').calls >= CacheStats(log).calls
           \/ Len(log') > Len(log) /\ Last(log') = Cleared
    <1>1. IsSequence(log) /\ Priced(log')
        BY PricedStep DEF Inv, TypeOK, InvPriced, AssistantRows, Priced
    <1>2. ASSUME NEW rows, IsSequence(rows), log' = log \o rows,
                 \A k \in DOMAIN rows : rows[k].type # "cleared"
          PROVE  /\ CacheStats(log').input >= CacheStats(log).input
                 /\ CacheStats(log').calls >= CacheStats(log).calls
        <2>1. Priced(log \o rows) /\ \A k \in DOMAIN rows : ~IsConversationReset(rows[k])
            BY <1>1, <1>2 DEF IsConversationReset
        <2> QED  BY <1>1, <1>2, <2>1, BillingGrows
    <1>3. CASE DrainSteer
        <2>1. PICK n \in 0 .. Len(steer) : log' = log \o Injected(steer, n)
            BY <1>3, Drained
        <2>2. PICK rows : rows = Injected(steer, n)
            OBVIOUS
        <2>3. IsSequence(rows) /\ \A k \in DOMAIN rows : rows[k].type # "cleared"
            <3>1. \A text : User(text, "steer").type # "cleared"
                BY DEF User
            <3>2. /\ IsSequence(rows) /\ DOMAIN rows = 1 .. n
                  /\ \A i \in 1 .. n : rows[i] = User(steer[i], "steer")
                BY <2>2, InjectedRows
            <3> QED  BY <3>1, <3>2
        <2> QED  BY <1>2, <2>1, <2>2, <2>3
    <1>4. CASE log' = log
        <2>1. IsSequence(<<>>) /\ DOMAIN <<>> = {} /\ log \o <<>> = log
            BY <1>1, EmptyIsSequence, EmptyConcat
        <2> QED  BY <1>2, <1>4, <2>1
    <1>5. ASSUME NEW row, log' = Append(log, row), row.type # "cleared"
          PROVE  /\ CacheStats(log').input >= CacheStats(log).input
                 /\ CacheStats(log').calls >= CacheStats(log).calls
        <2>1. PICK m : m = <<row>>
            OBVIOUS
        <2>2. IsSequence(m) /\ Len(m) = 1 /\ m[1] = row /\ log' = log \o m
            BY <1>1, <1>5, <2>1, SingletonIsSequence, AppendOne
        <2>3. DOMAIN m = {1}
            BY <2>2, SequenceDomain
        <2> QED  BY <1>2, <1>5, <2>2, <2>3
    <1>6. CASE log' = Append(log, Cleared)
        <2>1. PICK u : u = log'
            OBVIOUS
        <2>2. Len(u) = Len(log) + 1 /\ u[Len(log) + 1] = Cleared /\ Len(log) \in Nat
            BY <1>1, <1>6, <2>1, AppendIsSequence, SequenceDomain
        <2>3. Len(u) > Len(log) /\ Last(u) = Cleared
            BY <2>2 DEF Last
        <2> QED  BY <2>1, <2>3
    <1> QED  BY <1>3, <1>4, <1>5, <1>6, LogAddsStep DEF LogAdds, MarkCleared

(* Compactions, aborts, failed appends and crashes never unbill: the       *)
(* totals of a conversation only grow until its /clear.                    *)
THEOREM BillingOnlyGrows == Spec => BillingMonotone
    <1>1. Init => InvPriced
        <2> SUFFICES ASSUME Init PROVE InvPriced
            OBVIOUS
        <2>1. log = <<>> /\ reply = NoReply
            BY DEF Init
        <2>2. DOMAIN <<>> = {}
            BY EmptyIsSequence
        <2> QED  BY <2>1, <2>2 DEF InvPriced, AssistantRows, NoReply, Assistant
    <1>2. Inv /\ InvPriced /\ [Next]_vars => InvPriced'
        BY PricedStep
    <1>3. Inv /\ InvPriced /\ [Next]_vars =>
            [LET old == CacheStats(log)
                 new == CacheStats(log')
             IN  \/ new.input >= old.input /\ new.calls >= old.calls
                 \/ Len(log') > Len(log) /\ Last(log') = Cleared]_vars
        BY BillingStep
    <1> QED  BY <1>1, <1>2, <1>3, Invariance, PTL DEF Spec, BillingMonotone

-----------------------------------------------------------------------------
(* The row-level count.  Whatever lands in the log is well shaped, on      *)
(* every host, and so is the view a checkpoint is made of.                 *)

(* The view of a log of such rows.                                         *)
LEMMA DeriveShaped ==
    ASSUME NEW l, IsSequence(l), \A k \in DOMAIN l : ShapedRow(l[k])
    PROVE  Based(l) /\ IsSequence(DeriveMessages(l)) /\ WellShaped(DeriveMessages(l))
    <1>1. Based(l)
        BY DEF Based, ShapedRow
    <1>2. IsSequence(DeriveMessages(l))
        BY <1>1, DeriveIsSequence
    <1>3. PICK last : last = ViewScopeStart(l)
        OBVIOUS
    <1>4. PICK n \in Nat : n = Len(l) /\ DOMAIN l = 1 .. n
        BY SequenceDomain
    <1>5. last \in 0 .. n
        BY <1>3, <1>4, ScopeBounds
    <1>6. PICK rest : rest = RowsAfter(l, last)
        OBVIOUS
    <1>7. IsSequence(rest) /\ \A i \in DOMAIN rest : Shaped(rest[i])
        <2>1. /\ IsSequence(rest) /\ DOMAIN rest = 1 .. (n - last)
              /\ \A i \in 1 .. (n - last) : rest[i] = l[last + i]
            BY <1>4, <1>5, <1>6, RowsAfterProperties
        <2>2. \A i \in 1 .. (n - last) : last + i \in 1 .. n
            BY <1>5
        <2> QED  BY <1>4, <2>1, <2>2 DEF ShapedRow
    <1>8. PICK tail : tail = Surface(rest)
        OBVIOUS
    <1>9. IsSequence(tail) /\ WellShaped(tail)
        BY <1>7, <1>8, SurfaceRange DEF WellShaped
    <1>10. CASE last > 0 /\ l[last].type = "compacted"
        <2>1. PICK base : base = l[last].base
            OBVIOUS
        <2>2. last \in DOMAIN l
            BY <1>4, <1>5, <1>10
        <2>3. IsSequence(base) /\ WellShaped(base)
            BY <1>10, <2>1, <2>2 DEF ShapedRow
        <2>4. DeriveMessages(l) = base \o tail
            BY <1>3, <1>6, <1>8, <1>10, <2>1 DEF DeriveMessages
        <2>5. Range(base \o tail) = Range(base) \cup Range(tail)
            BY <1>9, <2>3, RangeConcat
        <2>6. WellShaped(base \o tail)
            BY <1>9, <2>3, <2>5 DEF WellShaped
        <2> QED  BY <1>1, <1>2, <2>4, <2>6
    <1>11. CASE ~(last > 0 /\ l[last].type = "compacted")
        <2>1. DeriveMessages(l) = tail
            BY <1>3, <1>6, <1>8, <1>11 DEF DeriveMessages
        <2> QED  BY <1>1, <1>2, <1>9, <2>1
    <1> QED  BY <1>10, <1>11

(* What the repair adds to a view are results.                             *)
LEMMA RepairShaped ==
    ASSUME NEW m, IsSequence(m), WellShaped(m)
    PROVE  IsSequence(RepairUnanswered(m)) /\ WellShaped(RepairUnanswered(m))
    <1>1. PICK p : p = Parts(m)
        OBVIOUS
    <1>2. /\ IsList(p) /\ DOMAIN p = DOMAIN m
          /\ \A k \in DOMAIN m : p[k] = <<m[k]>> \o Synthesized(m, k)
          /\ RepairUnanswered(m) = FlattenSeq(p)
          /\ IsSequence(RepairUnanswered(m))
        BY <1>1, PartsIsList
    <1>3. Range(FlattenSeq(p)) = UNION {Range(p[i]) : i \in DOMAIN p}
        BY <1>2, FlattenIsSequence
    <1>4. ASSUME NEW k \in DOMAIN m, NEW x \in Range(p[k])
          PROVE  Shaped(x)
        <2>1. PICK t : t = Synthesized(m, k)
            OBVIOUS
        <2>2. PICK s : s = <<m[k]>>
            OBVIOUS
        <2>3. IsSequence(s) /\ Len(s) = 1 /\ s[1] = m[k]
            BY <2>2, SingletonIsSequence
        <2>4. k \in 1 .. Len(m)
            BY SequenceDomain
        <2>5. PICK lacking : lacking = Lacking(m, k)
            OBVIOUS
        <2>6. IsSequence(t)
            BY <2>1, <2>4, SynthesizedIsSequence
        <2>7. \A i \in DOMAIN t : \E c : t[i] = ToolResult(c, "synthesized")
            <3>1. CASE EndsRun(m, k)
                BY <2>1, <3>1 DEF Synthesized
            <3>2. CASE ~EndsRun(m, k)
                BY <2>1, <3>2, EmptyIsSequence DEF Synthesized
            <3> QED  BY <3>1, <3>2
        <2>8. Range(s \o t) = Range(s) \cup Range(t)
            BY <2>3, <2>6, RangeConcat
        <2>9. p[k] = s \o t
            BY <1>2, <2>1, <2>2
        <2>10. CASE x \in Range(t)
            <3>1. PICK c : x = ToolResult(c, "synthesized")
                BY <2>7, <2>10 DEF Range
            <3> QED  BY <3>1 DEF Shaped, ToolResult, IsResult
        <2>11. CASE x \in Range(s)
            <3>1. DOMAIN s = {1}
                BY <2>3, SequenceDomain
            <3>2. x = m[k]
                BY <2>3, <2>11, <3>1 DEF Range
            <3> QED  BY <3>2 DEF WellShaped, Range
        <2> QED  BY <1>4, <2>8, <2>9, <2>10, <2>11
    <1> QED  BY <1>2, <1>3, <1>4 DEF WellShaped

(* The rows a step can add.                                                *)
LEMMA RowsAreShaped ==
    /\ ShapedRow(TurnStart) /\ ShapedRow(Cleared)
    /\ \A text, from : ShapedRow(User(text, from))
    /\ \A c, how : ShapedRow(ToolResult(c, how))
    /\ \A why : ShapedRow(TurnEnd(why))
    /\ \A base, n : IsSequence(base) /\ WellShaped(base) => ShapedRow(Compacted(base, n))
    <1>1. ShapedRow(TurnStart) /\ ShapedRow(Cleared)
        BY DEF ShapedRow, Shaped, TurnStart, Cleared, IsResult
    <1>2. \A text, from : ShapedRow(User(text, from))
        BY DEF ShapedRow, Shaped, User, IsResult
    <1>3. \A c, how : ShapedRow(ToolResult(c, how))
        BY DEF ShapedRow, Shaped, ToolResult, IsResult
    <1>4. \A why : ShapedRow(TurnEnd(why))
        BY DEF ShapedRow, Shaped, TurnEnd, IsResult
    <1>5. \A base, n : IsSequence(base) /\ WellShaped(base) => ShapedRow(Compacted(base, n))
        BY DEF ShapedRow, Shaped, Compacted, IsResult
    <1> QED  BY <1>1, <1>2, <1>3, <1>4, <1>5

LEMMA ShapedAppend ==
    ASSUME IsSequence(log), \A k \in DOMAIN log : ShapedRow(log[k]),
           NEW row, ShapedRow(row), log' = Append(log, row)
    PROVE  \A k \in DOMAIN log' : ShapedRow(log'[k])
    <1>1. PICK n \in Nat : n = Len(log) /\ DOMAIN log = 1 .. n
        BY SequenceDomain
    <1>2. PICK u : u = Append(log, row)
        OBVIOUS
    <1>3. /\ IsSequence(u) /\ Len(u) = n + 1
          /\ \A i \in 1 .. n : u[i] = log[i]
          /\ u[n + 1] = row
        BY <1>1, <1>2, AppendIsSequence
    <1>4. DOMAIN u = 1 .. (n + 1)
        BY <1>3, SequenceDomain
    <1>5. ASSUME NEW i \in DOMAIN u PROVE ShapedRow(u[i])
        <2>1. CASE i \in 1 .. n
            BY <1>1, <1>3, <2>1
        <2>2. CASE i = n + 1
            BY <1>3, <2>2
        <2> QED  BY <1>4, <2>1, <2>2
    <1> QED  BY <1>2, <1>5

LEMMA ShapedDrain ==
    ASSUME Inv, \A k \in DOMAIN log : ShapedRow(log[k]),
           NEW n \in 0 .. Len(steer), log' = log \o Injected(steer, n)
    PROVE  \A k \in DOMAIN log' : ShapedRow(log'[k])
    <1>1. PICK rows : rows = Injected(steer, n)
        OBVIOUS
    <1>2. /\ IsSequence(rows) /\ IsSequence(log)
          /\ \A i \in DOMAIN rows : ShapedRow(rows[i])
        <2>1. /\ IsSequence(rows) /\ DOMAIN rows = 1 .. n
              /\ \A i \in 1 .. n : rows[i] = User(steer[i], "steer")
            BY <1>1, InjectedRows
        <2> QED  BY <2>1, RowsAreShaped DEF Inv, TypeOK
    <1>3. Range(log \o rows) = Range(log) \cup Range(rows)
        BY <1>2, RangeConcat
    <1>4. \A row \in Range(log) \cup Range(rows) : ShapedRow(row)
        BY <1>2 DEF Range
    <1> QED  BY <1>1, <1>3, <1>4 DEF Range

LEMMA ShapedStep ==
    ASSUME Inv, InvShaped, [Next]_vars
    PROVE  InvShaped'
    <1>1. IsSequence(log) /\ \A k \in DOMAIN log : ShapedRow(log[k])
        BY DEF Inv, TypeOK, InvShaped
    <1>2. \A k \in DOMAIN log' : ShapedRow(log'[k])
        <2>1. CASE DrainSteer
            BY <1>1, <2>1, Drained, ShapedDrain
        <2>2. CASE log' = log
            BY <1>1, <2>2
        <2>3. CASE FrameTurn \/ MarkCleared
            BY <1>1, <2>2, <2>3, RowsAreShaped, ShapedAppend
            DEF FrameTurn, HostFails, MarkCleared
        <2>4. CASE Prompt
            BY <1>1, <2>2, <2>4, RowsAreShaped, ShapedAppend DEF Prompt, HostFails
        <2>5. CASE PersistReply
            <3>1. ShapedRow(reply)
                BY DEF Inv, InvReply, ShapedRow, Shaped, IsResult
            <3> QED  BY <1>1, <2>2, <2>5, <3>1, ShapedAppend DEF PersistReply
        <2>6. CASE DiscardCall \/ RecordResult
            BY <1>1, <2>2, <2>6, RowsAreShaped, ShapedAppend
            DEF DiscardCall, RecordResult, ResultOf
        <2>7. CASE EndTurn
            BY <1>1, <2>2, <2>7, RowsAreShaped, ShapedAppend DEF EndTurn
        <2>8. CASE Budget
            <3>1. PICK v : v = BudgetCompact(context, pressure)
                OBVIOUS
            <3>2. IsSequence(v) /\ WellShaped(v)
                BY <2>8, <3>1, BudgetShaped DEF Budget, InvShaped
            <3>3. ShapedRow(Compacted(v, DroppedCount(context, v)))
                BY <3>2, RowsAreShaped
            <3>4. log' = log \/ log' = Append(log, Compacted(v, DroppedCount(context, v)))
                BY <2>8, <3>1 DEF Budget, HostFails
            <3> QED  BY <1>1, <2>2, <3>3, <3>4, ShapedAppend
        <2>9. CASE \/ RunTurn \/ OpenLog \/ PrepareTurn \/ LoopExhausted \/ SkipRequest
                   \/ Request \/ StreamDone \/ StreamError \/ DiscardDone \/ GateCall
                   \/ Dispatch \/ ToolEnds \/ BatchDone \/ Steer \/ Cancel \/ BeginClear
                   \/ Crash \/ UNCHANGED vars
            <3>1. log' = log
                BY <2>9 DEF RunTurn, OpenLog, HostFails, PrepareTurn, LoopExhausted, SkipRequest, Request,
                            StreamDone, StreamError, DiscardDone, GateCall, Dispatch, ToolEnds,
                            BatchDone, Steer, Cancel, BeginClear, Crash, vars
            <3> QED  BY <2>2, <3>1
        <2> QED  BY <2>1, <2>3, <2>4, <2>5, <2>6, <2>7, <2>8, <2>9
                 DEF Next, TurnStep, HostStep, Awaited, Environment, Finished
    <1>3. pc' \in {"frame", "budget"} => IsSequence(context') /\ WellShaped(context')
        <2>1. CASE OpenLog
            <3>1. CASE HostFails
                BY <3>1 DEF HostFails, Return
            <3>2. CASE ~HostFails
                <4>1. context' = RepairUnanswered(DeriveMessages(log))
                    BY <2>1, <3>2 DEF OpenLog
                <4> QED  BY <1>1, <4>1, DeriveShaped, RepairShaped
            <3> QED  BY <3>1, <3>2
        <2>2. CASE pc \in {"frame", "budget"} /\ context' = context
            BY <2>2 DEF InvShaped
        <2>3. CASE pc' \notin {"frame", "budget"}
            BY <2>3
        <2>4. CASE \/ RunTurn \/ FrameTurn \/ Prompt \/ PrepareTurn \/ LoopExhausted
                   \/ SkipRequest \/ Request \/ StreamDone \/ StreamError \/ DiscardDone
                   \/ BatchDone \/ Dispatch \/ EndTurn \/ Crash
            <3>1. \/ pc' \notin {"frame", "budget"}
                  \/ pc \in {"frame", "budget"} /\ context' = context
                BY <2>4
                DEF RunTurn, FrameTurn, Prompt, HostFails, Return, PrepareTurn,
                    LoopExhausted, SkipRequest, Request, StreamDone, StreamError, DiscardDone,
                    BatchDone, Dispatch, EndTurn, Crash, turnVars
            <3> QED  BY <2>2, <2>3, <3>1
        <2>5. CASE Budget \/ DrainSteer \/ PersistReply \/ DiscardCall \/ RecordResult \/ GateCall
            <3>1. pc' \notin {"frame", "budget"}
                BY <2>5 DEF Budget, HostFails, Return, DrainSteer, PersistReply,
                            DiscardCall, RecordResult, GateCall, LoopFails
            <3> QED  BY <2>2, <2>3, <3>1
        <2>6. CASE ToolEnds \/ Steer \/ Cancel \/ BeginClear \/ MarkCleared \/ UNCHANGED vars
            <3>1. pc' = pc /\ context' = context
                BY <2>6 DEF ToolEnds, Steer, Cancel, BeginClear, MarkCleared, vars, turnVars
            <3> QED  BY <2>2, <2>3, <3>1
        <2> QED  BY <2>1, <2>4, <2>5, <2>6 DEF Next, TurnStep, HostStep, Awaited, Environment, Finished
    <1> QED  BY <1>2, <1>3 DEF InvShaped

(* The row-level count behind the session list is the length of the view   *)
(* the log projects to, wherever a /clear lands.                           *)
THEOREM CountsAreLengths == Spec => []CountMatchesView
    <1>1. Init => InvShaped
        BY EmptyIsSequence DEF Init, InvShaped
    <1>2. Inv /\ InvShaped /\ [Next]_vars => InvShaped'
        BY ShapedStep
    <1>3. Inv /\ InvShaped => CountMatchesView
        BY DeriveShaped, CountIsLength DEF Inv, TypeOK, InvShaped, CountMatchesView
    <1> QED  BY <1>1, <1>2, <1>3, Invariance, PTL DEF Spec

-----------------------------------------------------------------------------
(* ReplyStream: bytes, lines and blocks.                                   *)

LEMMA BytesDiffer ==
    /\ LF # CR /\ LF # Other /\ CR # Other
    /\ \A k : Byte("data", k) \notin {LF, CR, Other} /\ Byte("more", k) \notin {LF, CR, Other}
    /\ \A k : Byte("data", k).b = "data" /\ Byte("data", k).k = k /\ Byte("more", k).b = "more"
    /\ LF.b = "LF" /\ CR.b = "CR" /\ Other.b = "other"
    BY DEF Byte, LF, CR, Other

IsFormat(eol, named) == eol \in {<<LF>>, <<CR, LF>>} /\ named \in BOOLEAN

(* A sequence that begins as another one does, as far as it goes.          *)
Begins(u, b) == \A i \in 1 .. Len(u) : i <= Len(b) => u[i] = b[i]

(* What one or two more bytes make of a sequence.                          *)
Grown(u, s, x) ==
    /\ IsSequence(u) /\ Len(u) = Len(s) + 1
    /\ \A i \in 1 .. Len(s) : u[i] = s[i]
    /\ u[Len(s) + 1] = x

GrownTwice(u, s, x, y) ==
    /\ IsSequence(u) /\ Len(u) = Len(s) + 2
    /\ \A i \in 1 .. Len(s) : u[i] = s[i]
    /\ u[Len(s) + 1] = x /\ u[Len(s) + 2] = y

LEMMA OneElement ==
    ASSUME NEW s, IsSequence(s), NEW x
    PROVE  Grown(s \o <<x>>, s, x)
    <1>1. PICK t : t = <<x>>
        OBVIOUS
    <1>2. IsSequence(t) /\ Len(t) = 1 /\ DOMAIN t = {1} /\ t[1] = x
        BY <1>1, SingletonIsSequence, SequenceDomain
    <1>3. PICK u : u = s \o t
        OBVIOUS
    <1>4. Joins(u, s, t)
        BY <1>2, <1>3, ConcatJoins
    <1>5. Grown(u, s, x)
        BY <1>2, <1>4, SequenceDomain DEF Joins, Grown
    <1> QED  BY <1>1, <1>3, <1>5, Zenon

LEMMA TwoElements ==
    ASSUME NEW s, IsSequence(s), NEW x, NEW y
    PROVE  GrownTwice(s \o <<x, y>>, s, x, y)
    <1>1. PICK t : t = <<x, y>>
        OBVIOUS
    <1>2. t \in Seq({x, y}) /\ Len(t) = 2 /\ t[1] = x /\ t[2] = y
        BY <1>1
    <1>3. IsSequence(t) /\ DOMAIN t = {1, 2}
        BY <1>2, TypedIsSequence
    <1>4. PICK u : u = s \o t
        OBVIOUS
    <1>5. Joins(u, s, t)
        BY <1>3, <1>4, ConcatJoins
    <1>6. GrownTwice(u, s, x, y)
        BY <1>2, <1>3, <1>5, SequenceDomain DEF Joins, GrownTwice
    <1> QED  BY <1>1, <1>4, <1>6, Zenon

LEMMA BlockIs ==
    ASSUME NEW k
    PROVE  /\ Block(k, <<LF>>, FALSE) = <<Byte("data", k), Byte("more", k), LF, LF>>
           /\ Block(k, <<CR, LF>>, FALSE) = <<Byte("data", k), Byte("more", k), CR, LF, CR, LF>>
           /\ Block(k, <<LF>>, TRUE) = <<Other, LF, Byte("data", k), Byte("more", k), LF, LF>>
           /\ Block(k, <<CR, LF>>, TRUE) =
                 <<Other, CR, LF, Byte("data", k), Byte("more", k), CR, LF, CR, LF>>
    <1>0. PICK d, m : d = Byte("data", k) /\ m = Byte("more", k)
        OBVIOUS
    <1> DEFINE T == {d, m, LF, CR, Other}
    <1>1. IsSequence(<<>>) /\ Len(<<>>) = 0
        BY EmptyIsSequence
    <1>2. <<>> \o <<d, m>> \o <<LF>> \o <<LF>> = <<d, m, LF, LF>>
        <2>1. PICK s : s = <<>> \o <<d, m>>
            OBVIOUS
        <2>2. IsSequence(s) /\ Len(s) = 2 /\ s[1] = d /\ s[2] = m
            <3>1. GrownTwice(s, <<>>, d, m)
                BY <1>1, <2>1, TwoElements, Zenon
            <3> QED  BY <1>1, <3>1 DEF GrownTwice
        <2>3. PICK t : t = s \o <<LF>>
            OBVIOUS
        <2>4. IsSequence(t) /\ Len(t) = 3 /\ t[1] = d /\ t[2] = m /\ t[3] = LF
            <3>1. Grown(t, s, LF)
                BY <2>2, <2>3, OneElement, Zenon
            <3> QED  BY <2>2, <3>1 DEF Grown
        <2>5. PICK u : u = t \o <<LF>>
            OBVIOUS
        <2>6. IsSequence(u) /\ Len(u) = 4 /\ u[1] = d /\ u[2] = m /\ u[3] = LF /\ u[4] = LF
            <3>1. Grown(u, t, LF)
                BY <2>4, <2>5, OneElement, Zenon
            <3> QED  BY <2>4, <3>1 DEF Grown
        <2>7. u = <<d, m, LF, LF>>
            <3>1. PICK w : w = <<d, m, LF, LF>>
                OBVIOUS
            <3>2. w \in Seq(T) /\ Len(w) = 4 /\ w[1] = d /\ w[2] = m /\ w[3] = LF /\ w[4] = LF
                BY <3>1
            <3> HIDE DEF T
            <3>3. IsSequence(w) /\ \A i \in 1 .. 4 : u[i] = w[i]
                BY <2>6, <3>2, TypedIsSequence
            <3> QED  BY <2>6, <3>1, <3>2, <3>3, SameSequence
        <2> QED  BY <2>1, <2>3, <2>5, <2>7
    <1>3. <<>> \o <<d, m>> \o <<CR, LF>> \o <<CR, LF>> = <<d, m, CR, LF, CR, LF>>
        <2>1. PICK s : s = <<>> \o <<d, m>>
            OBVIOUS
        <2>2. IsSequence(s) /\ Len(s) = 2 /\ s[1] = d /\ s[2] = m
            <3>1. GrownTwice(s, <<>>, d, m)
                BY <1>1, <2>1, TwoElements, Zenon
            <3> QED  BY <1>1, <3>1 DEF GrownTwice
        <2>3. PICK t : t = s \o <<CR, LF>>
            OBVIOUS
        <2>4. IsSequence(t) /\ Len(t) = 4 /\ t[1] = d /\ t[2] = m /\ t[3] = CR /\ t[4] = LF
            <3>1. GrownTwice(t, s, CR, LF)
                BY <2>2, <2>3, TwoElements, Zenon
            <3> QED  BY <2>2, <3>1 DEF GrownTwice
        <2>5. PICK u : u = t \o <<CR, LF>>
            OBVIOUS
        <2>6. /\ IsSequence(u) /\ Len(u) = 6
              /\ u[1] = d /\ u[2] = m /\ u[3] = CR /\ u[4] = LF /\ u[5] = CR /\ u[6] = LF
            <3>1. GrownTwice(u, t, CR, LF)
                BY <2>4, <2>5, TwoElements, Zenon
            <3> QED  BY <2>4, <3>1 DEF GrownTwice
        <2>7. u = <<d, m, CR, LF, CR, LF>>
            <3>1. PICK w : w = <<d, m, CR, LF, CR, LF>>
                OBVIOUS
            <3>2. /\ w \in Seq(T) /\ Len(w) = 6
                  /\ w[1] = d /\ w[2] = m /\ w[3] = CR /\ w[4] = LF /\ w[5] = CR /\ w[6] = LF
                BY <3>1
            <3> HIDE DEF T
            <3>3. IsSequence(w) /\ \A i \in 1 .. 6 : u[i] = w[i]
                BY <2>6, <3>2, TypedIsSequence
            <3> QED  BY <2>6, <3>1, <3>2, <3>3, SameSequence
        <2> QED  BY <2>1, <2>3, <2>5, <2>7
    <1>4. (<<Other>> \o <<LF>>) \o <<d, m>> \o <<LF>> \o <<LF>> = <<Other, LF, d, m, LF, LF>>
        <2>1. PICK r : r = <<Other>> \o <<LF>>
            OBVIOUS
        <2>2. IsSequence(r) /\ Len(r) = 2 /\ r[1] = Other /\ r[2] = LF
            <3>1. PICK q : q = <<Other>>
                OBVIOUS
            <3>2. IsSequence(q) /\ Len(q) = 1 /\ q[1] = Other
                BY <3>1, SingletonIsSequence
            <3>3. Grown(r, q, LF)
                BY <2>1, <3>1, <3>2, OneElement, Zenon
            <3> QED  BY <3>2, <3>3 DEF Grown
        <2>3. PICK s : s = r \o <<d, m>>
            OBVIOUS
        <2>4. IsSequence(s) /\ Len(s) = 4 /\ s[1] = Other /\ s[2] = LF /\ s[3] = d /\ s[4] = m
            <3>1. GrownTwice(s, r, d, m)
                BY <2>2, <2>3, TwoElements, Zenon
            <3> QED  BY <2>2, <3>1 DEF GrownTwice
        <2>5. PICK t : t = s \o <<LF>>
            OBVIOUS
        <2>6. /\ IsSequence(t) /\ Len(t) = 5
              /\ t[1] = Other /\ t[2] = LF /\ t[3] = d /\ t[4] = m /\ t[5] = LF
            <3>1. Grown(t, s, LF)
                BY <2>4, <2>5, OneElement, Zenon
            <3> QED  BY <2>4, <3>1 DEF Grown
        <2>7. PICK u : u = t \o <<LF>>
            OBVIOUS
        <2>8. /\ IsSequence(u) /\ Len(u) = 6
              /\ u[1] = Other /\ u[2] = LF /\ u[3] = d /\ u[4] = m /\ u[5] = LF /\ u[6] = LF
            <3>1. Grown(u, t, LF)
                BY <2>6, <2>7, OneElement, Zenon
            <3> QED  BY <2>6, <3>1 DEF Grown
        <2>9. u = <<Other, LF, d, m, LF, LF>>
            <3>1. PICK w : w = <<Other, LF, d, m, LF, LF>>
                OBVIOUS
            <3>2. /\ w \in Seq(T) /\ Len(w) = 6
                  /\ w[1] = Other /\ w[2] = LF /\ w[3] = d /\ w[4] = m /\ w[5] = LF /\ w[6] = LF
                BY <3>1
            <3> HIDE DEF T
            <3>3. IsSequence(w) /\ \A i \in 1 .. 6 : u[i] = w[i]
                BY <2>8, <3>2, TypedIsSequence
            <3> QED  BY <2>8, <3>1, <3>2, <3>3, SameSequence
        <2> QED  BY <2>1, <2>3, <2>5, <2>7, <2>9
    <1>5. (<<Other>> \o <<CR, LF>>) \o <<d, m>> \o <<CR, LF>> \o <<CR, LF>>
             = <<Other, CR, LF, d, m, CR, LF, CR, LF>>
        <2>1. PICK r : r = <<Other>> \o <<CR, LF>>
            OBVIOUS
        <2>2. IsSequence(r) /\ Len(r) = 3 /\ r[1] = Other /\ r[2] = CR /\ r[3] = LF
            <3>1. PICK q : q = <<Other>>
                OBVIOUS
            <3>2. IsSequence(q) /\ Len(q) = 1 /\ q[1] = Other
                BY <3>1, SingletonIsSequence
            <3>3. GrownTwice(r, q, CR, LF)
                BY <2>1, <3>1, <3>2, TwoElements, Zenon
            <3> QED  BY <3>2, <3>3 DEF GrownTwice
        <2>3. PICK s : s = r \o <<d, m>>
            OBVIOUS
        <2>4. /\ IsSequence(s) /\ Len(s) = 5
              /\ s[1] = Other /\ s[2] = CR /\ s[3] = LF /\ s[4] = d /\ s[5] = m
            <3>1. GrownTwice(s, r, d, m)
                BY <2>2, <2>3, TwoElements, Zenon
            <3> QED  BY <2>2, <3>1 DEF GrownTwice
        <2>5. PICK t : t = s \o <<CR, LF>>
            OBVIOUS
        <2>6. /\ IsSequence(t) /\ Len(t) = 7
              /\ t[1] = Other /\ t[2] = CR /\ t[3] = LF /\ t[4] = d /\ t[5] = m
              /\ t[6] = CR /\ t[7] = LF
            <3>1. GrownTwice(t, s, CR, LF)
                BY <2>4, <2>5, TwoElements, Zenon
            <3> QED  BY <2>4, <3>1 DEF GrownTwice
        <2>7. PICK u : u = t \o <<CR, LF>>
            OBVIOUS
        <2>8. /\ IsSequence(u) /\ Len(u) = 9
              /\ u[1] = Other /\ u[2] = CR /\ u[3] = LF /\ u[4] = d /\ u[5] = m
              /\ u[6] = CR /\ u[7] = LF /\ u[8] = CR /\ u[9] = LF
            <3>1. GrownTwice(u, t, CR, LF)
                BY <2>6, <2>7, TwoElements, Zenon
            <3> QED  BY <2>6, <3>1 DEF GrownTwice
        <2>9. u = <<Other, CR, LF, d, m, CR, LF, CR, LF>>
            <3>1. PICK w : w = <<Other, CR, LF, d, m, CR, LF, CR, LF>>
                OBVIOUS
            <3>2. /\ w \in Seq(T) /\ Len(w) = 9
                  /\ w[1] = Other /\ w[2] = CR /\ w[3] = LF /\ w[4] = d /\ w[5] = m
                  /\ w[6] = CR /\ w[7] = LF /\ w[8] = CR /\ w[9] = LF
                BY <3>1
            <3> HIDE DEF T
            <3>3. IsSequence(w) /\ \A i \in 1 .. 9 : u[i] = w[i]
                BY <2>8, <3>2, TypedIsSequence
            <3> QED  BY <2>8, <3>1, <3>2, <3>3, SameSequence
        <2> QED  BY <2>1, <2>3, <2>5, <2>7, <2>9
    <1> HIDE DEF T
    <1>6. Block(k, <<LF>>, FALSE) = <<>> \o <<d, m>> \o <<LF>> \o <<LF>>
        BY <1>0, Zenon DEF Block, Line
    <1>7. Block(k, <<CR, LF>>, FALSE) = <<>> \o <<d, m>> \o <<CR, LF>> \o <<CR, LF>>
        BY <1>0, Zenon DEF Block, Line
    <1>8. Block(k, <<LF>>, TRUE) = (<<Other>> \o <<LF>>) \o <<d, m>> \o <<LF>> \o <<LF>>
        BY <1>0, Zenon DEF Block, Line
    <1>9. Block(k, <<CR, LF>>, TRUE)
             = (<<Other>> \o <<CR, LF>>) \o <<d, m>> \o <<CR, LF>> \o <<CR, LF>>
        BY <1>0, Zenon DEF Block, Line
    <1> QED  BY <1>0, <1>2, <1>3, <1>4, <1>5, <1>6, <1>7, <1>8, <1>9, Zenon

LEMMA StartsAtIs ==
    ASSUME NEW u, IsSequence(u), NEW i \in Nat
    PROVE  /\ StartsAt(u, i, <<LF, LF>>) <=>
                 i + 1 <= Len(u) /\ u[i] = LF /\ u[i + 1] = LF
           /\ StartsAt(u, i, <<CR, LF, CR, LF>>) <=>
                 /\ i + 3 <= Len(u)
                 /\ u[i] = CR /\ u[i + 1] = LF /\ u[i + 2] = CR /\ u[i + 3] = LF
    <1>1. Len(u) \in Nat
        BY SequenceDomain
    <1>2. StartsAt(u, i, <<LF, LF>>) <=> i + 1 <= Len(u) /\ u[i] = LF /\ u[i + 1] = LF
        <2>1. PICK w : w = <<LF, LF>>
            OBVIOUS
        <2>2. Len(w) = 2 /\ w[1] = LF /\ w[2] = LF
            BY <2>1
        <2>3. StartsAt(u, i, w) <=>
                 i + 1 <= Len(u) /\ u[i + 1 - 1] = w[1] /\ u[i + 2 - 1] = w[2]
            BY <1>1, <2>2 DEF StartsAt
        <2> QED  BY <2>1, <2>2, <2>3
    <1>3. StartsAt(u, i, <<CR, LF, CR, LF>>) <=>
             /\ i + 3 <= Len(u)
             /\ u[i] = CR /\ u[i + 1] = LF /\ u[i + 2] = CR /\ u[i + 3] = LF
        <2>1. PICK w : w = <<CR, LF, CR, LF>>
            OBVIOUS
        <2>2. Len(w) = 4 /\ w[1] = CR /\ w[2] = LF /\ w[3] = CR /\ w[4] = LF
            BY <2>1
        <2>3. StartsAt(u, i, w) <=>
                 /\ i + 3 <= Len(u) /\ u[i + 1 - 1] = w[1] /\ u[i + 2 - 1] = w[2]
                 /\ u[i + 3 - 1] = w[3] /\ u[i + 4 - 1] = w[4]
            BY <1>1, <2>2 DEF StartsAt
        <2> QED  BY <2>1, <2>2, <2>3
    <1> QED  BY <1>2, <1>3
LEMMA NoSeparator ==
    ASSUME NEW u, IsSequence(u),
           \A i \in 1 .. Len(u) : ~StartsAt(u, i, <<LF, LF>>) /\ ~StartsAt(u, i, <<CR, LF, CR, LF>>)
    PROVE  Separator(u) = 0
    BY DEF Separator, Separators

LEMMA SeparatorAt ==
    ASSUME NEW u, IsSequence(u), NEW at \in 1 .. Len(u), NEW w \in Separators,
           StartsAt(u, at, w),
           \A i \in 1 .. (at - 1) : ~StartsAt(u, i, <<LF, LF>>) /\ ~StartsAt(u, i, <<CR, LF, CR, LF>>)
    PROVE  /\ Separator(u) = at
           /\ Behind(u) = SubSeq(u, at + Len(w), Len(u))
           /\ FirstFrame(u) = SubSeq(u, 1, at - 1)
    <1>0. Len(u) \in Nat /\ at \in Nat
        BY SequenceDomain
    <1>1. Separator(u) = at
        <2> DEFINE starts == {i \in 1 .. Len(u) : \E s \in Separators : StartsAt(u, i, s)}
        <2>1. at \in starts
            OBVIOUS
        <2>2. \A i \in starts : at <= i
            BY <1>0 DEF Separators
        <2>3. Separator(u) = CHOOSE i \in starts : \A j \in starts : i <= j
            BY <2>1, Zenon DEF Separator
        <2>4. \A i \in starts : i \in Int
            OBVIOUS
        <2> HIDE DEF starts
        <2>5. \A i \in starts : (\A j \in starts : i <= j) => i = at
            BY <1>0, <2>1, <2>2, <2>4
        <2>6. (CHOOSE i \in starts : \A j \in starts : i <= j) = at
            BY <2>1, <2>2, <2>5, Zenon
        <2> QED  BY <2>3, <2>6
    <1>2. (CHOOSE t \in Separators : StartsAt(u, at, t)) = w
        <2>1. ~(StartsAt(u, at, <<LF, LF>>) /\ StartsAt(u, at, <<CR, LF, CR, LF>>))
            BY <1>0, StartsAtIs, BytesDiffer
        <2>2. \A t \in Separators : StartsAt(u, at, t) => t = w
            BY <2>1 DEF Separators
        <2> QED  BY <2>2
    <1> QED  BY <1>1, <1>2, Zenon DEF Behind, FirstFrame

-----------------------------------------------------------------------------
(* The lines of a frame.                                                   *)

Reads(r, frame, n) ==
    r = [i \in 0 .. n |-> IF i = 0 THEN NoLines
                          ELSE ReadByte(r[i - 1], frame[i])]

LEMMA ReadsAt ==
    ASSUME NEW frame, NEW n \in Nat, NEW r, Reads(r, frame, n)
    PROVE  /\ r[0] = NoLines
           /\ \A i \in 1 .. n : r[i] = ReadByte(r[i - 1], frame[i])
    <1> DEFINE e(i) == IF i = 0 THEN NoLines
                       ELSE ReadByte(r[i - 1], frame[i])
    <1>1. r = [i \in 0 .. n |-> e(i)]
        BY Zenon DEF Reads
    <1> HIDE DEF e
    <1>2. \A i \in 0 .. n : r[i] = e(i)
        BY <1>1
    <1>3. r[0] = e(0)
        BY <1>2
    <1>4. \A i \in 1 .. n : r[i] = e(i) /\ i # 0
        BY <1>2
    <1> QED  BY <1>3, <1>4, Zenon DEF e

LEMMA ReadsExists ==
    ASSUME NEW frame, NEW n \in Nat
    PROVE  \E r : Reads(r, frame, n)
    <1> DEFINE step(acc, i) == ReadByte(acc, frame[i])
               G == {k \in Nat : \E r : r = [i \in 0 .. k |-> IF i = 0 THEN NoLines
                                                                 ELSE step(r[i - 1], i)]}
    <1> HIDE DEF step
    <1>1. 0 \in G
        <2> DEFINE r == [i \in 0 .. 0 |-> NoLines]
        <2>1. r = [i \in 0 .. 0 |-> IF i = 0 THEN NoLines ELSE step(r[i - 1], i)]
            OBVIOUS
        <2> HIDE DEF r
        <2> QED  BY <2>1
    <1>2. ASSUME NEW k \in G PROVE k + 1 \in G
        <2>1. PICK r : r = [i \in 0 .. k |-> IF i = 0 THEN NoLines ELSE step(r[i - 1], i)]
            OBVIOUS
        <2>2. PICK e : e = step(r[k], k + 1)
            OBVIOUS
        <2> DEFINE q == [i \in 0 .. (k + 1) |-> IF i = k + 1 THEN e ELSE r[i]]
        <2>3. k \in Nat
            OBVIOUS
        <2>4. ASSUME NEW i \in 0 .. (k + 1)
              PROVE  q[i] = IF i = 0 THEN NoLines ELSE step(q[i - 1], i)
            <3>1. CASE i = 0
                <4>1. 0 \in 0 .. k /\ 0 # k + 1
                    BY <2>3
                <4> QED  BY <2>1, <3>1, <4>1
            <3>2. CASE i = k + 1
                <4>1. i # 0 /\ i - 1 = k /\ k \in 0 .. (k + 1) /\ k # k + 1
                    BY <2>3, <3>2
                <4>2. q[i - 1] = r[k] /\ q[i] = e
                    BY <3>2, <4>1
                <4> HIDE DEF q
                <4> QED  BY <2>2, <3>2, <4>1, <4>2
            <3>3. CASE i # 0 /\ i # k + 1
                <4>1. i \in 0 .. k /\ i - 1 \in 0 .. (k + 1) /\ i - 1 # k + 1
                    BY <2>3, <3>3
                <4>2. q[i] = r[i] /\ q[i - 1] = r[i - 1]
                    BY <3>3, <4>1
                <4>3. r[i] = step(r[i - 1], i)
                    BY <2>1, <3>3, <4>1
                <4> HIDE DEF q
                <4> QED  BY <3>3, <4>2, <4>3
            <3> QED  BY <3>1, <3>2, <3>3
        <2>5. q = [i \in 0 .. (k + 1) |-> q[i]]
            OBVIOUS
        <2> HIDE DEF q
        <2>6. q = [i \in 0 .. (k + 1) |-> IF i = 0 THEN NoLines ELSE step(q[i - 1], i)]
            BY <2>4, <2>5
        <2> QED  BY <2>3, <2>6
    <1>3. G = Nat
        <2> HIDE DEF G
        <2> QED  BY <1>1, <1>2, NaturalInduction DEF G
    <1>4. PICK r : r = [i \in 0 .. n |-> IF i = 0 THEN NoLines ELSE step(r[i - 1], i)]
        BY <1>3
    <1> QED  BY <1>4, Zenon DEF step, Reads

LEMMA ParseIs ==
    ASSUME NEW frame, IsSequence(frame)
    PROVE  \E r : /\ Reads(r, frame, Len(frame))
                  /\ ParseFrame(frame) = EndLine(r[Len(frame)]).found
                                            \o Json(EndLine(r[Len(frame)]).data)
    <1> DEFINE r == CHOOSE q : Reads(q, frame, Len(frame))
    <1>1. Len(frame) \in Nat
        BY SequenceDomain
    <1>2. Reads(r, frame, Len(frame))
        BY <1>1, ReadsExists, Zenon
    <1>3. ParseFrame(frame) = EndLine(r[Len(frame)]).found \o Json(EndLine(r[Len(frame)]).data)
        BY Zenon DEF ParseFrame, Reads, NoLines
    <1> HIDE DEF r
    <1> QED  BY <1>2, <1>3

LEMMA PairIs ==
    ASSUME NEW x, NEW y
    PROVE  /\ Append(<<>>, x) = <<x>> /\ Append(<<x>>, y) = <<x, y>>
           /\ Append(Append(<<>>, x), y) = <<x, y>>
    <1>1. Append(<<>>, x) = <<x>>
        BY SingletonIsSequence
    <1>2. PICK s : s = <<x>>
        OBVIOUS
    <1>3. IsSequence(s) /\ Len(s) = 1 /\ s[1] = x
        BY <1>2, SingletonIsSequence
    <1>4. PICK t : t = Append(s, y)
        OBVIOUS
    <1>5. IsSequence(t) /\ Len(t) = 2 /\ t[1] = x /\ t[2] = y
        BY <1>3, <1>4, AppendIsSequence, SequenceDomain
    <1>6. PICK w : w = <<x, y>>
        OBVIOUS
    <1>7. w \in Seq({x, y}) /\ Len(w) = 2 /\ w[1] = x /\ w[2] = y
        BY <1>6
    <1>8. IsSequence(w) /\ \A i \in 1 .. 2 : t[i] = w[i]
        BY <1>5, <1>7, TypedIsSequence
    <1>9. t = w
        BY <1>5, <1>7, <1>8, SameSequence
    <1> QED  BY <1>1, <1>2, <1>4, <1>6, <1>9

LEMMA OtherLine ==
    /\ EndLine([NoLines EXCEPT !.line = <<Other>>]) = NoLines
    /\ EndLine([NoLines EXCEPT !.line = <<Other, CR>>]) = NoLines
    <1>1. PICK s : s = <<Other>>
        OBVIOUS
    <1>2. IsSequence(s) /\ Len(s) = 1 /\ s[1] = Other /\ s # <<>>
        BY <1>1, SingletonIsSequence, EmptyIsSequence
    <1>3. PICK t : t = <<Other, CR>>
        OBVIOUS
    <1>4. t \in Seq({Other, CR}) /\ Len(t) = 2 /\ t[1] = Other /\ t[2] = CR /\ t # <<>>
        BY <1>3
    <1>5. Trimmed(s) = s
        BY <1>2, BytesDiffer DEF Trimmed
    <1>6. Trimmed(t) = s
        <2>1. Trimmed(t) = SubSeq(t, 1, 1)
            BY <1>4 DEF Trimmed
        <2>2. PICK q : q = SubSeq(t, 1, 1)
            OBVIOUS
        <2>3. IsSequence(q) /\ Len(q) = 1 /\ q[1] = Other
            BY <1>4, <2>2, TypedIsSequence, SubSeqIsSequence
        <2>4. q = s
            BY <1>2, <2>3, SameSequence
        <2> QED  BY <2>1, <2>2, <2>4
    <1>7. ~IsData(s)
        BY <1>2, BytesDiffer DEF IsData
    <1>8. \A x : [NoLines EXCEPT !.line = x].line = x /\ [NoLines EXCEPT !.line = x].data = <<>>
                 /\ [NoLines EXCEPT !.line = x].found = <<>>
        BY DEF NoLines
    <1>9. EndLine([NoLines EXCEPT !.line = s]) = NoLines
        <2>1. PICK acc : acc = [NoLines EXCEPT !.line = s]
            OBVIOUS
        <2>2. acc.line = s /\ acc.data = <<>> /\ acc.found = <<>>
            BY <1>8, <2>1
        <2>3. EndLine(acc) = [line |-> <<>>, data |-> <<>>, found |-> <<>>]
            BY <1>2, <1>5, <1>7, <2>2 DEF EndLine
        <2> QED  BY <2>1, <2>3 DEF NoLines
    <1>10. EndLine([NoLines EXCEPT !.line = t]) = NoLines
        <2>1. PICK acc : acc = [NoLines EXCEPT !.line = t]
            OBVIOUS
        <2>2. acc.line = t /\ acc.data = <<>> /\ acc.found = <<>>
            BY <1>8, <2>1
        <2>3. EndLine(acc) = [line |-> <<>>, data |-> <<>>, found |-> <<>>]
            BY <1>2, <1>6, <1>7, <2>2 DEF EndLine
        <2> QED  BY <2>1, <2>3 DEF NoLines
    <1> QED  BY <1>1, <1>3, <1>9, <1>10

LEMMA DataLine ==
    ASSUME NEW k
    PROVE  LET end == EndLine([NoLines EXCEPT !.line = Line(k)])
           IN  end.found \o Json(end.data) = <<k>>
    <1>1. PICK s : s = Line(k)
        OBVIOUS
    <1>2. PICK d, m : d = Byte("data", k) /\ m = Byte("more", k)
        OBVIOUS
    <1>3. s = <<d, m>>
        BY <1>1, <1>2, Zenon DEF Line
    <1>4. s \in Seq({d, m}) /\ Len(s) = 2 /\ s[1] = d /\ s[2] = m /\ s # <<>>
        BY <1>3
    <1>5. d.b = "data" /\ d.k = k /\ m # CR
        BY <1>2, BytesDiffer
    <1>6. Trimmed(s) = s /\ IsData(s)
        BY <1>4, <1>5 DEF Trimmed, IsData
    <1>7. Json(s) = <<k>>
        BY <1>1, <1>4, <1>5, Zenon DEF Json
    <1>8. PICK acc : acc = [NoLines EXCEPT !.line = s]
        OBVIOUS
    <1>9. acc.line = s /\ acc.data = <<>> /\ acc.found = <<>>
        BY <1>8 DEF NoLines
    <1>10. IsSequence(s)
        BY <1>4, TypedIsSequence
    <1>11. <<>> \o s = s
        BY <1>10, EmptyConcat
    <1>12. EndLine(acc).data = s /\ EndLine(acc).found = <<>>
        BY <1>4, <1>6, <1>9, <1>11 DEF EndLine
    <1>13. <<>> \o <<k>> = <<k>>
        BY SingletonIsSequence, EmptyConcat
    <1> QED  BY <1>1, <1>7, <1>8, <1>12, <1>13

LEMMA LineIs ==
    ASSUME NEW s, NEW y
    PROVE  /\ [NoLines EXCEPT !.line = s] = [line |-> s, data |-> <<>>, found |-> <<>>]
           /\ [[line |-> s, data |-> <<>>, found |-> <<>>] EXCEPT !.line = y]
                = [line |-> y, data |-> <<>>, found |-> <<>>]
    BY DEF NoLines

LEMMA LineGrows ==
    ASSUME NEW s, NEW y, NEW x, x = [NoLines EXCEPT !.line = s]
    PROVE  [x EXCEPT !.line = Append(@, y)] = [NoLines EXCEPT !.line = Append(s, y)]
    <1>1. PICK u : u = Append(s, y)
        OBVIOUS
    <1>2. x.line = s
        BY DEF NoLines
    <1>3. [x EXCEPT !.line = u] = [NoLines EXCEPT !.line = u]
        BY LineIs
    <1> QED  BY <1>1, <1>2, <1>3

LEMMA DataFound ==
    ASSUME NEW frame, IsSequence(frame), NEW k, NEW j \in Nat, Len(frame) = j + 2,
           frame[j + 1] = Byte("data", k), frame[j + 2] = Byte("more", k),
           NEW r, Reads(r, frame, j + 2), r[j] = NoLines
    PROVE  EndLine(r[j + 2]).found \o Json(EndLine(r[j + 2]).data) = <<k>>
    <1>1. PICK d, m : d = Byte("data", k) /\ m = Byte("more", k)
        OBVIOUS
    <1>2. d # LF /\ m # LF
        BY <1>1, BytesDiffer
    <1>3. j + 1 \in 1 .. (j + 2) /\ j + 2 \in 1 .. (j + 2) /\ j + 1 - 1 = j /\ j + 2 - 1 = j + 1
          /\ j + 2 \in Nat
        OBVIOUS
    <1>4. \A i \in 1 .. (j + 2) : r[i] = ReadByte(r[i - 1], frame[i])
        BY <1>3, ReadsAt
    <1>5. r[j + 1] = [NoLines EXCEPT !.line = Append(@, d)]
        <2>1. r[j + 1] = ReadByte(r[j + 1 - 1], frame[j + 1])
            BY <1>3, <1>4
        <2> QED  BY <1>1, <1>2, <1>3, <2>1 DEF ReadByte
    <1>6. r[j + 2] = [r[j + 1] EXCEPT !.line = Append(@, m)]
        <2>1. r[j + 2] = ReadByte(r[j + 2 - 1], frame[j + 2])
            BY <1>3, <1>4
        <2> QED  BY <1>1, <1>2, <1>3, <2>1 DEF ReadByte
    <1>7. r[j + 2] = [NoLines EXCEPT !.line = Line(k)]
        <2>1. r[j + 1] = [NoLines EXCEPT !.line = Append(<<>>, d)]
            BY <1>5 DEF NoLines
        <2>2. r[j + 2] = [NoLines EXCEPT !.line = Append(Append(<<>>, d), m)]
            BY <1>6, <2>1, LineGrows, Zenon
        <2>3. Append(Append(<<>>, d), m) = Line(k)
            BY <1>1, PairIs, Zenon DEF Line
        <2> QED  BY <2>2, <2>3, Zenon
    <1> QED  BY <1>7, DataLine

LEMMA FrameFound ==
    ASSUME NEW frame, IsSequence(frame), NEW k, NEW j \in {0, 2, 3}, Len(frame) = j + 2,
           frame[j + 1] = Byte("data", k), frame[j + 2] = Byte("more", k),
           j # 0 => frame[1] = Other /\ frame[j] = LF,
           j = 3 => frame[2] = CR
    PROVE  ParseFrame(frame) = <<k>>
    <1>1. PICK r : /\ Reads(r, frame, Len(frame))
                   /\ ParseFrame(frame) = EndLine(r[Len(frame)]).found
                                             \o Json(EndLine(r[Len(frame)]).data)
        BY ParseIs
    <1>2. Reads(r, frame, j + 2) /\ j + 2 \in Nat
        BY <1>1
    <1>3. /\ r[0] = NoLines
          /\ \A i \in 1 .. (j + 2) : r[i] = ReadByte(r[i - 1], frame[i])
        BY <1>2, ReadsAt
    <1>4. r[j] = NoLines
        <2>1. CASE j = 0
            BY <1>3, <2>1
        <2>2. ASSUME j # 0
              PROVE  r[1] = [NoLines EXCEPT !.line = <<Other>>]
            <3>1. 1 \in 1 .. (j + 2) /\ frame[1] = Other /\ Other # LF /\ 1 - 1 = 0
                BY <2>2, BytesDiffer
            <3>2. r[1] = ReadByte(r[1 - 1], frame[1])
                BY <1>3, <3>1
            <3>3. r[1] = [NoLines EXCEPT !.line = Append(@, Other)]
                BY <1>3, <3>1, <3>2 DEF ReadByte
            <3>4. Append(<<>>, Other) = <<Other>>
                BY PairIs
            <3> QED  BY <3>3, <3>4 DEF NoLines
        <2>3. CASE j = 2
            <3>1. 2 \in 1 .. (j + 2) /\ frame[2] = LF /\ 2 - 1 = 1
                BY <2>3
            <3>2. r[2] = ReadByte(r[2 - 1], frame[2])
                BY <1>3, <3>1
            <3> QED  BY <2>2, <2>3, <3>1, <3>2, OtherLine DEF ReadByte
        <2>4. CASE j = 3
            <3>1. 2 \in 1 .. (j + 2) /\ frame[2] = CR /\ CR # LF /\ 2 - 1 = 1
                BY <2>4, BytesDiffer
            <3>2. r[2] = ReadByte(r[2 - 1], frame[2])
                BY <1>3, <3>1
            <3>3. r[2] = [NoLines EXCEPT !.line = <<Other, CR>>]
                <4>1. r[2] = [r[1] EXCEPT !.line = Append(@, CR)]
                    BY <3>1, <3>2 DEF ReadByte
                <4>2. r[1] = [NoLines EXCEPT !.line = <<Other>>]
                    BY <2>2, <2>4
                <4>3. r[2] = [NoLines EXCEPT !.line = Append(<<Other>>, CR)]
                    BY <4>1, <4>2, LineGrows, Zenon
                <4>4. Append(<<Other>>, CR) = <<Other, CR>>
                    BY PairIs, Zenon
                <4> QED  BY <4>3, <4>4, Zenon
            <3>4. 3 \in 1 .. (j + 2) /\ frame[3] = LF /\ 3 - 1 = 2
                BY <2>4
            <3>5. r[3] = ReadByte(r[3 - 1], frame[3])
                BY <1>3, <3>4
            <3> QED  BY <2>4, <3>3, <3>4, <3>5, OtherLine DEF ReadByte
        <2> QED  BY <2>1, <2>3, <2>4
    <1>5. EndLine(r[j + 2]).found \o Json(EndLine(r[j + 2]).data) = <<k>>
        <2>1. j \in Nat
            OBVIOUS
        <2> QED  BY <1>2, <1>4, <2>1, DataFound, Zenon
    <1> QED  BY <1>1, <1>5

-----------------------------------------------------------------------------
(* The first frame of a buffer that begins with a block.                   *)

BlockLength(eol, named) == (IF named THEN 1 + Len(eol) ELSE 0) + 2 + 2 * Len(eol)

LEMMA BlockLengths ==
    /\ BlockLength(<<LF>>, FALSE) = 4 /\ BlockLength(<<CR, LF>>, FALSE) = 6
    /\ BlockLength(<<LF>>, TRUE) = 6 /\ BlockLength(<<CR, LF>>, TRUE) = 9
    BY DEF BlockLength

(* What the splitter makes of a buffer whose first frame is payload k's.   *)
Splits(u, k, length) ==
    /\ Separator(u) # 0
    /\ Behind(u) = SubSeq(u, length + 1, Len(u))
    /\ ParseFrame(FirstFrame(u)) = <<k>>

(* A buffer that begins with a frame whose data line follows j bytes, and  *)
(* a separator of that many bytes.                                         *)
Framed(u, k, j, w, bytes) ==
    /\ bytes = Len(w) /\ j + 2 + bytes <= Len(u)
    /\ StartsAt(u, j + 3, w)
    /\ \A i \in 1 .. (j + 2) :
          ~StartsAt(u, i, <<LF, LF>>) /\ ~StartsAt(u, i, <<CR, LF, CR, LF>>)
    /\ u[j + 1] = Byte("data", k) /\ u[j + 2] = Byte("more", k)
    /\ j # 0 => u[1] = Other /\ u[j] = LF
    /\ j = 3 => u[2] = CR

LEMMA FrameSplits ==
    ASSUME NEW u, IsSequence(u), NEW k, NEW j \in {0, 2, 3}, NEW w \in Separators,
           NEW bytes \in {2, 4}, Framed(u, k, j, w, bytes)
    PROVE  Splits(u, k, j + 2 + bytes)
    <1>0. /\ bytes = Len(w) /\ j + 2 + bytes <= Len(u) /\ StartsAt(u, j + 3, w)
          /\ \A i \in 1 .. (j + 2) :
                ~StartsAt(u, i, <<LF, LF>>) /\ ~StartsAt(u, i, <<CR, LF, CR, LF>>)
          /\ u[j + 1] = Byte("data", k) /\ u[j + 2] = Byte("more", k)
          /\ j # 0 => u[1] = Other /\ u[j] = LF
          /\ j = 3 => u[2] = CR
        BY Zenon DEF Framed
    <1>1. PICK at \in Nat : at = j + 3
        OBVIOUS
    <1>a. Len(u) \in Nat
        BY SequenceDomain
    <1>b. at \in 1 .. Len(u) /\ at - 1 = j + 2 /\ at + bytes = j + 2 + bytes + 1
          /\ j + 2 \in Nat /\ j + 2 <= Len(u)
        <2>1. j + 2 + bytes <= Len(u) /\ j \in Nat /\ bytes \in Nat /\ bytes >= 2
            BY <1>0
        <2> QED  BY <1>1, <1>a, <2>1
    <1>c. \A i \in 1 .. (at - 1) :
             ~StartsAt(u, i, <<LF, LF>>) /\ ~StartsAt(u, i, <<CR, LF, CR, LF>>)
        BY <1>0, <1>b
    <1>d. StartsAt(u, at, w)
        BY <1>0, <1>1
    <1>2. /\ Separator(u) = at
          /\ Behind(u) = SubSeq(u, at + Len(w), Len(u))
          /\ FirstFrame(u) = SubSeq(u, 1, at - 1)
        BY <1>b, <1>c, <1>d, SeparatorAt, Zenon
    <1>3. PICK frame : frame = SubSeq(u, 1, j + 2)
        OBVIOUS
    <1>4. IsSequence(frame) /\ Len(frame) = j + 2 /\ \A i \in 1 .. (j + 2) : frame[i] = u[i]
        <2>1. frame = Take(u, j + 2) /\ j + 2 \in 0 .. Len(u)
            BY <1>a, <1>b, <1>3 DEF Take
        <2> QED  BY <2>1, TakeProperties
    <1>5. ParseFrame(frame) = <<k>>
        <2>1. /\ frame[j + 1] = Byte("data", k) /\ frame[j + 2] = Byte("more", k)
              /\ j # 0 => frame[1] = Other /\ frame[j] = LF
              /\ j = 3 => frame[2] = CR
            BY <1>0, <1>4
        <2> QED  BY <1>4, <2>1, FrameFound
    <1>6. Separator(u) # 0
        BY <1>b, <1>2
    <1>7. Behind(u) = SubSeq(u, j + 2 + bytes + 1, Len(u)) /\ FirstFrame(u) = frame
        BY <1>0, <1>b, <1>2, <1>3
    <1> QED  BY <1>5, <1>6, <1>7, Zenon DEF Splits

LEMMA BlockSplits ==
    ASSUME NEW eol, NEW named, IsFormat(eol, named), NEW k, NEW u, IsSequence(u),
           Begins(u, Block(k, eol, named))
    PROVE  /\ Len(u) < BlockLength(eol, named) => Separator(u) = 0
           /\ Len(u) >= BlockLength(eol, named) => Splits(u, k, BlockLength(eol, named))
    <1>0. PICK d, m : d = Byte("data", k) /\ m = Byte("more", k)
        OBVIOUS
    <1>1. d \notin {LF, CR, Other} /\ m \notin {LF, CR, Other}
          /\ LF # CR /\ LF # Other /\ CR # Other
        BY <1>0, BytesDiffer
    <1>2. PICK n \in Nat : n = Len(u)
        BY SequenceDomain
    <1>3. \A i \in Nat :
             /\ StartsAt(u, i, <<LF, LF>>) <=> i + 1 <= n /\ u[i] = LF /\ u[i + 1] = LF
             /\ StartsAt(u, i, <<CR, LF, CR, LF>>) <=>
                   /\ i + 3 <= n
                   /\ u[i] = CR /\ u[i + 1] = LF /\ u[i + 2] = CR /\ u[i + 3] = LF
        BY <1>2, StartsAtIs
    <1>4. /\ \A i \in 1 .. n : i \in Nat
          /\ <<LF, LF>> \in Separators /\ <<CR, LF, CR, LF>> \in Separators
          /\ Len(<<LF, LF>>) = 2 /\ Len(<<CR, LF, CR, LF>>) = 4
        BY DEF Separators
    <1>5. CASE eol = <<LF>> /\ ~named
        <2>1. PICK b : b = <<d, m, LF, LF>>
            OBVIOUS
        <2>2. /\ Begins(u, b)
              /\ Len(b) = 4 /\ b[1] = d /\ b[2] = m /\ b[3] = LF
              /\ b[4] = LF
            BY <1>0, <1>5, <2>1, BlockIs DEF IsFormat
        <2>3. \A i \in 1 .. n : /\ (i = 1 => u[i] = d) /\ (i = 2 => u[i] = m)
                                /\ (i = 3 => u[i] = LF) /\ (i = 4 => u[i] = LF)
            BY <1>2, <2>2 DEF Begins
        <2>4. ASSUME n < 4 PROVE Separator(u) = 0
            <3>1. \A i \in 1 .. n :
                     ~StartsAt(u, i, <<LF, LF>>) /\ ~StartsAt(u, i, <<CR, LF, CR, LF>>)
                BY <1>1, <1>3, <2>3, <2>4
            <3> QED  BY <1>2, <3>1, NoSeparator
        <2>5. ASSUME n >= 4 PROVE Splits(u, k, 4)
            <3>1. /\ u[1] = d /\ u[2] = m /\ u[3] = LF /\ u[4] = LF
                BY <2>3, <2>5
            <3>2. \A i \in 1 .. 2 :
                     ~StartsAt(u, i, <<LF, LF>>) /\ ~StartsAt(u, i, <<CR, LF, CR, LF>>)
                BY <1>1, <1>3, <3>1
            <3>3. StartsAt(u, 3, <<LF, LF>>)
                BY <1>3, <2>5, <3>1
            <3>4. Framed(u, k, 0, <<LF, LF>>, 2)
                BY <1>0, <1>2, <1>4, <2>5, <3>1, <3>2, <3>3 DEF Framed
            <3>5. Splits(u, k, 0 + 2 + 2)
                BY <1>4, <3>4, FrameSplits
            <3> QED  BY <3>5
        <2> QED  BY <1>2, <1>5, <2>4, <2>5, BlockLengths DEF IsFormat
    <1>6. CASE eol = <<CR, LF>> /\ ~named
        <2>1. PICK b : b = <<d, m, CR, LF, CR, LF>>
            OBVIOUS
        <2>2. /\ Begins(u, b)
              /\ Len(b) = 6 /\ b[1] = d /\ b[2] = m /\ b[3] = CR
              /\ b[4] = LF /\ b[5] = CR /\ b[6] = LF
            BY <1>0, <1>6, <2>1, BlockIs DEF IsFormat
        <2>3. \A i \in 1 .. n : /\ (i = 1 => u[i] = d) /\ (i = 2 => u[i] = m)
                                /\ (i = 3 => u[i] = CR) /\ (i = 4 => u[i] = LF)
                                /\ (i = 5 => u[i] = CR) /\ (i = 6 => u[i] = LF)
            BY <1>2, <2>2 DEF Begins
        <2>4. ASSUME n < 6 PROVE Separator(u) = 0
            <3>1. \A i \in 1 .. n :
                     ~StartsAt(u, i, <<LF, LF>>) /\ ~StartsAt(u, i, <<CR, LF, CR, LF>>)
                BY <1>1, <1>3, <2>3, <2>4
            <3> QED  BY <1>2, <3>1, NoSeparator
        <2>5. ASSUME n >= 6 PROVE Splits(u, k, 6)
            <3>1. /\ u[1] = d /\ u[2] = m /\ u[3] = CR /\ u[4] = LF /\ u[5] = CR
                  /\ u[6] = LF
                BY <2>3, <2>5
            <3>2. \A i \in 1 .. 2 :
                     ~StartsAt(u, i, <<LF, LF>>) /\ ~StartsAt(u, i, <<CR, LF, CR, LF>>)
                BY <1>1, <1>3, <3>1
            <3>3. StartsAt(u, 3, <<CR, LF, CR, LF>>)
                BY <1>3, <2>5, <3>1
            <3>4. Framed(u, k, 0, <<CR, LF, CR, LF>>, 4)
                BY <1>0, <1>2, <1>4, <2>5, <3>1, <3>2, <3>3 DEF Framed
            <3>5. Splits(u, k, 0 + 2 + 4)
                BY <1>4, <3>4, FrameSplits
            <3> QED  BY <3>5
        <2> QED  BY <1>2, <1>6, <2>4, <2>5, BlockLengths DEF IsFormat
    <1>7. CASE eol = <<LF>> /\ named
        <2>1. PICK b : b = <<Other, LF, d, m, LF, LF>>
            OBVIOUS
        <2>2. /\ Begins(u, b)
              /\ Len(b) = 6 /\ b[1] = Other /\ b[2] = LF /\ b[3] = d
              /\ b[4] = m /\ b[5] = LF /\ b[6] = LF
            BY <1>0, <1>7, <2>1, BlockIs DEF IsFormat
        <2>3. \A i \in 1 .. n : /\ (i = 1 => u[i] = Other) /\ (i = 2 => u[i] = LF)
                                /\ (i = 3 => u[i] = d) /\ (i = 4 => u[i] = m)
                                /\ (i = 5 => u[i] = LF) /\ (i = 6 => u[i] = LF)
            BY <1>2, <2>2 DEF Begins
        <2>4. ASSUME n < 6 PROVE Separator(u) = 0
            <3>1. \A i \in 1 .. n :
                     ~StartsAt(u, i, <<LF, LF>>) /\ ~StartsAt(u, i, <<CR, LF, CR, LF>>)
                BY <1>1, <1>3, <2>3, <2>4
            <3> QED  BY <1>2, <3>1, NoSeparator
        <2>5. ASSUME n >= 6 PROVE Splits(u, k, 6)
            <3>1. /\ u[1] = Other /\ u[2] = LF /\ u[3] = d /\ u[4] = m /\ u[5] = LF
                  /\ u[6] = LF
                BY <2>3, <2>5
            <3>2. \A i \in 1 .. 4 :
                     ~StartsAt(u, i, <<LF, LF>>) /\ ~StartsAt(u, i, <<CR, LF, CR, LF>>)
                BY <1>1, <1>3, <3>1
            <3>3. StartsAt(u, 5, <<LF, LF>>)
                BY <1>3, <2>5, <3>1
            <3>4. Framed(u, k, 2, <<LF, LF>>, 2)
                BY <1>0, <1>2, <1>4, <2>5, <3>1, <3>2, <3>3 DEF Framed
            <3>5. Splits(u, k, 2 + 2 + 2)
                BY <1>4, <3>4, FrameSplits
            <3> QED  BY <3>5
        <2> QED  BY <1>2, <1>7, <2>4, <2>5, BlockLengths DEF IsFormat
    <1>8. CASE eol = <<CR, LF>> /\ named
        <2>1. PICK b : b = <<Other, CR, LF, d, m, CR, LF, CR, LF>>
            OBVIOUS
        <2>2. /\ Begins(u, b)
              /\ Len(b) = 9 /\ b[1] = Other /\ b[2] = CR /\ b[3] = LF
              /\ b[4] = d /\ b[5] = m /\ b[6] = CR /\ b[7] = LF
              /\ b[8] = CR /\ b[9] = LF
            BY <1>0, <1>8, <2>1, BlockIs DEF IsFormat
        <2>3. \A i \in 1 .. n : /\ (i = 1 => u[i] = Other) /\ (i = 2 => u[i] = CR)
                                /\ (i = 3 => u[i] = LF) /\ (i = 4 => u[i] = d)
                                /\ (i = 5 => u[i] = m) /\ (i = 6 => u[i] = CR)
                                /\ (i = 7 => u[i] = LF) /\ (i = 8 => u[i] = CR)
                                /\ (i = 9 => u[i] = LF)
            BY <1>2, <2>2 DEF Begins
        <2>4. ASSUME n < 9 PROVE Separator(u) = 0
            <3>1. \A i \in 1 .. n :
                     ~StartsAt(u, i, <<LF, LF>>) /\ ~StartsAt(u, i, <<CR, LF, CR, LF>>)
                BY <1>1, <1>3, <2>3, <2>4
            <3> QED  BY <1>2, <3>1, NoSeparator
        <2>5. ASSUME n >= 9 PROVE Splits(u, k, 9)
            <3>1. /\ u[1] = Other /\ u[2] = CR /\ u[3] = LF /\ u[4] = d /\ u[5] = m
                  /\ u[6] = CR /\ u[7] = LF /\ u[8] = CR /\ u[9] = LF
                BY <2>3, <2>5
            <3>2. \A i \in 1 .. 5 :
                     ~StartsAt(u, i, <<LF, LF>>) /\ ~StartsAt(u, i, <<CR, LF, CR, LF>>)
                BY <1>1, <1>3, <3>1
            <3>3. StartsAt(u, 6, <<CR, LF, CR, LF>>)
                BY <1>3, <2>5, <3>1
            <3>4. Framed(u, k, 3, <<CR, LF, CR, LF>>, 4)
                BY <1>0, <1>2, <1>4, <2>5, <3>1, <3>2, <3>3 DEF Framed
            <3>5. Splits(u, k, 3 + 2 + 4)
                BY <1>4, <3>4, FrameSplits
            <3> QED  BY <3>5
        <2> QED  BY <1>2, <1>8, <2>4, <2>5, BlockLengths DEF IsFormat
    <1> QED  BY <1>5, <1>6, <1>7, <1>8 DEF IsFormat

LEMMA BlockShape ==
    ASSUME NEW eol, NEW named, IsFormat(eol, named), NEW k
    PROVE  /\ IsSequence(Block(k, eol, named))
           /\ Len(Block(k, eol, named)) = BlockLength(eol, named)
           /\ BlockLength(eol, named) \in {4, 6, 9}
    <1>0. PICK d, m : d = Byte("data", k) /\ m = Byte("more", k)
        OBVIOUS
    <1> DEFINE T == {d, m, LF, CR, Other}
    <1>1. /\ <<d, m, LF, LF>> \in Seq(T) /\ Len(<<d, m, LF, LF>>) = 4
          /\ <<d, m, CR, LF, CR, LF>> \in Seq(T) /\ Len(<<d, m, CR, LF, CR, LF>>) = 6
        OBVIOUS
    <1>2. /\ <<Other, LF, d, m, LF, LF>> \in Seq(T) /\ Len(<<Other, LF, d, m, LF, LF>>) = 6
          /\ <<Other, CR, LF, d, m, CR, LF, CR, LF>> \in Seq(T)
          /\ Len(<<Other, CR, LF, d, m, CR, LF, CR, LF>>) = 9
        OBVIOUS
    <1> HIDE DEF T
    <1>3. \E b \in Seq(T) : b = Block(k, eol, named) /\ Len(b) = BlockLength(eol, named)
        <2>1. CASE eol = <<LF>> /\ ~named
            BY <1>0, <1>1, <2>1, BlockIs, BlockLengths DEF IsFormat
        <2>2. CASE eol = <<CR, LF>> /\ ~named
            BY <1>0, <1>1, <2>2, BlockIs, BlockLengths DEF IsFormat
        <2>3. CASE eol = <<LF>> /\ named
            BY <1>0, <1>2, <2>3, BlockIs, BlockLengths DEF IsFormat
        <2>4. CASE eol = <<CR, LF>> /\ named
            BY <1>0, <1>2, <2>4, BlockIs, BlockLengths DEF IsFormat
        <2> QED  BY <2>1, <2>2, <2>3, <2>4 DEF IsFormat
    <1>4. BlockLength(eol, named) \in {4, 6, 9}
        BY BlockLengths DEF IsFormat
    <1> QED  BY <1>3, <1>4, TypedIsSequence

-----------------------------------------------------------------------------
(* The body of a reply: its blocks, at offsets that are equally far apart. *)

Offsets(off, length) ==
    /\ length \in {4, 6, 9}
    /\ off \in [Nat -> Nat] /\ off[0] = 0
    /\ \A k \in Nat : off[k + 1] = off[k] + length
    /\ \A j, k \in Nat : j <= k => off[k] - off[j] >= k - j
    /\ \A j, k \in Nat : j < k => off[k] >= off[j] + length

LEMMA OffsetsExist ==
    ASSUME NEW length \in {4, 6, 9}
    PROVE  \E off : Offsets(off, length)
    <1>4. CASE length = 4
        <2> DEFINE off == [k \in Nat |-> k * 4]
        <2>1. Offsets(off, length)
            BY <1>4 DEF Offsets
        <2> QED  BY <2>1
    <1>6. CASE length = 6
        <2> DEFINE off == [k \in Nat |-> k * 6]
        <2>1. Offsets(off, length)
            BY <1>6 DEF Offsets
        <2> QED  BY <2>1
    <1>9. CASE length = 9
        <2> DEFINE off == [k \in Nat |-> k * 9]
        <2>1. Offsets(off, length)
            BY <1>9 DEF Offsets
        <2> QED  BY <2>1
    <1> QED  BY <1>4, <1>6, <1>9

Blocks(n, eol, named) == [k \in 1 .. n |-> Block(k, eol, named)]

(* A body of n blocks.                                                     *)
Whole(body, off, n, eol, named) ==
    /\ IsSequence(body) /\ Len(body) = off[n]
    /\ \A k \in 0 .. (n - 1) : \A i \in 1 .. BlockLength(eol, named) :
          body[off[k] + i] = Block(k + 1, eol, named)[i]

LEMMA BodyIsWhole ==
    ASSUME NEW eol, NEW named, IsFormat(eol, named), NEW n \in Nat,
           NEW off, Offsets(off, BlockLength(eol, named))
    PROVE  Whole(FlattenSeq(Blocks(n, eol, named)), off, n, eol, named)
    <1> DEFINE L == BlockLength(eol, named)
               B(k) == Block(k, eol, named)
               ss == Blocks(n, eol, named)
               F(m) == FlattenSeq(Take(ss, m))
               G == {m \in Nat : m <= n => Whole(F(m), off, m, eol, named)}
    <1>1. \A k : IsSequence(B(k)) /\ Len(B(k)) = L
        BY BlockShape
    <1>2. L \in Nat /\ off \in [Nat -> Nat] /\ off[0] = 0
          /\ (\A k \in Nat : off[k + 1] = off[k] + L)
          /\ \A j, k \in Nat : j < k => off[k] >= off[j] + L
        BY DEF Offsets
    <1> HIDE DEF B
    <1>3. IsSequence(ss) /\ Len(ss) = n /\ DOMAIN ss = 1 .. n /\ \A k \in 1 .. n : ss[k] = B(k)
        <2>1. ss = [k \in 1 .. n |-> B(k)]
            BY Zenon DEF Blocks, B
        <2>2. ss = [k \in 1 .. n |-> ss[k]]
            BY <2>1
        <2> HIDE DEF ss
        <2>3. IsSequence(ss) /\ Len(ss) = n
            BY <2>2, ListIsSequence
        <2> QED  BY <2>1, <2>3
    <1>4. IsList(ss)
        BY <1>1, <1>3 DEF IsList
    <1> HIDE DEF L, ss
    <1>5. 0 \in G
        <2>1. F(0) = <<>>
            BY <1>3, TakeEnds, FlattenNone
        <2>2. IsSequence(<<>>) /\ Len(<<>>) = 0 /\ 0 .. (0 - 1) = {}
            BY EmptyIsSequence
        <2>3. Whole(<<>>, off, 0, eol, named)
            BY <1>2, <2>2 DEF Whole
        <2> QED  BY <2>1, <2>3
    <1>6. ASSUME NEW m \in G PROVE m + 1 \in G
        <2> SUFFICES ASSUME m + 1 <= n PROVE Whole(F(m + 1), off, m + 1, eol, named)
            OBVIOUS
        <2>1. m \in Nat /\ m <= n /\ m < n /\ m + 1 \in 1 .. n
            OBVIOUS
        <2>2. PICK f : f = F(m)
            OBVIOUS
        <2>3. Whole(f, off, m, eol, named)
            BY <2>1, <2>2
        <2>4. PICK b : b = B(m + 1)
            OBVIOUS
        <2>5. IsSequence(b) /\ Len(b) = L /\ DOMAIN b = 1 .. L
            BY <1>1, <2>4, SequenceDomain
        <2>6. PICK g : g = F(m + 1)
            OBVIOUS
        <2>7. g = f \o b
            BY <1>3, <1>4, <2>1, <2>2, <2>4, <2>6, FlattenTakes
        <2>8. Joins(g, f, b)
            BY <2>3, <2>5, <2>7, ConcatJoins DEF Whole
        <2>9. /\ IsSequence(f) /\ Len(f) = off[m] /\ DOMAIN f = 1 .. off[m]
              /\ \A k \in 0 .. (m - 1) : \A i \in 1 .. L : f[off[k] + i] = B(k + 1)[i]
            BY <2>3, SequenceDomain, Zenon DEF Whole, L, B
        <2>10. /\ IsSequence(g) /\ Len(g) = off[m + 1]
               /\ \A i \in 1 .. off[m] : g[i] = f[i]
               /\ \A i \in 1 .. L : g[off[m] + i] = b[i]
            BY <1>2, <2>1, <2>5, <2>8, <2>9 DEF Joins
        <2>11. ASSUME NEW k \in 0 .. (m + 1 - 1), NEW i \in 1 .. L
               PROVE  g[off[k] + i] = B(k + 1)[i]
            <3>1. CASE k = m
                BY <2>4, <2>10, <3>1
            <3>2. CASE k \in 0 .. (m - 1)
                <4>1. k \in Nat /\ k < m
                    BY <2>1, <3>2
                <4>2. off[k] \in Nat /\ off[m] \in Nat /\ off[m] >= off[k] + L
                    BY <1>2, <2>1, <4>1
                <4>3. off[k] + i \in 1 .. off[m]
                    <5>1. PICK a \in Nat, b1 \in Nat : a = off[k] /\ b1 = off[m]
                        BY <4>2
                    <5>2. i \in Nat /\ 1 <= i /\ i <= L /\ b1 >= a + L /\ L \in Nat
                        BY <1>2, <4>2, <5>1
                    <5>3. a + i \in 1 .. b1
                        BY <5>2
                    <5> QED  BY <5>1, <5>3
                <4> QED  BY <2>9, <2>10, <3>2, <4>3
            <3> QED  BY <2>1, <3>1, <3>2
        <2>12. Whole(g, off, m + 1, eol, named)
            <3>1. IsSequence(g) /\ Len(g) = off[m + 1]
                BY <2>10
            <3>2. PICK w : w = m + 1
                OBVIOUS
            <3>3. \A k \in 0 .. (w - 1) : \A i \in 1 .. BlockLength(eol, named) :
                     g[off[k] + i] = Block(k + 1, eol, named)[i]
                <4> SUFFICES ASSUME NEW k \in 0 .. (w - 1),
                                    NEW i \in 1 .. BlockLength(eol, named)
                             PROVE  g[off[k] + i] = Block(k + 1, eol, named)[i]
                    BY Zenon
                <4>1. k \in 0 .. (m + 1 - 1)
                    BY <3>2
                <4>2. g[off[k] + i] = B(k + 1)[i]
                    BY <2>11, <4>1 DEF L
                <4> QED  BY <4>2 DEF B
            <3>4. Whole(g, off, w, eol, named)
                BY <3>1, <3>2, <3>3, Zenon DEF Whole
            <3> QED  BY <3>2, <3>4, Zenon
        <2> QED  BY <2>6, <2>12
    <1>7. G = Nat
        <2> HIDE DEF G
        <2> QED  BY <1>5, <1>6, NaturalInduction DEF G
    <1>8. Whole(F(n), off, n, eol, named)
        BY <1>7
    <1> QED  BY <1>3, <1>8, TakeEnds DEF ss

-----------------------------------------------------------------------------
(* One frame taken from a slice that begins with a block.                  *)
LEMMA FrameTaken ==
    ASSUME NEW eol, NEW named, IsFormat(eol, named), NEW n \in Nat,
           NEW off, Offsets(off, BlockLength(eol, named)),
           NEW body, Whole(body, off, n, eol, named),
           NEW k \in 0 .. n, NEW a \in Nat, off[k] <= a, a <= off[n]
    PROVE  LET u == Slice(body, off[k], a) IN
           IF k < n /\ off[k + 1] <= a
           THEN /\ Separator(u) # 0
                /\ Behind(u) = Slice(body, off[k + 1], a)
                /\ ParseFrame(FirstFrame(u)) = <<k + 1>>
           ELSE Separator(u) = 0
    <1>1. PICK L \in Nat \ {0} : L = BlockLength(eol, named)
        BY BlockShape
    <1>2. k \in Nat /\ off[k] \in Nat /\ off[k + 1] = off[k] + L
        BY <1>1 DEF Offsets
    <1>3. IsSequence(body) /\ Len(body) = off[n] /\ off[n] \in Nat
        BY DEF Whole, Offsets
    <1>4. PICK p \in Nat : p = off[k]
        BY <1>2
    <1>5. PICK u : u = Slice(body, p, a)
        OBVIOUS
    <1>6. IsSequence(u) /\ Len(u) = a - p /\ \A i \in 1 .. (a - p) : u[i] = body[p + i]
        <2>1. p <= a /\ a <= Len(body)
            BY <1>3, <1>4
        <2>2. IsSlice(u, body, p, a)
            BY <1>3, <1>5, <2>1, SliceIs
        <2> QED  BY <2>2 DEF IsSlice
    <1>7. CASE k = n
        <2>1. Len(u) = 0
            BY <1>4, <1>6, <1>7
        <2>2. Separator(u) = 0
            BY <1>6, <2>1, NoSeparator
        <2> QED  BY <1>4, <1>5, <1>7, <2>2
    <1>8. CASE k < n
        <2>1. PICK b : b = Block(k + 1, eol, named)
            OBVIOUS
        <2>2. Len(b) = L
            BY <1>1, <2>1, BlockShape
        <2>3. \A i \in 1 .. L : body[p + i] = b[i]
            <3>1. k \in 0 .. (n - 1)
                BY <1>8
            <3> QED  BY <1>1, <1>4, <2>1, <3>1, Zenon DEF Whole
        <2>4. Begins(u, b)
            <3>1. ASSUME NEW i \in 1 .. Len(u), i <= Len(b) PROVE u[i] = b[i]
                <4>1. Len(u) \in Nat /\ i \in 1 .. (a - p) /\ i \in 1 .. L
                    BY <1>6, <2>2, <3>1, SequenceDomain
                <4> QED  BY <1>6, <2>3, <4>1
            <3> QED  BY <3>1 DEF Begins
        <2>5. /\ Len(u) < L => Separator(u) = 0
              /\ Len(u) >= L => Splits(u, k + 1, L)
            BY <1>1, <1>6, <2>1, <2>4, BlockSplits
        <2>6. CASE Len(u) < L
            <3>1. ~(off[k + 1] <= a)
                BY <1>2, <1>4, <1>6, <2>6
            <3> QED  BY <1>4, <1>5, <2>5, <2>6, <3>1
        <2>7. CASE Len(u) >= L
            <3>1. /\ Separator(u) # 0 /\ Behind(u) = SubSeq(u, L + 1, Len(u))
                  /\ ParseFrame(FirstFrame(u)) = <<k + 1>>
                BY <2>5, <2>7 DEF Splits
            <3>2. off[k + 1] = p + L /\ p + L <= a
                BY <1>2, <1>4, <1>6, <2>7
            <3>3. Slice(u, L, a - p) = Slice(body, p + L, p + (a - p))
                <4>1. a - p \in Nat /\ L <= a - p /\ p <= a /\ a <= Len(body)
                    BY <1>3, <1>4, <3>2
                <4> QED  BY <1>3, <1>5, <4>1, SliceOfSlice
            <3>4. p + (a - p) = a
                OBVIOUS
            <3>5. Behind(u) = Slice(body, off[k + 1], a)
                BY <1>6, <3>1, <3>2, <3>3, <3>4 DEF Slice
            <3> QED  BY <1>4, <1>5, <1>8, <3>1, <3>2, <3>5
        <2> QED  BY <1>1, <1>6, <2>6, <2>7
    <1> QED  BY <1>7, <1>8

Cuts(r, u, n) ==
    r = [i \in 0 .. n |-> IF i = 0 THEN [buf |-> u, found |-> <<>>] ELSE TakeFrame(r[i - 1])]

LEMMA CutsAt ==
    ASSUME NEW u, NEW n \in Nat, NEW r, Cuts(r, u, n)
    PROVE  /\ r[0] = [buf |-> u, found |-> <<>>]
           /\ \A i \in 1 .. n : r[i] = TakeFrame(r[i - 1])
    <1> DEFINE e(i) == IF i = 0 THEN [buf |-> u, found |-> <<>>] ELSE TakeFrame(r[i - 1])
    <1>1. r = [i \in 0 .. n |-> e(i)]
        BY Zenon DEF Cuts
    <1> HIDE DEF e
    <1>2. \A i \in 0 .. n : r[i] = e(i)
        BY <1>1
    <1>3. r[0] = e(0)
        BY <1>2
    <1>4. \A i \in 1 .. n : r[i] = e(i) /\ i # 0
        BY <1>2
    <1> QED  BY <1>3, <1>4, Zenon DEF e

LEMMA CutsExists ==
    ASSUME NEW u, NEW n \in Nat
    PROVE  \E r : Cuts(r, u, n)
    <1> DEFINE first == [buf |-> u, found |-> <<>>]
               G == {k \in Nat : \E r : r = [i \in 0 .. k |-> IF i = 0 THEN first
                                                              ELSE TakeFrame(r[i - 1])]}
    <1> HIDE DEF first
    <1>1. 0 \in G
        <2> DEFINE r == [i \in 0 .. 0 |-> first]
        <2>1. r = [i \in 0 .. 0 |-> IF i = 0 THEN first ELSE TakeFrame(r[i - 1])]
            OBVIOUS
        <2> HIDE DEF r
        <2> QED  BY <2>1
    <1>2. ASSUME NEW k \in G PROVE k + 1 \in G
        <2>1. PICK r : r = [i \in 0 .. k |-> IF i = 0 THEN first ELSE TakeFrame(r[i - 1])]
            OBVIOUS
        <2>2. PICK e : e = TakeFrame(r[k])
            OBVIOUS
        <2> DEFINE q == [i \in 0 .. (k + 1) |-> IF i = k + 1 THEN e ELSE r[i]]
        <2>3. k \in Nat
            OBVIOUS
        <2>4. ASSUME NEW i \in 0 .. (k + 1)
              PROVE  q[i] = IF i = 0 THEN first ELSE TakeFrame(q[i - 1])
            <3>1. CASE i = 0
                <4>1. 0 \in 0 .. k /\ 0 # k + 1
                    BY <2>3
                <4> QED  BY <2>1, <3>1, <4>1
            <3>2. CASE i = k + 1
                <4>1. i # 0 /\ i - 1 = k /\ k \in 0 .. (k + 1) /\ k # k + 1
                    BY <2>3, <3>2
                <4>2. q[i - 1] = r[k] /\ q[i] = e
                    BY <3>2, <4>1
                <4> HIDE DEF q
                <4> QED  BY <2>2, <3>2, <4>1, <4>2
            <3>3. CASE i # 0 /\ i # k + 1
                <4>1. i \in 0 .. k /\ i - 1 \in 0 .. (k + 1) /\ i - 1 # k + 1
                    BY <2>3, <3>3
                <4>2. q[i] = r[i] /\ q[i - 1] = r[i - 1]
                    BY <3>3, <4>1
                <4>3. r[i] = TakeFrame(r[i - 1])
                    BY <2>1, <3>3, <4>1
                <4> HIDE DEF q
                <4> QED  BY <3>3, <4>2, <4>3
            <3> QED  BY <3>1, <3>2, <3>3
        <2>5. q = [i \in 0 .. (k + 1) |-> q[i]]
            OBVIOUS
        <2> HIDE DEF q
        <2>6. q = [i \in 0 .. (k + 1) |-> IF i = 0 THEN first ELSE TakeFrame(q[i - 1])]
            BY <2>4, <2>5
        <2> QED  BY <2>3, <2>6
    <1>3. G = Nat
        <2> HIDE DEF G
        <2> QED  BY <1>1, <1>2, NaturalInduction DEF G
    <1>4. PICK r : r = [i \in 0 .. n |-> IF i = 0 THEN first ELSE TakeFrame(r[i - 1])]
        BY <1>3
    <1> QED  BY <1>4, Zenon DEF first, Cuts

LEMMA PushIs ==
    ASSUME NEW u, IsSequence(u)
    PROVE  \E r : Cuts(r, u, Len(u)) /\ Push(u) = r[Len(u)]
    <1> DEFINE r == CHOOSE q : Cuts(q, u, Len(u))
    <1>1. Len(u) \in Nat
        BY SequenceDomain
    <1>2. Cuts(r, u, Len(u))
        BY <1>1, CutsExists, Zenon
    <1>3. Push(u) = r[Len(u)]
        BY Zenon DEF Push, Cuts
    <1> HIDE DEF r
    <1> QED  BY <1>2, <1>3

(* The payloads of the blocks j + 1 .. k, and what push leaves of a body   *)
(* whose first a bytes have come.                                          *)
Found(j, k) == [i \in 1 .. (k - j) |-> j + i]

Stage(body, off, a, j, k) == [buf |-> Slice(body, off[k], a), found |-> Found(j, k)]

LEMMA FoundGrows ==
    ASSUME NEW j \in Nat, NEW k \in Nat, j <= k
    PROVE  /\ IsSequence(Found(j, k)) /\ Len(Found(j, k)) = k - j
           /\ \A i \in 1 .. (k - j) : Found(j, k)[i] = j + i
           /\ Found(j, k) \o <<k + 1>> = Found(j, k + 1)
           /\ Found(j, j) = <<>>
    <1>1. \A p \in Nat : j <= p =>
             /\ IsSequence(Found(j, p)) /\ Len(Found(j, p)) = p - j
             /\ \A i \in 1 .. (p - j) : Found(j, p)[i] = j + i
        <2> SUFFICES ASSUME NEW p \in Nat, j <= p
                     PROVE  /\ IsSequence(Found(j, p)) /\ Len(Found(j, p)) = p - j
                            /\ \A i \in 1 .. (p - j) : Found(j, p)[i] = j + i
            OBVIOUS
        <2>1. PICK m \in Nat : m = p - j
            OBVIOUS
        <2>2. PICK f : f = [i \in 1 .. m |-> j + i]
            OBVIOUS
        <2>3. f = [i \in 1 .. m |-> f[i]] /\ \A i \in 1 .. m : f[i] = j + i
            BY <2>2
        <2>4. IsSequence(f) /\ Len(f) = m
            BY <2>3, ListIsSequence
        <2>5. f = Found(j, p)
            BY <2>1, <2>2 DEF Found
        <2> QED  BY <2>1, <2>3, <2>4, <2>5
    <1>2. Found(j, j) = <<>>
        <2>1. IsSequence(Found(j, j)) /\ Len(Found(j, j)) = 0
            BY <1>1
        <2> QED  BY <2>1, NoElements
    <1>3. Found(j, k) \o <<k + 1>> = Found(j, k + 1)
        <2>1. PICK f : f = Found(j, k)
            OBVIOUS
        <2>2. IsSequence(f) /\ Len(f) = k - j /\ \A i \in 1 .. (k - j) : f[i] = j + i
            BY <1>1, <2>1
        <2>3. PICK g : g = Found(j, k + 1)
            OBVIOUS
        <2>4. IsSequence(g) /\ Len(g) = k + 1 - j /\ \A i \in 1 .. (k + 1 - j) : g[i] = j + i
            <3>1. PICK p \in Nat : p = k + 1
                OBVIOUS
            <3>2. j <= p
                BY <3>1
            <3>3. g = Found(j, p)
                BY <2>3, <3>1
            <3>4. IsSequence(g) /\ Len(g) = p - j /\ \A i \in 1 .. (p - j) : g[i] = j + i
                BY <1>1, <3>2, <3>3
            <3> QED  BY <3>1, <3>4
        <2>5. PICK h : h = f \o <<k + 1>>
            OBVIOUS
        <2>6. Grown(h, f, k + 1)
            BY <2>2, <2>5, OneElement, Zenon
        <2>7. PICK m \in Nat : m = k - j
            OBVIOUS
        <2>8. IsSequence(h) /\ Len(h) = m + 1 /\ (\A i \in 1 .. m : h[i] = f[i]) /\ h[m + 1] = k + 1
            BY <2>2, <2>6, <2>7 DEF Grown
        <2>9. k + 1 - j = m + 1 /\ j + (m + 1) = k + 1
            BY <2>7
        <2>10. \A i \in 1 .. (m + 1) : h[i] = g[i]
            <3> TAKE i \in 1 .. (m + 1)
            <3>1. CASE i \in 1 .. m
                BY <2>2, <2>4, <2>7, <2>8, <2>9, <3>1
            <3>2. CASE i = m + 1
                BY <2>4, <2>8, <2>9, <3>2
            <3> QED  BY <3>1, <3>2
        <2>11. h = g
            BY <2>4, <2>8, <2>9, <2>10, SameSequence
        <2> QED  BY <2>1, <2>3, <2>5, <2>11
    <1> QED  BY <1>1, <1>2, <1>3

LEMMA FoundNone ==
    ASSUME NEW j \in Nat
    PROVE  Found(j, j) = <<>>
    <1>1. j <= j
        OBVIOUS
    <1> QED  BY <1>1, FoundGrows, Zenon

LEMMA PushParses ==
    ASSUME NEW eol, NEW named, IsFormat(eol, named), NEW n \in Nat,
           NEW off, Offsets(off, BlockLength(eol, named)),
           NEW body, Whole(body, off, n, eol, named),
           NEW j \in 0 .. n, NEW a \in Nat, off[j] <= a, a <= off[n]
    PROVE  \E k \in j .. n :
              /\ off[k] <= a /\ Push(Slice(body, off[j], a)) = Stage(body, off, a, j, k)
              /\ Separator(Slice(body, off[k], a)) = 0
    <1>1. j \in Nat /\ off \in [Nat -> Nat]
          /\ \A p, q \in Nat : p <= q => off[q] - off[p] >= q - p
        <2>1. j \in Nat
            OBVIOUS
        <2> QED  BY <2>1, Zenon DEF Offsets
    <1>2. IsSequence(body) /\ Len(body) = off[n]
        BY DEF Whole
    <1>3. PICK u : u = Slice(body, off[j], a)
        OBVIOUS
    <1>4. IsSequence(u) /\ Len(u) = a - off[j]
        <2>1. off[j] \in Nat /\ a <= Len(body)
            BY <1>1, <1>2
        <2>2. IsSlice(u, body, off[j], a)
            BY <1>2, <1>3, <2>1, SliceIs
        <2> QED  BY <2>2 DEF IsSlice
    <1>5. PICK m \in Nat : m = a - off[j]
        BY <1>1
    <1>6. PICK r : Cuts(r, u, m) /\ Push(u) = r[m]
        BY <1>4, <1>5, PushIs
    <1>7. r[0] = [buf |-> u, found |-> <<>>] /\ \A i \in 1 .. m : r[i] = TakeFrame(r[i - 1])
        BY <1>6, CutsAt
    <1> DEFINE At(i, k) == /\ off[k] <= a /\ r[i] = Stage(body, off, a, j, k)
                           /\ k - j = i \/ Separator(Slice(body, off[k], a)) = 0
               G == {i \in Nat : i <= m => \E k \in j .. n : At(i, k)}
    <1>8. 0 \in G
        <2>1. j \in j .. n /\ j - j = 0
            BY <1>1
        <2>2. r[0] = Stage(body, off, a, j, j)
            <3>1. Found(j, j) = <<>>
                BY <1>1, FoundNone, Zenon
            <3> QED  BY <1>3, <1>7, <3>1, Zenon DEF Stage
        <2> QED  BY <2>1, <2>2
    <1>9. ASSUME NEW i \in G PROVE i + 1 \in G
        <2> SUFFICES ASSUME i + 1 <= m PROVE \E k \in j .. n : At(i + 1, k)
            OBVIOUS
        <2>1. PICK k \in j .. n : At(i, k)
            OBVIOUS
        <2>2. i \in Nat /\ i + 1 \in 1 .. m /\ i + 1 - 1 = i /\ k \in 0 .. n /\ k \in Nat /\ j <= k
            BY <1>1
        <2>3. r[i + 1] = TakeFrame(r[i])
            BY <1>7, <2>2
        <2>4. PICK v : v = Slice(body, off[k], a)
            OBVIOUS
        <2>5. r[i].buf = v /\ r[i].found = Found(j, k)
            BY <2>1, <2>4 DEF Stage
        <2>6. off[k] <= a
            BY <2>1
        <2>7. \/ Separator(v) = 0
              \/ /\ k < n /\ off[k + 1] <= a /\ Separator(v) # 0
                 /\ Behind(v) = Slice(body, off[k + 1], a)
                 /\ ParseFrame(FirstFrame(v)) = <<k + 1>>
            <3> HIDE DEF G, At
            <3>1. IF k < n /\ off[k + 1] <= a
                  THEN /\ Separator(v) # 0
                       /\ Behind(v) = Slice(body, off[k + 1], a)
                       /\ ParseFrame(FirstFrame(v)) = <<k + 1>>
                  ELSE Separator(v) = 0
                BY <2>2, <2>4, <2>6, FrameTaken
            <3> QED  BY <3>1, Zenon
        <2>8. CASE Separator(v) = 0
            <3>1. r[i + 1] = r[i]
                BY <2>3, <2>5, <2>8, Zenon DEF TakeFrame
            <3> QED  BY <2>1, <2>4, <2>8, <3>1, Zenon
        <2>9. CASE Separator(v) # 0
            <3>1. /\ k < n /\ off[k + 1] <= a
                  /\ Behind(v) = Slice(body, off[k + 1], a)
                  /\ ParseFrame(FirstFrame(v)) = <<k + 1>>
                BY <2>7, <2>9
            <3>2. r[i + 1] = [buf |-> Slice(body, off[k + 1], a), found |-> Found(j, k) \o <<k + 1>>]
                BY <2>3, <2>5, <2>9, <3>1, Zenon DEF TakeFrame
            <3>3. r[i + 1] = Stage(body, off, a, j, k + 1)
                BY <1>1, <2>2, <3>2, FoundGrows, Zenon DEF Stage
            <3>4. k - j = i
                BY <2>1, <2>4, <2>9
            <3>5. k + 1 \in j .. n /\ k + 1 - j = i + 1
                BY <1>1, <2>2, <3>1, <3>4
            <3> QED  BY <3>1, <3>3, <3>5
        <2> QED  BY <2>8, <2>9
    <1>10. G = Nat
        <2> HIDE DEF G
        <2> QED  BY <1>8, <1>9, NaturalInduction DEF G
    <1>11. PICK k \in j .. n : At(m, k)
        BY <1>10
    <1>12. Separator(Slice(body, off[k], a)) = 0
        <2>1. CASE k - j = m
            <3>1. k \in Nat /\ j <= k /\ off[k] \in Nat /\ off[j] \in Nat
                BY <1>1
            <3>2. off[k] - off[j] >= k - j /\ off[k] <= a
                BY <1>1, <1>11, <3>1
            <3>3. off[k] = a
                BY <1>5, <2>1, <3>1, <3>2
            <3>4. PICK w : w = Slice(body, off[k], a)
                OBVIOUS
            <3>5. w = <<>>
                BY <1>2, <3>3, <3>4, SliceEnds
            <3>6. Separator(w) = 0
                BY <3>5, EmptyIsSequence, NoSeparator
            <3> QED  BY <3>4, <3>6
        <2> QED  BY <1>11, <2>1
    <1>13. Push(u) = Stage(body, off, a, j, k)
        BY <1>6, <1>11
    <1> QED  BY <1>3, <1>11, <1>12, <1>13, Zenon

-----------------------------------------------------------------------------
(* The deltas of a call, and the calls they make.                          *)

LEMMA GivenSteps ==
    ASSUME NEW o, NEW c, NEW n \in Nat
    PROVE  /\ Given(o, c, n) \in Nat
           /\ Given(o, c, n + 1) = Given(o, c, n) + (IF o[n + 1] = c THEN 1 ELSE 0)
           /\ Given(o, c, n) = 0 <=> \A m \in 1 .. n : o[m] # c
    <1> DEFINE S(k) == {m \in 1 .. k : o[m] = c}
    <1>1. \A k : Given(o, c, k) = Cardinality(S(k))
        BY DEF Given
    <1>2. IsFiniteSet(S(n)) /\ Cardinality(S(n)) \in Nat
        <2>1. IsFiniteSet(1 .. n)
            BY FS_Interval
        <2>2. S(n) \subseteq 1 .. n
            OBVIOUS
        <2> QED  BY <2>1, <2>2, FS_Subset, FS_CardinalityType
    <1>3. S(n + 1) = IF o[n + 1] = c THEN S(n) \cup {n + 1} ELSE S(n)
        OBVIOUS
    <1>4. Cardinality(S(n) \cup {n + 1}) = Cardinality(S(n)) + 1
        <2>1. n + 1 \notin S(n)
            OBVIOUS
        <2> HIDE DEF S
        <2> QED  BY <1>2, <2>1, FS_AddElement
    <1>5. Cardinality(S(n)) = 0 <=> S(n) = {}
        <2> HIDE DEF S
        <2> QED  BY <1>2, FS_EmptySet
    <1>6. S(n) = {} <=> \A m \in 1 .. n : o[m] # c
        OBVIOUS
    <1> HIDE DEF S
    <1> QED  BY <1>1, <1>2, <1>3, <1>4, <1>5, <1>6

LEMMA GivenNext ==
    ASSUME NEW o, NEW c, NEW n \in Nat
    PROVE  Given(o, c, n + 1) = IF o[n + 1] = c THEN Given(o, c, n) + 1 ELSE Given(o, c, n)
    BY GivenSteps

LEMMA NoneGiven ==
    ASSUME NEW o, NEW c
    PROVE  Given(o, c, 0) = 0
    BY FS_EmptySet DEF Given

(* The pieces of a call that has been given n of them.                     *)
Pieced(n) == [p \in 1 .. n |-> p]

LEMMA PiecedGrows ==
    ASSUME NEW n \in Nat
    PROVE  /\ IsSequence(Pieced(n)) /\ Len(Pieced(n)) = n
           /\ \A p \in 1 .. n : Pieced(n)[p] = p
           /\ Append(Pieced(n), n + 1) = Pieced(n + 1)
    <1>1. \A k \in Nat : IsSequence(Pieced(k)) /\ Len(Pieced(k)) = k
                         /\ \A p \in 1 .. k : Pieced(k)[p] = p
        <2> TAKE k \in Nat
        <2>1. PICK f : f = [p \in 1 .. k |-> p]
            OBVIOUS
        <2>2. f = [p \in 1 .. k |-> f[p]] /\ \A p \in 1 .. k : f[p] = p
            BY <2>1
        <2>3. IsSequence(f) /\ Len(f) = k
            BY <2>2, ListIsSequence
        <2> QED  BY <2>1, <2>2, <2>3 DEF Pieced
    <1>2. Append(Pieced(n), n + 1) = Pieced(n + 1)
        <2>1. PICK f, g, h : f = Pieced(n) /\ g = Pieced(n + 1) /\ h = Append(f, n + 1)
            OBVIOUS
        <2>2. IsSequence(f) /\ Len(f) = n /\ \A p \in 1 .. n : f[p] = p
            BY <1>1, <2>1
        <2>3. IsSequence(g) /\ Len(g) = n + 1 /\ \A p \in 1 .. (n + 1) : g[p] = p
            <3>1. n + 1 \in Nat
                OBVIOUS
            <3> QED  BY <1>1, <2>1, <3>1
        <2>4. IsSequence(h) /\ Len(h) = n + 1 /\ (\A p \in DOMAIN f : h[p] = f[p]) /\ h[n + 1] = n + 1
            BY <2>1, <2>2, AppendIsSequence
        <2>5. \A p \in 1 .. (n + 1) : h[p] = g[p]
            BY <2>2, <2>3, <2>4, SequenceDomain
        <2> QED  BY <2>1, <2>3, <2>4, <2>5, SameSequence
    <1> QED  BY <1>1, <1>2

LEMMA PiecedFirst == Pieced(0) = <<>> /\ Pieced(1) = <<1>>
    <1>1. Pieced(0) = <<>>
        BY PiecedGrows, NoElements
    <1>2. PICK n \in Nat : n = 0
        OBVIOUS
    <1>3. Append(Pieced(n), n + 1) = Pieced(n + 1)
        BY PiecedGrows
    <1>4. n + 1 = 1
        BY <1>2
    <1>5. Append(<<>>, 1) = Pieced(1)
        BY <1>1, <1>2, <1>3, <1>4
    <1>6. Append(<<>>, 1) = <<1>>
        BY SingletonIsSequence
    <1> QED  BY <1>1, <1>5, <1>6

(* The calls of a reply whose deltas come in the order o; how many of them *)
(* the first q deltas begin, and what the loop has made of those deltas.   *)
Ordered(style, o) ==
    /\ style \in {"indexed", "byId", "sequential"} /\ IsSequence(o)
    /\ \A n \in 1 .. Len(o) : o[n] \in Nat \ {0}
    /\ \A n \in 1 .. Len(o) : \A c \in 1 .. (o[n] - 1) : \E m \in 1 .. n : o[m] = c
    /\ style = "sequential" => \A m, n \in 1 .. Len(o) : m <= n => o[m] <= o[n]

Begun(o, q, b) ==
    /\ \A n \in 1 .. q : o[n] \in 1 .. b
    /\ \A c \in 1 .. b : \E n \in 1 .. q : o[n] = c

Call(o, c, q) == [id |-> c, args |-> Pieced(Given(o, c, q))]

CallsOf(o, b, q) == [c \in 1 .. b |-> Call(o, c, q)]

Heard(style, o, b, q) ==
    [calls |-> CallsOf(o, b, q), indices |-> IF style = "indexed" THEN Pieced(b) ELSE <<>>]

Assembled(m, style, o, q) ==
    \E b \in Nat : /\ Begun(o, q, b) /\ m = Heard(style, o, b, q)
                   /\ style = "sequential" /\ q > 0 => o[q] = b

LEMMA CallsShape ==
    ASSUME NEW o, NEW b \in Nat, NEW q
    PROVE  /\ IsSequence(CallsOf(o, b, q)) /\ Len(CallsOf(o, b, q)) = b
           /\ DOMAIN CallsOf(o, b, q) = 1 .. b
           /\ \A c \in 1 .. b : CallsOf(o, b, q)[c] = Call(o, c, q)
    <1>1. PICK f : f = [c \in 1 .. b |-> Call(o, c, q)]
        OBVIOUS
    <1>2. f = [c \in 1 .. b |-> f[c]] /\ (\A c \in 1 .. b : f[c] = Call(o, c, q)) /\ DOMAIN f = 1 .. b
        BY <1>1
    <1>3. IsSequence(f) /\ Len(f) = b
        BY <1>2, ListIsSequence
    <1> QED  BY <1>1, <1>2, <1>3 DEF CallsOf

LEMMA NothingHeard ==
    ASSUME NEW style, NEW o
    PROVE  Assembled(NoMessage, style, o, 0)
    <1>1. CallsOf(o, 0, 0) = <<>>
        BY CallsShape, NoElements
    <1>2. Heard(style, o, 0, 0) = NoMessage
        BY <1>1, PiecedFirst, Zenon DEF Heard, NoMessage
    <1>3. Begun(o, 0, 0)
        BY DEF Begun
    <1> QED  BY <1>2, <1>3 DEF Assembled

LEMMA OnlyOne ==
    ASSUME NEW c \in Nat
    PROVE  Max({c}) = c /\ Min({c}) = c
    BY DEF Max, Min

(* The call a delta belongs to.                                            *)
Placed(h, o, b, q, c, j, d) ==
    /\ c \in 1 .. b => j = Given(o, c, q) + 1 /\ j # 1 /\ Ordinal(h, d) = {c}
    /\ c \notin 1 .. b =>
          c = b + 1 /\ j = 1 /\ Given(o, c, q) = 0 /\ Ordinal(h, d) = {}

LEMMA OrdinalIs ==
    ASSUME NEW style, NEW o, Ordered(style, o), NEW q \in Nat, q < Len(o),
           NEW b \in Nat, Begun(o, q, b), style = "sequential" /\ q > 0 => o[q] = b,
           NEW c, c = o[q + 1],
           NEW j, j = Given(o, c, q + 1)
    PROVE  Placed(Heard(style, o, b, q), o, b, q, c, j, Delta(style, c, j))
    <1>1. PICK h : h = Heard(style, o, b, q)
        OBVIOUS
    <1>2. /\ Len(h.calls) = b /\ DOMAIN h.calls = 1 .. b
          /\ \A n \in 1 .. b : h.calls[n].id = n
        <2>1. h.calls = CallsOf(o, b, q)
            BY <1>1 DEF Heard
        <2>2. \A n : Call(o, n, q).id = n
            BY DEF Call
        <2> QED  BY <2>1, <2>2, CallsShape
    <1>3. style = "indexed" => DOMAIN h.indices = 1 .. b /\ \A n \in 1 .. b : h.indices[n] = n
        <2>1. style = "indexed" => h.indices = Pieced(b)
            BY <1>1 DEF Heard
        <2> QED  BY <2>1, PiecedGrows, SequenceDomain
    <1>4. c \in Nat \ {0} /\ q + 1 \in 1 .. Len(o) /\ q + 1 \in Nat
        <2>1. q + 1 \in 1 .. Len(o)
            BY SequenceDomain DEF Ordered
        <2> QED  BY <2>1 DEF Ordered
    <1>5. PICK d : d = Delta(style, c, j)
        OBVIOUS
    <1>6. /\ d.index = (IF style = "indexed" THEN c ELSE 0)
          /\ d.id = (IF style = "byId" \/ j = 1 THEN c ELSE 0)
        BY <1>5 DEF Delta, Text
    <1>7. /\ j = Given(o, c, q) + 1 /\ Given(o, c, q) \in Nat
          /\ Given(o, c, q) = 0 <=> \A m \in 1 .. q : o[m] # c
        <2>1. /\ Given(o, c, q + 1) = Given(o, c, q) + (IF o[q + 1] = c THEN 1 ELSE 0)
              /\ Given(o, c, q) \in Nat
            BY GivenSteps, Zenon
        <2>2. Given(o, c, q) = 0 <=> \A m \in 1 .. q : o[m] # c
            BY GivenSteps
        <2> QED  BY <2>1, <2>2
    <1>8. ASSUME c \in 1 .. b
          PROVE  j # 1 /\ Ordinal(h, d) = {c}
        <2>1. j # 1
            <3>1. ~(\A m \in 1 .. q : o[m] # c)
                BY <1>8 DEF Begun
            <3>2. Given(o, c, q) # 0
                BY <1>7, <3>1, ZenonT(30)
            <3> QED  BY <1>7, <3>2
        <2>2. CASE style = "indexed"
            <3>1. d.index # 0 /\ d.index = c
                BY <1>4, <1>6, <2>2
            <3>2. Ordinal(h, d) = {n \in DOMAIN h.indices : h.indices[n] = c}
                BY <3>1, Zenon DEF Ordinal
            <3> QED  BY <1>3, <1>8, <2>1, <2>2, <3>2
        <2>3. CASE style = "byId"
            <3>1. d.index = 0 /\ d.id = c /\ c # 0
                BY <1>4, <1>6, <2>3
            <3>2. {n \in DOMAIN h.calls : h.calls[n].id = d.id} = {c}
                BY <1>2, <1>8, <3>1
            <3>3. Ordinal(h, d) = {Max({c})}
                BY <3>1, <3>2 DEF Ordinal
            <3> QED  BY <1>4, <2>1, <3>3, OnlyOne
        <2>4. CASE style = "sequential"
            <3>1. d.index = 0 /\ d.id = 0
                BY <1>6, <2>1, <2>4
            <3>2. Ordinal(h, d) = {b} \ {0}
                BY <1>2, <3>1 DEF Ordinal
            <3>3. q # 0
                BY <1>8 DEF Begun
            <3>4. o[q] = b
                BY <2>4, <3>3
            <3>5. o[q] <= o[q + 1]
                BY <1>4, <2>4, <3>3 DEF Ordered
            <3>6. c = b /\ b # 0
                BY <1>4, <1>8, <3>4, <3>5
            <3> QED  BY <2>1, <3>2, <3>6
        <2> QED  BY <2>2, <2>3, <2>4 DEF Ordered
    <1>9. ASSUME c \notin 1 .. b
          PROVE  c = b + 1 /\ j = 1 /\ Given(o, c, q) = 0 /\ Ordinal(h, d) = {}
        <2>1. \A m \in 1 .. q : o[m] # c
            BY <1>9 DEF Begun
        <2>2. Given(o, c, q) = 0 /\ j = 1
            BY <1>7, <2>1
        <2>3. c = b + 1
            <3>1. c > b
                BY <1>4, <1>9
            <3>2. ASSUME c > b + 1 PROVE FALSE
                <4>1. b + 1 \in 1 .. (c - 1)
                    BY <1>4, <3>2
                <4>2. PICK m \in 1 .. (q + 1) : o[m] = b + 1
                    BY <1>4, <4>1 DEF Ordered
                <4>3. m # q + 1
                    BY <3>2, <4>2
                <4>4. m \in 1 .. q
                    BY <4>3
                <4> QED  BY <4>2, <4>4 DEF Begun
            <3> QED  BY <1>4, <3>1, <3>2
        <2>4. d.id = c /\ c # 0
            BY <1>4, <1>6, <2>2
        <2>5. CASE style = "indexed"
            <3>1. d.index # 0 /\ d.index = c
                BY <1>4, <1>6, <2>5
            <3>2. Ordinal(h, d) = {n \in DOMAIN h.indices : h.indices[n] = c}
                BY <3>1, Zenon DEF Ordinal
            <3>3. Ordinal(h, d) = {}
                BY <1>3, <1>9, <2>5, <3>2
            <3> QED  BY <2>2, <2>3, <3>3
        <2>6. CASE style # "indexed"
            <3>1. d.index = 0
                BY <1>6, <2>6
            <3>2. {n \in DOMAIN h.calls : h.calls[n].id = d.id} = {}
                BY <1>2, <1>9, <2>4
            <3>3. Ordinal(h, d) = {}
                BY <2>4, <3>1, <3>2 DEF Ordinal
            <3> QED  BY <2>2, <2>3, <3>3
        <2> QED  BY <2>5, <2>6
    <1> QED  BY <1>1, <1>5, <1>7, <1>8, <1>9, Zenon DEF Placed

LEMMA SameCalls ==
    ASSUME NEW o, NEW q \in Nat
    PROVE  /\ \A x : x # o[q + 1] => Call(o, x, q + 1) = Call(o, x, q)
           /\ \A c : c = o[q + 1] =>
                 Call(o, c, q + 1) = [id   |-> c,
                                      args |-> Append(Pieced(Given(o, c, q)), Given(o, c, q) + 1)]
    <1>1. ASSUME NEW x, x # o[q + 1]
          PROVE  Call(o, x, q + 1) = Call(o, x, q)
        <2>1. Given(o, x, q + 1) = Given(o, x, q) + 0 /\ Given(o, x, q) \in Nat
            BY <1>1, GivenSteps
        <2>2. Given(o, x, q + 1) = Given(o, x, q)
            BY <2>1
        <2> QED  BY <2>2, Zenon DEF Call
    <1>2. ASSUME NEW c, c = o[q + 1]
          PROVE  Call(o, c, q + 1) = [id   |-> c,
                                      args |-> Append(Pieced(Given(o, c, q)), Given(o, c, q) + 1)]
        <2>1. Given(o, c, q + 1) = Given(o, c, q) + 1 /\ Given(o, c, q) \in Nat
            BY <1>2, GivenSteps
        <2>2. PICK g \in Nat : g = Given(o, c, q)
            BY <2>1
        <2>3. Append(Pieced(g), g + 1) = Pieced(g + 1)
            BY PiecedGrows
        <2>4. Call(o, c, q + 1) = [id |-> c, args |-> Pieced(g + 1)]
            BY <2>1, <2>2, Zenon DEF Call
        <2> QED  BY <2>2, <2>3, <2>4
    <1> QED  BY <1>1, <1>2

(* A call with one more piece, and the calls one of which has it.          *)
Longer(call, y) == [call EXCEPT !.args = Append(@, y)]

WithPiece(calls, c, y) == [calls EXCEPT ![c].args = Append(@, y)]

LEMMA ArgsAppended ==
    ASSUME NEW x, NEW p, NEW y
    PROVE  Longer([id |-> x, args |-> p], y) = [id |-> x, args |-> Append(p, y)]
    <1>1. PICK z : z = Append(p, y)
        OBVIOUS
    <1>2. PICK r : r = [id |-> x, args |-> p]
        OBVIOUS
    <1>3. [r EXCEPT !.args = z] = [id |-> x, args |-> z]
        BY <1>2
    <1>4. r.args = p
        BY <1>2
    <1> QED  BY <1>1, <1>2, <1>3, <1>4, Zenon DEF Longer

OneLonger(e, f, b, c, y) ==
    /\ e = [x \in 1 .. b |-> e[x]] /\ e[c] = Longer(f[c], y)
    /\ \A x \in 1 .. b : x # c => e[x] = f[x]

LEMMA OneCallLonger ==
    ASSUME NEW b, NEW f, f = [x \in 1 .. b |-> f[x]], NEW c \in 1 .. b, NEW y
    PROVE  OneLonger(WithPiece(f, c, y), f, b, c, y)
    <1>1. PICK v : v = Longer(f[c], y)
        OBVIOUS
    <1>2. PICK e : e = [f EXCEPT ![c] = v]
        OBVIOUS
    <1>3. e = [x \in 1 .. b |-> e[x]] /\ e[c] = v /\ \A x \in 1 .. b : x # c => e[x] = f[x]
        BY <1>2
    <1>4. e = WithPiece(f, c, y)
        BY <1>1, <1>2 DEF WithPiece, Longer
    <1> QED  BY <1>1, <1>3, <1>4, Zenon DEF OneLonger

LEMMA CallGoesOn ==
    ASSUME NEW o, NEW q \in Nat, NEW b \in Nat, o[q + 1] \in 1 .. b
    PROVE  WithPiece(CallsOf(o, b, q), o[q + 1], Given(o, o[q + 1], q) + 1) = CallsOf(o, b, q + 1)
    <1>1. PICK f, g : f = CallsOf(o, b, q) /\ g = CallsOf(o, b, q + 1)
        OBVIOUS
    <1>2. f = [x \in 1 .. b |-> f[x]] /\ \A x \in 1 .. b : f[x] = Call(o, x, q)
        BY <1>1 DEF CallsOf
    <1>3. g = [x \in 1 .. b |-> g[x]] /\ \A x \in 1 .. b : g[x] = Call(o, x, q + 1)
        BY <1>1 DEF CallsOf
    <1>4. PICK c \in 1 .. b : c = o[q + 1]
        OBVIOUS
    <1>5. PICK j : j = Given(o, c, q) + 1
        OBVIOUS
    <1>6. PICK e : e = WithPiece(f, c, j)
        OBVIOUS
    <1>7. /\ e = [x \in 1 .. b |-> e[x]]
          /\ e[c] = Longer(f[c], j)
          /\ \A x \in 1 .. b : x # c => e[x] = f[x]
        <2>1. OneLonger(e, f, b, c, j)
            BY <1>2, <1>6, OneCallLonger, Zenon
        <2> QED  BY <2>1, Zenon DEF OneLonger
    <1>8. Longer(Call(o, c, q), j) = [id |-> c, args |-> Append(Pieced(Given(o, c, q)), j)]
        BY ArgsAppended, Zenon DEF Call
    <1>9. /\ \A x : x # c => Call(o, x, q + 1) = Call(o, x, q)
          /\ Call(o, c, q + 1) = [id |-> c, args |-> Append(Pieced(Given(o, c, q)), j)]
        BY <1>4, <1>5, SameCalls, Zenon
    <1>10. e[c] = g[c]
        BY <1>2, <1>3, <1>7, <1>8, <1>9, Zenon
    <1>11. \A x \in 1 .. b : x # c => e[x] = g[x]
        <2> TAKE x \in 1 .. b
        <2>1. f[x] = Call(o, x, q) /\ g[x] = Call(o, x, q + 1)
            BY <1>2, <1>3
        <2>2. x # c => e[x] = f[x] /\ Call(o, x, q + 1) = Call(o, x, q)
            BY <1>7, <1>9, ZenonT(30)
        <2> QED  BY <2>1, <2>2
    <1>12. \A x \in 1 .. b : e[x] = g[x]
        BY <1>10, <1>11, Zenon
    <1>13. e = g
        BY <1>3, <1>7, <1>12
    <1> QED  BY <1>1, <1>4, <1>5, <1>6, <1>13, Zenon

LEMMA CallBegins ==
    ASSUME NEW o, NEW q \in Nat, NEW b \in Nat, o[q + 1] = b + 1, Given(o, b + 1, q) = 0
    PROVE  Append(CallsOf(o, b, q), [id |-> b + 1, args |-> <<1>>]) = CallsOf(o, b + 1, q + 1)
    <1>0. PICK c \in Nat : c = b + 1 /\ c = o[q + 1]
        OBVIOUS
    <1>1. PICK f, g : f = CallsOf(o, b, q) /\ g = CallsOf(o, b + 1, q + 1)
        OBVIOUS
    <1>2. IsSequence(f) /\ Len(f) = b /\ DOMAIN f = 1 .. b /\ \A x \in 1 .. b : f[x] = Call(o, x, q)
        BY <1>1, CallsShape
    <1>3. IsSequence(g) /\ Len(g) = b + 1 /\ \A x \in 1 .. (b + 1) : g[x] = Call(o, x, q + 1)
        <2>1. b + 1 \in Nat
            OBVIOUS
        <2> QED  BY <1>1, <2>1, CallsShape
    <1>4. Call(o, c, q + 1) = [id |-> c, args |-> <<1>>]
        <2>1. Append(<<>>, 1) = <<1>> /\ 0 + 1 = 1
            BY SingletonIsSequence
        <2>2. Call(o, c, q + 1) = [id |-> c, args |-> Append(Pieced(Given(o, c, q)), Given(o, c, q) + 1)]
            BY <1>0, SameCalls, Zenon
        <2> QED  BY <1>0, <2>1, <2>2, PiecedFirst
    <1>5. PICK y : y = [id |-> c, args |-> <<1>>]
        OBVIOUS
    <1>6. PICK h : h = Append(f, y)
        OBVIOUS
    <1>7. IsSequence(h) /\ Len(h) = b + 1 /\ (\A x \in 1 .. b : h[x] = f[x]) /\ h[b + 1] = y
        BY <1>2, <1>6, AppendIsSequence
    <1>8. \A x : x # c => Call(o, x, q + 1) = Call(o, x, q)
        BY <1>0, SameCalls, Zenon
    <1>9. \A x \in 1 .. (b + 1) : h[x] = g[x]
        <2> TAKE x \in 1 .. (b + 1)
        <2>1. CASE x = b + 1
            BY <1>0, <1>3, <1>4, <1>5, <1>7, <2>1
        <2>2. CASE x \in 1 .. b
            BY <1>0, <1>2, <1>3, <1>7, <1>8, <2>2
        <2> QED  BY <2>1, <2>2
    <1>10. h = g
        BY <1>3, <1>7, <1>9, SameSequence
    <1> QED  BY <1>0, <1>1, <1>5, <1>6, <1>10, Zenon

LEMMA DeltaAssembled ==
    ASSUME NEW style, NEW o, Ordered(style, o), NEW q \in Nat, q < Len(o),
           NEW m, Assembled(m, style, o, q)
    PROVE  Assembled(AppendToolCall(m, Delta(style, o[q + 1], Given(o, o[q + 1], q + 1))),
                     style, o, q + 1)
    <1>1. PICK b \in Nat : /\ Begun(o, q, b) /\ m = Heard(style, o, b, q)
                           /\ style = "sequential" /\ q > 0 => o[q] = b
        BY DEF Assembled
    <1>2. PICK c, j : c = o[q + 1] /\ j = Given(o, c, q + 1)
        OBVIOUS
    <1>3. PICK d : d = Delta(style, c, j)
        OBVIOUS
    <1>4. /\ c \in 1 .. b => /\ j = Given(o, c, q) + 1 /\ j # 1
                             /\ Ordinal(m, d) = {c}
          /\ c \notin 1 .. b => /\ c = b + 1 /\ j = 1 /\ Given(o, c, q) = 0
                                /\ Ordinal(m, d) = {}
        <2>1. Placed(Heard(style, o, b, q), o, b, q, c, j, Delta(style, c, j))
            BY <1>1, <1>2, OrdinalIs
        <2> QED  BY <1>1, <1>3, <2>1, Zenon DEF Placed
    <1>5. /\ d.index = (IF style = "indexed" THEN c ELSE 0) /\ d.piece = j
          /\ d.id = (IF style = "byId" \/ j = 1 THEN c ELSE 0)
        BY <1>3 DEF Delta, Text
    <1>6. /\ m.calls = CallsOf(o, b, q)
          /\ m.indices = (IF style = "indexed" THEN Pieced(b) ELSE <<>>)
          /\ m = [calls |-> m.calls, indices |-> m.indices]
          /\ DOMAIN m.calls = 1 .. b
        <2>1. /\ m.calls = CallsOf(o, b, q)
              /\ m.indices = (IF style = "indexed" THEN Pieced(b) ELSE <<>>)
              /\ m = [calls |-> m.calls, indices |-> m.indices]
            BY <1>1 DEF Heard
        <2> QED  BY <2>1, CallsShape
    <1>7. PICK r : r = AppendToolCall(m, d)
        OBVIOUS
    <1>8. q + 1 \in Nat /\ q + 1 > 0
        OBVIOUS
    <1>9. CASE c \in 1 .. b
        <2>1. Ordinal(m, d) \cap DOMAIN m.calls = {c}
            BY <1>4, <1>6, <1>9
        <2>2. Min({c}) = c
            <3>1. c \in Nat
                BY <1>9
            <3> QED  BY <3>1, OnlyOne
        <2>3. r = [m EXCEPT !.calls[c].args = Append(@, j)]
            BY <1>5, <1>7, <2>1, <2>2 DEF AppendToolCall
        <2>4. r = [calls |-> WithPiece(m.calls, c, j), indices |-> m.indices]
            BY <1>6, <2>3 DEF WithPiece
        <2>5. WithPiece(m.calls, c, j) = CallsOf(o, b, q + 1)
            BY <1>2, <1>4, <1>6, <1>9, CallGoesOn, Zenon
        <2>6. r = Heard(style, o, b, q + 1)
            BY <1>6, <2>4, <2>5, Zenon DEF Heard
        <2>7. Begun(o, q + 1, b)
            BY <1>1, <1>2, <1>9 DEF Begun
        <2>8. ASSUME style = "sequential" PROVE o[q + 1] = b
            <3>1. q # 0
                BY <1>1, <1>9 DEF Begun
            <3>2. q \in 1 .. Len(o) /\ q + 1 \in 1 .. Len(o)
                BY <3>1, SequenceDomain DEF Ordered
            <3>3. o[q] <= o[q + 1] /\ o[q] = b
                BY <1>1, <2>8, <3>1, <3>2 DEF Ordered
            <3> QED  BY <1>2, <1>9, <3>3
        <2> QED  BY <1>2, <1>3, <1>7, <2>6, <2>7, <2>8 DEF Assembled
    <1>10. CASE c \notin 1 .. b
        <2>1. /\ c = b + 1 /\ j = 1 /\ Given(o, c, q) = 0
              /\ Ordinal(m, d) = {}
            BY <1>4, <1>10
        <2>2. r = [calls   |-> Append(m.calls, [id |-> d.id, args |-> <<d.piece>>]),
                   indices |-> IF d.index = 0 THEN m.indices ELSE Append(m.indices, d.index)]
            BY <1>7, <2>1 DEF AppendToolCall
        <2>3. d.id = c /\ d.piece = 1
            BY <1>5, <2>1
        <2>4. Append(m.calls, [id |-> d.id, args |-> <<d.piece>>]) = CallsOf(o, b + 1, q + 1)
            <3>1. [id |-> d.id, args |-> <<d.piece>>] = [id |-> b + 1, args |-> <<1>>]
                BY <2>1, <2>3
            <3>2. o[q + 1] = b + 1 /\ Given(o, b + 1, q) = 0
                BY <1>2, <2>1
            <3>3. Append(CallsOf(o, b, q), [id |-> b + 1, args |-> <<1>>]) = CallsOf(o, b + 1, q + 1)
                BY <3>2, CallBegins, Zenon
            <3> QED  BY <1>6, <3>1, <3>3, Zenon
        <2>5. (IF d.index = 0 THEN m.indices ELSE Append(m.indices, d.index))
                 = (IF style = "indexed" THEN Pieced(b + 1) ELSE <<>>)
            <3>1. Append(Pieced(b), b + 1) = Pieced(b + 1)
                BY PiecedGrows
            <3>2. b + 1 # 0
                OBVIOUS
            <3> QED  BY <1>5, <1>6, <2>1, <3>1, <3>2
        <2>6. r = Heard(style, o, b + 1, q + 1)
            BY <2>2, <2>4, <2>5, Zenon DEF Heard
        <2>7. Begun(o, q + 1, b + 1)
            <3>1. \A n \in 1 .. (q + 1) : o[n] \in 1 .. (b + 1)
                <4> TAKE n \in 1 .. (q + 1)
                <4>1. CASE n = q + 1
                    <5>1. b + 1 \in 1 .. (b + 1)
                        OBVIOUS
                    <5> QED  BY <1>2, <2>1, <4>1, <5>1, Zenon
                <4>2. CASE n \in 1 .. q
                    <5>1. PICK v : v = o[n]
                        OBVIOUS
                    <5>2. v \in 1 .. b
                        BY <1>1, <4>2, <5>1, Zenon DEF Begun
                    <5>3. v \in 1 .. (b + 1)
                        BY <5>2
                    <5> QED  BY <5>1, <5>3, Zenon
                <4> QED  BY <4>1, <4>2
            <3>2. \A x \in 1 .. (b + 1) : \E n \in 1 .. (q + 1) : o[n] = x
                <4> TAKE x \in 1 .. (b + 1)
                <4>1. CASE x = b + 1
                    <5>1. q + 1 \in 1 .. (q + 1)
                        OBVIOUS
                    <5> QED  BY <1>2, <2>1, <4>1, <5>1
                <4>2. CASE x \in 1 .. b
                    <5>1. PICK n \in 1 .. q : o[n] = x
                        BY <1>1, <4>2 DEF Begun
                    <5>2. n \in 1 .. (q + 1)
                        OBVIOUS
                    <5> QED  BY <5>1, <5>2
                <4> QED  BY <4>1, <4>2
            <3> QED  BY <3>1, <3>2 DEF Begun
        <2>8. b + 1 \in Nat /\ o[q + 1] = b + 1
            BY <1>2, <2>1
        <2> QED  BY <1>2, <1>3, <1>7, <2>6, <2>7, <2>8 DEF Assembled
    <1> QED  BY <1>9, <1>10

-----------------------------------------------------------------------------
(* A reply: the deltas of its calls, as far as they go, then what is not a *)
(* delta; one reason to stop at most, and its end mark last.               *)
Shape(answer, style, o, nd) ==
    /\ IsSequence(answer) /\ Len(answer) > 0
    /\ Ordered(style, o) /\ nd \in 0 .. Len(answer) /\ nd <= Len(o)
    /\ \A n \in 1 .. nd : answer[n] = Delta(style, o[n], Given(o, o[n], n))
    /\ \A n \in (nd + 1) .. Len(answer) : answer[n].kind \in {"text", "stop", "done"}
    /\ \A n \in 1 .. Len(answer) : answer[n].kind = "done" => n = Len(answer)
    /\ \A n \in 1 .. Len(answer) : answer[n].kind = "stop" =>
          answer[n].stop \notin {"", "aborted", "error"}
    /\ \A m, n \in 1 .. Len(answer) : answer[m].kind = "stop" /\ answer[n].kind = "stop" => m = n
    /\ (\A n \in 1 .. Len(answer) : answer[n].kind # "stop") => nd > 0

LEMMA Kinds ==
    /\ \A style, c, j : Delta(style, c, j).kind = "call" /\ Delta(style, c, j).of = c
                        /\ Delta(style, c, j).piece = j
    /\ Text.kind = "text" /\ DoneMark.kind = "done"
    /\ \A why : Stop(why).kind = "stop" /\ Stop(why).stop = why
    BY DEF Delta, Text, DoneMark, Stop

LEMMA TextShape ==
    Shape(<<Text, Stop("end_turn"), DoneMark>>, "indexed", <<>>, 0)
    <1>1. PICK w : w = <<Text, Stop("end_turn"), DoneMark>>
        OBVIOUS
    <1>2. PICK t, s, d : t = Text /\ s = Stop("end_turn") /\ d = DoneMark
        OBVIOUS
    <1>3. w = <<t, s, d>>
        BY <1>1, <1>2, Zenon
    <1>4. w \in Seq({t, s, d}) /\ Len(w) = 3 /\ w[1] = t /\ w[2] = s /\ w[3] = d
        BY <1>3
    <1>5. IsSequence(w)
        BY <1>4, TypedIsSequence
    <1>6. t.kind = "text" /\ s.kind = "stop" /\ s.stop = "end_turn" /\ d.kind = "done"
        BY <1>2, Kinds
    <1>7. Ordered("indexed", <<>>)
        BY EmptyIsSequence DEF Ordered
    <1>8. PICK o : o = <<>> /\ IsSequence(o) /\ Len(o) = 0
        BY EmptyIsSequence
    <1>9. Shape(w, "indexed", o, 0)
        <2>1. IsSequence(w) /\ Len(w) > 0 /\ Ordered("indexed", o) /\ 0 \in 0 .. Len(w) /\ 0 <= Len(o)
            BY <1>4, <1>5, <1>7, <1>8
        <2>2. \A n \in 1 .. Len(w) : w[n] = t \/ (w[n] = s /\ n = 2) \/ (w[n] = d /\ n = 3)
            BY <1>4
        <2>3. /\ \A n \in 1 .. 0 : w[n] = Delta("indexed", o[n], Given(o, o[n], n))
              /\ \A n \in (0 + 1) .. Len(w) : w[n].kind \in {"text", "stop", "done"}
              /\ \A n \in 1 .. Len(w) : w[n].kind = "done" => n = Len(w)
            BY <1>4, <1>6, <2>2
        <2>4. /\ \A n \in 1 .. Len(w) : w[n].kind = "stop" => w[n].stop \notin {"", "aborted", "error"}
              /\ \A m, n \in 1 .. Len(w) : w[m].kind = "stop" /\ w[n].kind = "stop" => m = n
            BY <1>6, <2>2
        <2>5. ~(\A n \in 1 .. Len(w) : w[n].kind # "stop")
            BY <1>4, <1>6
        <2> QED  BY <2>1, <2>3, <2>4, <2>5, Zenon DEF Shape
    <1> QED  BY <1>1, <1>8, <1>9

Endings == {<<>>, <<DoneMark>>, <<Stop("tool_use")>>, <<Stop("tool_use"), DoneMark>>,
            <<Stop("max_tokens")>>}

LEMMA EndingShape ==
    ASSUME NEW e \in Endings
    PROVE  /\ IsSequence(e)
           /\ \A n \in 1 .. Len(e) :
                 /\ e[n].kind \in {"stop", "done"}
                 /\ e[n].kind = "done" => n = Len(e)
                 /\ e[n].kind = "stop" => n = 1 /\ e[n].stop \in {"tool_use", "max_tokens"}
    <1>1. PICK s, t, d : s = Stop("tool_use") /\ t = Stop("max_tokens") /\ d = DoneMark
        OBVIOUS
    <1>2. /\ s.kind = "stop" /\ s.stop = "tool_use" /\ t.kind = "stop" /\ t.stop = "max_tokens"
          /\ d.kind = "done"
        BY <1>1, Kinds
    <1>3. e \in {<<>>, <<d>>, <<s>>, <<s, d>>, <<t>>}
        BY <1>1, Zenon DEF Endings
    <1>4. CASE e = <<>>
        BY <1>4, EmptyIsSequence
    <1>5. CASE e = <<d>>
        BY <1>2, <1>5, SingletonIsSequence
    <1>6. CASE e = <<s>>
        BY <1>2, <1>6, SingletonIsSequence
    <1>7. CASE e = <<t>>
        BY <1>2, <1>7, SingletonIsSequence
    <1>8. CASE e = <<s, d>>
        <2>1. e \in Seq({s, d}) /\ Len(e) = 2 /\ e[1] = s /\ e[2] = d
            BY <1>8
        <2>2. IsSequence(e)
            BY <2>1, TypedIsSequence
        <2> QED  BY <1>2, <2>1, <2>2
    <1> QED  BY <1>3, <1>4, <1>5, <1>6, <1>7, <1>8

LEMMA DeltasShape ==
    ASSUME NEW style, NEW o, Ordered(style, o)
    PROVE  /\ IsSequence(Deltas(style, o)) /\ Len(Deltas(style, o)) = Len(o)
           /\ \A n \in 1 .. Len(o) :
                 Deltas(style, o)[n] = Delta(style, o[n], Given(o, o[n], n))
    <1>1. PICK k \in Nat : k = Len(o) /\ DOMAIN o = 1 .. k
        BY SequenceDomain DEF Ordered
    <1> DEFINE x(n) == Delta(style, o[n], Given(o, o[n], n))
    <1>2. Deltas(style, o) = [n \in 1 .. k |-> x(n)]
        BY <1>1 DEF Deltas
    <1> HIDE DEF x
    <1>3. PICK d : d = Deltas(style, o)
        OBVIOUS
    <1>4. d = [n \in 1 .. k |-> d[n]] /\ \A n \in 1 .. k : d[n] = x(n)
        BY <1>2, <1>3
    <1>5. IsSequence(d) /\ Len(d) = k
        BY <1>4, ListIsSequence
    <1> QED  BY <1>1, <1>3, <1>4, <1>5, Zenon DEF x

LEMMA CallsReplyShape ==
    ASSUME NEW style, NEW o, Ordered(style, o), NEW k \in 1 .. Len(o), NEW e \in Endings
    PROVE  Shape(Take(Deltas(style, o), k) \o e, style, o, k)
    <1>1. Len(o) \in Nat
        BY SequenceDomain DEF Ordered
    <1>2. PICK d : d = Take(Deltas(style, o), k)
        OBVIOUS
    <1>3. /\ IsSequence(d) /\ Len(d) = k
          /\ \A n \in 1 .. k : d[n] = Delta(style, o[n], Given(o, o[n], n))
        <2>1. PICK f : f = Deltas(style, o)
            OBVIOUS
        <2>2. /\ IsSequence(f) /\ Len(f) = Len(o)
              /\ \A n \in 1 .. Len(o) : f[n] = Delta(style, o[n], Given(o, o[n], n))
            BY <2>1, DeltasShape, Zenon
        <2>3. k \in 0 .. Len(f)
            BY <1>1, <2>2
        <2>4. IsSequence(d) /\ Len(d) = k /\ \A n \in 1 .. k : d[n] = f[n]
            BY <1>2, <2>1, <2>2, <2>3, TakeProperties
        <2>5. \A n \in 1 .. k : n \in 1 .. Len(o)
            BY <1>1
        <2> QED  BY <2>2, <2>4, <2>5, Zenon
    <1>4. \A n \in 1 .. k : d[n].kind = "call"
        <2>1. \A c, j : Delta(style, c, j).kind = "call"
            BY Kinds, Zenon
        <2> TAKE n \in 1 .. k
        <2>2. PICK c, j : d[n] = Delta(style, c, j)
            BY <1>3, Zenon
        <2> QED  BY <2>1, <2>2
    <1>5. PICK m \in Nat : m = Len(e) /\ DOMAIN e = 1 .. m
        BY EndingShape, SequenceDomain
    <1>6. /\ IsSequence(e)
          /\ \A n \in 1 .. m :
                /\ e[n].kind \in {"stop", "done"}
                /\ e[n].kind = "done" => n = m
                /\ e[n].kind = "stop" => n = 1 /\ e[n].stop \in {"tool_use", "max_tokens"}
        BY <1>5, EndingShape
    <1>7. PICK r : r = d \o e
        OBVIOUS
    <1>8. Joins(r, d, e)
        BY <1>3, <1>6, <1>7, ConcatJoins
    <1>9. /\ IsSequence(r) /\ Len(r) = k + m
          /\ \A n \in 1 .. k : r[n] = d[n]
          /\ \A n \in 1 .. m : r[k + n] = e[n]
        BY <1>3, <1>5, <1>8, SequenceDomain DEF Joins
    <1>10. \A n \in (k + 1) .. (k + m) : n - k \in 1 .. m /\ k + (n - k) = n
        BY <1>1
    <1>11. \A n \in (k + 1) .. (k + m) :
             /\ r[n].kind \in {"stop", "done"}
             /\ r[n].kind = "done" => n = k + m
             /\ r[n].kind = "stop" => n = k + 1 /\ r[n].stop \in {"tool_use", "max_tokens"}
        <2> TAKE n \in (k + 1) .. (k + m)
        <2>1. r[n] = e[n - k] /\ n - k \in 1 .. m
            BY <1>9, <1>10
        <2>2. /\ r[n].kind \in {"stop", "done"}
              /\ r[n].kind = "done" => n - k = m
              /\ r[n].kind = "stop" => n - k = 1 /\ r[n].stop \in {"tool_use", "max_tokens"}
            BY <1>6, <2>1
        <2> QED  BY <1>1, <2>2
    <1>12. \A n \in 1 .. (k + m) : n \in 1 .. k \/ n \in (k + 1) .. (k + m)
        BY <1>1
    <1>13. \A n \in 1 .. k : r[n].kind = "call" /\ r[n] = Delta(style, o[n], Given(o, o[n], n))
        BY <1>3, <1>4, <1>9
    <1>14. /\ Len(r) > 0 /\ k \in 0 .. Len(r) /\ k <= Len(o) /\ k > 0
        BY <1>1, <1>9
    <1>15. /\ \A n \in 1 .. Len(r) : r[n].kind = "done" => n = Len(r)
           /\ \A n \in 1 .. Len(r) : r[n].kind = "stop" => r[n].stop \notin {"", "aborted", "error"}
           /\ \A i, n \in 1 .. Len(r) : r[i].kind = "stop" /\ r[n].kind = "stop" => i = n
        BY <1>9, <1>11, <1>12, <1>13
    <1>16. \A n \in (k + 1) .. Len(r) : r[n].kind \in {"text", "stop", "done"}
        BY <1>9, <1>11
    <1>17. \A n \in 1 .. k : r[n] = Delta(style, o[n], Given(o, o[n], n))
        BY <1>13, Zenon
    <1>18. Shape(r, style, o, k)
        BY <1>9, <1>14, <1>15, <1>16, <1>17, Zenon DEF Shape
    <1> QED  BY <1>2, <1>7, <1>18, Zenon

LEMMA OrdersOrdered ==
    ASSUME NEW style \in Styles, NEW o \in Orders(style)
    PROVE  Ordered(style, o) /\ Len(o) > 0
    <1>1. PICK N : N = Pieces * ToolCalls
        OBVIOUS
    <1>2. N \in Nat \ {0}
        BY <1>1, StreamAssumption
    <1>3. o \in [1 .. N -> 1 .. ToolCalls] /\ ToolCalls \in Nat
        BY <1>1, StreamAssumption DEF Orders
    <1>4. o \in Seq(1 .. ToolCalls) /\ Len(o) = N /\ DOMAIN o = 1 .. N
        BY <1>2, <1>3
    <1>5. IsSequence(o)
        BY <1>4, TypedIsSequence
    <1>6. /\ \A n \in 1 .. N : \A c \in 1 .. (o[n] - 1) : \E m \in 1 .. n : o[m] = c
          /\ style = "sequential" => \A m, n \in 1 .. N : m <= n => o[m] <= o[n]
        BY <1>4, Zenon DEF Orders
    <1>7. \A n \in 1 .. N : o[n] \in Nat \ {0}
        BY <1>3
    <1>8. style \in {"indexed", "byId", "sequential"}
        BY StreamAssumption
    <1> QED  BY <1>2, <1>4, <1>5, <1>6, <1>7, <1>8 DEF Ordered

LEMMA ReplyShape ==
    ASSUME NEW answer \in Replies
    PROVE  \E style, o, nd : Shape(answer, style, o, nd)
    <1>1. CASE answer = <<Text, Stop("end_turn"), DoneMark>>
        BY <1>1, TextShape
    <1>2. ASSUME NEW style \in Styles, NEW o \in Orders(style), NEW e \in Endings,
                 answer = Deltas(style, o) \o e
          PROVE  \E nd : Shape(answer, style, o, nd)
        <2>1. Ordered(style, o) /\ Len(o) > 0
            BY OrdersOrdered
        <2>2. Len(o) \in 1 .. Len(o)
            BY <2>1, SequenceDomain DEF Ordered
        <2>3. Take(Deltas(style, o), Len(o)) = Deltas(style, o)
            BY <2>1, DeltasShape, TakeEnds
        <2> QED  BY <1>2, <2>1, <2>2, <2>3, CallsReplyShape
    <1>3. ASSUME NEW style \in Styles, NEW o \in Orders(style), NEW n \in 1 .. Len(Deltas(style, o)),
                 answer = SubSeq(Deltas(style, o), 1, n) \o <<Stop("max_tokens")>>
          PROVE  \E nd : Shape(answer, style, o, nd)
        <2>1. Ordered(style, o)
            BY OrdersOrdered
        <2>2. n \in 1 .. Len(o)
            BY <2>1, DeltasShape
        <2>3. <<Stop("max_tokens")>> \in Endings
            BY Zenon DEF Endings
        <2>4. answer = Take(Deltas(style, o), n) \o <<Stop("max_tokens")>>
            BY <1>3, Zenon DEF Take
        <2> QED  BY <2>1, <2>2, <2>3, <2>4, CallsReplyShape
    <1>4. \/ answer = <<Text, Stop("end_turn"), DoneMark>>
          \/ \E style \in Styles : \E o \in Orders(style), e \in Endings : answer = Deltas(style, o) \o e
          \/ \E style \in Styles : \E o \in Orders(style) : \E n \in 1 .. Len(Deltas(style, o)) :
                answer = SubSeq(Deltas(style, o), 1, n) \o <<Stop("max_tokens")>>
        <2>1. \A d \in Bodies : \E style \in Styles : \E o \in Orders(style) : d = Deltas(style, o)
            BY DEF Bodies
        <2>2. answer = <<Text, Stop("end_turn"), DoneMark>> \/ answer \in Complete \/ answer \in OutOfTokens
            BY Zenon DEF Replies
        <2>3. ASSUME answer \in Complete
              PROVE  \E style \in Styles : \E o \in Orders(style), e \in Endings :
                        answer = Deltas(style, o) \o e
            <3>1. PICK d \in Bodies, e \in {<<>>, <<DoneMark>>, <<Stop("tool_use")>>,
                                           <<Stop("tool_use"), DoneMark>>} : answer = d \o e
                BY <2>3 DEF Complete
            <3>2. PICK style \in Styles : \E o \in Orders(style) : d = Deltas(style, o)
                BY <2>1, Zenon
            <3>3. PICK o \in Orders(style) : d = Deltas(style, o)
                BY <3>2
            <3>4. e \in Endings
                BY Zenon DEF Endings
            <3>5. answer = Deltas(style, o) \o e
                BY <3>1, <3>3, Zenon
            <3> QED  BY <3>4, <3>5, Zenon
        <2>4. ASSUME answer \in OutOfTokens
              PROVE  \E style \in Styles : \E o \in Orders(style) :
                        \E n \in 1 .. Len(Deltas(style, o)) :
                           answer = SubSeq(Deltas(style, o), 1, n) \o <<Stop("max_tokens")>>
            <3>1. PICK d \in Bodies : answer \in {SubSeq(d, 1, n) \o <<Stop("max_tokens")>> : n \in 1 .. Len(d)}
                BY <2>4, Zenon DEF OutOfTokens
            <3>2. PICK n \in 1 .. Len(d) : answer = SubSeq(d, 1, n) \o <<Stop("max_tokens")>>
                BY <3>1, Zenon
            <3>3. PICK style \in Styles : \E o \in Orders(style) : d = Deltas(style, o)
                BY <2>1, Zenon
            <3>4. PICK o \in Orders(style) : d = Deltas(style, o)
                BY <3>3
            <3>5. /\ n \in 1 .. Len(Deltas(style, o))
                  /\ answer = SubSeq(Deltas(style, o), 1, n) \o <<Stop("max_tokens")>>
                BY <3>2, <3>4, Zenon
            <3> QED  BY <3>5, Zenon
        <2> QED  BY <2>2, <2>3, <2>4, Zenon
    <1> QED  BY <1>1, <1>2, <1>3, <1>4, Zenon

-----------------------------------------------------------------------------
(* The calls a reply intends are those of its deltas.                      *)
DeltasIn(i, nd) == IF i <= nd THEN i ELSE nd

OfCall(answer, c) == {n \in DOMAIN answer : answer[n].kind = "call" /\ answer[n].of = c}

LEMMA ShapeFacts ==
    ASSUME NEW answer, NEW style, NEW o, NEW nd, Shape(answer, style, o, nd)
    PROVE  /\ Len(answer) \in Nat /\ DOMAIN answer = 1 .. Len(answer)
           /\ nd \in Nat /\ nd <= Len(answer) /\ nd <= Len(o) /\ Len(o) \in Nat
           /\ \A n \in 1 .. nd : /\ answer[n].kind = "call" /\ answer[n].of = o[n]
                                 /\ answer[n].piece = Given(o, o[n], n)
           /\ \A n \in 1 .. Len(answer) : answer[n].kind = "call" <=> n \in 1 .. nd
    <1>1. IsSequence(answer) /\ IsSequence(o) /\ nd \in 0 .. Len(answer) /\ nd <= Len(o)
        BY DEF Shape, Ordered
    <1>2. Len(answer) \in Nat /\ DOMAIN answer = 1 .. Len(answer) /\ Len(o) \in Nat /\ nd \in Nat
        BY <1>1, SequenceDomain
    <1>3. \A n \in 1 .. nd : /\ answer[n].kind = "call" /\ answer[n].of = o[n]
                             /\ answer[n].piece = Given(o, o[n], n)
        <2>1. \A c, j : /\ Delta(style, c, j).kind = "call" /\ Delta(style, c, j).of = c
                        /\ Delta(style, c, j).piece = j
            BY Kinds
        <2> TAKE n \in 1 .. nd
        <2>2. answer[n] = Delta(style, o[n], Given(o, o[n], n))
            BY Zenon DEF Shape
        <2> QED  BY <2>1, <2>2
    <1>4. \A n \in 1 .. Len(answer) : answer[n].kind = "call" <=> n \in 1 .. nd
        <2> TAKE n \in 1 .. Len(answer)
        <2>1. CASE n \in 1 .. nd
            BY <1>3, <2>1
        <2>2. CASE n \notin 1 .. nd
            <3>1. n \in (nd + 1) .. Len(answer)
                BY <1>2, <2>2
            <3>2. answer[n].kind \in {"text", "stop", "done"}
                BY <3>1, Zenon DEF Shape
            <3> QED  BY <2>2, <3>2
        <2> QED  BY <2>1, <2>2
    <1> QED  BY <1>1, <1>2, <1>3, <1>4

LEMMA OwnDeltas ==
    ASSUME NEW answer, NEW style, NEW o, NEW nd, Shape(answer, style, o, nd), NEW c
    PROVE  /\ IsSequence(ElementsAt(answer, OfCall(answer, c)))
           /\ Len(ElementsAt(answer, OfCall(answer, c))) = Given(o, c, nd)
           /\ \A p \in 1 .. Given(o, c, nd) : ElementsAt(answer, OfCall(answer, c))[p].piece = p
    <1> DEFINE P == OfCall(answer, c)
               es(k) == ElementsAt(Take(answer, k), P)
               Own(k) == /\ IsSequence(es(k)) /\ Len(es(k)) = Given(o, c, DeltasIn(k, nd))
                         /\ \A p \in 1 .. Len(es(k)) : es(k)[p].piece = p
               G == {k \in Nat : k <= Len(answer) => Own(k)}
    <1>1. /\ Len(answer) \in Nat /\ DOMAIN answer = 1 .. Len(answer) /\ IsSequence(answer)
          /\ nd \in Nat /\ nd <= Len(answer)
          /\ \A n \in 1 .. nd : answer[n].of = o[n] /\ answer[n].piece = Given(o, o[n], n)
          /\ \A n \in 1 .. Len(answer) : answer[n].kind = "call" <=> n \in 1 .. nd
        <2>1. IsSequence(answer)
            BY DEF Shape
        <2> QED  BY <2>1, ShapeFacts
    <1>2. \A n \in 1 .. Len(answer) : n \in P <=> n <= nd /\ o[n] = c
        BY <1>1 DEF OfCall
    <1> HIDE DEF P
    <1>3. 0 \in G
        <2>1. es(0) = <<>>
            <3>1. Take(answer, 0) = <<>> /\ IsSequence(<<>>) /\ DOMAIN <<>> = {}
                BY <1>1, TakeEnds, EmptyIsSequence
            <3> QED  BY <3>1, ElementsNone
        <2>2. DeltasIn(0, nd) = 0
            BY <1>1 DEF DeltasIn
        <2>3. Given(o, c, 0) = 0
            BY NoneGiven
        <2>4. PICK e : e = es(0)
            OBVIOUS
        <2>5. IsSequence(e) /\ Len(e) = 0
            BY <2>1, <2>4, EmptyIsSequence
        <2>6. Own(0)
            BY <2>2, <2>3, <2>4, <2>5
        <2> QED  BY <2>6
    <1>4. ASSUME NEW k \in G PROVE k + 1 \in G
        <2> SUFFICES ASSUME k + 1 <= Len(answer) PROVE Own(k + 1)
            OBVIOUS
        <2>0. Given(o, c, k + 1) = IF o[k + 1] = c THEN Given(o, c, k) + 1 ELSE Given(o, c, k)
            <3>1. k \in Nat
                OBVIOUS
            <3> HIDE DEF G
            <3> QED  BY <3>1, GivenNext, Zenon
        <2>1. k \in Nat /\ k < Len(answer) /\ k + 1 \in 1 .. Len(answer) /\ k \in 0 .. Len(answer) /\ k <= Len(answer)
            BY <1>1
        <2>2. PICK t : t = Take(answer, k)
            OBVIOUS
        <2>3. PICK e : e = ElementsAt(t, P)
            OBVIOUS
        <2>4. PICK g \in Nat : g = Given(o, c, DeltasIn(k, nd))
            <3>1. DeltasIn(k, nd) \in Nat
                BY <1>1, <2>1 DEF DeltasIn
            <3> QED  BY <3>1, GivenSteps
        <2>5. IsSequence(e) /\ Len(e) = g /\ \A p \in 1 .. g : e[p].piece = p
            <3>1. Own(k)
                BY <2>1
            <3> QED  BY <2>2, <2>3, <2>4, <3>1
        <2>6. IsSequence(t) /\ Len(t) = k
            BY <1>1, <2>1, <2>2, TakeProperties
        <2>7. PICK x : x = answer[k + 1]
            OBVIOUS
        <2>8. Take(answer, k + 1) = Append(t, x)
            BY <1>1, <2>1, <2>2, <2>7, TakeEnds
        <2>9. PICK f : f = es(k + 1)
            OBVIOUS
        <2>10. f = IF k + 1 \in P THEN Append(e, x) ELSE e
            <3>1. f = ElementsAt(Append(t, x), P)
                BY <2>8, <2>9, Zenon
            <3>2. f = IF Len(t) + 1 \in P THEN Append(ElementsAt(t, P), x) ELSE ElementsAt(t, P)
                BY <2>6, <3>1, ElementsAppend, Zenon
            <3> QED  BY <2>3, <2>6, <3>2, Zenon
        <2>11. CASE k + 1 \in P
            <3>1. k + 1 <= nd /\ o[k + 1] = c
                BY <1>2, <2>1, <2>11
            <3>2. DeltasIn(k, nd) = k /\ DeltasIn(k + 1, nd) = k + 1
                BY <1>1, <2>1, <3>1 DEF DeltasIn
            <3>3. Given(o, c, k + 1) = g + 1
                <4>1. Given(o, c, k) = g
                    BY <2>4, <3>2
                <4>2. o[k + 1] = c
                    BY <3>1
                <4> QED  BY <2>0, <4>1, <4>2
            <3>4. x.piece = g + 1
                BY <1>1, <2>1, <2>7, <3>1, <3>3
            <3>5. IsSequence(f) /\ Len(f) = g + 1 /\ (\A p \in 1 .. g : f[p] = e[p]) /\ f[g + 1] = x
                BY <2>5, <2>10, <2>11, AppendIsSequence, SequenceDomain
            <3>6. \A p \in 1 .. (g + 1) : f[p].piece = p
                <4> TAKE p \in 1 .. (g + 1)
                <4>1. CASE p = g + 1
                    BY <3>4, <3>5, <4>1
                <4>2. CASE p \in 1 .. g
                    BY <2>5, <3>5, <4>2
                <4> QED  BY <4>1, <4>2
            <3> QED  BY <2>9, <3>2, <3>3, <3>5, <3>6
        <2>12. CASE k + 1 \notin P
            <3>1. ~(k + 1 <= nd /\ o[k + 1] = c)
                BY <1>2, <2>1, <2>12
            <3>2. Given(o, c, DeltasIn(k + 1, nd)) = g
                <4>1. CASE k + 1 <= nd
                    <5>1. DeltasIn(k, nd) = k /\ DeltasIn(k + 1, nd) = k + 1
                        BY <1>1, <2>1, <4>1 DEF DeltasIn
                    <5>2. Given(o, c, k) = g
                        BY <2>4, <5>1
                    <5>3. o[k + 1] # c
                        BY <3>1, <4>1
                    <5> QED  BY <2>0, <2>4, <5>1, <5>2, <5>3
                <4>2. CASE ~(k + 1 <= nd)
                    <5>1. DeltasIn(k, nd) = nd /\ DeltasIn(k + 1, nd) = nd
                        BY <1>1, <2>1, <4>2 DEF DeltasIn
                    <5> QED  BY <2>4, <5>1
                <4> QED  BY <4>1, <4>2
            <3>3. f = e
                BY <2>10, <2>12
            <3> QED  BY <2>5, <2>9, <3>2, <3>3
        <2> QED  BY <2>11, <2>12
    <1>5. G = Nat
        <2> HIDE DEF G
        <2> QED  BY <1>3, <1>4, NaturalInduction DEF G
    <1>6. Own(Len(answer))
        BY <1>1, <1>5
    <1>7. DeltasIn(Len(answer), nd) = nd
        BY <1>1 DEF DeltasIn
    <1>8. Take(answer, Len(answer)) = answer
        BY <1>1, TakeEnds
    <1> QED  BY <1>6, <1>7, <1>8 DEF P

LEMMA IntendedIs ==
    ASSUME NEW style, NEW o, NEW nd, Shape(script, style, o, nd), NEW b \in Nat, Begun(o, nd, b)
    PROVE  Intended = CallsOf(o, b, nd)
    <1> DEFINE begun == {chunk.of : chunk \in {d \in Range(script) : d.kind = "call"}}
               own(c) == ElementsAt(script, OfCall(script, c))
               args(c) == [i \in DOMAIN own(c) |-> own(c)[i].piece]
    <1>1. /\ Len(script) \in Nat /\ DOMAIN script = 1 .. Len(script)
          /\ nd \in Nat /\ nd <= Len(script)
          /\ \A n \in 1 .. nd : script[n].of = o[n]
          /\ \A n \in 1 .. Len(script) : script[n].kind = "call" <=> n \in 1 .. nd
        BY ShapeFacts
    <1>2. begun = 1 .. b
        <2>1. \A x \in begun : x \in 1 .. b
            <3> TAKE x \in begun
            <3>1. PICK n \in DOMAIN script : script[n].kind = "call" /\ script[n].of = x
                BY DEF Range
            <3>2. n \in 1 .. nd
                BY <1>1, <3>1
            <3> QED  BY <1>1, <3>1, <3>2 DEF Begun
        <2>2. \A x \in 1 .. b : x \in begun
            <3> TAKE x \in 1 .. b
            <3>1. PICK n \in 1 .. nd : o[n] = x
                BY DEF Begun
            <3>2. n \in DOMAIN script /\ script[n].kind = "call" /\ script[n].of = x
                BY <1>1, <3>1
            <3> QED  BY <3>2 DEF Range
        <2> HIDE DEF begun
        <2> QED  BY <2>1, <2>2
    <1>3. \A c : args(c) = Pieced(Given(o, c, nd))
        <2> TAKE c
        <2>1. PICK e, g : e = own(c) /\ g = Given(o, c, nd)
            OBVIOUS
        <2>2. IsSequence(e) /\ Len(e) = g /\ \A p \in 1 .. g : e[p].piece = p
            BY <2>1, OwnDeltas
        <2>3. DOMAIN e = 1 .. g
            BY <2>2, SequenceDomain
        <2>4. [i \in DOMAIN e |-> e[i].piece] = [p \in 1 .. g |-> p]
            BY <2>2, <2>3
        <2> QED  BY <2>1, <2>4, Zenon DEF Pieced
    <1>4. Intended = [c \in begun |-> [id |-> c, args |-> args(c)]]
        BY Zenon DEF Intended, OfCall
    <1> HIDE DEF begun, args
    <1>5. \A c \in 1 .. b : [id |-> c, args |-> args(c)] = Call(o, c, nd)
        BY <1>3, Zenon DEF Call
    <1>6. [c \in 1 .. b |-> [id |-> c, args |-> args(c)]] = [c \in 1 .. b |-> Call(o, c, nd)]
        BY <1>5
    <1> QED  BY <1>2, <1>4, <1>6, Zenon DEF CallsOf

-----------------------------------------------------------------------------
(* What the loop has made of the first i chunks of a reply.                *)
ContentOf(answer) == {n \in DOMAIN answer : answer[n].kind \in Content}

Taken(answer, style, o, nd, i, m, s, em, sh) ==
    /\ i \in 0 .. Len(answer)
    /\ \A n \in 1 .. i : answer[n].kind # "done"
    /\ Assembled(m, style, o, DeltasIn(i, nd))
    /\ (\A n \in 1 .. i : answer[n].kind # "stop") => s = ""
    /\ \A n \in 1 .. i : answer[n].kind = "stop" => s = answer[n].stop
    /\ sh = ElementsAt(Take(answer, i), ContentOf(answer))
    /\ em \in BOOLEAN /\ (~em => sh = <<>>)

LEMMA NothingTaken ==
    ASSUME NEW answer, NEW style, NEW o, NEW nd, Shape(answer, style, o, nd)
    PROVE  Taken(answer, style, o, nd, 0, NoMessage, "", FALSE, <<>>)
    <1>1. Len(answer) \in Nat /\ nd \in Nat
        BY ShapeFacts
    <1>2. Take(answer, 0) = <<>> /\ IsSequence(<<>>) /\ DOMAIN <<>> = {}
        <2>1. IsSequence(answer)
            BY DEF Shape
        <2> QED  BY <2>1, TakeEnds, EmptyIsSequence
    <1>3. ElementsAt(Take(answer, 0), ContentOf(answer)) = <<>>
        BY <1>2, ElementsNone
    <1>4. DeltasIn(0, nd) = 0
        BY <1>1 DEF DeltasIn
    <1>5. Assembled(NoMessage, style, o, DeltasIn(0, nd))
        BY <1>4, NothingHeard
    <1>6. 0 \in 0 .. Len(answer) /\ 1 .. 0 = {}
        BY <1>1
    <1> QED  BY <1>3, <1>5, <1>6 DEF Taken

LEMMA ChunkTaken ==
    ASSUME NEW answer, NEW style, NEW o, NEW nd, Shape(answer, style, o, nd),
           NEW i \in Nat, i < Len(answer),
           NEW m, NEW s, NEW em, NEW sh, Taken(answer, style, o, nd, i, m, s, em, sh),
           NEW chunk, chunk = answer[i + 1], chunk.kind # "done"
    PROVE  Taken(answer, style, o, nd, i + 1,
                 IF chunk.kind = "call" THEN AppendToolCall(m, chunk) ELSE m,
                 IF chunk.kind = "stop" THEN chunk.stop ELSE s,
                 em \/ chunk.kind \in Content,
                 IF chunk.kind \in Content THEN Append(sh, chunk) ELSE sh)
    <1>1. /\ Len(answer) \in Nat /\ DOMAIN answer = 1 .. Len(answer)
          /\ nd \in Nat /\ nd <= Len(answer) /\ nd <= Len(o) /\ Len(o) \in Nat
          /\ \A n \in 1 .. Len(answer) : answer[n].kind = "call" <=> n \in 1 .. nd
        BY ShapeFacts
    <1>2. IsSequence(answer) /\ Ordered(style, o)
        BY DEF Shape
    <1>3. i + 1 \in 1 .. Len(answer) /\ i + 1 \in 0 .. Len(answer) /\ i \in 0 .. Len(answer)
        BY <1>1
    <1>4. \A n \in 1 .. (i + 1) : n \in 1 .. i \/ n = i + 1
        OBVIOUS
    <1>5. \A n \in 1 .. (i + 1) : answer[n].kind # "done"
        <2>1. \A n \in 1 .. i : answer[n].kind # "done"
            BY DEF Taken
        <2> QED  BY <1>4, <2>1
    <1>6. PICK m2 : m2 = IF chunk.kind = "call" THEN AppendToolCall(m, chunk) ELSE m
        OBVIOUS
    <1>7. Assembled(m2, style, o, DeltasIn(i + 1, nd))
        <2>1. Assembled(m, style, o, DeltasIn(i, nd))
            BY DEF Taken
        <2>2. CASE i + 1 <= nd
            <3>1. chunk.kind = "call"
                BY <1>1, <1>3, <2>2
            <3>2. DeltasIn(i, nd) = i /\ DeltasIn(i + 1, nd) = i + 1
                BY <1>1, <2>2 DEF DeltasIn
            <3>3. i + 1 \in 1 .. nd /\ i < Len(o)
                BY <1>1, <2>2
            <3>4. chunk = Delta(style, o[i + 1], Given(o, o[i + 1], i + 1))
                BY <3>3, Zenon DEF Shape
            <3>5. Assembled(AppendToolCall(m, Delta(style, o[i + 1], Given(o, o[i + 1], i + 1))),
                            style, o, i + 1)
                BY <1>2, <2>1, <3>2, <3>3, DeltaAssembled
            <3> QED  BY <1>6, <3>1, <3>2, <3>4, <3>5, Zenon
        <2>3. CASE ~(i + 1 <= nd)
            <3>1. chunk.kind # "call"
                BY <1>1, <1>3, <2>3
            <3>2. DeltasIn(i, nd) = nd /\ DeltasIn(i + 1, nd) = nd
                BY <1>1, <2>3 DEF DeltasIn
            <3> QED  BY <1>6, <2>1, <3>1, <3>2
        <2> QED  BY <2>2, <2>3
    <1>8. PICK s2 : s2 = IF chunk.kind = "stop" THEN chunk.stop ELSE s
        OBVIOUS
    <1>9. \A n \in 1 .. (i + 1) : answer[n].kind = "stop" => s2 = answer[n].stop
        <2> SUFFICES ASSUME NEW n \in 1 .. (i + 1), answer[n].kind = "stop" PROVE s2 = answer[n].stop
            OBVIOUS
        <2>1. CASE n = i + 1
            BY <1>8, <2>1
        <2>2. CASE n \in 1 .. i
            <3>1. s = answer[n].stop
                BY <2>2 DEF Taken
            <3>2. n \in 1 .. Len(answer) /\ n # i + 1
                BY <1>3, <2>2
            <3>3. chunk.kind # "stop"
                BY <1>3, <3>2, Zenon DEF Shape
            <3> QED  BY <1>8, <3>1, <3>3
        <2> QED  BY <1>4, <2>1, <2>2
    <1>10. ASSUME \A n \in 1 .. (i + 1) : answer[n].kind # "stop" PROVE s2 = ""
        <2>1. \A n \in 1 .. i : n \in 1 .. (i + 1)
            OBVIOUS
        <2>2. s = ""
            BY <1>10, <2>1, Zenon DEF Taken
        <2>3. i + 1 \in 1 .. (i + 1)
            OBVIOUS
        <2> QED  BY <1>8, <1>10, <2>2, <2>3
    <1>11. PICK sh2 : sh2 = IF chunk.kind \in Content THEN Append(sh, chunk) ELSE sh
        OBVIOUS
    <1>12. sh2 = ElementsAt(Take(answer, i + 1), ContentOf(answer))
        <2>1. PICK t, P : t = Take(answer, i) /\ P = ContentOf(answer)
            OBVIOUS
        <2>2. IsSequence(t) /\ Len(t) = i
            BY <1>2, <1>3, <2>1, TakeProperties
        <2>3. Take(answer, i + 1) = Append(t, chunk)
            BY <1>2, <2>1, TakeEnds
        <2>4. ElementsAt(Append(t, chunk), P) =
                 IF Len(t) + 1 \in P THEN Append(ElementsAt(t, P), chunk) ELSE ElementsAt(t, P)
            <3>1. PICK x : x = chunk
                OBVIOUS
            <3>2. IsSequence(t)
                BY <2>2
            <3>3. ElementsAt(Append(t, x), P) =
                     IF Len(t) + 1 \in P THEN Append(ElementsAt(t, P), x) ELSE ElementsAt(t, P)
                BY <3>2, ElementsAppend, Zenon
            <3> QED  BY <3>1, <3>3, Zenon
        <2>5. i + 1 \in P <=> chunk.kind \in Content
            BY <1>1, <1>3, <2>1 DEF ContentOf
        <2>6. sh = ElementsAt(t, P)
            BY <2>1, Zenon DEF Taken
        <2> QED  BY <1>11, <2>1, <2>2, <2>3, <2>4, <2>5, <2>6, Zenon
    <1>13. PICK em2 : em2 = (em \/ chunk.kind \in Content)
        OBVIOUS
    <1>14. em2 \in BOOLEAN /\ (~em2 => sh2 = <<>>)
        <2>1. em \in BOOLEAN /\ (~em => sh = <<>>)
            BY DEF Taken
        <2> QED  BY <1>11, <1>13, <2>1, Zenon
    <1>15. Taken(answer, style, o, nd, i + 1, m2, s2, em2, sh2)
        BY <1>3, <1>5, <1>7, <1>9, <1>10, <1>12, <1>14, Zenon DEF Taken
    <1> QED  BY <1>6, <1>8, <1>11, <1>13, <1>15, Zenon

(* Nothing but an end mark is left of the reply.                           *)
AllTaken(answer, i) ==
    \/ i = Len(answer)
    \/ i + 1 = Len(answer) /\ answer[i + 1].kind = "done"

LEMMA ShownPrefix ==
    ASSUME NEW answer, NEW style, NEW o, NEW nd, Shape(answer, style, o, nd),
           NEW i, NEW m, NEW s, NEW em, NEW sh, Taken(answer, style, o, nd, i, m, s, em, sh)
    PROVE  /\ IsPrefix(sh, ElementsAt(answer, ContentOf(answer)))
           /\ AllTaken(answer, i) => sh = ElementsAt(answer, ContentOf(answer))
    <1>1. Len(answer) \in Nat /\ DOMAIN answer = 1 .. Len(answer) /\ IsSequence(answer)
        <2>1. IsSequence(answer)
            BY DEF Shape
        <2> QED  BY <2>1, SequenceDomain
    <1>2. i \in 0 .. Len(answer) /\ i \in Nat /\ i <= Len(answer)
        <2>1. i \in 0 .. Len(answer)
            BY Zenon DEF Taken
        <2> QED  BY <1>1, <2>1
    <1>3. PICK P : P = ContentOf(answer)
        OBVIOUS
    <1>4. PICK t, u : t = Take(answer, i) /\ u = Slice(answer, i, Len(answer))
        OBVIOUS
    <1>5. IsSequence(t) /\ Len(t) = i /\ IsSequence(u) /\ Len(u) = Len(answer) - i
          /\ \A k \in 1 .. (Len(answer) - i) : u[k] = answer[i + k]
        <2>1. IsSequence(t) /\ Len(t) = i
            BY <1>1, <1>2, <1>4, TakeProperties
        <2>2. IsSlice(u, answer, i, Len(answer))
            BY <1>1, <1>2, <1>4, SliceIs
        <2> QED  BY <2>1, <2>2, Zenon DEF IsSlice
    <1>6. answer = t \o u
        <2>1. Slice(answer, 0, i) \o Slice(answer, i, Len(answer)) = Slice(answer, 0, Len(answer))
            <3>1. 0 \in Nat /\ 0 <= i /\ Len(answer) <= Len(answer)
                BY <1>1, <1>2
            <3> QED  BY <1>1, <1>2, <3>1, SlicesJoin
        <2>2. Slice(answer, 0, i) = t
            BY <1>1, <1>2, <1>4, SliceEnds
        <2>3. Slice(answer, 0, Len(answer)) = answer
            <3>1. Slice(answer, 0, Len(answer)) = Take(answer, Len(answer))
                BY <1>1, SliceEnds
            <3> QED  BY <1>1, <3>1, TakeEnds
        <2> QED  BY <1>4, <2>1, <2>2, <2>3
    <1>7. PICK Q : /\ ElementsAt(t \o u, P) = ElementsAt(t, P) \o ElementsAt(u, Q)
                   /\ \A k \in Q : k \in DOMAIN u /\ Len(t) + k \in P
        BY <1>5, ElementsSplit
    <1>8. \A k \in Q : k \in 1 .. (Len(answer) - i) /\ i + k \in P
        BY <1>5, <1>7, SequenceDomain
    <1>9. sh = ElementsAt(t, P)
        BY <1>3, <1>4, Zenon DEF Taken
    <1>10. IsSequence(sh) /\ IsSequence(ElementsAt(u, Q))
        BY <1>5, <1>9, ElementsRange
    <1>11. ElementsAt(answer, P) = sh \o ElementsAt(u, Q)
        BY <1>6, <1>7, <1>9, Zenon
    <1>12. IsPrefix(sh, sh \o ElementsAt(u, Q))
        <2>1. IsPrefix(sh, sh)
            BY <1>10, TakeEnds, SequenceDomain DEF IsPrefix, Take
        <2> QED  BY <1>10, <2>1, PrefixGrows
    <1>13. ASSUME AllTaken(answer, i) PROVE sh = ElementsAt(answer, P)
        <2>1. \A k \in DOMAIN u : k \notin Q
            <3>1. CASE i = Len(answer)
                BY <1>1, <1>8, <3>1
            <3>2. CASE i + 1 = Len(answer) /\ answer[i + 1].kind = "done"
                <4>1. i + 1 \notin P
                    BY <1>3, <3>2 DEF ContentOf, Content
                <4>2. \A k \in Q : k = 1
                    BY <1>1, <1>2, <1>8, <3>2
                <4> QED  BY <1>8, <4>1, <4>2
            <3> QED  BY <1>13, <3>1, <3>2 DEF AllTaken
        <2>2. ElementsAt(u, Q) = <<>>
            BY <1>5, <2>1, ElementsNone
        <2> QED  BY <1>10, <1>11, <2>2, EmptyConcat
    <1> QED  BY <1>3, <1>11, <1>12, <1>13, Zenon

(* The reply's own reason to stop, or the one its calls suggest.           *)
LEMMA ReplyTaken ==
    ASSUME NEW style, NEW o, NEW nd, Shape(script, style, o, nd),
           NEW i, NEW m, NEW s, NEW em, NEW sh, Taken(script, style, o, nd, i, m, s, em, sh),
           AllTaken(script, i)
    PROVE  /\ m.calls = Intended
           /\ (IF s # "" THEN s ELSE IF m.calls # <<>> THEN "tool_use" ELSE "end_turn") \in IntendedStops
    <1>1. /\ Len(script) \in Nat /\ DOMAIN script = 1 .. Len(script)
          /\ nd \in Nat /\ nd <= Len(script)
          /\ \A n \in 1 .. Len(script) : script[n].kind = "call" <=> n \in 1 .. nd
        BY ShapeFacts
    <1>2. i \in 0 .. Len(script) /\ i \in Nat
        <2>1. i \in 0 .. Len(script)
            BY Zenon DEF Taken
        <2> QED  BY <1>1, <2>1
    <1>3. nd <= i
        <2>1. CASE i = Len(script)
            BY <1>1, <2>1
        <2>2. CASE i + 1 = Len(script) /\ script[i + 1].kind = "done"
            <3>1. i + 1 \in 1 .. Len(script)
                BY <1>1, <1>2, <2>2
            <3>2. i + 1 \notin 1 .. nd
                BY <1>1, <2>2, <3>1
            <3> QED  BY <1>1, <1>2, <2>2, <3>2
        <2> QED  BY <2>1, <2>2 DEF AllTaken
    <1>4. DeltasIn(i, nd) = nd
        BY <1>1, <1>2, <1>3 DEF DeltasIn
    <1>5. PICK b \in Nat : Begun(o, nd, b) /\ m = Heard(style, o, b, nd)
        BY <1>4, Zenon DEF Taken, Assembled
    <1>6. m.calls = CallsOf(o, b, nd)
        BY <1>5 DEF Heard
    <1>7. m.calls = Intended
        BY <1>5, <1>6, IntendedIs
    <1>8. \A n \in 1 .. Len(script) : script[n].kind = "stop" => n \in 1 .. i
        <2>1. CASE i = Len(script)
            BY <2>1
        <2>2. CASE i + 1 = Len(script) /\ script[i + 1].kind = "done"
            <3> SUFFICES ASSUME NEW n \in 1 .. Len(script), script[n].kind = "stop" PROVE n \in 1 .. i
                OBVIOUS
            <3>1. n # i + 1
                BY <2>2
            <3> QED  BY <1>2, <2>2, <3>1
        <2> QED  BY <2>1, <2>2 DEF AllTaken
    <1> DEFINE stops == {chunk \in Range(script) : chunk.kind = "stop"}
    <1>9. IntendedStops = IF stops = {} THEN {"tool_use"} ELSE {chunk.stop : chunk \in stops}
        BY Zenon DEF IntendedStops
    <1>10. CASE \E n \in 1 .. Len(script) : script[n].kind = "stop"
        <2>1. PICK n \in 1 .. Len(script) : script[n].kind = "stop"
            BY <1>10
        <2>2. s = script[n].stop
            BY <1>8, <2>1, Zenon DEF Taken
        <2>3. s # ""
            BY <2>1, <2>2 DEF Shape
        <2>4. script[n] \in stops
            BY <1>1, <2>1 DEF Range
        <2> HIDE DEF stops
        <2>5. s \in {chunk.stop : chunk \in stops} /\ stops # {}
            BY <2>2, <2>4
        <2> QED  BY <1>7, <1>9, <2>3, <2>5
    <1>11. CASE \A n \in 1 .. Len(script) : script[n].kind # "stop"
        <2>1. stops = {}
            BY <1>1, <1>11 DEF Range
        <2>2. \A n \in 1 .. i : n \in 1 .. Len(script)
            BY <1>1, <1>2
        <2>3. s = ""
            BY <1>11, <2>2, Zenon DEF Taken
        <2>4. nd > 0
            BY <1>11, Zenon DEF Shape
        <2>5. b > 0
            <3>1. 1 \in 1 .. nd
                BY <1>1, <2>4
            <3>2. o[1] \in 1 .. b
                BY <1>5, <3>1 DEF Begun
            <3> QED  BY <3>2
        <2>6. m.calls # <<>>
            BY <1>6, <2>5, CallsShape, EmptyIsSequence
        <2> HIDE DEF stops
        <2> QED  BY <1>7, <1>9, <2>1, <2>3, <2>6
    <1> QED  BY <1>10, <1>11

-----------------------------------------------------------------------------
(* A body on its way: its first a bytes have come, of those the first j    *)
(* blocks are parsed and the rest is in the buffer; its first e bytes will *)
(* come if nothing breaks.                                                 *)
Transfer(answer, w, bf, ct, eol, named, off, body, j, a, e) ==
    /\ IsFormat(eol, named) /\ Offsets(off, BlockLength(eol, named))
    /\ Whole(body, off, Len(answer), eol, named)
    /\ j \in 0 .. Len(answer) /\ a \in Nat /\ e \in Nat
    /\ off[j] <= a /\ a <= e /\ e <= off[Len(answer)]
    /\ bf = Slice(body, off[j], a) /\ w = Slice(body, a, e)
    /\ Separator(bf) = 0
    /\ ct = "no" => e = off[Len(answer)]

LEMMA BodyStarts ==
    ASSUME NEW answer, IsSequence(answer), Len(answer) > 0,
           NEW eol, NEW named, IsFormat(eol, named), NEW omitted \in 0 .. 2
    PROVE  \E off, body, e :
              Transfer(answer, Body(Len(answer), eol, named, omitted), <<>>,
                       IF omitted = 0 THEN "no" ELSE "blank", eol, named, off, body, 0, 0, e)
    <1>1. PICK n \in Nat : n = Len(answer)
        BY SequenceDomain
    <1>2. PICK L : L = BlockLength(eol, named) /\ L \in {4, 6, 9}
        BY BlockShape
    <1>3. PICK off : Offsets(off, L)
        BY <1>2, OffsetsExist
    <1>4. PICK body : body = FlattenSeq(Blocks(n, eol, named))
        OBVIOUS
    <1>5. Whole(body, off, n, eol, named)
        BY <1>2, <1>3, <1>4, BodyIsWhole
    <1>6. IsSequence(body) /\ Len(body) = off[n]
        BY <1>5 DEF Whole
    <1>7. off[n] \in Nat /\ off[n] >= 4 /\ off[0] = 0
        <2>1. off[0] = 0 /\ off[n] \in Nat
            BY <1>3 DEF Offsets
        <2>2. 0 < n /\ 0 \in Nat
            BY <1>1
        <2>3. off[n] >= off[0] + L
            BY <1>3, <2>2, Zenon DEF Offsets
        <2> QED  BY <1>2, <2>1, <2>3
    <1>8. PICK e : e = off[n] - omitted * Len(eol)
        OBVIOUS
    <1>9. e \in Nat /\ e <= off[n] /\ (omitted = 0 => e = off[n])
        <2>1. Len(eol) \in {1, 2}
            BY DEF IsFormat
        <2>2. CASE Len(eol) = 1
            BY <1>7, <1>8, <2>2
        <2>3. CASE Len(eol) = 2
            BY <1>7, <1>8, <2>3
        <2> QED  BY <2>1, <2>2, <2>3
    <1>10. Body(n, eol, named, omitted) = SubSeq(body, 1, e)
        BY <1>4, <1>6, <1>8, Zenon DEF Body, Blocks
    <1>11. Body(n, eol, named, omitted) = Slice(body, 0, e)
        BY <1>10 DEF Slice
    <1>12. Slice(body, off[0], 0) = <<>>
        BY <1>6, <1>7, SliceEnds
    <1>13. Separator(<<>>) = 0
        BY EmptyIsSequence, NoSeparator
    <1>14. 0 \in 0 .. n /\ off[0] <= 0 /\ 0 <= e
        BY <1>7, <1>9
    <1>15. PICK ct : ct = IF omitted = 0 THEN "no" ELSE "blank"
        OBVIOUS
    <1>16. ct = "no" => e = off[n]
        BY <1>9, <1>15
    <1>17. Transfer(answer, Body(Len(answer), eol, named, omitted), <<>>, ct, eol, named, off, body, 0, 0, e)
        BY <1>1, <1>2, <1>3, <1>5, <1>9, <1>11, <1>12, <1>13, <1>14, <1>16, Zenon DEF Transfer
    <1> QED  BY <1>15, <1>17, Zenon

LEMMA ChunksAre ==
    ASSUME NEW answer, IsSequence(answer), NEW j \in Nat, NEW k \in Nat, j <= k, k <= Len(answer)
    PROVE  [i \in DOMAIN Found(j, k) |-> answer[Found(j, k)[i]]] = Slice(answer, j, k)
    <1>1. PICK f : f = Found(j, k)
        OBVIOUS
    <1>2. IsSequence(f) /\ Len(f) = k - j /\ \A i \in 1 .. (k - j) : f[i] = j + i
        BY <1>1, FoundGrows
    <1>3. DOMAIN f = 1 .. (k - j)
        BY <1>2, SequenceDomain
    <1>4. PICK u : u = Slice(answer, j, k)
        OBVIOUS
    <1>5. IsSequence(u) /\ Len(u) = k - j /\ \A i \in 1 .. (k - j) : u[i] = answer[j + i]
        <2>1. IsSlice(u, answer, j, k)
            BY <1>4, SliceIs
        <2> QED  BY <2>1, Zenon DEF IsSlice
    <1>6. PICK c : c = [i \in 1 .. (k - j) |-> answer[f[i]]]
        OBVIOUS
    <1>7. PICK m \in Nat : m = k - j
        OBVIOUS
    <1>8. c = [i \in 1 .. m |-> c[i]] /\ \A i \in 1 .. m : c[i] = answer[f[i]]
        BY <1>6, <1>7
    <1>9. IsSequence(c) /\ Len(c) = m
        BY <1>8, ListIsSequence
    <1>10. \A i \in 1 .. m : c[i] = u[i]
        BY <1>2, <1>5, <1>7, <1>8
    <1>11. c = u
        BY <1>5, <1>7, <1>9, <1>10, SameSequence
    <1> QED  BY <1>1, <1>3, <1>4, <1>6, <1>11, Zenon

LEMMA BytesCome ==
    ASSUME NEW answer, IsSequence(answer), NEW w, NEW bf, NEW ct, NEW eol, NEW named, NEW off, NEW body,
           NEW j, NEW a, NEW e, Transfer(answer, w, bf, ct, eol, named, off, body, j, a, e),
           NEW n \in 1 .. Len(w),
           NEW pushed, pushed = Push(bf \o SubSeq(w, 1, n))
    PROVE  \E k \in j .. Len(answer) :
              /\ pushed.found = Found(j, k)
              /\ Transfer(answer, SubSeq(w, n + 1, Len(w)), pushed.buf, ct, eol, named, off, body,
                          k, a + n, e)
    <1>1. PICK N \in Nat : N = Len(answer)
        BY SequenceDomain
    <1>2. /\ IsFormat(eol, named) /\ Offsets(off, BlockLength(eol, named))
          /\ Whole(body, off, N, eol, named)
          /\ j \in 0 .. N /\ a \in Nat /\ e \in Nat
          /\ off[j] <= a /\ a <= e /\ e <= off[N]
          /\ bf = Slice(body, off[j], a) /\ w = Slice(body, a, e)
          /\ ct = "no" => e = off[N]
        BY <1>1, Zenon DEF Transfer
    <1>3. IsSequence(body) /\ Len(body) = off[N] /\ off[N] \in Nat /\ off[j] \in Nat /\ j \in Nat
        BY <1>2 DEF Whole, Offsets
    <1>4. IsSequence(w) /\ Len(w) = e - a
        <2>1. e <= Len(body)
            BY <1>2, <1>3
        <2>2. IsSlice(w, body, a, e)
            BY <1>2, <1>3, <2>1, SliceIs, Zenon
        <2> QED  BY <2>2, Zenon DEF IsSlice
    <1>5. PICK b \in Nat : b = a + n
        BY <1>2
    <1>6. n \in Nat /\ a <= b /\ b <= e /\ b <= off[N] /\ off[j] <= b /\ n <= e - a
        BY <1>2, <1>3, <1>4, <1>5
    <1>7. SubSeq(w, 1, n) = Slice(body, a, b)
        <2>1. Slice(Slice(body, a, e), 0, n) = Slice(body, a + 0, a + n)
            <3>1. e <= Len(body) /\ 0 \in Nat /\ 0 <= n
                BY <1>2, <1>3, <1>6
            <3> QED  BY <1>2, <1>3, <1>6, <3>1, SliceOfSlice
        <2>2. a + 0 = a /\ 0 + 1 = 1
            BY <1>2
        <2>3. Slice(w, 0, n) = Slice(body, a, b)
            BY <1>2, <1>5, <2>1, <2>2
        <2> QED  BY <2>2, <2>3 DEF Slice
    <1>8. SubSeq(w, n + 1, Len(w)) = Slice(body, b, e)
        <2>1. Slice(Slice(body, a, e), n, e - a) = Slice(body, a + n, a + (e - a))
            <3>1. e <= Len(body) /\ e - a \in Nat /\ e - a <= e - a
                BY <1>2, <1>3
            <3> QED  BY <1>2, <1>3, <1>6, <3>1, SliceOfSlice
        <2>2. a + (e - a) = e
            BY <1>2
        <2>3. Slice(w, n, Len(w)) = Slice(body, b, e)
            BY <1>2, <1>4, <1>5, <2>1, <2>2
        <2> QED  BY <2>3, Zenon DEF Slice
    <1>9. bf \o SubSeq(w, 1, n) = Slice(body, off[j], b)
        <2>1. b <= Len(body)
            BY <1>3, <1>6
        <2>2. PICK k : k = off[j]
            OBVIOUS
        <2>3. /\ IsSequence(body) /\ k \in Nat /\ a \in Nat /\ b \in Nat
              /\ k <= a /\ a <= b
            BY <1>2, <1>3, <1>6, <2>2
        <2>4. Slice(body, k, a) \o Slice(body, a, b) = Slice(body, k, b)
            BY <2>1, <2>3, SlicesJoin
        <2> QED  BY <1>2, <1>7, <2>2, <2>4
    <1>10. PICK k \in j .. N :
              /\ off[k] <= b /\ Push(Slice(body, off[j], b)) = Stage(body, off, b, j, k)
              /\ Separator(Slice(body, off[k], b)) = 0
        BY <1>2, <1>6, PushParses
    <1>11. pushed = Stage(body, off, b, j, k)
        BY <1>9, <1>10, Zenon
    <1>12. pushed.buf = Slice(body, off[k], b) /\ pushed.found = Found(j, k)
        BY <1>11 DEF Stage
    <1>13. k \in 0 .. N
        BY <1>2
    <1>14. Transfer(answer, SubSeq(w, n + 1, Len(w)), pushed.buf, ct, eol, named, off, body, k, b, e)
        BY <1>1, <1>2, <1>6, <1>8, <1>10, <1>12, <1>13, Zenon DEF Transfer
    <1> QED  BY <1>1, <1>5, <1>12, <1>14, Zenon

(* A body of which nothing is to come any more has been parsed.            *)
LEMMA BodyOver ==
    ASSUME NEW answer, IsSequence(answer), NEW bf, NEW eol, NEW named, NEW off, NEW body,
           NEW j, NEW a, NEW e, Transfer(answer, <<>>, bf, "no", eol, named, off, body, j, a, e)
    PROVE  j = Len(answer)
    <1>1. PICK N \in Nat : N = Len(answer)
        BY SequenceDomain
    <1>2. /\ IsFormat(eol, named) /\ Offsets(off, BlockLength(eol, named))
          /\ Whole(body, off, N, eol, named)
          /\ j \in 0 .. N /\ a \in Nat /\ e \in Nat
          /\ off[j] <= a /\ a <= e /\ e <= off[N]
          /\ bf = Slice(body, off[j], a) /\ <<>> = Slice(body, a, e) /\ Separator(bf) = 0
          /\ e = off[N]
        BY <1>1, Zenon DEF Transfer
    <1>3. IsSequence(body) /\ Len(body) = off[N] /\ off[N] \in Nat
        BY <1>2 DEF Whole, Offsets
    <1>4. a = off[N]
        <2>1. e <= Len(body)
            BY <1>2, <1>3
        <2>2. IsSlice(<<>>, body, a, e)
            BY <1>2, <1>3, <2>1, SliceIs
        <2>3. Len(<<>>) = e - a
            BY <2>2, Zenon DEF IsSlice
        <2> QED  BY <1>2, <2>3, EmptyIsSequence
    <1>5. ASSUME j < N PROVE FALSE
        <2>1. j + 1 \in Nat /\ j + 1 <= N
            BY <1>2, <1>5
        <2>2. off[N] - off[j + 1] >= N - (j + 1)
            BY <1>2, <2>1, Zenon DEF Offsets
        <2>3. off[j + 1] \in Nat
            BY <1>2, <2>1 DEF Offsets
        <2>4. off[j + 1] <= a
            BY <1>3, <1>4, <2>1, <2>2, <2>3
        <2>5. a <= off[N]
            BY <1>3, <1>4
        <2>6. Separator(bf) # 0
            BY <1>2, <1>5, <2>4, <2>5, FrameTaken
        <2> QED  BY <1>2, <2>6
    <1> QED  BY <1>1, <1>2, <1>5

-----------------------------------------------------------------------------
(* The chunks that are parsed and not yet taken.                           *)
LEMMA ChunksLeft ==
    ASSUME NEW answer, IsSequence(answer), NEW i \in Nat, NEW j \in Nat, i <= j, j <= Len(answer)
    PROVE  /\ Slice(answer, i, j) = <<>> => i = j
           /\ Slice(answer, i, j) # <<>> =>
                 /\ i < j /\ Head(Slice(answer, i, j)) = answer[i + 1]
                 /\ Tail(Slice(answer, i, j)) = Slice(answer, i + 1, j)
    <1>1. PICK u : u = Slice(answer, i, j)
        OBVIOUS
    <1>2. IsSequence(u) /\ Len(u) = j - i /\ \A k \in 1 .. (j - i) : u[k] = answer[i + k]
        <2>1. IsSlice(u, answer, i, j)
            BY <1>1, SliceIs
        <2> QED  BY <2>1, Zenon DEF IsSlice
    <1>3. u = <<>> => i = j
        BY <1>2, EmptyIsSequence
    <1>4. ASSUME u # <<>> PROVE i < j /\ Head(u) = answer[i + 1] /\ Tail(u) = Slice(answer, i + 1, j)
        <2>1. Len(u) # 0
            BY <1>2, <1>4, NoElements
        <2>2. i < j /\ i + 1 <= j /\ i + 1 \in Nat
            BY <1>2, <2>1
        <2>3. Head(u) = u[1]
            BY <1>2, <1>4 DEF IsSequence
        <2>4. 1 \in 1 .. (j - i)
            BY <2>2
        <2>5. PICK v : v = Tail(u)
            OBVIOUS
        <2>6. v \in Seq(Range(u)) /\ Len(v) = Len(u) - 1 /\ \A k \in 1 .. (Len(u) - 1) : v[k] = u[k + 1]
            BY <1>2, <1>4, <2>5 DEF IsSequence
        <2>7. IsSequence(v)
            BY <2>6, TypedIsSequence
        <2>8. PICK w : w = Slice(answer, i + 1, j)
            OBVIOUS
        <2>9. IsSequence(w) /\ Len(w) = j - (i + 1)
              /\ \A k \in 1 .. (j - (i + 1)) : w[k] = answer[(i + 1) + k]
            <3>1. IsSlice(w, answer, i + 1, j)
                BY <2>2, <2>8, SliceIs
            <3> QED  BY <3>1, Zenon DEF IsSlice
        <2>10. PICK n \in Nat : n = j - (i + 1)
            BY <2>2
        <2>11. Len(v) = n /\ Len(w) = n
            BY <1>2, <2>6, <2>9, <2>10
        <2>12. \A k \in 1 .. n : v[k] = w[k]
            <3> TAKE k \in 1 .. n
            <3>1. k + 1 \in 1 .. (j - i) /\ k \in 1 .. (Len(u) - 1) /\ k \in 1 .. (j - (i + 1))
                  /\ i + (k + 1) = (i + 1) + k
                BY <1>2, <2>10
            <3> QED  BY <1>2, <2>6, <2>9, <3>1
        <2>13. v = w
            BY <2>7, <2>9, <2>11, <2>12, SameSequence
        <2> QED  BY <1>2, <2>2, <2>3, <2>4, <2>5, <2>8, <2>13
    <1> QED  BY <1>1, <1>3, <1>4, Zenon

(* An attempt while its body is read.                                      *)
Download(answer, w, bf, ch, m, s, em, sh, ct) ==
    \E style, o, nd, i, j, eol, named, off, body, a, e :
        /\ Shape(answer, style, o, nd)
        /\ Taken(answer, style, o, nd, i, m, s, em, sh)
        /\ Transfer(answer, w, bf, ct, eol, named, off, body, j, a, e)
        /\ i <= j /\ ch = Slice(answer, i, j)

LEMMA DownloadFacts ==
    ASSUME NEW answer, NEW style, NEW o, NEW nd, NEW i, NEW m, NEW s, NEW em, NEW sh,
           NEW j, NEW w, NEW bf, NEW ct, NEW eol, NEW named, NEW off, NEW body, NEW a, NEW e,
           Shape(answer, style, o, nd), Taken(answer, style, o, nd, i, m, s, em, sh),
           Transfer(answer, w, bf, ct, eol, named, off, body, j, a, e)
    PROVE  /\ IsSequence(answer) /\ Len(answer) \in Nat
           /\ i \in Nat /\ i <= Len(answer) /\ j \in Nat /\ j <= Len(answer)
    <1>1. IsSequence(answer) /\ Len(answer) \in Nat
        BY SequenceDomain DEF Shape
    <1>2. i \in 0 .. Len(answer)
        BY Zenon DEF Taken
    <1>3. j \in 0 .. Len(answer)
        BY Zenon DEF Transfer
    <1> QED  BY <1>1, <1>2, <1>3

LEMMA DownloadStarts ==
    ASSUME NEW answer \in Replies, NEW f \in Formats, NEW n \in Omitted
    PROVE  Download(answer, Body(Len(answer), f.eol, f.named, n), <<>>, <<>>, NoMessage, "", FALSE, <<>>,
                    IF n = 0 THEN "no" ELSE "blank")
    <1>1. PICK style, o, nd : Shape(answer, style, o, nd)
        BY ReplyShape
    <1>2. IsSequence(answer) /\ Len(answer) > 0
        BY <1>1 DEF Shape
    <1>3. PICK eol, named : eol = f.eol /\ named = f.named
        OBVIOUS
    <1>4. IsFormat(eol, named) /\ n \in 0 .. 2
        BY <1>3, StreamAssumption DEF IsFormat
    <1>5. PICK off, body, e :
             Transfer(answer, Body(Len(answer), eol, named, n), <<>>,
                      IF n = 0 THEN "no" ELSE "blank", eol, named, off, body, 0, 0, e)
        BY <1>2, <1>4, BodyStarts
    <1>6. Taken(answer, style, o, nd, 0, NoMessage, "", FALSE, <<>>)
        BY <1>1, NothingTaken
    <1>7. Slice(answer, 0, 0) = <<>> /\ 0 <= 0
        BY <1>2, SequenceDomain, SliceEnds
    <1> QED  BY <1>1, <1>3, <1>5, <1>6, <1>7, Zenon DEF Download

LEMMA DownloadReads ==
    ASSUME NEW answer, NEW w, NEW bf, NEW m, NEW s, NEW em, NEW sh, NEW ct,
           Download(answer, w, bf, <<>>, m, s, em, sh, ct), NEW n \in 1 .. Len(w),
           NEW pushed, pushed = Push(bf \o SubSeq(w, 1, n))
    PROVE  Download(answer, SubSeq(w, n + 1, Len(w)), pushed.buf,
                    [k \in DOMAIN pushed.found |-> answer[pushed.found[k]]], m, s, em, sh, ct)
    <1>1. PICK style, o, nd, i, j, eol, named, off, body, a, e :
              /\ Shape(answer, style, o, nd)
              /\ Taken(answer, style, o, nd, i, m, s, em, sh)
              /\ Transfer(answer, w, bf, ct, eol, named, off, body, j, a, e)
              /\ i <= j /\ <<>> = Slice(answer, i, j)
        BY Zenon DEF Download
    <1>2. /\ IsSequence(answer) /\ Len(answer) \in Nat
          /\ i \in Nat /\ i <= Len(answer) /\ j \in Nat /\ j <= Len(answer)
        BY <1>1, DownloadFacts
    <1>3. i = j
        BY <1>1, <1>2, ChunksLeft
    <1>4. PICK k \in j .. Len(answer) :
              /\ pushed.found = Found(j, k)
              /\ Transfer(answer, SubSeq(w, n + 1, Len(w)), pushed.buf, ct, eol, named, off, body,
                          k, a + n, e)
        BY <1>1, <1>2, BytesCome
    <1>5. k \in Nat /\ j <= k /\ k <= Len(answer)
        BY <1>2
    <1>6. [l \in DOMAIN Found(j, k) |-> answer[Found(j, k)[l]]] = Slice(answer, j, k)
        BY <1>2, <1>5, ChunksAre
    <1>7. PICK c, b : /\ c = [l \in DOMAIN pushed.found |-> answer[pushed.found[l]]]
                      /\ b = pushed.buf
        OBVIOUS
    <1>8. c = Slice(answer, i, k) /\ i <= k
        BY <1>3, <1>4, <1>5, <1>6, <1>7
    <1>9. Transfer(answer, SubSeq(w, n + 1, Len(w)), b, ct, eol, named, off, body, k, a + n, e)
        BY <1>4, <1>7
    <1>10. Download(answer, SubSeq(w, n + 1, Len(w)), b, c, m, s, em, sh, ct)
        BY <1>1, <1>8, <1>9, Zenon DEF Download
    <1> QED  BY <1>7, <1>10, Zenon

LEMMA DownloadTakes ==
    ASSUME NEW answer, NEW w, NEW bf, NEW ch, NEW m, NEW s, NEW em, NEW sh, NEW ct,
           Download(answer, w, bf, ch, m, s, em, sh, ct), ch # <<>>,
           NEW chunk, chunk = Head(ch), chunk.kind # "done"
    PROVE  Download(answer, w, bf, Tail(ch),
                    IF chunk.kind = "call" THEN AppendToolCall(m, chunk) ELSE m,
                    IF chunk.kind = "stop" THEN chunk.stop ELSE s,
                    em \/ chunk.kind \in Content,
                    IF chunk.kind \in Content THEN Append(sh, chunk) ELSE sh, ct)
    <1>1. PICK style, o, nd, i, j, eol, named, off, body, a, e :
              /\ Shape(answer, style, o, nd)
              /\ Taken(answer, style, o, nd, i, m, s, em, sh)
              /\ Transfer(answer, w, bf, ct, eol, named, off, body, j, a, e)
              /\ i <= j /\ ch = Slice(answer, i, j)
        BY Zenon DEF Download
    <1>2. /\ IsSequence(answer) /\ Len(answer) \in Nat
          /\ i \in Nat /\ i <= Len(answer) /\ j \in Nat /\ j <= Len(answer)
        BY <1>1, DownloadFacts
    <1>3. i < j /\ chunk = answer[i + 1] /\ Tail(ch) = Slice(answer, i + 1, j)
        BY <1>1, <1>2, ChunksLeft
    <1>4. i < Len(answer) /\ i + 1 <= j
        BY <1>2, <1>3
    <1>5. Taken(answer, style, o, nd, i + 1,
                IF chunk.kind = "call" THEN AppendToolCall(m, chunk) ELSE m,
                IF chunk.kind = "stop" THEN chunk.stop ELSE s,
                em \/ chunk.kind \in Content,
                IF chunk.kind \in Content THEN Append(sh, chunk) ELSE sh)
        BY <1>1, <1>2, <1>3, <1>4, ChunkTaken
    <1> QED  BY <1>1, <1>3, <1>4, <1>5, Zenon DEF Download

LEMMA DownloadIsTaken ==
    ASSUME NEW answer, NEW w, NEW bf, NEW ch, NEW m, NEW s, NEW em, NEW sh, NEW ct,
           Download(answer, w, bf, ch, m, s, em, sh, ct)
    PROVE  \E style, o, nd, i : /\ Shape(answer, style, o, nd)
                                /\ Taken(answer, style, o, nd, i, m, s, em, sh)
    <1>1. PICK style, o, nd, i, j, eol, named, off, body, a, e :
                /\ Shape(answer, style, o, nd)
                /\ Taken(answer, style, o, nd, i, m, s, em, sh)
                /\ Transfer(answer, w, bf, ct, eol, named, off, body, j, a, e)
                /\ i <= j /\ ch = Slice(answer, i, j)
        BY ZenonT(30) DEF Download
    <1> QED  BY <1>1, ZenonT(30)

LEMMA NotShown ==
    ASSUME NEW answer, NEW w, NEW bf, NEW ch, NEW m, NEW s, NEW em, NEW sh, NEW ct,
           Download(answer, w, bf, ch, m, s, em, sh, ct)
    PROVE  IsSequence(answer) /\ (~em => sh = <<>>)
    <1>1. PICK style, o, nd, i : Shape(answer, style, o, nd) /\ Taken(answer, style, o, nd, i, m, s, em, sh)
        BY DownloadIsTaken, ZenonT(30)
    <1>2. IsSequence(answer)
        BY <1>1 DEF Shape
    <1>3. ~em => sh = <<>>
        BY <1>1, Zenon DEF Taken
    <1> QED  BY <1>2, <1>3

-----------------------------------------------------------------------------
(* A call that is over.                                                    *)
DeliveredOf(answer) == ElementsAt(answer, ContentOf(answer))

IntendedOf(answer) ==
    LET begun == {chunk.of : chunk \in {d \in Range(answer) : d.kind = "call"}}
        own(c) == ElementsAt(answer, {n \in DOMAIN answer :
                                         answer[n].kind = "call" /\ answer[n].of = c})
    IN  [c \in begun |-> [id |-> c, args |-> [i \in DOMAIN own(c) |-> own(c)[i].piece]]]

StopsOf(answer) ==
    LET stops == {chunk \in Range(answer) : chunk.kind = "stop"}
    IN  IF stops = {} THEN {"tool_use"} ELSE {chunk.stop : chunk \in stops}

CallOver(answer, m, s, sh, ct) ==
    /\ IsPrefix(sh, DeliveredOf(answer))
    /\ s \notin {"aborted", "error"} /\ ct = "no" =>
          /\ sh = DeliveredOf(answer)
          /\ m.calls = IntendedOf(answer) /\ s \in StopsOf(answer)

LEMMA OfScript ==
    /\ Delivered(Content) = DeliveredOf(script)
    /\ Intended = IntendedOf(script)
    /\ IntendedStops = StopsOf(script)
    BY Zenon DEF Delivered, DeliveredOf, ContentOf, Intended, IntendedOf, IntendedStops, StopsOf

LEMMA NothingShown ==
    ASSUME NEW answer, IsSequence(answer), NEW m, NEW s, s \in {"aborted", "error"}, NEW ct
    PROVE  CallOver(answer, m, s, <<>>, ct)
    <1>1. IsSequence(DeliveredOf(answer))
        BY ElementsRange DEF DeliveredOf
    <1>2. IsPrefix(<<>>, DeliveredOf(answer))
        BY <1>1, PrefixSelf
    <1> QED  BY <1>2, Zenon DEF CallOver

LEMMA ShownIsPrefix ==
    ASSUME NEW answer, NEW w, NEW bf, NEW ch, NEW m, NEW s, NEW em, NEW sh, NEW ct,
           Download(answer, w, bf, ch, m, s, em, sh, ct)
    PROVE  IsPrefix(sh, DeliveredOf(answer))
    <1>1. PICK style, o, nd, i : Shape(answer, style, o, nd) /\ Taken(answer, style, o, nd, i, m, s, em, sh)
        BY DownloadIsTaken, ZenonT(30)
    <1>2. IsPrefix(sh, ElementsAt(answer, ContentOf(answer)))
        BY <1>1, ShownPrefix
    <1> QED  BY <1>2 DEF DeliveredOf

LEMMA ShownSoFar ==
    ASSUME NEW answer, NEW w, NEW bf, NEW ch, NEW m, NEW s, NEW em, NEW sh, NEW ct,
           Download(answer, w, bf, ch, m, s, em, sh, ct),
           NEW m2, NEW s2, s2 \in {"aborted", "error"}, NEW ct2
    PROVE  CallOver(answer, m2, s2, sh, ct2)
    <1>1. IsPrefix(sh, DeliveredOf(answer))
        BY ShownIsPrefix
    <1> QED  BY <1>1, Zenon DEF CallOver

(* The reply has been taken to its end when no byte and no chunk is left   *)
(* of an unbroken body, and when its end mark is reached.                  *)
LEMMA TakenToTheEnd ==
    ASSUME NEW answer, NEW w, NEW bf, NEW ch, NEW m, NEW s, NEW em, NEW sh,
           Download(answer, w, bf, ch, m, s, em, sh, "no"),
           (ch = <<>> /\ w = <<>>) \/ (ch # <<>> /\ Head(ch).kind = "done")
    PROVE  \E style, o, nd, i : /\ Shape(answer, style, o, nd)
                               /\ Taken(answer, style, o, nd, i, m, s, em, sh)
                               /\ AllTaken(answer, i)
    <1>1. PICK style, o, nd, i, j, eol, named, off, body, a, e :
              /\ Shape(answer, style, o, nd)
              /\ Taken(answer, style, o, nd, i, m, s, em, sh)
              /\ Transfer(answer, w, bf, "no", eol, named, off, body, j, a, e)
              /\ i <= j /\ ch = Slice(answer, i, j)
        BY Zenon DEF Download
    <1>2. /\ IsSequence(answer) /\ Len(answer) \in Nat
          /\ i \in Nat /\ i <= Len(answer) /\ j \in Nat /\ j <= Len(answer)
        BY <1>1, DownloadFacts
    <1>3. CASE ch = <<>> /\ w = <<>>
        <2>1. i = j
            <3>1. Slice(answer, i, j) = <<>>
                BY <1>1, <1>3
            <3> QED  BY <1>1, <1>2, <3>1, ChunksLeft, Zenon
        <2>2. Transfer(answer, <<>>, bf, "no", eol, named, off, body, j, a, e)
            BY <1>1, <1>3
        <2>3. j = Len(answer)
            BY <1>2, <2>2, BodyOver
        <2>4. AllTaken(answer, i)
            BY <2>1, <2>3 DEF AllTaken
        <2> QED  BY <1>1, <2>4
    <1>4. CASE ch # <<>> /\ Head(ch).kind = "done"
        <2>1. i < j /\ Head(ch) = answer[i + 1]
            BY <1>1, <1>2, <1>4, ChunksLeft
        <2>2. i + 1 \in 1 .. Len(answer) /\ answer[i + 1].kind = "done"
            BY <1>2, <1>4, <2>1
        <2>3. i + 1 = Len(answer)
            BY <1>1, <2>2, Zenon DEF Shape
        <2>4. AllTaken(answer, i)
            BY <2>2, <2>3 DEF AllTaken
        <2> QED  BY <1>1, <2>4
    <1> QED  BY <1>3, <1>4

LEMMA EndsFinished ==
    ASSUME Download(script, wire, buf, chunks, message, stop, emitted, shown, cut), NEW ct,
           ct = "no" => /\ cut = "no"
                        /\ \/ chunks = <<>> /\ wire = <<>>
                           \/ chunks # <<>> /\ Head(chunks).kind = "done"
    PROVE  CallOver(script, message, IF cancelled THEN "aborted" ELSE StopReason, shown, ct)
    <1>1. CASE cancelled
        BY <1>1, ShownSoFar, Zenon
    <1>2. CASE ~cancelled
        <2>1. IsPrefix(shown, DeliveredOf(script))
            BY ShownIsPrefix
        <2>2. PICK s : s = StopReason
            OBVIOUS
        <2>3. ASSUME ct = "no"
              PROVE  shown = DeliveredOf(script) /\ message.calls = Intended /\ s \in IntendedStops
            <3>1. /\ Download(script, wire, buf, chunks, message, stop, emitted, shown, "no")
                  /\ \/ chunks = <<>> /\ wire = <<>>
                     \/ chunks # <<>> /\ Head(chunks).kind = "done"
                BY <2>3
            <3>2. PICK style, o, nd, i : /\ Shape(script, style, o, nd)
                                         /\ Taken(script, style, o, nd, i, message, stop, emitted, shown)
                                         /\ AllTaken(script, i)
                BY <3>1, TakenToTheEnd
            <3>3. shown = DeliveredOf(script)
                <4>1. shown = ElementsAt(script, ContentOf(script))
                    BY <3>2, ShownPrefix
                <4> QED  BY <4>1 DEF DeliveredOf
            <3>4. /\ message.calls = Intended
                  /\ (IF stop # "" THEN stop ELSE IF message.calls # <<>> THEN "tool_use" ELSE "end_turn")
                        \in IntendedStops
                BY <3>2, ReplyTaken
            <3> QED  BY <1>2, <2>2, <3>3, <3>4, Zenon DEF StopReason
        <2>4. CallOver(script, message, s, shown, ct)
            BY <2>1, <2>3, OfScript, Zenon DEF CallOver
        <2> QED  BY <1>2, <2>2, <2>4
    <1> QED  BY <1>1, <1>2

-----------------------------------------------------------------------------
(* The inductive invariant.  Before its first byte an attempt has shown    *)
(* nothing, so that one that is retried has shown nothing either.  While a *)
(* body is read, bytes, chunks, calls and shown deltas are those of one    *)
(* reply (Download); when the call is over, they still are (CallOver).     *)
StreamInv ==
    /\ IsSequence(script)
    /\ phase \in {"ask", "sending", "refused", "reading", "done"}
    /\ phase \in {"ask", "sending", "refused"} =>
          shown = <<>> /\ wire = <<>> /\ buf = <<>> /\ chunks = <<>>
    /\ phase = "sending" => message = NoMessage /\ stop = "" /\ emitted = FALSE
    /\ phase = "reading" =>
          Download(script, wire, buf, chunks, message, stop, emitted, shown, cut)
    /\ phase = "done" => CallOver(script, message, stop, shown, cut)

LEMMA StreamInvInit == StreamInit => StreamInv
    BY EmptyIsSequence DEF StreamInit, StreamInv

LEMMA StreamEndsInv ==
    ASSUME StreamInv, StreamEnds,
           \/ /\ phase = "reading"
              /\ cut' = "no" => /\ cut = "no"
                                /\ \/ chunks = <<>> /\ wire = <<>>
                                   \/ chunks # <<>> /\ Head(chunks).kind = "done"
           \/ phase = "sending" /\ cancelled
    PROVE  StreamInv'
    <1>1. /\ phase' = "done" /\ stop' = StopReason
          /\ script' = script /\ message' = message /\ shown' = shown
        BY DEF StreamEnds
    <1>2. IsSequence(script)
        BY DEF StreamInv
    <1>3. cancelled => StopReason = "aborted"
        BY DEF StopReason
    <1>4. CallOver(script, message, StopReason, shown, cut')
        <2>1. CASE phase = "reading" /\ (cut' = "no" =>
                       /\ cut = "no"
                       /\ \/ chunks = <<>> /\ wire = <<>>
                          \/ chunks # <<>> /\ Head(chunks).kind = "done")
            <3>1. Download(script, wire, buf, chunks, message, stop, emitted, shown, cut)
                BY <2>1, Zenon DEF StreamInv
            <3>2. PICK ct : ct = cut'
                OBVIOUS
            <3>3. ct = "no" => /\ cut = "no"
                               /\ \/ chunks = <<>> /\ wire = <<>>
                                  \/ chunks # <<>> /\ Head(chunks).kind = "done"
                BY <2>1, <3>2
            <3>4. CallOver(script, message, IF cancelled THEN "aborted" ELSE StopReason, shown, ct)
                BY <3>1, <3>3, EndsFinished
            <3> QED  BY <1>3, <3>2, <3>4, Zenon
        <2>2. CASE phase = "sending" /\ cancelled
            <3>1. shown = <<>>
                BY <2>2, Zenon DEF StreamInv
            <3>2. StopReason = "aborted"
                BY <1>3, <2>2
            <3>3. CallOver(script, message, "aborted", <<>>, cut')
                BY <1>2, NothingShown
            <3> QED  BY <3>1, <3>2, <3>3
        <2> QED  BY <2>1, <2>2
    <1>5. CallOver(script', message', stop', shown', cut')
        BY <1>1, <1>4
    <1> QED  BY <1>1, <1>2, <1>5 DEF StreamInv

LEMMA StreamErrsInv ==
    ASSUME StreamInv, StreamErrs, phase \in {"sending", "refused", "reading"}
    PROVE  StreamInv'
    <1>1. /\ script' = script /\ shown' = shown
          /\ chunks' = <<>> /\ wire' = <<>> /\ buf' = <<>>
          /\ (MayRetry /\ phase' = "ask") \/ (phase' = "done" /\ stop' = "error")
        BY DEF StreamErrs
    <1>2. IsSequence(script)
        BY DEF StreamInv
    <1>3. phase \in {"sending", "refused"} => shown = <<>>
        BY DEF StreamInv
    <1>4. phase = "reading" => Download(script, wire, buf, chunks, message, stop, emitted, shown, cut)
        BY Zenon DEF StreamInv
    <1>5. CASE MayRetry /\ phase' = "ask"
        <2>1. ~emitted
            BY <1>5 DEF MayRetry
        <2>2. phase = "reading" => shown = <<>>
            BY <1>4, <2>1, NotShown
        <2>3. shown = <<>>
            BY <1>3, <2>2
        <2> QED  BY <1>1, <1>2, <1>5, <2>3 DEF StreamInv
    <1>6. CASE phase' = "done" /\ stop' = "error"
        <2>1. PICK m2, s2, c2 : m2 = message' /\ s2 = stop' /\ c2 = cut'
            OBVIOUS
        <2>2. s2 \in {"aborted", "error"}
            BY <1>6, <2>1
        <2>3. CallOver(script, m2, s2, shown, c2)
            <3>1. CASE phase = "reading"
                BY <1>4, <2>2, <3>1, ShownSoFar, Zenon
            <3>2. CASE phase # "reading"
                BY <1>2, <1>3, <2>2, <3>2, NothingShown
            <3> QED  BY <3>1, <3>2
        <2>4. CallOver(script', message', stop', shown', cut')
            BY <1>1, <2>1, <2>3
        <2> QED  BY <1>1, <1>2, <1>6, <2>4 DEF StreamInv
    <1> QED  BY <1>1, <1>5, <1>6

LEMMA StreamInvNext ==
    ASSUME StreamInv, [StreamNext]_streamVars
    PROVE  StreamInv'
    <1>0. IsSequence(script)
        BY DEF StreamInv
    <1>1. CASE Respond
        <2>1. PICK answer \in Replies, f \in Formats, n \in Omitted :
                 /\ script' = answer
                 /\ wire' = Body(Len(answer), f.eol, f.named, n)
                 /\ cut' = IF n = 0 THEN "no" ELSE "blank"
            BY <1>1 DEF Respond
        <2>2. /\ phase = "sending" /\ phase' = "reading"
              /\ buf' = buf /\ chunks' = chunks /\ message' = message
              /\ stop' = stop /\ emitted' = emitted /\ shown' = shown
            BY <1>1 DEF Respond
        <2>3. /\ buf = <<>> /\ chunks = <<>> /\ message = NoMessage
              /\ stop = "" /\ emitted = FALSE /\ shown = <<>>
            BY <2>2, Zenon DEF StreamInv
        <2>4. Download(answer, Body(Len(answer), f.eol, f.named, n), <<>>, <<>>, NoMessage, "", FALSE, <<>>,
                       IF n = 0 THEN "no" ELSE "blank")
            BY DownloadStarts
        <2>5. Download(script', wire', buf', chunks', message', stop', emitted', shown', cut')
            BY <2>1, <2>2, <2>3, <2>4
        <2>6. IsSequence(script')
            BY <2>5, NotShown
        <2> QED  BY <2>2, <2>5, <2>6 DEF StreamInv
    <1>2. CASE Refuse
        BY <1>2 DEF Refuse, request, StreamInv
    <1>3. CASE RefusalRead \/ SendFails \/ ReadFails
        BY <1>3, StreamErrsInv DEF RefusalRead, SendFails, ReadFails, Reading
    <1>4. CASE ReadChunk
        <2>1. phase = "reading" /\ chunks = <<>>
            BY <1>4 DEF ReadChunk, Reading
        <2>2. PICK n \in 1 .. Len(wire) :
                 /\ wire' = SubSeq(wire, n + 1, Len(wire))
                 /\ buf' = Push(buf \o SubSeq(wire, 1, n)).buf
                 /\ chunks' = [k \in DOMAIN Push(buf \o SubSeq(wire, 1, n)).found |->
                                  script[Push(buf \o SubSeq(wire, 1, n)).found[k]]]
            BY <1>4, Zenon DEF ReadChunk
        <2>3. /\ phase' = phase /\ script' = script /\ message' = message /\ stop' = stop
              /\ emitted' = emitted /\ shown' = shown /\ cut' = cut
            BY <1>4 DEF ReadChunk
        <2>4. PICK pushed : pushed = Push(buf \o SubSeq(wire, 1, n))
            OBVIOUS
        <2>5. Download(script, wire, buf, <<>>, message, stop, emitted, shown, cut)
            BY <2>1, Zenon DEF StreamInv
        <2>6. Download(script, SubSeq(wire, n + 1, Len(wire)), pushed.buf,
                       [k \in DOMAIN pushed.found |-> script[pushed.found[k]]],
                       message, stop, emitted, shown, cut)
            BY <2>4, <2>5, DownloadReads
        <2>7. Download(script', wire', buf', chunks', message', stop', emitted', shown', cut')
            BY <2>2, <2>3, <2>4, <2>6, Zenon
        <2> QED  BY <1>0, <2>1, <2>3, <2>7 DEF StreamInv
    <1>5. CASE ReadEnd
        <2>1. phase = "reading" /\ chunks = <<>> /\ StreamEnds
            BY <1>5 DEF ReadEnd, Reading
        <2>2. cut' = "no" => cut = "no" /\ wire = <<>>
            BY <1>5 DEF ReadEnd
        <2> QED  BY <2>1, <2>2, StreamEndsInv
    <1>6. CASE Ask
        <2>1. /\ phase = "ask" /\ message' = NoMessage /\ emitted' = FALSE /\ script' = script
              /\ wire' = wire /\ buf' = buf /\ chunks' = chunks /\ shown' = shown
            BY <1>6 DEF Ask
        <2>2. shown = <<>> /\ wire = <<>> /\ buf = <<>> /\ chunks = <<>>
            BY <2>1 DEF StreamInv
        <2>3. CASE phase' = "done" /\ stop' = "aborted"
            <3>1. PICK c2 : c2 = cut'
                OBVIOUS
            <3>2. CallOver(script, NoMessage, "aborted", <<>>, c2)
                BY <1>0, NothingShown
            <3>3. CallOver(script', message', stop', shown', cut')
                BY <2>1, <2>2, <2>3, <3>1, <3>2
            <3> QED  BY <1>0, <2>1, <2>3, <3>3 DEF StreamInv
        <2>4. CASE phase' = "sending" /\ stop' = ""
            BY <1>0, <2>1, <2>2, <2>4 DEF StreamInv
        <2> QED  BY <1>6, <2>3, <2>4 DEF Ask
    <1>7. CASE TakeChunk
        <2>1. phase = "reading" /\ chunks # <<>>
            BY <1>7 DEF TakeChunk
        <2>2. PICK chunk : chunk = Head(chunks)
            OBVIOUS
        <2>3. CASE chunk.kind = "done" /\ StreamEnds /\ cut' = cut
            BY <2>1, <2>2, <2>3, StreamEndsInv
        <2>4. CASE /\ chunk.kind # "done"
                   /\ chunks' = Tail(chunks)
                   /\ message' = IF chunk.kind = "call" THEN AppendToolCall(message, chunk) ELSE message
                   /\ stop' = IF chunk.kind = "stop" THEN chunk.stop ELSE stop
                   /\ emitted' = (emitted \/ chunk.kind \in Content)
                   /\ shown' = IF chunk.kind \in Content THEN Append(shown, chunk) ELSE shown
                   /\ UNCHANGED <<phase, attempts, script, wire, buf, cancelled, cut>>
            <3>1. Download(script, wire, buf, chunks, message, stop, emitted, shown, cut)
                BY <2>1, Zenon DEF StreamInv
            <3>2. Download(script, wire, buf, Tail(chunks),
                           IF chunk.kind = "call" THEN AppendToolCall(message, chunk) ELSE message,
                           IF chunk.kind = "stop" THEN chunk.stop ELSE stop,
                           emitted \/ chunk.kind \in Content,
                           IF chunk.kind \in Content THEN Append(shown, chunk) ELSE shown, cut)
                BY <2>1, <2>2, <2>4, <3>1, DownloadTakes
            <3>3. phase' = phase /\ script' = script /\ wire' = wire /\ buf' = buf /\ cut' = cut
                BY <2>4
            <3>4. Download(script', wire', buf', chunks', message', stop', emitted', shown', cut')
                BY <2>4, <3>2, <3>3, Zenon
            <3> QED  BY <1>0, <2>1, <3>3, <3>4 DEF StreamInv
        <2> QED  BY <1>7, <2>2, <2>3, <2>4, Zenon DEF TakeChunk
    <1>8. CASE Abandon
        <2>1. /\ cancelled /\ StreamEnds /\ cut' = cut
              /\ phase = "sending" \/ phase = "reading"
            BY <1>8 DEF Abandon, HearsCancel, Reading
        <2>2. CASE phase = "sending"
            BY <2>1, <2>2, StreamEndsInv
        <2>3. CASE phase = "reading"
            <3>1. phase' = "done" /\ stop' = "aborted" /\ script' = script /\ shown' = shown
                BY <2>1 DEF StreamEnds, StopReason
            <3>2. Download(script, wire, buf, chunks, message, stop, emitted, shown, cut)
                BY <2>3, Zenon DEF StreamInv
            <3>3. PICK m2, c2 : m2 = message' /\ c2 = cut'
                OBVIOUS
            <3>4. CallOver(script, m2, "aborted", shown, c2)
                BY <3>2, ShownSoFar, Zenon
            <3>5. CallOver(script', message', stop', shown', cut')
                BY <3>1, <3>3, <3>4
            <3> QED  BY <1>0, <3>1, <3>5 DEF StreamInv
        <2> QED  BY <2>1, <2>2, <2>3
    <1>9. CASE CancelCall
        BY <1>9 DEF CancelCall, request, StreamInv
    <1>10. CASE Rest \/ UNCHANGED streamVars
        BY <1>10 DEF Rest, streamVars, StreamInv
    <1> QED  BY <1>1, <1>2, <1>3, <1>4, <1>5, <1>6, <1>7, <1>8, <1>9, <1>10
            DEF StreamNext, Server, Client

LEMMA StreamAlways == StreamSpec => []StreamInv
    BY StreamInvInit, StreamInvNext, PTL DEF StreamSpec

(* However the body is cut into chunks, and in whatever order the deltas   *)
(* of its calls come, append_tool_call makes the calls that were sent, and *)
(* the reply has the reason to stop it gave.                               *)
THEOREM StreamReplyAsSent == StreamSpec => []ReplyAsSent
    <1>1. StreamInv => ReplyAsSent
        BY OfScript, Zenon DEF StreamInv, ReplyAsSent, Answered, CallOver
    <1> QED  BY <1>1, StreamAlways, PTL

(* can_retry: whatever attempts failed, the host is shown a prefix of one  *)
(* answer, and all of it when the call comes through.                      *)
THEOREM StreamShownOnce == StreamSpec => []ShownOnce
    <1>1. ASSUME StreamInv PROVE ShownOnce
        <2>1. IsSequence(script)
            BY <1>1 DEF StreamInv
        <2>2. IsPrefix(shown, DeliveredOf(script))
            <3>1. CASE phase \in {"ask", "sending", "refused"}
                <4>1. shown = <<>>
                    BY <1>1, <3>1 DEF StreamInv
                <4>2. IsPrefix(<<>>, DeliveredOf(script))
                    BY <2>1, ElementsRange, PrefixSelf DEF DeliveredOf
                <4> QED  BY <4>1, <4>2
            <3>2. CASE phase = "reading"
                <4>1. Download(script, wire, buf, chunks, message, stop, emitted, shown, cut)
                    BY <1>1, <3>2, Zenon DEF StreamInv
                <4> QED  BY <4>1, ShownIsPrefix
            <3>3. CASE phase = "done"
                BY <1>1, <3>3, Zenon DEF StreamInv, CallOver
            <3> QED  BY <1>1, <3>1, <3>2, <3>3 DEF StreamInv
        <2>3. Answered /\ cut = "no" => shown = DeliveredOf(script)
            BY <1>1, Zenon DEF StreamInv, Answered, CallOver
        <2> QED  BY <2>2, <2>3, OfScript, Zenon DEF ShownOnce
    <1> QED  BY <1>1, StreamAlways, PTL
=============================================================================
