----------------------------- MODULE Compaction -----------------------------
(***************************************************************************)
(* The host's compaction policy (conga-host/src/compact.rs): which part of *)
(* an over-long history is folded away at the start of a turn.             *)
(*                                                                         *)
(* A result of an executed call stands for output longer than the preview  *)
(* limit; the error results of the loop and of the repair are short.       *)
(***************************************************************************)
EXTENDS Transcript

CONSTANTS
    FallbackMaxMessages,  \* CONGA_COMPACT_MAX_MESSAGES; 0: do not compact
    Threshold,            \* window * threshold_pct / 100, in input tokens
    TargetPct             \* CONGA_COMPACT_TARGET_PCT

ASSUME CompactionAssumption ==
    /\ FallbackMaxMessages \in Nat
    /\ Threshold \in Nat
    /\ TargetPct \in Nat

-----------------------------------------------------------------------------
(* Atomic groups: an assistant message and the run of results behind it,   *)
(* every other message alone.                                              *)

OpensGroup(msgs, k) ==
    \/ ~IsResult(msgs[k])
    \/ RunStart(msgs, k) = 0
    \/ msgs[RunStart(msgs, k)].type # "assistant"

(* The first positions of the groups, in order.                            *)
AtomicGroups(msgs) ==
    ElementsAt([k \in DOMAIN msgs |-> k], {k \in DOMAIN msgs : OpensGroup(msgs, k)})

(* The walk from the newest group backwards: the group the kept suffix     *)
(* starts with.  The newest group is always kept, the first one is outside *)
(* the budget, and the walk stops at the first group that does not fit.    *)
FirstKeptGroup(msgs, groups, budget) ==
    LET n       == Len(groups)
        Fits(g) == g \in {1, n} \/ Len(msgs) - groups[g] + 1 <= budget
    IN  Min({g \in 1 .. n : \A h \in g .. n : Fits(h)})

TruncateToolResult(msg) ==
    IF IsResult(msg) /\ msg.how = "ran" THEN [msg EXCEPT !.how = "preview"] ELSE msg

(* The compacted view; <<>> when nothing is dropped.                       *)
CompactByCount(msgs, max) ==
    IF max = 0 \/ Len(msgs) <= max THEN <<>>
    ELSE LET groups  == AtomicGroups(msgs)
             start   == groups[FirstKeptGroup(msgs, groups, max - 1)]
             pinned  == IF Len(groups) = 1 THEN Len(msgs) ELSE groups[2] - 1
             newest  == groups[Len(groups)]
             kept    == [i \in 1 .. (Len(msgs) - start + 1) |->
                            IF start + i - 1 < newest
                            THEN TruncateToolResult(msgs[start + i - 1])
                            ELSE msgs[start + i - 1]]
         IN  IF start - 1 <= pinned THEN <<>>
             ELSE SubSeq(msgs, 1, pinned) \o <<Notice>> \o kept

(* ContextBudget::compact: the input tokens the provider last reported     *)
(* choose the trigger.                                                     *)
BudgetCompact(msgs, lastTokens) ==
    IF lastTokens = 0 THEN CompactByCount(msgs, FallbackMaxMessages)
    ELSE IF lastTokens <= Threshold THEN <<>>
    ELSE LET target == (Len(msgs) * TargetPct) \div 100
         IN  CompactByCount(msgs, IF target < 1 THEN 1 ELSE target)

(* The dropped count run_turn writes into the checkpoint.                  *)
DroppedCount(history, view) == Len(history) - Len(view) + 1
=============================================================================
