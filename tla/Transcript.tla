----------------------------- MODULE Transcript -----------------------------
(***************************************************************************)
(* The vocabulary of a session's event log and its projections             *)
(* (conga/src/types/session_event.rs).                                     *)
(*                                                                         *)
(* A row of the log is a SessionEvent.  A message is a row of one of the   *)
(* three types that wrap an AgentMessage; projecting such a row gives the  *)
(* message itself, so rows and messages share their records.  Text, tool   *)
(* arguments and timestamps are abstracted: a user message is its serial   *)
(* number, an assistant message the ids of the tool calls it declares, the *)
(* input tokens its usage reports (0: no usage) and its stop reason, a     *)
(* tool result the id of the call it answers and how it came about.        *)
(***************************************************************************)
EXTENDS Integers, Lists

TurnStart == [type |-> "turn_start"]

(* from is who put the message in the log: the prompt that opened the      *)
(* turn, a message steered into it, or the compaction notice.              *)
User(text, from) == [type |-> "user", text |-> text, from |-> from]

Notice == User(0, "notice")

Assistant(calls, tokens, stop) ==
    [type |-> "assistant", calls |-> calls, tokens |-> tokens, stop |-> stop]

ToolResult(call, how) == [type |-> "tool_result", call |-> call, how |-> how]

TurnEnd(reason) == [type |-> "turn_end", reason |-> reason]

Cleared == [type |-> "cleared"]

Compacted(base, dropped) ==
    [type |-> "compacted", base |-> base, dropped |-> dropped]

-----------------------------------------------------------------------------
(* Projection: what the model sees.                                        *)

IsCheckpoint(row) == row.type \in {"cleared", "compacted"}

IsConversationReset(row) == row.type = "cleared"

IsMessage(row) == row.type \in {"user", "assistant", "tool_result"}

(* The messages among some rows, in order.                                 *)
Surface(rows) == ElementsAt(rows, {k \in DOMAIN rows : IsMessage(rows[k])})

(* How many rows precede the part of the log the view still projects from: *)
(* everything up to and including the last checkpoint.                     *)
ViewScopeStart(log) == SelectLastInSeq(log, IsCheckpoint)

(* The same for billing: only /clear starts a new conversation.            *)
BillingScopeStart(log) == SelectLastInSeq(log, IsConversationReset)

RowsAfter(log, n) == SubSeq(log, n + 1, Len(log))

(* Mutated: the base of a compaction is forgotten.                         *)
TailOnly(log) == Surface(RowsAfter(log, ViewScopeStart(log)))

DeriveMessages(log) ==
    LET last == ViewScopeStart(log)
        tail == Surface(RowsAfter(log, last))
    IN  IF last > 0 /\ log[last].type = "compacted"
        THEN log[last].base \o tail
        ELSE tail

(* Mutated: compaction does not restart the count.                         *)
CountMessagesOnly(count, row) ==
    CASE IsMessage(row)         -> count + 1
      [] row.type = "cleared"   -> 0
      [] OTHER                  -> count

(* One step of the row-level count of model-visible messages.              *)
CountRow(count, row) ==
    CASE IsMessage(row)          -> count + 1
      [] row.type = "compacted"  -> Len(row.base)
      [] row.type = "cleared"    -> 0
      [] OTHER                   -> count

VisibleMessageCount(log) == FoldLeft(CountRow, 0, log)

(* One step of the token accounting: input tokens and the number of        *)
(* provider calls that reported usage.                                     *)
AddUsage(stats, row) ==
    IF row.type = "assistant" /\ row.tokens > 0
    THEN [input |-> stats.input + row.tokens, calls |-> stats.calls + 1]
    ELSE stats

(* The token accounting of the conversation.                               *)
CacheStats(log) ==
    FoldLeft(AddUsage, [input |-> 0, calls |-> 0], RowsAfter(log, BillingScopeStart(log)))

-----------------------------------------------------------------------------
(* Repair: every declared call gets a result before the view is sent.      *)

IsResult(msg) == msg.type = "tool_result"

(* The message that opens the run of tool results at position k: k itself  *)
(* unless k is a result, else the last message before k that is not one    *)
(* (0: the view starts with results).                                      *)
RunStart(msgs, k) ==
    SelectLastInSubSeq(msgs, 1, k, LAMBDA m : ~IsResult(m))

EndsRun(msgs, k) == k = Len(msgs) \/ ~IsResult(msgs[k + 1])

(* The calls of the assistant message at a that the results in a+1..k do   *)
(* not answer, in the order of their declaration.                          *)
MissingCalls(msgs, a, k) ==
    IF a = 0 \/ msgs[a].type # "assistant" THEN <<>>
    ELSE LET answered == {msgs[r].call : r \in (a + 1) .. k}
             calls    == msgs[a].calls
         IN  ElementsAt(calls, {i \in DOMAIN calls : calls[i] \notin answered})

(* What the repair puts behind the message at k: at the end of a run, an   *)
(* error result for every call without one.                                *)
Synthesized(msgs, k) ==
    IF EndsRun(msgs, k)
    THEN LET missing == MissingCalls(msgs, RunStart(msgs, k), k)
         IN  [i \in DOMAIN missing |-> ToolResult(missing[i], "synthesized")]
    ELSE <<>>

(* Mutated: nothing is synthesized.                                        *)
NoRepair(msgs) == msgs

(* Mutated: missing results go to the end of the view.                     *)
RepairAtEnd(msgs) ==
    LET Missing(k) ==
            IF EndsRun(msgs, k) THEN MissingCalls(msgs, RunStart(msgs, k), k) ELSE <<>>
        missing == FlattenSeq([k \in DOMAIN msgs |-> Missing(k)])
    IN  msgs \o [i \in DOMAIN missing |-> ToolResult(missing[i], "synthesized")]

RepairUnanswered(msgs) ==
    FlattenSeq([k \in DOMAIN msgs |-> <<msgs[k]>> \o Synthesized(msgs, k)])

-----------------------------------------------------------------------------
(* What a provider accepts: a declared call is answered by the results     *)
(* right behind it, and there is no result without a call before it.       *)

CallsAnswered(msgs) ==
    \A k \in DOMAIN msgs :
        EndsRun(msgs, k) => MissingCalls(msgs, RunStart(msgs, k), k) = <<>>

NoOrphanResults(msgs) ==
    \A k \in DOMAIN msgs : IsResult(msgs[k]) =>
        LET a == RunStart(msgs, k)
        IN  /\ a > 0
            /\ msgs[a].type = "assistant"
            /\ msgs[k].call \in ToSet(msgs[a].calls)

-----------------------------------------------------------------------------
(* What the invariants of the proofs ask of a log and of a view: the bases *)
(* of the checkpoints are sequences; calls are listed, a result names its  *)
(* call and how it came about, and stands in the run of the message that   *)
(* declares it.                                                            *)

Based(l) == \A k \in DOMAIN l : l[k].type = "compacted" => IsSequence(l[k].base)

Shaped(x) ==
    /\ x.type = "assistant" => IsSequence(x.calls)
    /\ IsResult(x) => x = ToolResult(x.call, x.how)

WellShaped(m) == \A x \in Range(m) : Shaped(x)

Sound(m) == IsSequence(m) /\ WellShaped(m) /\ NoOrphanResults(m)

=============================================================================
