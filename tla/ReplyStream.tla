---------------------------- MODULE ReplyStream ----------------------------
(***************************************************************************)
(* One logical call of the model: call_provider's attempts                 *)
(* (conga/src/agent_loop.rs), the download loop of an attempt              *)
(* (conga/src/providers/sse.rs, download_sse) and the assembly of the      *)
(* assistant message from its deltas (types/message.rs), under a network   *)
(* that delivers the body in any pieces, stalls, breaks or closes early,   *)
(* and a user who cancels at any moment.  The server is external.          *)
(*                                                                         *)
(* A chunk is what the provider's parser makes of one payload.             *)
(***************************************************************************)
EXTENDS Sse, FiniteSetsExt

CONSTANTS
    Styles,     \* how a provider keys the deltas of its calls
    ToolCalls,  \* calls of a reply
    Pieces,     \* deltas of each call
    Formats,    \* how a server ends its lines, and whether it names its events
    Omitted,    \* line ends a server omits at the end of its body
    Retries     \* retry.max_retries

ASSUME StreamAssumption ==
    /\ Styles \subseteq {"indexed", "byId", "sequential"}
    /\ {ToolCalls, Pieces} \subseteq Nat \ {0} /\ Retries \in Nat
    /\ Formats \subseteq [eol : {<<LF>>, <<CR, LF>>}, named : BOOLEAN]
    /\ Omitted \subseteq 0..2

-----------------------------------------------------------------------------
(* What a model answers (external) *)

Text       == [kind |-> "text", index |-> 0, id |-> 0, of |-> 0, piece |-> 0, stop |-> ""]
Stop(why)  == [Text EXCEPT !.kind = "stop", !.stop = why]
DoneMark   == [Text EXCEPT !.kind = "done"]

\* The j-th delta of call c; 0 is an index or an id that is not given.
Delta(style, c, j) ==
    [Text EXCEPT !.kind = "call", !.of = c, !.piece = j,
                 !.index = IF style = "indexed" THEN c ELSE 0,
                 !.id = IF style = "byId" \/ j = 1 THEN c ELSE 0]

\* How many of the first n deltas are of call c.
Given(o, c, n) == Cardinality({m \in 1..n : o[m] = c})

\* The orders in which the deltas of the calls may come; the calls are numbered as
\* they begin.
Orders(style) ==
    {o \in [1..(Pieces * ToolCalls) -> 1..ToolCalls] :
        /\ \A c \in 1..ToolCalls : Given(o, c, Len(o)) = Pieces
        /\ \A n \in DOMAIN o : \A c \in 1..(o[n] - 1) : \E m \in 1..n : o[m] = c
        /\ style = "sequential" => \A m, n \in DOMAIN o : m <= n => o[m] <= o[n]}

Deltas(style, o) == [n \in DOMAIN o |-> Delta(style, o[n], Given(o, o[n], n))]

Bodies == UNION {{Deltas(style, o) : o \in Orders(style)} : style \in Styles}

\* A reply says why it stops or not, and marks its end or not; one that ran out of
\* tokens stops anywhere.
Complete ==
    {d \o e : d \in Bodies, e \in {<<>>, <<DoneMark>>, <<Stop("tool_use")>>,
                                  <<Stop("tool_use"), DoneMark>>}}

OutOfTokens ==
    UNION {{SubSeq(d, 1, n) \o <<Stop("max_tokens")>> : n \in 1..Len(d)} : d \in Bodies}

Replies == {<<Text, Stop("end_turn"), DoneMark>>} \cup Complete \cup OutOfTokens

-----------------------------------------------------------------------------
VARIABLES
    phase,    \* ask, sending, refused, reading, done
    attempts,
    script,   \* the reply the server sends in this attempt
    wire,     \* the bytes that are still to come
    buf,      \* SseFrameSplitter::buf
    chunks,   \* parsed, not yet taken by the loop
    message,  \* accumulated: the calls and the indices seen
    stop,     \* provider_stop, and the reply's stop reason in the end
    emitted,  \* emitted_content
    cancelled, \* CancelSignal
    shown,    \* history: the deltas the host was shown, of all attempts
    cut       \* history: the last body ended before its end, or without a blank line

streamVars == <<phase, attempts, script, wire, buf, chunks, message, stop, emitted,
                cancelled, shown, cut>>

request == <<attempts, script, wire, buf, chunks, cut>>

NoMessage == [calls |-> <<>>, indices |-> <<>>]

StreamInit ==
    /\ phase = "ask" /\ attempts = 0
    /\ script = <<>> /\ wire = <<>> /\ buf = <<>> /\ chunks = <<>>
    /\ message = NoMessage /\ stop = "" /\ emitted = FALSE
    /\ cancelled = FALSE /\ shown = <<>> /\ cut = "no"

CancelCall ==
    /\ phase # "done" /\ ~cancelled
    /\ cancelled' = TRUE
    /\ UNCHANGED <<phase, request, message, stop, emitted, shown>>

-----------------------------------------------------------------------------
(* How an attempt ends *)

\* The provider's word wins over what the content suggests.
StopReason ==
    IF cancelled THEN "aborted"
    ELSE IF stop # "" THEN stop
    ELSE IF message.calls # <<>> THEN "tool_use" ELSE "end_turn"

StreamEnds ==
    /\ phase' = "done" /\ stop' = StopReason
    /\ chunks' = <<>> /\ wire' = <<>> /\ buf' = <<>>
    /\ UNCHANGED <<attempts, script, message, emitted, cancelled, shown>>

\* Mutant of MayRetry: a retry whatever the host has seen.
MayRetryAnyway == attempts <= Retries /\ ~cancelled

MayRetry == ~emitted /\ attempts <= Retries /\ ~cancelled

StreamErrs ==
    /\ IF MayRetry THEN phase' = "ask" /\ UNCHANGED stop
       ELSE phase' = "done" /\ stop' = "error"
    /\ chunks' = <<>> /\ wire' = <<>> /\ buf' = <<>>
    /\ message' = NoMessage
    /\ UNCHANGED <<attempts, script, emitted, cancelled, shown, cut>>

-----------------------------------------------------------------------------
(* The request *)

\* The top of the retry loop: a cancel is honoured before a request is made.
Ask ==
    /\ phase = "ask"
    /\ IF cancelled
       THEN phase' = "done" /\ stop' = "aborted" /\ UNCHANGED attempts
       ELSE phase' = "sending" /\ attempts' = attempts + 1 /\ stop' = ""
    /\ message' = NoMessage /\ emitted' = FALSE /\ cut' = "no"
    /\ UNCHANGED <<script, wire, buf, chunks, cancelled, shown>>

\* The select is biased: a response that comes with a cancel is not looked at.
Respond ==
    /\ phase = "sending" /\ ~cancelled
    /\ \E reply \in Replies, f \in Formats, n \in Omitted :
          /\ script' = reply
          /\ wire' = Body(Len(reply), f.eol, f.named, n)
          /\ cut' = IF n = 0 THEN "no" ELSE "blank"
    /\ phase' = "reading"
    /\ UNCHANGED <<attempts, buf, chunks, message, stop, emitted, cancelled, shown>>

\* Not a 2xx: its body is read to the end, cancelled or not.
Refuse ==
    /\ phase = "sending" /\ ~cancelled
    /\ phase' = "refused"
    /\ UNCHANGED <<request, message, stop, emitted, cancelled, shown>>

RefusalRead == phase = "refused" /\ StreamErrs

SendFails == phase = "sending" /\ ~cancelled /\ StreamErrs

-----------------------------------------------------------------------------
(* The download *)

Reading == phase = "reading" /\ chunks = <<>>

\* Any number of bytes arrives; the frames they complete are parsed.
ReadChunk ==
    /\ Reading /\ ~cancelled
    /\ \E n \in 1..Len(wire) :
          LET pushed == Push(buf \o SubSeq(wire, 1, n)) IN
          /\ wire' = SubSeq(wire, n + 1, Len(wire))
          /\ buf' = pushed.buf
          /\ chunks' = [i \in DOMAIN pushed.found |-> script[pushed.found[i]]]
    /\ UNCHANGED <<phase, attempts, script, message, stop, emitted, cancelled, shown, cut>>

\* The body is over, or closed before its end in a way HTTP cannot tell.  finish
\* returns the trailing frame, but the loop is left before it is looked at.
ReadEnd ==
    /\ Reading /\ ~cancelled
    /\ cut' = IF wire # <<>> THEN "early" ELSE cut
    /\ StreamEnds

\* The connection breaks.
ReadFails == Reading /\ ~cancelled /\ StreamErrs

\* Mutant of HearsCancel: the signal is looked at when bytes come.
HearsBetweenChunks == cancelled /\ Reading /\ wire # <<>>

\* sig.cancelled() in the select: while the response or the next bytes are awaited.
HearsCancel == cancelled /\ (phase = "sending" \/ Reading)

Abandon == HearsCancel /\ StreamEnds /\ UNCHANGED cut

-----------------------------------------------------------------------------
(* The assembly: append_tool_call *)

\* Mutant of Ordinal: an id where there is one, else the last call.
OrdinalById(m, chunk) ==
    LET byId == {n \in DOMAIN m.calls : m.calls[n].id = chunk.id}
    IN  IF chunk.id # 0 THEN byId ELSE {Len(m.calls)} \ {0}

\* The call a delta belongs to, if there is one: by index, by id, else the last.
Ordinal(m, chunk) ==
    IF chunk.index # 0 THEN {n \in DOMAIN m.indices : m.indices[n] = chunk.index}
    ELSE LET byId == {n \in DOMAIN m.calls : m.calls[n].id = chunk.id}
         IN  IF chunk.id # 0 THEN IF byId = {} THEN {} ELSE {Max(byId)}
             ELSE {Len(m.calls)} \ {0}

AppendToolCall(m, chunk) ==
    LET at == Ordinal(m, chunk) \cap DOMAIN m.calls IN
    IF at # {} THEN [m EXCEPT !.calls[Min(at)].args = Append(@, chunk.piece)]
    ELSE [calls   |-> Append(m.calls, [id |-> chunk.id, args |-> <<chunk.piece>>]),
          indices |-> IF chunk.index = 0 THEN m.indices
                      ELSE Append(m.indices, chunk.index)]

Content == {"text", "call"}

TakeChunk ==
    /\ phase = "reading" /\ chunks # <<>>
    /\ LET chunk == Head(chunks) IN
       \/ chunk.kind = "done" /\ StreamEnds /\ UNCHANGED cut
       \/ /\ chunk.kind # "done"
          /\ chunks' = Tail(chunks)
          /\ message' = IF chunk.kind = "call" THEN AppendToolCall(message, chunk)
                        ELSE message
          /\ stop' = IF chunk.kind = "stop" THEN chunk.stop ELSE stop
          /\ emitted' = (emitted \/ chunk.kind \in Content)
          /\ shown' = IF chunk.kind \in Content THEN Append(shown, chunk) ELSE shown
          /\ UNCHANGED <<phase, attempts, script, wire, buf, cancelled, cut>>

-----------------------------------------------------------------------------
Server == Respond \/ Refuse \/ RefusalRead \/ SendFails \/ ReadChunk \/ ReadEnd \/ ReadFails
Client == Ask \/ TakeChunk \/ Abandon
Rest == phase = "done" /\ UNCHANGED streamVars

StreamNext == Server \/ Client \/ CancelCall \/ Rest

\* The runtime polls what can go on.  Nothing is asked of the server.
StreamSpec == StreamInit /\ [][StreamNext]_streamVars
FairStreamSpec == StreamSpec /\ WF_streamVars(Client)

-----------------------------------------------------------------------------
(* Properties *)

Delivered(kinds) == ElementsAt(script, {n \in DOMAIN script : script[n].kind \in kinds})

\* The calls of a reply, in the order the model began them.
Intended ==
    LET begun == {chunk.of : chunk \in {d \in Range(script) : d.kind = "call"}}
        own(c) == ElementsAt(script, {n \in DOMAIN script :
                                         script[n].kind = "call" /\ script[n].of = c})
    IN  [c \in begun |-> [id |-> c, args |-> [i \in DOMAIN own(c) |-> own(c)[i].piece]]]

\* Why it stops: what it says, if it says so.
IntendedStops ==
    LET stops == {chunk \in Range(script) : chunk.kind = "stop"}
    IN  IF stops = {} THEN {"tool_use"} ELSE {chunk.stop : chunk \in stops}

Answered == phase = "done" /\ stop \notin {"aborted", "error"}

\* A reply that came through is the reply the model gave: its calls whole, each
\* with its own arguments, and its reason to stop, however the body was cut into
\* chunks and the deltas of its calls interleaved.  A call that ran out of tokens
\* is never executed.  (append_tool_call; sse.rs, push; agent_loop.rs, StreamChunk::Stop)
ReplyAsSent ==
    Answered /\ cut = "no" => message.calls = Intended /\ stop \in IntendedStops

\* The same of a body whose last blank line was omitted ("finish flushes a trailing
\* frame whose blank line never arrived (some servers omit the final one)").
TrailingFrameCounts ==
    Answered /\ cut \in {"no", "blank"} =>
        message.calls = Intended /\ stop \in IntendedStops

\* Retries are invisible (agent_loop.rs, can_retry): the host is shown one attempt,
\* and of an answer all of it, once.
ShownOnce ==
    /\ IsPrefix(shown, Delivered(Content))
    /\ Answered /\ cut = "no" => shown = Delivered(Content)

\* A cancel ends the call though the server stalls (sse.rs, "the instant cancel()
\* fires"), unless it stalls in the body of a refusal.
CancelEndsCall == cancelled ~> phase \in {"done", "refused"}
=============================================================================
