-------------------------------- MODULE Sse --------------------------------
(***************************************************************************)
(* Server-sent events as the providers read them (conga/src/providers/     *)
(* sse.rs): a body is cut into frames at its blank lines, and a frame's    *)
(* data lines are a payload.  A byte is a record: a line feed, a carriage  *)
(* return, or one half of the line of payload k, so that a body can be cut *)
(* in the middle of a line as well as between the bytes of a separator.    *)
(***************************************************************************)
EXTENDS Naturals, Lists

Byte(b, k) == [b |-> b, k |-> k]
LF == Byte("LF", 0)
CR == Byte("CR", 0)
Other == Byte("other", 0)  \* an event:, id: or comment line

\* The data line of payload k.
Line(k) == <<Byte("data", k), Byte("more", k)>>

\* What the server writes for payload k of a body with these line ends.
Block(k, eol, named) ==
    (IF named THEN <<Other>> \o eol ELSE <<>>) \o Line(k) \o eol \o eol

\* The body of n payloads; of the last blank line, some servers omit a part.
Body(n, eol, named, omitted) ==
    LET whole == FlattenSeq([k \in 1..n |-> Block(k, eol, named)])
    IN  SubSeq(whole, 1, Len(whole) - omitted * Len(eol))

StartsAt(buf, i, word) ==
    /\ i + Len(word) - 1 <= Len(buf)
    /\ \A j \in 1..Len(word) : buf[i + j - 1] = word[j]

Separators == {<<LF, LF>>, <<CR, LF, CR, LF>>}

\* find_separator: where a separator of either spelling starts first, 0 if none does.
Separator(buf) ==
    LET starts == {i \in 1..Len(buf) : \E s \in Separators : StartsAt(buf, i, s)}
    IN  IF starts = {} THEN 0 ELSE CHOOSE i \in starts : \A j \in starts : i <= j

\* The frames of a buffer: what follows the first one.
Behind(buf) ==
    LET at == Separator(buf)
        s == CHOOSE t \in Separators : StartsAt(buf, at, t)
    IN  SubSeq(buf, at + Len(s), Len(buf))

FirstFrame(buf) == SubSeq(buf, 1, Separator(buf) - 1)

Trimmed(line) ==
    IF line # <<>> /\ line[Len(line)] = CR THEN SubSeq(line, 1, Len(line) - 1) ELSE line

IsData(line) == line # <<>> /\ line[1].b = "data"

\* A payload is the JSON of event k only if it is the whole line of it and no more.
Json(payload) ==
    IF payload # <<>> /\ payload = Line(payload[1].k) THEN <<payload[1].k>> ELSE <<>>

\* A line is over: data lines up to a blank line are one payload, joined.
EndLine(acc) ==
    LET line == Trimmed(acc.line) IN
    [line  |-> <<>>,
     data  |-> IF IsData(line) THEN acc.data \o line
               ELSE IF line = <<>> THEN <<>> ELSE acc.data,
     found |-> IF line = <<>> THEN acc.found \o Json(acc.data) ELSE acc.found]

NoLines == [line |-> <<>>, data |-> <<>>, found |-> <<>>]

ReadByte(acc, byte) ==
    IF byte = LF THEN EndLine(acc) ELSE [acc EXCEPT !.line = Append(@, byte)]

\* parse_sse_frame: the last payload needs no blank line.
ParseFrame(frame) ==
    LET read[i \in 0..Len(frame)] ==
            IF i = 0 THEN NoLines ELSE ReadByte(read[i - 1], frame[i])
        end == EndLine(read[Len(frame)])
    IN  end.found \o Json(end.data)

\* The first complete frame, if there is one.
TakeFrame(last) ==
    IF Separator(last.buf) = 0 THEN last
    ELSE [buf   |-> Behind(last.buf),
          found |-> last.found \o ParseFrame(FirstFrame(last.buf))]

\* SseFrameSplitter::push: every complete frame, and what is kept.  A frame takes a
\* byte at least, its separator.
Push(buf) ==
    LET cut[i \in 0..Len(buf)] ==
            IF i = 0 THEN [buf |-> buf, found |-> <<>>] ELSE TakeFrame(cut[i - 1])
    IN  cut[Len(buf)]
=============================================================================
