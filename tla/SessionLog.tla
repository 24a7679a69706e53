----------------------------- MODULE SessionLog -----------------------------
(***************************************************************************)
(* One session's files: events.jsonl, its staging file and the legacy      *)
(* messages.jsonl (conga/conga/src/storage/mod.rs, conga-host/src/         *)
(* session.rs).  One writer, the host that runs the session's turns, opens *)
(* the log, migrates a legacy transcript and appends rows; a reader (a     *)
(* REST handler, the search index) opens the same files at any moment and  *)
(* repairs what it takes for a torn tail; either process may die anywhere. *)
(***************************************************************************)
EXTENDS Naturals, Jsonl

CONSTANTS
    LegacyFiles,    \* what messages.jsonl may hold when the model starts
    Custom,         \* legacy rows the event vocabulary cannot express
    FirstRow,       \* rows below it are the legacy transcript's
    MaxRow,         \* rows from FirstRow to MaxRow are written by the host
    MaxCrashes,     \* how often the processes die
    MaxFailures,    \* how many system calls of the writer fail
    MaxForeign,     \* how many rows a newer version appends
    MaxReads        \* how many times a reader opens the session

ASSUME RowAssumption ==
    /\ FirstRow \in Nat \ {0} /\ MaxRow \in Nat /\ FirstRow <= MaxRow + 1
    /\ {MaxCrashes, MaxFailures, MaxForeign, MaxReads} \subseteq Nat

\* A row is numbered by its place in the session: the rows of a legacy file come
\* in order, and the host's come after them.
ASSUME LegacyAssumption ==
    \A bytes \in LegacyFiles :
        /\ bytes \in Seq(Tokens) /\ InOrder(bytes)
        /\ \A i \in DOMAIN bytes : bytes[i] # NL => bytes[i].row < FirstRow

Bounds == {"crash", "failure", "foreign", "read"}
Limit == [b \in Bounds |->
            CASE b = "crash"   -> MaxCrashes
              [] b = "failure" -> MaxFailures
              [] b = "foreign" -> MaxForeign
              [] b = "read"    -> MaxReads]

VARIABLES
    hasEvents,  \* events.jsonl exists
    events,     \* its bytes
    tmp,        \* the bytes of events.jsonl.tmp
    legacy,     \* the bytes of messages.jsonl (none: no file)
    writer,     \* where the host is
    plan,       \* the rows a migration has in memory
    reader,     \* where the reader is and what it has read
    row,        \* the next row the host will write
    transcript, \* history: the legacy messages there were to install
    landed,     \* history: the rows completely written to events.jsonl
    mishaps,    \* history: what went beyond a clean crash, see Mishaps
    used        \* what is spent of every bound

files == <<hasEvents, events, tmp, legacy>>
vars == <<files, writer, plan, reader, row, transcript, landed, mishaps, used>>

Writing   == {"writing", "clearing"}
Migrating == {"staging", "filling", "staged", "installed"}
WriterAt  == {"idle", "turn"} \cup Writing \cup Migrating
NoReader  == [at |-> "idle", of |-> "events", bytes |-> <<>>]

Spend(b) == used[b] < Limit[b] /\ used' = [used EXCEPT ![b] = @ + 1]

\* What can happen to a log besides a write cut in the middle of its row: a
\* write cut just before the terminator, a write that failed with part of the
\* row in place, a clear appended to a log that was not opened after a crash,
\* a repair at an offset that is out of date, and a clear that creates the log
\* of a session still in the legacy format.
Mishaps == {"unterminated", "residue", "blind", "raced", "shadowed"}

\* The messages of a legacy transcript that become events.
Representable(rows) == ElementsAt(rows, {k \in DOMAIN rows : rows[k] \notin Custom})

\* What opening the session read-only yields.
Opened == IF hasEvents THEN Scan(events, TRUE) ELSE Scan(legacy, FALSE)

Init ==
    /\ legacy \in LegacyFiles
    /\ hasEvents = FALSE
    /\ events = <<>> /\ tmp = <<>> /\ plan = <<>> /\ landed = <<>>
    /\ writer = "idle"
    /\ reader = NoReader
    /\ row = FirstRow
    /\ transcript = Representable(RowsIn(legacy))
    /\ mishaps = {}
    /\ used = [b \in Bounds |-> 0]

-----------------------------------------------------------------------------
(* The writer opens the session for a turn: migrate() of session.rs *)

\* The log exists: load it, cutting a torn tail off.
OpenLog ==
    LET found == Scan(events, TRUE) IN
    /\ writer = "idle" /\ hasEvents /\ found.ok
    /\ events' = HealAt(events, found.torn)
    /\ writer' = "turn"
    /\ UNCHANGED <<hasEvents, tmp, legacy, plan, reader, row, transcript, landed, mishaps, used>>

\* It does not: load the legacy transcript; with nothing to install the session
\* is fresh and the turn begins.
OpenLegacy ==
    LET found == Scan(legacy, FALSE)
        rows  == Representable(found.rows)
    IN
    /\ writer = "idle" /\ ~hasEvents /\ found.ok
    /\ legacy' = HealAt(legacy, found.torn)
    /\ plan' = rows
    /\ writer' = IF rows = <<>> THEN "turn" ELSE "staging"
    /\ UNCHANGED <<hasEvents, events, tmp, reader, row, transcript, landed, mishaps, used>>

\* Mutants of Staging and Install.
StaleStaging(old) == old
DeleteBeforeInstall ==
    /\ writer = "staged"
    /\ legacy' = <<>>
    /\ writer' = "installed"
    /\ UNCHANGED <<hasEvents, events, tmp, plan, reader, row, transcript, landed, mishaps, used>>

\* The staging file is created afresh: what a crashed migration left is gone.
Staging(old) == <<>>

StageFirst ==
    /\ writer = "staging"
    /\ tmp' = Append(Staging(tmp), Part(plan[1]))
    /\ writer' = "filling"
    /\ UNCHANGED <<hasEvents, events, legacy, plan, reader, row, transcript, landed, mishaps, used>>

StageRest ==
    /\ writer = "filling"
    /\ tmp' = Front(tmp) \o Lines(plan)
    /\ writer' = "staged"
    /\ UNCHANGED <<hasEvents, events, legacy, plan, reader, row, transcript, landed, mishaps, used>>

Install ==
    /\ writer = "staged"
    /\ hasEvents' = TRUE
    /\ events' = tmp
    /\ tmp' = <<>>
    /\ landed' = plan
    /\ writer' = "installed"
    /\ UNCHANGED <<legacy, plan, reader, row, transcript, mishaps, used>>

DeleteLegacy ==
    /\ writer = "installed"
    /\ legacy' = <<>>
    /\ plan' = <<>>
    /\ writer' = "turn"
    /\ UNCHANGED <<hasEvents, events, tmp, reader, row, transcript, landed, mishaps, used>>

\* A step of the migration fails: the turn is refused.
FailMigration ==
    /\ writer \in Migrating
    /\ Spend("failure")
    /\ writer' = "idle"
    /\ plan' = <<>>
    /\ UNCHANGED <<files, reader, row, transcript, landed, mishaps>>

-----------------------------------------------------------------------------
(* The writer appends: append_event_sync of a turn's rows, or the Cleared    *)
(* marker, which needs no open                                               *)

\* The write has begun to land: the row follows whatever the file ends with.
Begin(home, pc) ==
    /\ writer = home
    /\ row <= MaxRow
    /\ hasEvents' = TRUE
    /\ events' = Append(events, Part(row))
    /\ writer' = pc
    /\ UNCHANGED <<tmp, legacy, plan, reader, row, transcript, landed, used>>

BeginRow ==
    /\ Begin("turn", "writing")
    /\ UNCHANGED mishaps

BeginClear ==
    /\ Begin("idle", "clearing")
    /\ mishaps' = mishaps
            \cup {m \in {"blind"}    : ~Terminated(events)}
            \cup {m \in {"shadowed"} : ~hasEvents /\ transcript # <<>>}

\* Where the writer is once its append has returned.
Home == IF writer = "clearing" THEN "idle" ELSE "turn"

\* The row stops landing: bytes is what of it is in the file.
Stop(bytes) ==
    /\ writer \in Writing
    /\ events' = Front(events) \o bytes
    /\ landed' = IF bytes \in {<<Whole(row)>>, Line(row)} THEN Append(landed, row)
                                                        ELSE landed
    /\ row' = row + 1
    /\ UNCHANGED <<hasEvents, tmp, legacy, transcript>>

Unterminated(bytes) == {m \in {"unterminated"} : bytes = <<Whole(row)>>}
Residue(bytes)      == {m \in {"residue"} : bytes = <<Part(row)>>}

Finish ==
    /\ Stop(Line(row))
    /\ writer' = Home
    /\ UNCHANGED <<plan, reader, mishaps, used>>

\* The write fails, no space left say, with some prefix of the line in place;
\* the caller is told, and the process lives on.
FailWrite ==
    /\ \E bytes \in {<<>>, <<Part(row)>>, <<Whole(row)>>} :
            /\ Stop(bytes)
            /\ mishaps' = mishaps \cup Unterminated(bytes) \cup Residue(bytes)
    /\ Spend("failure")
    /\ writer' = Home
    /\ UNCHANGED <<plan, reader>>

EndTurn ==
    /\ writer = "turn"
    /\ writer' = "idle"
    /\ UNCHANGED <<files, plan, reader, row, transcript, landed, mishaps, used>>

-----------------------------------------------------------------------------
(* A reader: open() of session.rs, load_events_sync of the search index *)

ReaderChecks ==
    /\ reader.at = "idle"
    /\ Spend("read")
    /\ reader' = [NoReader EXCEPT !.at = "checked",
                                  !.of = IF hasEvents THEN "events" ELSE "legacy"]
    /\ UNCHANGED <<files, writer, plan, row, transcript, landed, mishaps>>

\* Read the file as it is now and scan it; only a torn tail leaves work to do.
ReaderReads ==
    LET bytes == IF reader.of = "events" THEN events ELSE legacy
        found == Scan(bytes, reader.of = "events")
    IN
    /\ reader.at = "checked"
    /\ reader' = IF found.ok /\ found.torn # 0
                 THEN [reader EXCEPT !.at = "healing", !.bytes = bytes]
                 ELSE NoReader
    /\ UNCHANGED <<files, writer, plan, row, transcript, landed, mishaps, used>>

\* Truncate at the offset computed from what was read.  A write in progress
\* holds the file; a legacy file that is gone by now cannot be opened.
ReaderHeals ==
    LET torn == Scan(reader.bytes, reader.of = "events").torn IN
    /\ reader.at = "healing"
    /\ reader' = NoReader
    /\ \/ /\ reader.of = "events"
          /\ writer \notin Writing
          /\ events' = HealAt(events, torn)
          /\ mishaps' = mishaps \cup {m \in {"raced"} : events # reader.bytes}
          /\ UNCHANGED legacy
       \/ /\ reader.of = "legacy"
          /\ legacy' = IF legacy = <<>> THEN legacy ELSE HealAt(legacy, torn)
          /\ UNCHANGED <<events, mishaps>>
    /\ UNCHANGED <<hasEvents, tmp, writer, plan, row, transcript, landed, used>>

-----------------------------------------------------------------------------
(* The surroundings *)

\* A newer version of the program ran on this session and closed it.
NewerVersionAppends ==
    /\ writer = "idle" /\ hasEvents /\ Terminated(events)
    /\ row <= MaxRow
    /\ Spend("foreign")
    /\ events' = events \o <<Foreign(row), NL>>
    /\ row' = row + 1
    /\ UNCHANGED <<hasEvents, tmp, legacy, writer, plan, reader, transcript, landed, mishaps>>

Restarted ==
    /\ writer' = "idle"
    /\ plan' = <<>>
    /\ reader' = NoReader

\* The process dies between two writes ...
Crash ==
    /\ writer \notin Writing
    /\ Spend("crash")
    /\ Restarted
    /\ UNCHANGED <<files, row, transcript, landed, mishaps>>

\* ... or in the middle of one, which is cut anywhere.
CrashInWrite ==
    /\ \E bytes \in {<<>>, <<Part(row)>>, <<Whole(row)>>, Line(row)} :
            /\ Stop(bytes)
            /\ mishaps' = mishaps \cup Unterminated(bytes)
    /\ Spend("crash")
    /\ Restarted

Next ==
    \/ OpenLog \/ OpenLegacy
    \/ StageFirst \/ StageRest \/ Install \/ DeleteLegacy \/ FailMigration
    \/ BeginRow \/ BeginClear \/ Finish \/ FailWrite \/ EndTurn
    \/ ReaderChecks \/ ReaderReads \/ ReaderHeals
    \/ NewerVersionAppends \/ Crash \/ CrashInWrite

Spec == Init /\ [][Next]_vars

-----------------------------------------------------------------------------
(* Properties *)

\* Type correctness; and a reader that is about to cut the log cuts inside it:
\* a set_len beyond its end would pad it with zero bytes.
TypeOK ==
    /\ hasEvents \in BOOLEAN
    /\ writer \in WriterAt
    /\ reader \in [at : {"idle", "checked", "healing"}, of : {"events", "legacy"},
                   bytes : Seq(Tokens)]
    /\ reader.at = "healing" /\ reader.of = "events" =>
            Scan(reader.bytes, TRUE).torn <= Len(events) + 1
    /\ row \in FirstRow..(MaxRow + 1)
    /\ mishaps \subseteq Mishaps
    /\ used \in [Bounds -> Nat]
    /\ \A b \in Bounds : used[b] <= Limit[b]

HoldsForeign(bytes) == \E i \in DOMAIN bytes : bytes[i].is = "foreign"

\* Every row whose write landed is what the next open returns: all of them, in
\* order, and nothing else (append_line, scan_jsonl, repair_torn_tail).
LandedRowsSurvive ==
    hasEvents /\ ~HoldsForeign(events) =>
        Scan(events, TRUE).ok /\ RowsIn(events) = landed

\* The mishaps that may leave two rows on one line.
Gluing == {"unterminated", "residue", "blind"}

\* Crashes that cut a row, at any moment of any turn, of a migration or of a
\* repair, lose no row that landed before: the repair at the next open is
\* enough to keep later appends clean.
CrashesLoseNothing ==
    mishaps \cap (Gluing \cup {"raced"}) = {} => LandedRowsSurvive

\* A log is refused as damaged only after one of the gluing mishaps: neither a
\* crash that cuts a row nor a racing reader makes a session unloadable.
BrickedOnlyByGlue ==
    hasEvents /\ mishaps \cap Gluing = {} /\ ~HoldsForeign(events) =>
        Scan(events, TRUE).ok

\* Repair only ever cuts off a fragment: a complete row, one that a newer
\* version wrote included, is never removed from the log.
KeepsWholeRows ==
    \A i \in DOMAIN events :
        events[i].is \in {"row", "foreign"} =>
            i \in DOMAIN events' /\ events'[i] = events[i]
HealRemovesOnlyFragments == [][KeepsWholeRows]_vars

\* ... as long as nothing was glued and the offset it cuts at was current.
CarefulHealKeepsRows ==
    [][mishaps' \cap (Gluing \cup {"raced"}) = {} => KeepsWholeRows]_vars

\* The complete rows of a file, those of a newer version included.
WholeRows(bytes) ==
    ElementsAt([i \in DOMAIN bytes |-> bytes[i].row],
               {i \in DOMAIN bytes : bytes[i].is \in {"row", "foreign"}})

SessionRows == IF hasEvents THEN WholeRows(events) ELSE Representable(RowsIn(legacy))

\* Until a mishap, the session is an append-only sequence of rows from the legacy
\* transcript on: migrations, crashes that cut a row, failed calls, repairs and
\* readers are all invisible in it.
Log == INSTANCE Journal WITH rows <- SessionRows, spoiled <- (mishaps # {})
JournalSpec == Log!Spec

\* An open returns no row twice and none out of order, whatever went wrong: a
\* migration run again after a crash installs the transcript once.
NoRowTwice ==
    Opened.ok => \A i, j \in DOMAIN Opened.rows :
                    i < j => Opened.rows[i] < Opened.rows[j]

\* The rows of the legacy transcript among some rows.
OfLegacy(rows) == ElementsAt(rows, {k \in DOMAIN rows : rows[k] < FirstRow})

\* Opening the session yields its whole legacy transcript.
TranscriptReadable ==
    Opened.ok => Representable(OfLegacy(Opened.rows)) = transcript

\* At every moment of a migration, failures and crashes included, the legacy
\* messages are all readable: the legacy file is complete until the log is.
MigrationLosesNothing ==
    mishaps \cap {"shadowed", "raced"} = {} => TranscriptReadable

-----------------------------------------------------------------------------
(* The inductive invariant behind the theorems of SessionLogProofs *)

\* What the files and the memory of the host hold at each step of the writer.
InvFiles ==
    /\ {events, tmp, legacy, reader.bytes} \subseteq Seq(Tokens)
    /\ {plan, landed, transcript} \subseteq Seq(Nat)
    /\ ~hasEvents => events = <<>> /\ landed = <<>>
    /\ writer \in Writing => /\ hasEvents /\ row <= MaxRow
                            /\ events # <<>> /\ Last(events) = Part(row)
    /\ writer \in {"staging", "filling", "staged"} => ~hasEvents /\ plan = transcript
    /\ writer = "staging" => plan # <<>>
    /\ writer = "filling" => tmp = <<Part(plan[1])>>
    /\ writer = "staged" => tmp = Lines(plan)
    /\ writer = "installed" => hasEvents

\* What a reader is about to cut off starts at the end of a line of the file, as
\* it was and as it is.
InvReader ==
    LET found == Scan(reader.bytes, reader.of = "events") IN
    /\ reader.at = "checked" /\ reader.of = "events" => hasEvents
    /\ reader.at = "healing" =>
          /\ found.ok /\ found.torn \in DOMAIN reader.bytes
          /\ reader.of = "events" =>
                /\ hasEvents /\ found.torn <= Len(events) + 1
                /\ \A i \in 1..(found.torn - 1) : events[i] = reader.bytes[i]
          /\ reader.of = "legacy" =>
                legacy \in {<<>>, reader.bytes, HealAt(reader.bytes, found.torn)}

\* Rows are in the files in the order of their numbers.
InvOrder ==
    /\ InOrder(events)
    /\ \A i \in DOMAIN events :
          events[i] # NL => events[i].row < row \/ (writer \in Writing /\ i = Len(events))
    /\ InOrder(legacy)
    /\ \A i \in DOMAIN legacy : legacy[i] # NL => legacy[i].row < FirstRow
    /\ \A i \in DOMAIN transcript : transcript[i] < FirstRow /\ transcript[i] \notin Custom
    /\ \A i, j \in DOMAIN transcript : i < j => transcript[i] < transcript[j]

\* Every record is on a line of its own; a fragment is the last thing there is.
TidyAt(bytes, i) ==
    /\ bytes[i] # NL /\ i > 1 => bytes[i - 1] = NL
    /\ bytes[i] = NL => i > 1 /\ bytes[i - 1].is \in {"row", "foreign"}
    /\ bytes[i].is \in {"row", "foreign"} => i < Len(bytes) /\ bytes[i + 1] = NL
    /\ bytes[i].is = "part" => i = Len(bytes)
Tidy(bytes) == \A i \in DOMAIN bytes : TidyAt(bytes, i)

InvTidy ==
    mishaps \cap Gluing = {} =>
        /\ Tidy(events)
        /\ writer \in {"turn", "installed"} => Terminated(events)

InvLanded == mishaps \cap (Gluing \cup {"raced"}) = {} => RowsIn(events) = landed

\* A log that begins with the lines of some rows and goes on with the host's.
Follows(bytes, rows) ==
    LET lines == Lines(rows) IN
    /\ \A i \in DOMAIN lines : i \in DOMAIN bytes /\ bytes[i] = lines[i]
    /\ \A i \in DOMAIN bytes :
          i > Len(lines) /\ bytes[i] # NL => bytes[i].row >= FirstRow

\* The legacy messages are in the legacy file until they are the first lines of
\* the log.
InvLegacy ==
    /\ ~hasEvents => Representable(RowsIn(legacy)) = transcript
    /\ ~hasEvents /\ writer = "turn" => transcript = <<>>
    /\ hasEvents /\ mishaps \cap {"shadowed", "raced"} = {} => Follows(events, transcript)

Inv == TypeOK /\ InvFiles /\ InvReader /\ InvOrder /\ InvTidy /\ InvLanded /\ InvLegacy
=============================================================================
