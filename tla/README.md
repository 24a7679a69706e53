# conga in TLA+

conga is an agent runtime: a user's message starts a *turn*, in which a loop
calls a language model, runs the tools it asks for and appends every fact to an
append-only log per session.  The same host runs behind a command line, a web
gateway and a desktop application.  This directory holds TLA+ models of its
core, the TLC runs that check them, and TLAPS proofs of the safety properties of
all of them.

    tlc -config Gateway.cfg MCGateway.tla      checks one run
    tlapm AgentTurnProofs.tla                  checks the proofs

`PROJECT.json` maps every definition to the lines it models, and lists the runs,
the hazards of the code with the properties aimed at them, the theorems and the
findings.

## 1. The system

| Component (source under `src/`) | State | Operations | Hard because | Correct when |
|---|---|---|---|---|
| Event log vocabulary, `conga/conga/src/types/session_event.rs` | none: pure functions of the rows | view, counts, billing scope, repair of unanswered calls | several projections of the same rows must agree | counts equal the view; a repaired view is one a provider accepts |
| Compaction, `conga-host/src/compact.rs` | none: pure | count and token triggers, atomic groups | a tool call and its results must not be parted | view in memory = view replayed |
| Agent loop, `conga/src/agent_loop.rs` | working messages, batch in progress | request, retry, pre-pass, concurrent tools, recording | cancel, failed appends, limits at any step | what ran is on record; results in place; prefix never rewritten |
| Host turn, `conga-host/src/lib.rs`, `config.rs` | turn slot, cancel flag, steer queue | `run_turn`, `prepare_turn`, `clear_session` | a transport acts while the turn runs | one turn at a time; no cancel or text is lost |
| Event storage, `conga/src/storage/mod.rs` | `events.jsonl`, `.tmp`, `messages.jsonl` | append, scan, heal, atomic install | crashes inside a write, readers that repair | rows that landed survive |
| Session manager, `conga-host/src/session.rs` | current id, cached counts | open, migrate, mark cleared, list | crash between staging, rename and delete | a transcript is never lost or doubled |
| Persistent shell, `conga-host/src/tools/shell.rs` | registry of `sh` processes, pipes | run, evict | concurrent calls, dropped calls, wedged shells | outputs are not mixed; calls return |
| Permissions and approvals, `permission.rs`, `approval.rs`, `assembly.rs` | pending requests, remembered decisions | ask, answer, cancel, clear | late answers, concurrent requests, cancel races | an answer decides what its user saw |
| Session catalog and search, `session.rs`, `session_index.rs`, `session_api.rs` | `meta.json`, the index and its high-water marks | list, rename, delete, search | requests overlap without a lock, and outlive the session they serve | counts, names and hits are those of the logs |
| Sub-agents, `subagent.rs`, `subagent_types.rs` | a task and a channel per sub-agent | spawn, forward, report, abort | detached forwarders, panics, a dropped call | every sub-agent is started and reported once, the report last |
| MCP client, `mcp/` | cache of server processes, pipes, request ids | acquire, call, time out | processes shared by sessions, late answers, half-written lines | an answer goes to the call that asked |
| Providers and streaming, `providers/sse.rs`, `types/message.rs` | frame buffer, message being assembled | download, assemble, retry | arbitrary chunking, interleaved deltas, breaks, cancel | the reply is the one the model gave, shown once |
| Gateway, `conga-gateway/src/ws.rs`, `api.rs` | map of sessions, one task per connection | claim, serve, close, clean up, REST delete | reconnects overlap the end of a connection | one connection serves a session |
| Web chat, `web/src/composables/useChatSession.ts` | prompts and panels shown, latched turn state | send, stop, answer, reconnect | acts on a server state it cannot see | prompts never outlive their connection; panels of the last reply end with the truth |
| Desktop, `web/src-tauri/src/chat.rs` | a slot per session | the gateway's operations over IPC | a task per command | same as the gateway |

The host owns a session's log: the loop appends through a synchronous callback,
and a turn starts by reading the log back.  Transports reach a running turn in
three ways only: the steer queue, the cancel signal and the approval registry.
REST handlers and the search index read the same files without the host.  Tools
that keep a process (the shell, terminals) are global to the process and keyed
by the session id, so the end of a connection and a REST delete reach them too.

A tool call may itself be a small system: `spawn_subagents` runs loops of its
own, an MCP tool is a call on a process that other sessions share.

Process hooks, terminals, file and web tools, external tools, settings, prompt
assembly, retrieval, the SDK and the user interface are listed in `PROJECT.json`
with the reason they are not modelled (section 6).

## 2. The modules

| Module | Models | Composes |
|---|---|---|
| `Lists` | sequences by their positions, in a form to reason about | – |
| `Transcript` | the rows and every projection of them | extends `Lists` |
| `Compaction` | the two compaction triggers and the atomic groups | extends `Transcript` |
| `ToolLedger` | *abstract*: a call is asked, run and answered at most once, in that order | – |
| `AgentTurn` | `run_turn` and `run_agent_loop` with their transport | extends `Compaction`, implements `ToolLedger` |
| `Jsonl` | a JSONL file as a sequence of pieces; its scan and its repair | extends `Lists` |
| `Journal` | *abstract*: a sequence of rows to which rows are appended in order | – |
| `SessionLog` | the files of one session: migration, appends, readers, crashes | extends `Jsonl`, implements `Journal` |
| `SessionCatalog` | list, rename, delete and search over the sessions on disk | – |
| `PersistentShell` | bash calls, the registry and the `sh` processes | – |
| `Approval` | permission verdicts and the approval registry as a value | – |
| `Gateway` | browser, connections, approvals, cleanup and REST delete | extends `Approval` |
| `Fanout` | *abstract*: every task is started once and reported once, and a call returns with all of them or is dropped | – |
| `Subagents` | one `spawn_subagents` call from its tasks to the browser's panels | implements `Fanout` |
| `Mcp` | sessions, calls and server processes of the stdio MCP client | – |
| `Sse` | server-sent events: bytes, frames and payloads | extends `Lists` |
| `ReplyStream` | one logical call of the model: attempts, download, assembly | extends `Sse` |
| `TranscriptProofs` | lemmas about sequences and the projections of a log | extends `Transcript` |
| `AgentTurnProofs` | the theorems on the turn and on the call of the model in it | extends `AgentTurn`, `ReplyStream` and `TranscriptProofs` |
| `SessionLogProofs` | the theorems on its component | extends it and `TranscriptProofs` |
| `PersistentShellProofs`, `GatewayProofs`, `McpProofs`, `SubagentsProofs`, `SessionCatalogProofs` | the theorems on their component | each extends it and `TLAPS` |
| `MC…` | small instances for TLC | each extends its component |

**AgentTurn.**  `pc` walks through `run_turn`; a step is one access to something
another task can see: an append, a read of the cancel flag, a drain, the start
or end of a tool.  Rows are records; a call id is the pair of the row that
declared it and its place there (so ids are unique, while the code's ids come
from the provider).  `signal`, `steer` and `clearing` are what the transport
writes.  `typed`, `started`, `sent` and `pressed` are history.  A failed append
is a disjunct of every append, and the migration in `open` may fail before the
turn has read anything.  `Desktop` chooses whether `/clear` may overlap a
turn, as it can in `src-tauri/chat.rs` only.

**SessionLog.**  A file is a sequence of `Part`, `Whole`, `Foreign` and newline
pieces: enough to tell a torn row, a complete row without terminator, and two
rows on one line apart, which is all the scanner distinguishes.  `mishaps` is a
history variable that names what went beyond a clean crash; the properties say
what holds in its absence, and so name exactly the mishaps that break it.
`Journal` is what is left of a session when the files are forgotten: its rows are
the complete rows of the log or, before there is one, the messages of the legacy
file (`SessionRows`), and any mishap spoils it.

**PersistentShell.**  A call takes a reference, waits for the lock, writes its
command line, then reads lines up to its own marker.  The write is a step of its
own: a long command line blocks while the shell does not read its input, under
no deadline, and a call dropped in it leaves part of a line.  The output a call
keeps is capped (`CollectCap`), and says so.  The `sh` process is external and
does what a shell may: print, finish with or without a final newline, read the
input meant for the next command, leave a job in the background that prints
behind the marker, hang or die.

**Gateway.**  One session id.  A browser opens connections one after the other,
but what the server does for the old one overlaps the new; a connection whose
assembly failed still holds the session while it says so and closes.  `call` holds, for
every agent of a connection, the tool call that waits for a verdict.  The
steps between registering an approval and subscribing to the cancel channel are
apart, as they are in `assembly.rs`.  What is left out: slash commands and what
a turn writes (`AgentTurn` has both), the reset of the cancel signal some time
into the turn (`AgentTurn` checks that race; here a turn starts with the reset),
and prompts of other chats.

**SessionCatalog.**  Every REST request is a task; a step is one access to a
file or one transaction of the index.  A log is the sequence of its rows and its
size their number.  Files are what a reader can tell: absent, readable, torn.
A rename keeps the descriptor it opened, so a write can land in a file that was
renamed in the meantime.  `life`, `landed` and `mishaps` are history, and as in
`SessionLog` the properties name the overlaps that break them.

**Subagents.**  A sub-agent is its events: one batch of calls or none, then an
end.  Its task, its channel and its forwarder are apart, as in `subagent.rs`; the
browser takes one frame at a time.  The replies in the chat are counted, and a
panel is in one of them (`home`): the code looks for a panel in the current reply
only, so the model does.  The user may stop, send a message (which steers the
turn or starts the next) and retry one in mid-turn; the last two make a new reply
the current one, and a frame for a panel in an earlier reply is dropped.  `sent`
is history: how often a sub-agent was started, how often its verdict was sent,
and whether something followed it.  Text, usage and the main agent's own events
are left out, and the socket stays up (`Gateway` has its loss).

**Mcp.**  A session reads the configuration, looks into the cache, and reuses or
launches a process; the launch and the entry in the cache are apart.  A call
waits in the line of its process's lock, takes a number, writes its request in
two pieces and reads whole lines until one has its number.  The server is
external: it answers in any order or not at all, talks on its own account, hangs
or dies, and glues a cut request to the next one.  The handshake is one step,
since nobody shares a process before it is through.  `garbled`, `cut` and
`displaced` are history.

**Sse and ReplyStream.**  A byte is a line feed, a carriage return, or one half
of the line of a payload, so that a body can be cut inside a line and inside a
separator.  The splitter's loop and the parser's are recursive functions over the
bytes; `ReplyStream` feeds them any number of bytes at a time.  `Replies` is
every reply of `ToolCalls` calls in `Pieces` deltas each, interleaved in any
order and keyed in the three ways providers use.

## 3. The runs

| Run | Question | Bounds, and why they are enough |
|---|---|---|
| `agentturn_faults` | are log, wire and ledger sound, and completed turns honest, when a cancel and a failed append strike anywhere? | two texts, two iterations, batches of two with a limit of one: a batch holds both a call that runs and one the limit drops; the second turn replays the wreck of the first |
| `agentturn_compact` | do the projections agree across `/clear` and both compactions, and is nothing typed lost? | three texts, fallback of three messages, token reports below and above the threshold: both triggers fire and one checkpoint follows another |
| `agentturn_replay` | is the wire prefix stable across crash, cancel and retry, and does every turn end? | three turns, one crash, one cancel, one retry |
| `sessionlog_faults` | which mishaps does it take to lose, double or brick a log, and is the session an append-only journal without them? | four legacy transcripts (none, clean, torn, with a row no event expresses), three new rows, two crashes, a failed call, a foreign row, two reads |
| `shell` | are outputs kept apart, and do calls return? | two calls, one with a command line that can block; three shells, a pipe and a cap of one line, two upsets (a drop, an eviction, a death, a background job): a call can meet a shell that was abandoned, one that died and a fresh one |
| `gateway` | do the claim, the approvals and the delete keep their promises, does a cancel free a parked call and a closed socket the session? | two connections, a parent and a sub-agent that ask at once, two requests, one message under way: an old connection, its successor and a delete overlap |
| `catalog` | do counts, names and the index stay true under overlapping requests? | two sessions, two requests of any kind, two rows (a text or a clear), one delete, one damaged log: every named mishap takes two requests and a delete |
| `subagents` | is every sub-agent told once, last, and shown as it ended? | two sub-agents, one of them with a batch of one call, one frame under way, a panic, stops, the panel's timer, and a tool timeout or a message sent or retried: one sub-agent can still run while the other has panicked or the chat has moved on (`SubagentsInductive` has two messages, or one and the timeout) |
| `mcp` | are answers matched, requests whole, processes shared, and do calls return? | two sessions, two calls, two processes, pipes of one piece, one edit of the configuration: the second call meets the late answer or the half line of the first. With more processes a slower launch can displace an older entry: `MaxProcs = 4`, `MaxEdits = 2` and no calls passes too |
| `stream` | is the reply the model's own, and shown once? | two calls of two deltas in every order and style, line ends of both kinds, with and without `event:` lines, a last blank line or none, a retry, a cancel |
| `subagents_swapped` | *violation*: is a call's output shown with that call? | two calls of one tool in a batch: ends come in declaration order, the browser gives each to the newest running call |
| `stream_trailing` | *violation*: does a trailing frame count? | the splitter flushes it, the download loop is left before it is parsed |

Deadlock is checked in the `AgentTurn`, `PersistentShell`, `Subagents` and
`ReplyStream` runs, where `Finished` or `Rest` is the only place to stop.
`SessionLog` turns it off because a log with damage in its middle refuses every
further turn, `Gateway` because the browser's connections are used up,
`SessionCatalog` because the requests are, and `Mcp` because the processes and
calls are and a server may hang for good.

Configurations beside the runs:

| Configuration | Shows |
|---|---|
| `AgentTurnInductive` | `Inv`, `InvAnswered`, `InvHonest`, `InvBatches`, `InvPlaces`, `InvView`, `InvShaped`, `InvTyped` and `InvPriced`, the invariants of the proofs, on the instance of `agentturn_faults` |
| `AgentTurnDesktopInductive` | those of them that hold on the desktop too (all but `InvPlaces` and `InvView`), with a clear whose marker lands anywhere in two turns |
| `SessionLogInductive`, `PersistentShellInductive`, `GatewayInductive`, `SessionCatalogInductive`, `SubagentsInductive`, `McpInductive` | the type and inductive invariants of the proofs on the instance of the run (the shell's with a pipe of two lines, the sub-agents' with one more message) |
| `AgentTurnLostCancel` (`CancelIsHonored` fails) | the reset in `prepare_turn` erases a cancel that came while the turn was opening |
| `AgentTurnDesktopClear` (`WireWellFormed` fails) | a desktop clear puts its row between a call and its result |
| `SessionLogReaderRace` (`HealRemovesOnlyFragments` fails) | a reader truncates at an offset computed from an older read |
| `PersistentShellUnterminated` (`FinishedIsNoTimeout` fails) | after output without a newline the marker does not start its line, and only the timeout ends the call |
| `GatewayCleanup` (`ShellOutlivesPredecessor` fails) | the entry is removed before the cleanup, and a reconnect in between loses its new shell |

**Fairness.**  `AgentTurn`: weak fairness of the host's own steps, which are
scheduled, whose appends return and whose back-off elapses.  Nothing is assumed
of the user, and nothing of what a turn waits for: `build_client` sets no
timeout and `tool_timeout` is `None` by default, so a reply may never come and a
tool never end.  `TurnEnds` therefore says that a turn ends unless it hangs for
ever in one such wait (`Waiting`).  `PersistentShell`: the runtime polls a call
that can go on, timers included, and the lock is a FIFO `tokio` mutex (hence
strong fairness of `Lock`).  Nothing is assumed of the shell: a command that
hangs is caught by the timeout; one that prints for ever is not
(`PrintsForEver`), because the timer restarts with each line, and neither is a
write that blocks for ever (`CloggedForEver`), because no timer runs yet.
`Gateway`: the runtime polls a connection's task
and a waiting call; no answer and no approval timeout is counted on.  A socket
whose loss the server never notices is outside the model: the server sends no
pings, so for such a socket `ClosedFreesSession` would not hold.  `Subagents`:
the browser runs its handlers and timers; nothing is assumed of the server, so a
sub-agent's loop or its tool may hang.  `Mcp`: a call that can go on
is polled, its deadline included, and a server reads its input until it dies or
stops for good; it need never answer.  The write has no deadline, which is why
`CallsReturn` excepts a server that stopped reading with its pipe full.
`ReplyStream`: the client's own steps; the server may stall anywhere, and a
cancel must end the call all the same.

## 4. What is proved

A run checks one instance; the theorems hold for every value of the constants:
any number of turns, calls, rows, sessions, crashes and so on.  The assumptions
are the named ones in the modules that declare the constants, and `~Desktop` for
five theorems on the agent turn (below).  Each proof goes the same way: the property alone is not
inductive, an invariant says what else has to be true, `Init` establishes it,
each action preserves it (a lemma or a step per action), and temporal logic does
the rest.  The invariants stand at the end of the modules they speak about, that
of `ReplyStream` in `AgentTurnProofs`, since it speaks in the terms of its lemmas.

| Module | Theorem | Says |
|---|---|---|
| `AgentTurnProofs` | `Invariance`, `TypeCorrect` | `Inv`, `TypeOK` |
| | `ResultsStayInPlace` | `ResultsInPlace`: a result is the row its call says, right behind the message that declared it |
| | `ImplementsLedger` | `LedgerSpec`: the turns implement `ToolLedger` |
| | `StartedIsAnswered` | `DispatchedAnswered` |
| | `CompletedTurnsAreHonest` | `CompletedIsHonest` |
| | `ViewInvariance` | `InvView`: what the turn works with is the repaired view of the log |
| | `RequestsAreWellFormed`, `RequestsArePersisted` | `WireWellFormed`, `SendWhatYouPersist` |
| | `RequestsExtend` | `PrefixStable` |
| | `CountsAreLengths` | `CountMatchesView` |
| | `TypedIsKept` | `NothingTypedIsLost` |
| | `BillingOnlyGrows` | `BillingMonotone` |
| | `StreamReplyAsSent` | `ReplyAsSent`: a reply that came through is the one the model gave |
| | `StreamShownOnce` | `ShownOnce` |
| `SessionLogProofs` | `Invariance`, `TypeCorrect` | `Inv`, `TypeOK` |
| | `LandedRowsKept` | `CrashesLoseNothing` |
| | `LogStaysLoadable` | `BrickedOnlyByGlue` |
| | `RowsComeOnce` | `NoRowTwice` |
| | `TranscriptKept` | `MigrationLosesNothing` |
| | `RepairsCutOnlyFragments` | `CarefulHealKeepsRows`: no repair removes a complete row |
| | `SessionIsJournal` | `JournalSpec`: the files implement `Journal` |
| `SessionCatalogProofs` | `Invariance` | `Inv` |
| | `ListCountsTruly`, `NamesSurvive` | `CountWasTrue`, `NameLostOnlyToOverlap` |
| | `RowsIndexedOnce`, `SearchIsComplete` | `IndexedOnce`, `SearchFindsWhatWasThere` |
| `PersistentShellProofs` | `Invariance` | `Inv` |
| | `OutputsKeptApart`, `FreshAfterTimeout`, `ExitsAreComplete` | `OutputIsOwn`, `RegisteredIsFresh`, `ExitHasItsOutput` |
| `GatewayProofs` | `ClaimInvariance`, `AskInvariance` | `ClaimInv`, `AskInv` |
| | `OnlyOneServes`, `DeleteSparesTheConnected` | `OneConnection`, `DeleteHitsOnlyNewcomers` |
| | `AnswersDecideWhatWasShown` | `DecidesWhatWasShown` |
| `SubagentsProofs` | `Invariance` | `TypeOK /\ Inv` |
| | `VerdictsAreLast`, `InputFreed`, `PanelsEndRight` | `VerdictIsLast`, `InputIsFree`, `PanelsTellTheVerdict` |
| | `CallIsFanout` | `FanoutSpec`: a call implements `Fanout` |
| `McpProofs` | `Invariance` | `Inv` |
| | `AnswersMatched`, `RequestsKeptWhole`, `ServersShared` | `OwnAnswer`, `RequestsArriveWhole`, `OneServer` |

**AgentTurn.**  On the desktop a `/clear` may put its row anywhere in a turn.
`ResultsInPlace`, `WireWellFormed`, `SendWhatYouPersist` and `PrefixStable` are
false there (`AgentTurnDesktopClear` shows the second), so their theorems, and
`ViewInvariance` behind three of them, assume `~Desktop`.  All others hold for
every host: the ledger, the answers to started calls, the honest end of a turn,
the texts, the billing and the count survive a clear in the middle of a batch.

`CompletedIsHonest` says that a turn the log calls completed did not end in an
aborted or errored message, and that every call its messages asked to run, or
had cut off, has its result in the log: no abort and no failed append left a
batch half recorded behind it.  A turn that ran out of turns is recorded as
completed too; it is one whose calls were answered.

`Inv` says where the counters of the loop stand at each step (`InvControl`) and
that ids are used once (`InvCalls`): the calls of the message being handled are
new until it is in the log, then each is on record, not started at the gate and
not answered before its turn.  An id is made from the length of the log when the
stream ends; the row of a clear that lands before the message does makes the id
one less than the message's row, and still unlike every other.  For the
refinement each step is shown to be a step of the ledger or a stutter: replies
ask, a dispatch runs, a recorded result answers, and everything else leaves the
three sets alone.  `InvAnswered` splits the started calls of an undisturbed turn
into those answered and those of the batch still to be recorded; it is the abort
in the middle of a batch that this is about. `InvHonest` says that the last
message of the frame is the one being handled and that only the signal makes it
an aborted one; `InvBatches` that a turn which neither failed nor was cancelled
has answered the calls of all its messages but those being handled.

`ResultsInPlace` is not inductive: that the next result lands in its place needs
to know that the message being answered is exactly `recorded` rows back and that
the ids in it name that row.  `InvPlaces` adds this (`InvTail`, `InvLog`), and
that no turn runs between the two steps of a clear (`InvSlot`), which is what
`~Desktop` gives.

What the requests look like rests on `InvView`.  The view of the log splits into
`Settled`, the message being handled and the results recorded for it
(`InvLogView`); the repaired view of the log is what the turn works with
(`InvContext`), except behind an abort, where the working messages lack results
that the next turn's repair will put in.  The proof needs to know what one more
row does to `DeriveMessages` and to `RepairUnanswered`, and what a compaction
does to a view: those are the lemmas of `TranscriptProofs` and the first part of
`AgentTurnProofs`.  They say that repairing a sound view and appending to it
commute as long as calls are answered in order, that a cut at a group's boundary
leaves a sound view, and that the row-level count goes up exactly when the view
does.  The count needs less than `InvView`: that the messages a checkpoint
carries are a sequence, which `InvShaped` says of every log a host writes, a
cleared one included.  The lemmas are proved for every log by induction over its
length, as a set of naturals that holds 0 and is closed under successor, which
needs no operator as a parameter.  `BillingMonotone` is an action property: the
scope of the billing starts at a `/clear` only, and rows in scope are added,
never dropped.

**SessionLog.**  A crash may cut any write, and the repair happens at the next
open, so the file is ill-formed in between.  `InvTidy` says how ill: as long as
nothing was glued, a record stands on a line of its own and a fragment is the
last thing in the file.  From this, the scanner's bad line is the fragment, its
repair removes nothing else, and what follows a repair or an append is tidy
again.  `InvLanded` adds that the records are the rows that landed.
`InvReader` carries a repair over the time between its scan and its cut: what
the reader saw up to that offset is still what the file begins with, and the cut
is at the end of a line, so a repair at an old offset may take rows away (that
is the `raced` mishap) but never leaves an unreadable line behind, and never
extends the file.  `InvLegacy` says where the legacy messages are: in the legacy
file until the log exists, and from then on the first lines of the log
(`Follows`).  `InvOrder` numbers the rows; the order of an open follows whatever
else went wrong.  `LegacyAssumption` says that a legacy file is made of pieces
and that its rows are numbered in the order they stand in, below those the host
will write; a number is only the row's place, so every file there can be has
such a numbering.

`SessionIsJournal` is a refinement: each step is a write of the journal, spoils
it, or leaves its rows alone.  The rows of the log are what `ElementsAt` picks of
its pieces, so the lemmas say what an append, a cut and a line do to them
(`WholesAdded`, `WholesCut`, `WholesOfLines`).  Without a mishap a repair cuts the
fragment only, hence no row; the installation moves the rows from one file to the
other, which `InvLegacy` says are the same before and after; and the row that is
written comes behind the others by `InvOrder`.  `RepairsCutOnlyFragments` is the
older, narrower statement; it also holds behind a `shadowed` transcript, of which
the journal says nothing.

**SessionCatalog.**  The properties name the overlaps that break them, so the
invariant says what holds while those have not happened: a cached count was true
of a log of the length that goes with it (`CountInv`); one rename has the
temporary file to itself and a list about to install holds the name on disk
(`NameInv`); the mark is above every row of the index (`IndexInv`).  `SearchInv`
is about one search from its start: every row it owes is in the index, or its
session still on the list.

**PersistentShell.**  `OutputIsOwn` speaks of a call while it reads; what makes
it true is the state in which the *previous* call left the shell.  `Inv` says
it: a shell nobody abandoned and nobody has locked is `Clean`, which is to say
that at most lines of background jobs are in its pipe; once a call has written
its command it `Serves` that call alone, and behind the marker, if it is there,
only jobs print, so the call that reads it leaves the shell clean again.  A
timeout or a dropped call, one in the middle of its write included, breaks this,
and those are the shells in `abandoned`.  The freshness follows because a shell's number is spawned once and
a timeout unregisters whatever is registered.  `ExitHasItsOutput` holds on
abandoned shells too and so cannot rest on `Serves`: `InvOnce` says that a
command is written once, to the shell its call reads, and that its marker comes when
it is over; `InvTold` that what it printed is in its reader's hands or ahead of
the marker, unless the cap cut it, which the result says.

**Gateway.**  `ClaimInv` is `OneConnection` with the types it needs and
`NewcomersKnown`: while a delete stands between its check and its removal,
whoever serves the session came in after the check.  Every step but the claim
and the end of a connection lets nobody start to serve and leaves the map alone.
`AskInv` follows one request id through every place it can be (the call that
waits, the frame, the prompt in the browser, the answer on its way) and says
that the registry, if it still knows the id, knows it for that tool, and will
not give it out again.

**Subagents.**  `InvWire` says that the verdict of a joined task is on the wire,
or its panel shows it, if that is in the last reply, and nothing on the wire will
start the panel again; `InvRuns` that a task was started once when it is born and
reported once when it is joined, and that one joined in the regular way has no
forwarder left; `InvEnd` that behind the end of a turn nothing comes that would
lock the input; `InvMail` that a message being sent will be answered.  Panics and
dropped calls are the exceptions (`Orphans`).  `Fanout` counts starts and reports,
so a second one is no step of it; each step of a call is a start, a report, a
return, a drop or a stutter.

**Mcp.**  `InvIds` collects every place a number can be (calls, requests in the
pipe, requests the server holds, answers on their way) and says that it is below
the next number and belongs to one call.  `InvLock` says that the line for a
process's lock holds its calls once each, and that only its head is past
waiting.  `InvLines` says that what a server is in the middle of, followed by its
pipe, is whole lines, and that the last one lacks its second piece exactly when
a call is about to write it; so a glued line needs a call dropped there.
`InvSessions` says that a process was started for one configuration, and that
the entry of a configuration names the process of its sessions until a slower
launch displaces it.

**ReplyStream.**  The assumptions are those of `StreamAssumption`: at least one
call of at least one delta, the two line ends, at most two of them omitted.  What
has to be shown is that the pieces a body comes in do not matter.  A body is a
sequence of blocks of equal length, one per payload; a buffer holds a slice of it
that begins at a block.  In such a slice the first separator is the one that ends
the block (`FrameTaken`), the parser finds in the frame before it the payload of
that block and nothing else, and so `Push` yields the payloads of all blocks that
are complete, and keeps the rest, wherever the slice was cut.  Both loops are
functions over the bytes, so these are inductions over naturals.  `StreamInv`
then follows one attempt: so many bytes have come, the blocks among them are
parsed, and the deltas taken so far are a prefix of the script.  What has been
assembled from the first n deltas (`Assembled`) is, for each call that has begun,
its pieces among them in order: a delta finds its call by index, by id, or as the
last, whichever its style gives, since calls are numbered as they begin.  That
the host is shown one attempt rests on the retry: it happens only while nothing
of the attempt has been shown.  The theorems stand in `AgentTurnProofs` because
the call of the model is a part of the loop; they share its lemmas about
sequences.

**Only model-checked.**  Liveness under fairness (`TurnEnds`, `QuietCallsReturn`,
`CancelUnparks`, `ClosedFreesSession`, `NoPanelSpins`, `CallsReturn`,
`CancelEndsCall`): neither it nor `ENABLED` is in the prover's reach.
The properties that the two violation runs and the configurations
beside the runs refute are, of course, not provable.

## 5. Findings

Where the code does other than a comment of it says, and a run shows it, the
finding is in `PROJECT.json`: the swapped outputs of a sub-agent's calls and the
lost trailing frame.  Five more are shown by the configurations beside the runs
(section 3).  Others were met while modelling; the properties name them as
exceptions where they touch one:

- *Sessions.*  A rename inside a list's read-merge-install is undone, though
  `write_msg_count_cache` means to preserve every other field; two renames share
  one temporary file.  The high-water mark of a deleted session hides the rows
  of a successor with its id.  A clear that fails on a legacy session has
  created an empty log that hides the transcript.  An append never looks at the
  last byte of the log, so after a write cut just before its newline two rows
  share a line.
- *Turns.*  No timeout bounds a reply of the provider, nor by default a tool.  A
  turn that ran out of turns is recorded as completed.  A message acknowledged as queued after the last drain waits for a
  later turn; one drained behind a failed append is gone.  The approval mode is
  read before the approver is awaited.  The sleep before a retry does not listen
  for a cancel, nor does the reading of a refusal's body.  A body that closes
  early, where HTTP cannot tell, counts as complete.
- *Sub-agents.*  "All subagent events were queued before spawn returned"
  (`ws.rs`) does not hold of a sub-agent that panicked or of a dropped call: its
  forwarder may send behind `done` and lock the browser's input.  The browser
  looks for a panel in the current reply only: after a message sent behind a stop,
  or one retried in mid-turn, late frames of the sub-agents are dropped, and a
  panel in the earlier reply spins on, or keeps the status stop or the timer gave
  it.  `PanelsTellTheVerdict` and `NoPanelSpins` speak of the last reply.
- *Shell.*  A background job prints behind the marker of its command, into the
  output of later calls (`OutputIsOwn` excepts its lines).  The write of a command
  line has no deadline.
- *MCP.*  A server that died is reused while a session holds it, though
  `reuse_stdio_server` speaks of one that "is still alive".  The handshake uses
  the ids 1 and 2 and the calls start again at 1.  The write of a request has no
  deadline.  A slow launch displaces the entry of a server in use.  HTTP calls
  hold their mutex for the id only, and are not serialized as `mod.rs` says.

## 6. Not modelled

- *MCP over HTTP*: one request per call, with no state but a counter and a
  session id; the interesting claim, serialization, is not what the code does.
- *Building requests from messages* in the providers: a pure translation.
- *Desktop sessions*, *process hooks*, *terminals*: stateful, planned below.
- *File, search and web tools, external tools, JavaScript extensions, todo*:
  calls on the file system, a process or an engine; for the system they are the
  tool calls of `AgentTurn`.
- *Settings, prompt and skills, command line*: pure functions of files and
  environment, and a sequential driver of the same turns.
- *Retrieval, SDK, user interface components*: beside the runtime, or rendering.

## 7. Plan

Done, most important behaviour first: `Transcript`, `Compaction`, `AgentTurn`
with `ToolLedger` and its proofs, `SessionLog`, `PersistentShell`, `Approval` and
`Gateway`, and then `SessionCatalog`, `Subagents` with `Fanout`, `Mcp` with its
proofs, `Sse` and `ReplyStream` with theirs, and `Journal`.

The safety properties and the refinements of all runs are theorems, those of
`AgentTurn` for every host they hold on.

Next modules: `Desktop` (sessions, approvals and eviction; shares `Approval`),
`ProcessHooks` and `Terminal`.
