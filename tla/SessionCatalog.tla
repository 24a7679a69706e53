--------------------------- MODULE SessionCatalog ---------------------------
(***************************************************************************)
(* What the sidebar and the search box do with the sessions on disk while  *)
(* their turns append to them (session.rs, session_api.rs,                 *)
(* session_index.rs, storage/mod.rs): list with its cached message counts, *)
(* rename, delete, and search with its incremental index.  Every request   *)
(* is a task of its own and takes no lock: a step is one access to a file  *)
(* or one transaction of the index.                                        *)
(*                                                                         *)
(* A log is the sequence of its rows and its size their number; rows only  *)
(* get appended, so one size means one content within one life of the      *)
(* session.  Damage stands for a row in the middle that does not parse.    *)
(***************************************************************************)
EXTENDS Naturals, Sequences, FiniteSets, FiniteSetsExt, Functions, Bags

CONSTANTS
    NumSessions, \* the sessions, in the order of their ids
    Workers,     \* tasks that serve requests
    Names,       \* display names
    Rows,        \* kinds of rows
    MaxRows,     \* rows of the logs, all together
    MaxOps,      \* requests, all together
    MaxDeletes,  \* sessions that are deleted
    NoName

ASSUME SessionCatalogAssumption ==
    /\ NumSessions \in Nat \ {0} /\ MaxRows \in Nat /\ MaxOps \in Nat
    /\ MaxDeletes \in Nat /\ NoName \notin Names
    /\ Rows \subseteq {"text", "marker", "cleared"}

Ids == 1..NumSessions

VARIABLES
    dir,     \* the session directories that exist
    log,     \* events.jsonl of each session; no rows when there is no file
    damaged, \* the sessions whose log does not parse
    meta,    \* meta.json of each session
    tmp,     \* meta.json.tmp, the one name every rename writes through
    index,   \* the events table: a bag of rows
    mark,    \* the meta table: the highest sequence number indexed
    job,     \* the request each worker serves
    ops,     \* requests so far
    life,    \* history: how often each session was deleted
    landed,  \* history: the name the last rename to land gave
    mishaps  \* history: what overlapped, per session

disk == <<dir, log, damaged, life>>
side == <<meta, tmp, landed>>
db   == <<index, mark>>
vars == <<disk, side, db, job, ops, mishaps>>

\* A file that may hold the metadata: absent, readable or torn.
NoFile == [is |-> "absent", name |-> NoName, bytes |-> 0, count |-> 0]
Torn   == [is |-> "torn", name |-> NoName, bytes |-> 0, count |-> 0]
Meta(name, bytes, count) ==
    [is |-> "json", name |-> name, bytes |-> bytes, count |-> count]

Idle == [op |-> "none"]

SumOver(f) == FoldFunction(+, 0, f)

Init ==
    /\ dir = {} /\ log = [i \in Ids |-> <<>>] /\ damaged = {}
    /\ meta = [i \in Ids |-> NoFile] /\ tmp = [i \in Ids |-> NoFile]
    /\ index = EmptyBag /\ mark = [i \in Ids |-> 0]
    /\ job = [w \in Workers |-> Idle] /\ ops = 0
    /\ life = [i \in Ids |-> 0] /\ landed = [i \in Ids |-> NoName]
    /\ mishaps = [i \in Ids |-> {}]

At(w, op, step) == job[w].op = op /\ job[w].at = step
Others(w, op, i) == {v \in Workers \ {w} : job[v].op = op /\ job[v].id = i}

Begin(w, request) ==
    /\ job[w] = Idle /\ ops < MaxOps
    /\ ops' = ops + 1
    /\ job' = [job EXCEPT ![w] = request]

Finish(w) == job' = [job EXCEPT ![w] = Idle]

-----------------------------------------------------------------------------
(* The host writes *)

AppendRow(i, row) ==
    /\ SumOver([s \in Ids |-> Len(log[s])]) < MaxRows /\ i \notin damaged
    /\ log' = [log EXCEPT ![i] = Append(@, row)]
    /\ dir' = dir \cup {i}
    /\ UNCHANGED <<damaged, life, side, db, job, ops, mishaps>>

Damage(i) ==
    /\ log[i] # <<>> /\ damaged = {}
    /\ damaged' = {i}
    /\ UNCHANGED <<dir, log, life, side, db, job, ops, mishaps>>

-----------------------------------------------------------------------------
(* list, one visit of one session *)

\* count_messages: markers are no messages, a clear starts over.
CountMessages(rows) ==
    LET cleared == {k \in DOMAIN rows : rows[k] = "cleared"} IN
    Cardinality({k \in DOMAIN rows : rows[k] = "text" /\ \A c \in cleared : c < k})

StatLog(w, i) ==
    /\ i \in dir
    /\ Begin(w, [op |-> "list", id |-> i, life |-> life[i], from |-> Len(log[i]),
                 len |-> Len(log[i]), count |-> 0, copy |-> NoFile,
                 at |-> IF log[i] = <<>> THEN "name" ELSE "cache"])
    /\ UNCHANGED <<disk, side, db, mishaps>>

\* Mutant of ReadCache: whatever is cached is taken for fresh.
ReadAnyCache(w) ==
    /\ At(w, "list", "cache")
    /\ LET m == meta[job[w].id] IN
       IF m.is = "json" /\ m.bytes > 0
       THEN job' = [job EXCEPT ![w].at = "name", ![w].count = m.count]
       ELSE job' = [job EXCEPT ![w].at = "count"]
    /\ UNCHANGED <<disk, side, db, ops, mishaps>>

\* read_msg_count_cache: no cache in a file that does not parse or has none.
ReadCache(w) ==
    /\ At(w, "list", "cache")
    /\ LET m == meta[job[w].id] IN
       IF m.is = "json" /\ m.bytes > 0 /\ m.bytes = job[w].len
       THEN job' = [job EXCEPT ![w].at = "name", ![w].count = m.count]
       ELSE job' = [job EXCEPT ![w].at = "count"]
    /\ UNCHANGED <<disk, side, db, ops, mishaps>>

CountLog(w) ==
    /\ At(w, "list", "count")
    /\ job' = [job EXCEPT ![w].at = "merge",
                          ![w].count = CountMessages(log[job[w].id])]
    /\ UNCHANGED <<disk, side, db, ops, mishaps>>

\* Mutant of MergeMeta: the sidecar is written anew.
FreshMeta(w) ==
    /\ At(w, "list", "merge")
    /\ job' = [job EXCEPT ![w].at = "install",
                          ![w].copy = Meta(NoName, job[w].len, job[w].count)]
    /\ UNCHANGED <<disk, side, db, ops, mishaps>>

\* write_msg_count_cache reads the sidecar; what does not parse counts as {}.
MergeMeta(w) ==
    /\ At(w, "list", "merge")
    /\ LET m == meta[job[w].id] IN
       job' = [job EXCEPT ![w].at = "install",
                          ![w].copy = Meta(IF m.is = "json" THEN m.name ELSE NoName,
                                           job[w].len, job[w].count)]
    /\ UNCHANGED <<disk, side, db, ops, mishaps>>

\* An open file keeps being written to under whatever name it has.
Replaced(i, name, v) ==
    IF job[v].op = "rename" /\ job[v].id = i /\ job[v].fd = name
    THEN [job[v] EXCEPT !.fd = "gone"] ELSE job[v]

\* It writes a file of its own and renames it over the sidecar; a failure is
\* ignored.  With the directory gone there is nothing to write to.
InstallMeta(w) ==
    LET i == job[w].id IN
    /\ At(w, "list", "install")
    /\ i \in dir
    /\ meta' = [meta EXCEPT ![i] = job[w].copy]
    /\ job' = [v \in Workers |->
                 IF v = w THEN [job[w] EXCEPT !.at = "name"]
                 ELSE Replaced(i, "meta", v)]
    /\ mishaps' = IF job[w].life = life[i] THEN mishaps
                  ELSE [mishaps EXCEPT ![i] = @ \cup {"deleteInList"}]
    /\ UNCHANGED <<disk, tmp, landed, db, ops>>

InstallFails(w) ==
    /\ At(w, "list", "install")
    /\ job' = [job EXCEPT ![w].at = "name"]
    /\ UNCHANGED <<disk, side, db, ops, mishaps>>

\* load_meta, and the entry is complete.
ReadName(w) ==
    /\ At(w, "list", "name")
    /\ Finish(w)
    /\ UNCHANGED <<disk, side, db, ops, mishaps>>

-----------------------------------------------------------------------------
(* rename *)

\* write_meta creates the directory and truncates the shared temporary file.
OpenTmp(w, i, name) ==
    /\ Begin(w, [op |-> "rename", id |-> i, at |-> "fill", name |-> name,
                 fd |-> "tmp"])
    /\ dir' = dir \cup {i}
    /\ tmp' = [tmp EXCEPT ![i] = Torn]
    /\ mishaps' = IF Others(w, "rename", i) = {} THEN mishaps
                  ELSE [mishaps EXCEPT ![i] = @ \cup {"renamesOverlap"}]
    /\ UNCHANGED <<log, damaged, life, meta, landed, db>>

\* A second write from the start of a file leaves the tail of a longer one.
Written(file, name) ==
    IF file.is = "json" /\ file.name # name
    THEN {Meta(name, 0, 0), Torn} ELSE {Meta(name, 0, 0)}

FillTmp(w) ==
    LET i == job[w].id IN
    /\ At(w, "rename", "fill")
    /\ job' = [job EXCEPT ![w].at = "move"]
    /\ \/ /\ job[w].fd = "tmp"
          /\ \E f \in Written(tmp[i], job[w].name) : tmp' = [tmp EXCEPT ![i] = f]
          /\ UNCHANGED meta
       \/ /\ job[w].fd = "meta"
          /\ \E f \in Written(meta[i], job[w].name) : meta' = [meta EXCEPT ![i] = f]
          /\ UNCHANGED tmp
       \/ job[w].fd = "gone" /\ UNCHANGED <<meta, tmp>>
    /\ UNCHANGED <<disk, landed, db, ops, mishaps>>

\* The rename replaces the whole sidecar; it fails when another took the file.
MoveTmp(w) ==
    LET i == job[w].id IN
    /\ At(w, "rename", "move")
    /\ tmp[i].is # "absent"
    /\ meta' = [meta EXCEPT ![i] = tmp[i]]
    /\ tmp' = [tmp EXCEPT ![i] = NoFile]
    /\ landed' = [landed EXCEPT ![i] = job[w].name]
    /\ job' = [v \in Workers |->
                 IF v = w THEN Idle
                 ELSE IF job[v].op = "rename" /\ job[v].id = i /\ job[v].fd = "tmp"
                      THEN [job[v] EXCEPT !.fd = "meta"]
                      ELSE Replaced(i, "meta", v)]
    /\ mishaps' = IF \E v \in Others(w, "list", i) : job[v].at = "install"
                  THEN [mishaps EXCEPT ![i] = @ \cup {"renameInList"}]
                  ELSE mishaps
    /\ UNCHANGED <<disk, db, ops>>

MoveFails(w) ==
    /\ At(w, "rename", "move")
    /\ tmp[job[w].id].is = "absent"
    /\ Finish(w)
    /\ UNCHANGED <<disk, side, db, ops, mishaps>>

-----------------------------------------------------------------------------
(* delete *)

\* remove_session: the directory and all in it; the index keeps its rows.
DeleteSession(i) ==
    /\ i \in dir /\ SumOver(life) < MaxDeletes
    /\ dir' = dir \ {i} /\ damaged' = damaged \ {i}
    /\ log' = [log EXCEPT ![i] = <<>>]
    /\ meta' = [meta EXCEPT ![i] = NoFile]
    /\ tmp' = [tmp EXCEPT ![i] = NoFile]
    /\ job' = [v \in Workers |->
                 IF job[v].op = "rename" /\ job[v].id = i
                 THEN [job[v] EXCEPT !.fd = "gone"] ELSE job[v]]
    /\ life' = [life EXCEPT ![i] = @ + 1]
    /\ landed' = [landed EXCEPT ![i] = NoName]
    /\ UNCHANGED <<db, ops, mishaps>>

-----------------------------------------------------------------------------
(* search: reindex, then the query *)

\* event_rows: only text is searched.  A session that was deleted and made anew
\* has other rows.
TextRows(i, born, rows) ==
    {[id |-> i, life |-> born, seq |-> k] : k \in {n \in DOMAIN rows : rows[n] = "text"}}

\* The sessions left to do are taken in the order of their ids.  `want` is
\* history: what a reader of the logs would find now.
StartSearch(w) ==
    /\ Begin(w, [op |-> "search", at |-> "open", todo |-> dir, id |-> 0,
                 rows |-> {}, last |-> 0,
                 want |-> UNION {TextRows(i, life[i], log[i]) : i \in dir}])
    /\ UNCHANGED <<disk, side, db, mishaps>>

\* Mutant of OpenLog: a log that does not parse is skipped.
OpenOrSkip(w) ==
    /\ At(w, "search", "open") /\ job[w].todo # {}
    /\ LET i == Min(job[w].todo) IN
       job' = IF i \in damaged THEN [job EXCEPT ![w].todo = @ \ {i}]
              ELSE [job EXCEPT ![w].at = "mark", ![w].id = i,
                               ![w].rows = TextRows(i, life[i], log[i])]
    /\ UNCHANGED <<disk, side, db, ops, mishaps>>

\* manager.open: one log that does not parse ends the whole search.
OpenLog(w) ==
    /\ At(w, "search", "open") /\ job[w].todo # {}
    /\ LET i == Min(job[w].todo) IN
       IF i \in damaged THEN Finish(w)
       ELSE job' = [job EXCEPT ![w].at = "mark", ![w].id = i,
                               ![w].rows = TextRows(i, life[i], log[i])]
    /\ UNCHANGED <<disk, side, db, ops, mishaps>>

\* The mark is read outside the transaction that uses it.
ReadMark(w) ==
    /\ At(w, "search", "mark")
    /\ job' = [job EXCEPT ![w].at = "commit", ![w].last = mark[job[w].id]]
    /\ UNCHANGED <<disk, side, db, ops, mishaps>>

NewMark(new) == Max({r.seq : r \in new})

NextLog(w) == job' = [job EXCEPT ![w].at = "open", ![w].todo = @ \ {job[w].id},
                                 ![w].rows = {}, ![w].last = 0]

\* Mutant of Commit: the rows without the mark.
CommitRowsOnly(w) ==
    /\ At(w, "search", "commit")
    /\ index' = index (+) SetToBag({r \in job[w].rows : r.seq > job[w].last})
    /\ NextLog(w)
    /\ UNCHANGED <<disk, side, ops, mark, mishaps>>

\* Rows and mark in one transaction.
Commit(w) ==
    LET i == job[w].id
        new == {r \in job[w].rows : r.seq > job[w].last} IN
    /\ At(w, "search", "commit")
    /\ index' = index (+) SetToBag(new)
    /\ mark' = IF new = {} THEN mark ELSE [mark EXCEPT ![i] = NewMark(new)]
    /\ NextLog(w)
    /\ mishaps' = IF \E v \in Others(w, "search", i) : job[v].at = "commit"
                  THEN [mishaps EXCEPT ![i] = @ \cup {"searchesOverlap"}]
                  ELSE mishaps
    /\ UNCHANGED <<disk, side, ops>>

\* The index is busy for longer than the timeout, or its disk fails.
CommitFails(w) ==
    /\ At(w, "search", "commit")
    /\ Finish(w)
    /\ UNCHANGED <<disk, side, db, ops, mishaps>>

\* The query reads the index as it is now.
Query(w) ==
    /\ At(w, "search", "open") /\ job[w].todo = {}
    /\ Finish(w)
    /\ UNCHANGED <<disk, side, db, ops, mishaps>>

-----------------------------------------------------------------------------

\* The client goes away: axum drops the handler between two steps.  A write of
\* the temporary file is one blocking call and runs to its end all the same.
Abandon(w) ==
    /\ job[w] # Idle /\ ~At(w, "rename", "fill")
    /\ Finish(w)
    /\ UNCHANGED <<disk, side, db, ops, mishaps>>

Next ==
    \/ \E i \in Ids :
          \/ \E row \in Rows : AppendRow(i, row)
          \/ Damage(i) \/ DeleteSession(i)
    \/ \E w \in Workers :
          \/ \E i \in Ids :
                StatLog(w, i) \/ \E name \in Names : OpenTmp(w, i, name)
          \/ ReadCache(w) \/ CountLog(w) \/ MergeMeta(w)
          \/ InstallMeta(w) \/ InstallFails(w) \/ ReadName(w)
          \/ FillTmp(w) \/ MoveTmp(w) \/ MoveFails(w)
          \/ StartSearch(w) \/ OpenLog(w) \/ ReadMark(w)
          \/ Commit(w) \/ CommitFails(w) \/ Query(w)
          \/ Abandon(w)

Spec == Init /\ [][Next]_vars

-----------------------------------------------------------------------------
(* Properties *)

\* A log had this many messages when it was at least `from` long.
WasTrue(rows, from, count) ==
    \E n \in from..Len(rows) : count = CountMessages(SubSeq(rows, 1, n))

\* The count a list returns was the log's own at some moment of the visit
\* (session.rs, cached_or_count_messages): a cache that is taken for fresh tells
\* the truth.  Only a delete in the middle of an earlier visit, whose late
\* install gives the new log the old one's numbers, breaks this.
CountWasTrue ==
    \A w \in Workers :
        LET j == job[w] IN
        At(w, "list", "name") /\ j.life = life[j.id]
            /\ "deleteInList" \notin mishaps[j.id] =>
        WasTrue(log[j.id], j.from, j.count)

\* The name on disk is the one the last rename gave (session.rs,
\* write_msg_count_cache; storage/mod.rs, write_meta).  It takes one of three
\* overlaps to lose it: a rename inside a list's read-merge-install, two renames
\* through the one temporary file, or a delete inside a list.
NameLostOnlyToOverlap ==
    \A i \in Ids :
        mishaps[i] \cap {"renameInList", "renamesOverlap", "deleteInList"} = {} =>
        meta[i].name = landed[i] /\ meta[i].is # "torn"

\* The index holds a row once (session_index.rs, reindex): whatever fails or is
\* dropped on the way, only two searches that overlap on a session double rows.
IndexedOnce ==
    \A r \in BagToSet(index) :
        "searchesOverlap" \notin mishaps[r.id] => index[r] = 1

\* A search that gets to its query finds every row that was on disk when it
\* began (session_index.rs, reindex), in all sessions.  A session deleted before
\* is the exception: its mark stays behind and hides the rows of its successor.
SearchFindsWhatWasThere ==
    \A w \in Workers :
        At(w, "search", "open") /\ job[w].todo = {} =>
        \A r \in job[w].want : life[r.id] = 0 => BagIn(r, index)

-----------------------------------------------------------------------------
(* The inductive invariant behind the theorems on these four *)

Files == [is : {"absent", "json", "torn"}, name : Names \cup {NoName},
          bytes : Nat, count : Nat]
IndexRows == [id : Ids, life : Nat, seq : Nat]
Lists == [op : {"list"}, id : Ids, life : Nat, from : Nat, len : Nat, count : Nat,
          copy : Files, at : {"cache", "count", "merge", "install", "name"}]
Renames == [op : {"rename"}, id : Ids, at : {"fill", "move"}, name : Names,
            fd : {"tmp", "meta", "gone"}]
Searches == [op : {"search"}, at : {"open", "mark", "commit"}, todo : SUBSET Ids,
             id : Ids \cup {0}, rows : SUBSET IndexRows, last : Nat,
             want : SUBSET IndexRows]
Jobs == {Idle} \cup Lists \cup Renames \cup Searches
Mishaps == {"deleteInList", "renamesOverlap", "renameInList", "searchesOverlap"}

JobFits(w) ==
    /\ At(w, "list", "install") => job[w].copy.is = "json"
    /\ job[w].op = "search" /\ job[w].at # "open" => job[w].id \in Ids

\* What the parts of the disk are, whoever writes them next.
TypeOK ==
    /\ dir \subseteq Ids /\ log \in [Ids -> Seq(Rows)]
    /\ meta \in [Ids -> Files] /\ tmp \in [Ids -> Files]
    /\ \A i \in Ids :
          /\ meta[i].is = "absent" => meta[i].name = NoName
          /\ tmp[i].bytes = 0
    /\ IsABag(index) /\ BagToSet(index) \subseteq IndexRows
    /\ mark \in [Ids -> Nat] /\ job \in [Workers -> Jobs]
    /\ \A w \in Workers : JobFits(w)
    /\ life \in [Ids -> Nat] /\ landed \in [Ids -> Names \cup {NoName}]
    /\ mishaps \in [Ids -> SUBSET Mishaps]

\* What a list has installed was true of a log at least as long as the size that
\* goes with it.
CacheTrue(i) ==
    "deleteInList" \notin mishaps[i] /\ meta[i].bytes > 0 =>
    WasTrue(log[i], meta[i].bytes, meta[i].count)

\* A list works for the life it saw, and so was what it counted.
ListTrue(w) == job[w].op = "list" =>
    LET j == job[w] IN
    /\ j.len = j.from /\ j.life <= life[j.id]
    /\ j.life = life[j.id] => j.from <= Len(log[j.id])
    /\ j.at = "install" => j.copy.bytes = j.len /\ j.copy.count = j.count
    /\ j.life = life[j.id] /\ "deleteInList" \notin mishaps[j.id]
          /\ j.at \in {"merge", "install", "name"} =>
       WasTrue(log[j.id], j.from, j.count)

CountInv ==
    /\ \A i \in Ids : CacheTrue(i)
    /\ \A w \in Workers : ListTrue(w)

CleanNames(i) ==
    mishaps[i] \cap {"renameInList", "renamesOverlap", "deleteInList"} = {}
Renaming(w, i) == job[w].op = "rename" /\ job[w].id = i

\* While nothing overlaps, one rename has the temporary file to itself, and a
\* list about to install holds the name that is on disk.
NameHeld(i) ==
    /\ meta[i].name = landed[i] /\ meta[i].is # "torn"
    /\ \A v, w \in Workers : Renaming(v, i) /\ Renaming(w, i) => v = w
    /\ \A w \in Workers : Renaming(w, i) =>
          /\ job[w].fd \in {"tmp", "gone"}
          /\ job[w].fd = "gone" => tmp[i].is = "absent"
          /\ job[w].fd = "tmp" =>
                tmp[i] = IF job[w].at = "fill" THEN Torn ELSE Meta(job[w].name, 0, 0)
    /\ \A w \in Workers :
          At(w, "list", "install") /\ job[w].id = i /\ job[w].life = life[i] =>
          job[w].copy.name = landed[i]

NameInv == \A i \in Ids : CleanNames(i) => NameHeld(i)

\* The rows a search holds are of its session, and one of them is the highest.
RowsInHand(w) == job[w].op = "search" =>
    LET j == job[w] IN
    /\ \A r \in j.rows : r.id = j.id
    /\ j.rows # {} => \E m \in j.rows : \A r \in j.rows : r.seq <= m.seq

\* While no searches overlap, the mark is above every row of the index, and a
\* search about to commit has read the mark that holds.
BelowMark(r) ==
    "searchesOverlap" \notin mishaps[r.id] => r.seq <= mark[r.id] /\ index[r] = 1
MarkHolds(w) ==
    At(w, "search", "commit") /\ "searchesOverlap" \notin mishaps[job[w].id] =>
    job[w].last = mark[job[w].id]

IndexInv ==
    /\ \A r \in BagToSet(index) : BelowMark(r)
    /\ \A w \in Workers : RowsInHand(w) /\ MarkHolds(w)

\* The rows of a session that was never deleted.
FirstRows(i) == TextRows(i, 0, log[i])

\* The mark of such a session is in its log, and every row of text up to it is in
\* the index.
MarkHides(i) == life[i] = 0 =>
    /\ mark[i] <= Len(log[i])
    /\ \A r \in FirstRows(i) : r.seq <= mark[i] => BagIn(r, index)

\* A search has every row it owes in the index, or its session on its list; the
\* rows in its hands are all those the log had when it was opened.
Owes(j) ==
    /\ \A r \in j.want : life[r.id] = 0 =>
          r \in FirstRows(r.id) /\ (BagIn(r, index) \/ r.id \in j.todo)
    /\ j.at # "open" /\ life[j.id] = 0 =>
          /\ j.rows \subseteq FirstRows(j.id)
          /\ \A r \in FirstRows(j.id), s \in j.rows : r.seq <= s.seq => r \in j.rows
          /\ \A r \in j.want : r.id = j.id => r \in j.rows
    /\ j.at = "commit" /\ life[j.id] = 0 =>
          \A r \in j.rows : r.seq <= j.last => BagIn(r, index)

SearchInv ==
    /\ \A i \in Ids : MarkHides(i)
    /\ \A w \in Workers : job[w].op = "search" => Owes(job[w])

Inv == TypeOK /\ CountInv /\ NameInv /\ IndexInv /\ SearchInv
=============================================================================
