-------------------------- MODULE PersistentShell --------------------------
(***************************************************************************)
(* The persistent shell of one session (conga-host/src/tools/shell.rs):    *)
(* the bash calls of a turn, which run concurrently, feed their commands   *)
(* to one sh process over its stdin, one at a time under the shell's lock, *)
(* and each reads stdout up to the marker only its own wrapper prints.     *)
(* The registry names the shell that new calls use; a shell nobody refers  *)
(* to any more is killed.  The sh process itself is external: it runs what *)
(* it is fed, in order, and a command may print, hang, leave a job in the  *)
(* background, swallow the input meant for the next one, or end the shell. *)
(***************************************************************************)
EXTENDS Naturals, Sequences, FiniteSets

CONSTANTS
    Calls,       \* the bash calls made on the session
    MaxShells,   \* how many sh processes may be spawned
    LongCalls,   \* those whose command does not fit in the stdin pipe
    PipeLines,   \* lines the stdout pipe holds before the command blocks
    CollectCap,  \* lines a call keeps of what it reads
    MaxUpsets,   \* how often a call is dropped, the shell evicted by a delete or a
                 \* closed connection, a shell dies or a command leaves a job behind
    NoCall, NoShell

ASSUME ShellAssumption ==
    /\ LongCalls \subseteq Calls
    /\ MaxShells \in Nat /\ MaxUpsets \in Nat /\ PipeLines \in Nat \ {0} /\ CollectCap \in Nat
    /\ NoCall \notin Calls /\ NoShell \notin 1..MaxShells

VARIABLES
    registry,   \* the registered shell
    spawned,    \* how many shells have been spawned
    shell,      \* each shell: its pending input, its command, its jobs, its output
    pc,         \* where each call is
    handle,     \* the shell a call holds a reference to
    collected,  \* the lines a call has kept
    capped,     \* the calls that have thrown lines away
    result,     \* how a call ended
    printed,    \* history: how many lines a command printed, up to Beyond
    finished,   \* history: the commands that are over
    abandoned,  \* history: shells a call left in the middle of its command
    timedOut,   \* history: shells on which a call timed out
    upsets      \* how often that has happened

vars == <<registry, spawned, shell, pc, handle, collected, capped, result,
          printed, finished, abandoned, timedOut, upsets>>
reading == <<collected, capped>>
history == <<printed, finished, abandoned, timedOut>>

Shells  == 1..MaxShells
Results == {"none", "exit", "timeout", "died", "unavailable", "dropped"}
Places  == {"ready", "wait", "feed", "read", "again", "waitAgain", "feedAgain", "done"}

\* Lines are numbered as they are printed; those no output has room for share a
\* number.
Beyond == CollectCap + 1

\* A line a command printed, the completion marker of its run, or a line of a job
\* it left in the background.
Lines == [of : Calls, kind : {"text", "marker", "job"}, n : 0..Beyond]
Text(c, n) == [of |-> c, kind |-> "text",   n |-> n]
Marker(c)  == [of |-> c, kind |-> "marker", n |-> 0]
JobLine(c) == [of |-> c, kind |-> "job",    n |-> 0]

Processes == [alive : BOOLEAN, input : Seq(Calls), running : Calls \cup {NoCall},
              jobs : SUBSET Calls, output : Seq(Lines)]
Fresh == [alive |-> TRUE, input |-> <<>>, running |-> NoCall,
          jobs |-> {}, output |-> <<>>]

Init ==
    /\ registry = NoShell
    /\ spawned = 0
    /\ shell = [s \in Shells |-> [Fresh EXCEPT !.alive = FALSE]]
    /\ pc = [c \in Calls |-> "ready"]
    /\ handle = [c \in Calls |-> NoShell]
    /\ collected = [c \in Calls |-> <<>>] /\ capped = {}
    /\ result = [c \in Calls |-> "none"]
    /\ printed = [c \in Calls |-> 0]
    /\ finished = {} /\ abandoned = {} /\ timedOut = {}
    /\ upsets = 0

\* kill_on_drop: a shell lives while the registry or a call refers to it.
Referenced(s) == s \in 1..spawned /\ (registry = s \/ \E c \in Calls : handle[c] = s)
Running(s)    == Referenced(s) /\ shell[s].alive

\* One more of the upsets MaxUpsets allows.
Upset == upsets < MaxUpsets /\ upsets' = upsets + 1

Reading(c) == pc[c] = "read"
Writing(c) == pc[c] \in {"feed", "feedAgain"}
Locked(s)  == \E c \in Calls : handle[c] = s /\ (Writing(c) \/ Reading(c))

\* The shell, or a command that outlived it, holds the other end of its pipes.
Open(s) == shell[s].alive \/ shell[s].running # NoCall

-----------------------------------------------------------------------------
(* A call *)

\* get_or_spawn: the registered shell, or a new one that is registered.
GetOrSpawn(c, from, to) ==
    /\ pc[c] = from
    /\ pc' = [pc EXCEPT ![c] = to]
    /\ \/ /\ registry # NoShell
          /\ handle' = [handle EXCEPT ![c] = registry]
          /\ UNCHANGED <<registry, spawned, shell>>
       \/ /\ registry = NoShell
          /\ spawned < MaxShells
          /\ spawned' = spawned + 1
          /\ registry' = spawned'
          /\ shell' = [shell EXCEPT ![spawned'] = Fresh]
          /\ handle' = [handle EXCEPT ![c] = spawned']
    /\ UNCHANGED <<reading, result, history, upsets>>

GetShell(c)   == GetOrSpawn(c, "ready", "wait")
GetAnother(c) == GetOrSpawn(c, "again", "waitAgain")

\* The call ends and lets go of its lock and of its reference.
End(c, outcome) ==
    /\ pc' = [pc EXCEPT ![c] = "done"]
    /\ handle' = [handle EXCEPT ![c] = NoShell]
    /\ result' = [result EXCEPT ![c] = outcome]

\* sh could not be spawned.
SpawnFails(c) ==
    /\ pc[c] \in {"ready", "again"}
    /\ registry = NoShell
    /\ End(c, "unavailable")
    /\ UNCHANGED <<registry, spawned, shell, reading, history, upsets>>

\* Mutant of MayLock.
LockIgnored(c) == TRUE

\* A shell has one stdin: one command at a time holds it.
MayLock(c) == ~Locked(handle[c])

Lock(c) ==
    /\ pc[c] \in {"wait", "waitAgain"}
    /\ MayLock(c)
    /\ pc' = [pc EXCEPT ![c] = IF @ = "wait" THEN "feed" ELSE "feedAgain"]
    /\ UNCHANGED <<registry, spawned, shell, handle, reading, result, history, upsets>>

\* The stdin pipe takes the whole command: the shell reads it as it is written, or
\* nothing long is to wait behind the command that keeps the shell busy.
Room(s, c) ==
    \/ shell[s].alive /\ shell[s].running = NoCall /\ shell[s].input = <<>>
    \/ c \notin LongCalls /\ \A i \in DOMAIN shell[s].input : shell[s].input[i] \notin LongCalls

\* write_all waits for room in the pipe, and no deadline ends the wait.
Clogged(c) == Writing(c) /\ Open(handle[c]) /\ ~Room(handle[c], c)

\* The wrapped command is written to the shell's stdin.
Feed(c) ==
    /\ Writing(c)
    /\ Open(handle[c]) /\ Room(handle[c], c)
    /\ shell' = [shell EXCEPT ![handle[c]].input = Append(@, c)]
    /\ pc' = [pc EXCEPT ![c] = "read"]
    /\ UNCHANGED <<registry, spawned, handle, reading, result, history, upsets>>

\* evict removes whatever shell is registered now, the caller's or not.
Evicted(s) == NoShell

\* The shell is dead: the write fails.  Evict, and retry once on another shell.
FeedFails(c) ==
    /\ Writing(c)
    /\ ~Open(handle[c])
    /\ \/ /\ pc[c] = "feed"
          /\ registry' = Evicted(handle[c])
          /\ pc' = [pc EXCEPT ![c] = "again"]
          /\ handle' = [handle EXCEPT ![c] = NoShell]
          /\ UNCHANGED result
       \/ /\ pc[c] = "feedAgain"
          /\ End(c, "unavailable")
          /\ UNCHANGED registry
    /\ UNCHANGED <<spawned, shell, reading, history, upsets>>

Output(c)  == shell[handle[c]].output
Consume(c) == shell' = [shell EXCEPT ![handle[c]].output = Tail(@)]

\* Mutant of IsOwnMarker.
IsAnyMarker(line, c) == line.kind = "marker"

\* The nonce makes a run's marker its own.
IsOwnMarker(line, c) == line = Marker(c)

\* collect reads one line: output, the marker of an older run included, which it
\* keeps while there is room and throws away ever after ...
CollectLine(c) ==
    /\ Reading(c) /\ Output(c) # <<>>
    /\ ~IsOwnMarker(Head(Output(c)), c)
    /\ Consume(c)
    /\ IF Len(collected[c]) < CollectCap
       THEN /\ collected' = [collected EXCEPT ![c] = Append(@, Head(Output(c)))]
            /\ UNCHANGED capped
       ELSE capped' = capped \cup {c} /\ UNCHANGED collected
    /\ UNCHANGED <<registry, spawned, pc, handle, result, history, upsets>>

\* ... or this run's marker, with its exit status.
CollectMarker(c) ==
    /\ Reading(c) /\ Output(c) # <<>>
    /\ IsOwnMarker(Head(Output(c)), c)
    /\ Consume(c)
    /\ End(c, "exit")
    /\ UNCHANGED <<registry, spawned, reading, history, upsets>>

\* Mutant of Silent.
SilentWhenIdle(c) == Output(c) = <<>> /\ shell[handle[c]].running = NoCall

\* The timer starts anew with every line.
Silent(c) == Output(c) = <<>>

\* No line came within the timeout.
Timeout(c) ==
    /\ Reading(c) /\ Silent(c)
    /\ registry' = Evicted(handle[c])
    /\ abandoned' = abandoned \cup {handle[c]}
    /\ timedOut' = timedOut \cup {handle[c]}
    /\ End(c, "timeout")
    /\ UNCHANGED <<spawned, shell, reading, printed, finished, upsets>>

\* End of file: the shell ended, and so did all it left behind.
EndOfFile(c) ==
    /\ Reading(c) /\ Output(c) = <<>>
    /\ ~Open(handle[c]) /\ shell[handle[c]].jobs = {}
    /\ registry' = Evicted(handle[c])
    /\ End(c, "died")
    /\ UNCHANGED <<spawned, shell, reading, history, upsets>>

\* The future of the call is dropped: its turn is, or the engine's tool timeout
\* has passed.  Nothing is evicted, and part of a command may have been written.
Drop(c) ==
    /\ pc[c] \notin {"ready", "done"}
    /\ Upset
    /\ \/ /\ ~Reading(c)
          /\ UNCHANGED <<shell, abandoned>>
       \/ /\ Reading(c)
          /\ abandoned' = abandoned \cup {handle[c]}
          /\ UNCHANGED shell
       \/ /\ Writing(c) /\ Open(handle[c])
          /\ abandoned' = abandoned \cup {handle[c]}
          /\ shell' = [shell EXCEPT ![handle[c]].input = Append(@, c)]
    /\ End(c, "dropped")
    /\ UNCHANGED <<registry, spawned, reading, printed, finished, timedOut>>

-----------------------------------------------------------------------------
(* The sh process.  What a dropped call wrote of its command is taken for a    *)
(* command too: it may do anything a command may, or swallow the next one.     *)

\* It takes the next command off its stdin.
Start(s) ==
    /\ Running(s) /\ shell[s].running = NoCall /\ shell[s].input # <<>>
    /\ shell' = [shell EXCEPT ![s].running = Head(shell[s].input),
                              ![s].input = Tail(@)]
    /\ UNCHANGED <<registry, spawned, pc, handle, reading, result, history, upsets>>

Writes(s, line, next) ==
    /\ Referenced(s) /\ Len(shell[s].output) < PipeLines
    /\ shell' = [shell EXCEPT ![s].output = Append(@, line), ![s].running = next]
    /\ UNCHANGED <<registry, spawned, pc, handle, reading, result,
                   abandoned, timedOut, upsets>>

Another(c) == IF printed[c] < Beyond THEN printed[c] + 1 ELSE printed[c]

\* The command prints a line; its wrapper sends both its streams to stdout.
WriteLine(s) ==
    LET c == shell[s].running IN
    /\ c # NoCall
    /\ Writes(s, Text(c, Another(c)), c)
    /\ printed' = [printed EXCEPT ![c] = Another(c)]
    /\ UNCHANGED finished

\* The command is over and its wrapper prints the marker: a line of its own, or
\* the end of a line when the output before it has no newline.
Finish(s) ==
    LET c == shell[s].running IN
    /\ c # NoCall /\ shell[s].alive
    /\ \/ Writes(s, Marker(c), NoCall) /\ UNCHANGED printed
       \/ /\ Writes(s, Text(c, Another(c)), NoCall)
          /\ printed' = [printed EXCEPT ![c] = Another(c)]
    /\ finished' = finished \cup {c}

\* A job the command left in the background has the same stdout: it prints while
\* its command runs, behind the marker, and into the output of later calls.
LeaveJob(s) ==
    /\ Referenced(s) /\ shell[s].running # NoCall
    /\ Upset
    /\ shell' = [shell EXCEPT ![s].jobs = @ \cup {shell[s].running}]
    /\ UNCHANGED <<registry, spawned, pc, handle, reading, result, history>>

JobPrints(s) ==
    /\ \E c \in shell[s].jobs : Writes(s, JobLine(c), shell[s].running)
    /\ UNCHANGED <<printed, finished>>

JobEnds(s) ==
    /\ Referenced(s)
    /\ \E c \in shell[s].jobs : shell' = [shell EXCEPT ![s].jobs = @ \ {c}]
    /\ UNCHANGED <<registry, spawned, pc, handle, reading, result, history, upsets>>

\* The command reads what was meant for the shell: the commands that wait on its
\* stdin, or the line that prints its own marker, so that it ends without one.
\* So does a command that outlived its shell.
Swallow(s) ==
    /\ Referenced(s) /\ shell[s].running # NoCall
    /\ \/ /\ shell[s].input # <<>>
          /\ shell' = [shell EXCEPT ![s].input = <<>>]
       \/ shell' = [shell EXCEPT ![s].running = NoCall]
    /\ UNCHANGED <<registry, spawned, pc, handle, reading, result, history, upsets>>

\* The command ends the shell, or something kills it; its command may go on.
Die(s) ==
    /\ Running(s)
    /\ Upset
    /\ \E next \in {shell[s].running, NoCall} :
          shell' = [shell EXCEPT ![s].alive = FALSE, ![s].running = next]
    /\ UNCHANGED <<registry, spawned, pc, handle, reading, result, history>>

\* evict_session: the session was deleted or its last connection closed.
EvictSession ==
    /\ Upset
    /\ registry # NoShell
    /\ registry' = NoShell
    /\ UNCHANGED <<spawned, shell, pc, handle, reading, result, history>>

-----------------------------------------------------------------------------
CallStep(c) ==
    \/ GetShell(c) \/ GetAnother(c) \/ SpawnFails(c) \/ Lock(c) \/ Feed(c) \/ FeedFails(c)
    \/ CollectLine(c) \/ CollectMarker(c) \/ Timeout(c) \/ EndOfFile(c)

Prints(s) == WriteLine(s) \/ JobPrints(s)
ShellStep(s) ==
    \/ Start(s) \/ Prints(s) \/ Finish(s) \/ Swallow(s) \/ Die(s)
    \/ LeaveJob(s) \/ JobEnds(s)

Finished == (\A c \in Calls : pc[c] = "done") /\ UNCHANGED vars

Next ==
    \/ \E c \in Calls : CallStep(c) \/ Drop(c)
    \/ \E s \in Shells : ShellStep(s)
    \/ EvictSession
    \/ Finished

Spec == Init /\ [][Next]_vars

\* The runtime polls a call that can go on, its timer included, and the lock is
\* handed over in order; a command, or a job, need not ever do anything.
FairSpec == Spec /\ \A c \in Calls : WF_vars(CallStep(c)) /\ SF_vars(Lock(c))

-----------------------------------------------------------------------------
(* Properties *)

TypeOK ==
    /\ registry \in Shells \cup {NoShell}
    /\ spawned \in 0..MaxShells
    /\ shell \in [Shells -> Processes]
    /\ \A s \in Shells : Len(shell[s].output) <= PipeLines
    /\ pc \in [Calls -> Places]
    /\ handle \in [Calls -> Shells \cup {NoShell}]
    /\ \A c \in Calls : handle[c] = NoShell <=> pc[c] \in {"ready", "again", "done"}
    /\ collected \in [Calls -> Seq(Lines)]
    /\ capped \subseteq Calls
    /\ result \in [Calls -> Results]
    /\ \A c \in Calls : result[c] # "none" <=> pc[c] = "done"
    /\ printed \in [Calls -> 0..Beyond]

Kept(c, n) == \E i \in DOMAIN collected[c] : collected[c][i] = Text(c, n)

\* A call that reports an exit status has every line its command printed, however
\* late the command ran and whoever used the shell before; or it is as long as an
\* output may be, and says that what came later is missing.
ExitHasItsOutput ==
    \A c \in Calls : result[c] = "exit" =>
        IF c \in capped THEN Len(collected[c]) = CollectCap
                        ELSE \A n \in 1..printed[c] : Kept(c, n)

\* What a call may find in the output of a shell: its own lines, and those of jobs
\* that were left in the background.
Expected(c, lines) == \A i \in DOMAIN lines : lines[i].of = c \/ lines[i].kind = "job"

\* On a shell no call abandoned, a call reads its own output, and besides it only
\* what background jobs print: the lock and the marker keep the commands of
\* concurrent calls apart.
OutputIsOwn ==
    \A c \in Calls :
        Reading(c) /\ handle[c] \notin abandoned =>
            Expected(c, collected[c]) /\ Expected(c, Output(c))

\* The shell a new call is given has never seen a call time out: after a timeout
\* the next call starts on a fresh one.
RegisteredIsFresh == registry \notin timedOut

\* A call whose command is over is not timed out any more: the marker tells the
\* reader exactly where the output ends.
FinishedIsNoTimeout ==
    [][\A c \in finished : pc[c] = "read" => result'[c] # "timeout"]_vars

\* Every call returns, whatever hangs, dies or is dropped, unless some command or
\* job goes on printing for ever, so that no timeout comes, or some call waits for
\* ever to write its command, which none ends.
PrintsForEver == \E s \in Shells : []<><<Prints(s)>>_vars
CloggedForEver == \E c \in Calls : <>[]Clogged(c)
QuietCallsReturn ==
    \/ PrintsForEver
    \/ CloggedForEver
    \/ \A c \in Calls : pc[c] # "ready" ~> pc[c] = "done"

-----------------------------------------------------------------------------
(* The inductive invariant behind the theorems of PersistentShellProofs *)

\* Calls hold shells that were spawned, and the registered one has served no
\* call that timed out; a call that has not read has collected nothing, and only
\* a full output is cut.
InvCalls ==
    /\ registry \in 1..spawned \cup {NoShell}
    /\ timedOut \subseteq 1..spawned /\ RegisteredIsFresh
    /\ \A c \in Calls :
        /\ handle[c] \in 1..spawned \cup {NoShell}
        /\ pc[c] \notin {"read", "done"} => collected[c] = <<>>
        /\ Len(collected[c]) <= CollectCap
        /\ c \in capped => Len(collected[c]) = CollectCap

\* Nothing of any call's is left in the shell, except what its jobs print.
Jobs(lines) == \A i \in DOMAIN lines : lines[i].kind = "job"
Clean(s) == shell[s].input = <<>> /\ shell[s].running = NoCall /\ Jobs(shell[s].output)

\* The shell is busy with one call's command, or done with it; the marker is the
\* last thing it says.
Serves(s, c) ==
    /\ shell[s].running \in {c, NoCall}
    /\ shell[s].input # <<>> =>
            shell[s].input = <<c>> /\ shell[s].running = NoCall /\ Jobs(shell[s].output)
    /\ \A i \in DOMAIN shell[s].output :
        LET line == shell[s].output[i] IN
        /\ line.of = c \/ line.kind = "job"
        /\ line.kind = "marker" =>
              /\ shell[s].running = NoCall /\ shell[s].input = <<>>
              /\ \A j \in DOMAIN shell[s].output : j > i => shell[s].output[j].kind = "job"

Holds(c)  == Writing(c) \/ Reading(c)
ReadBy(s) == \E c \in Calls : Reading(c) /\ handle[c] = s

\* One call to a shell; and a shell that nobody abandoned is its reader's, or
\* clean for the next one.
InvShells ==
    /\ \A c, d \in Calls : Holds(c) /\ Holds(d) /\ handle[c] = handle[d] => c = d
    /\ \A s \in (1..spawned) \ abandoned :
        /\ Open(s) /\ ~ReadBy(s) => Clean(s)
        /\ \A c \in Calls : Reading(c) /\ handle[c] = s =>
              Serves(s, c) /\ Expected(c, collected[c])

\* All that keeps the outputs of concurrent calls apart: what a shell may hold
\* when a call locks it, while that call reads, and when it lets go.
Inv == TypeOK /\ InvCalls /\ InvShells

\* A command is still to be run by a shell, or is being run.
Waits(s, c)   == \E i \in DOMAIN shell[s].input : shell[s].input[i] = c
Pending(s, c) == shell[s].running = c \/ Waits(s, c)
Marked(c) == \E s \in Shells : \E i \in DOMAIN shell[s].output : shell[s].output[i] = Marker(c)

\* A command is fed once, to the shell its call reads; its marker comes when it
\* is over, and nothing of it comes before it is fed.
InvOnce ==
    /\ \A s \in Shells : \A i, j \in DOMAIN shell[s].input :
          shell[s].input[i] = shell[s].input[j] => i = j
    /\ \A s \in Shells, c \in Calls :
          /\ shell[s].running = c => ~Waits(s, c)
          /\ Pending(s, c) =>
                /\ pc[c] \in {"read", "done"} /\ result[c] # "exit" /\ ~Marked(c)
                /\ Reading(c) => handle[c] = s
                /\ \A t \in Shells : Pending(t, c) => s = t
    /\ \A c \in Calls : pc[c] \notin {"read", "done"} => printed[c] = 0 /\ ~Marked(c)

\* What a command printed is in its reader's hands or ahead of its marker, unless
\* the reader had to throw it away.
Ahead(c, n) ==
    \E i \in DOMAIN Output(c) :
        Output(c)[i] = Text(c, n) /\ \A k \in 1..i : Output(c)[k] # Marker(c)

InvTold ==
    \A c \in Calls \ capped : \A n \in 1..printed[c] :
        /\ result[c] = "exit" => Kept(c, n)
        /\ Reading(c) => Kept(c, n) \/ Ahead(c, n)
=============================================================================
