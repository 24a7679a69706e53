------------------------ MODULE PersistentShellProofs ------------------------
(***************************************************************************)
(* Proofs about PersistentShell, for every set of calls, every number of   *)
(* shells and of upsets, every size of the pipe and of an output: the      *)
(* commands of concurrent calls are kept apart, a call that ends with an   *)
(* exit status has all of its output or says that it is cut, and no new    *)
(* call is given a shell on which a call has timed out.                    *)
(***************************************************************************)
EXTENDS PersistentShell, TLAPS

USE ShellAssumption DEF Shells

-----------------------------------------------------------------------------
(* One process changes.                                                    *)

OthersSame(s) == \A t \in Shells \ {s} : shell'[t] = shell[t]

LEMMA SetInput ==
    ASSUME shell \in [Shells -> Processes], NEW s \in Shells, NEW x \in Seq(Calls),
           shell' = [shell EXCEPT ![s].input = x]
    PROVE  /\ shell' \in [Shells -> Processes] /\ OthersSame(s)
           /\ shell'[s].alive = shell[s].alive /\ shell'[s].input = x
           /\ shell'[s].running = shell[s].running /\ shell'[s].output = shell[s].output
    BY DEF Processes, OthersSame

LEMMA SetCommand ==
    ASSUME shell \in [Shells -> Processes], NEW s \in Shells, NEW x \in Seq(Calls),
           NEW r \in Calls \cup {NoCall},
           shell' = [shell EXCEPT ![s].running = r, ![s].input = x]
    PROVE  /\ shell' \in [Shells -> Processes] /\ OthersSame(s)
           /\ shell'[s].alive = shell[s].alive /\ shell'[s].input = x
           /\ shell'[s].running = r /\ shell'[s].output = shell[s].output
    BY DEF Processes, OthersSame

LEMMA SetRunning ==
    ASSUME shell \in [Shells -> Processes], NEW s \in Shells,
           NEW r \in Calls \cup {NoCall},
           shell' = [shell EXCEPT ![s].running = r]
    PROVE  /\ shell' \in [Shells -> Processes] /\ OthersSame(s)
           /\ shell'[s].alive = shell[s].alive /\ shell'[s].input = shell[s].input
           /\ shell'[s].running = r /\ shell'[s].output = shell[s].output
    BY DEF Processes, OthersSame

LEMMA SetOutput ==
    ASSUME shell \in [Shells -> Processes], NEW s \in Shells, NEW x \in Seq(Lines),
           shell' = [shell EXCEPT ![s].output = x]
    PROVE  /\ shell' \in [Shells -> Processes] /\ OthersSame(s)
           /\ shell'[s].alive = shell[s].alive /\ shell'[s].input = shell[s].input
           /\ shell'[s].running = shell[s].running /\ shell'[s].output = x
    BY DEF Processes, OthersSame

LEMMA SetDead ==
    ASSUME shell \in [Shells -> Processes], NEW s \in Shells,
           NEW r \in Calls \cup {NoCall},
           shell' = [shell EXCEPT ![s].alive = FALSE, ![s].running = r]
    PROVE  /\ shell' \in [Shells -> Processes] /\ OthersSame(s)
           /\ ~shell'[s].alive /\ shell'[s].input = shell[s].input
           /\ shell'[s].running = r /\ shell'[s].output = shell[s].output
    BY DEF Processes, OthersSame

LEMMA SetJobs ==
    ASSUME shell \in [Shells -> Processes], NEW s \in Shells, NEW x \in SUBSET Calls,
           shell' = [shell EXCEPT ![s].jobs = x]
    PROVE  /\ shell' \in [Shells -> Processes] /\ OthersSame(s)
           /\ shell'[s].alive = shell[s].alive /\ shell'[s].input = shell[s].input
           /\ shell'[s].running = shell[s].running /\ shell'[s].output = shell[s].output
    BY DEF Processes, OthersSame

LEMMA FreshIsClean ==
    /\ Fresh \in Processes
    /\ Fresh.input = <<>> /\ Fresh.running = NoCall /\ Fresh.output = <<>>
    <1>1. <<>> \in Seq(Calls) /\ <<>> \in Seq(Lines)
        OBVIOUS
    <1> QED  BY <1>1 DEF Fresh, Processes

-----------------------------------------------------------------------------
(* What a step must do for the shells to stay with their readers.          *)

(* No call starts to read: a shell is left as it is, or clean and unread.  *)
LEMMA ReadersLeave ==
    ASSUME InvShells,
           \A c, d \in Calls : Holds(c)' /\ Holds(d)' /\ handle'[c] = handle'[d] => c = d,
           \A c \in Calls : Reading(c)' => Reading(c) /\ handle'[c] = handle[c]
                                                      /\ collected'[c] = collected[c],
           \A s \in (1..spawned') \ abandoned' :
                \/ /\ s \in (1..spawned) \ abandoned /\ shell'[s] = shell[s]
                   /\ ReadBy(s) => ReadBy(s)' \/ ~Open(s)
                \/ /\ Clean(s)'
                   /\ ~ReadBy(s)'
    PROVE  InvShells'
    <1>1. ASSUME NEW s \in (1..spawned') \ abandoned'
          PROVE  /\ (Open(s) /\ ~ReadBy(s))' => Clean(s)'
                 /\ \A c \in Calls : Reading(c)' /\ handle'[c] = s =>
                        Serves(s, c)' /\ Expected(c, collected'[c])
        <2>1. CASE Clean(s)' /\ ~ReadBy(s)'
            BY <2>1 DEF ReadBy
        <2>2. CASE /\ s \in (1..spawned) \ abandoned /\ shell'[s] = shell[s]
                   /\ ReadBy(s) => ReadBy(s)' \/ ~Open(s)
            <3>1. (Open(s) /\ ~ReadBy(s))' => Clean(s)'
                BY <2>2 DEF InvShells, Clean, Open
            <3>2. ASSUME NEW c \in Calls, Reading(c)', handle'[c] = s
                  PROVE  Serves(s, c)' /\ Expected(c, collected'[c])
                BY <2>2, <3>2 DEF InvShells, Serves
            <3> QED  BY <3>1, <3>2
        <2> QED  BY <1>1, <2>1, <2>2
    <1> QED  BY <1>1 DEF InvShells, Expected

(* A process moves on by itself.                                           *)
LEMMA ProcessMoves ==
    ASSUME InvShells, NEW s \in Shells, OthersSame(s), spawned \in 0..MaxShells,
           UNCHANGED <<spawned, abandoned, pc, handle, collected>>,
           Open(s)' => Open(s),
           Clean(s) => Clean(s)',
           \A c \in Calls : Serves(s, c) => Serves(s, c)'
    PROVE  InvShells'
    <1>1. \A c \in Calls : Reading(c)' = Reading(c) /\ Holds(c)' = Holds(c)
        BY DEF Reading, Holds, Writing
    <1>2. \A t \in Shells : ReadBy(t)' = ReadBy(t)
        BY DEF ReadBy, Reading
    <1>3. ASSUME NEW t \in (1..spawned) \ abandoned
          PROVE  /\ (Open(t) /\ ~ReadBy(t))' => Clean(t)'
                 /\ \A c \in Calls : Reading(c) /\ handle[c] = t =>
                        Serves(t, c)' /\ Expected(c, collected[c])
        <2>1. t \in Shells
            BY <1>3
        <2>2. CASE t = s
            BY <1>2, <2>1, <2>2 DEF InvShells
        <2>3. CASE t # s
            BY <1>2, <2>1, <2>3 DEF InvShells, OthersSame, Clean, Serves, Open
        <2> QED  BY <2>2, <2>3
    <1> QED  BY <1>1, <1>3 DEF InvShells, Expected

-----------------------------------------------------------------------------
LEMMA InitInv == Init => Inv
    <1> SUFFICES ASSUME Init PROVE Inv
        OBVIOUS
    <1>1. TypeOK
        <2>1. shell \in [Shells -> Processes] /\ \A s \in Shells : shell[s].output = <<>>
            BY FreshIsClean DEF Init, Processes
        <2>2. \A s \in Shells : Len(shell[s].output) <= PipeLines
            BY <2>1
        <2>3. pc \in [Calls -> Places] /\ result \in [Calls -> Results]
            BY DEF Init, Places, Results
        <2>4. /\ handle \in [Calls -> Shells \cup {NoShell}] /\ collected \in [Calls -> Seq(Lines)]
              /\ printed \in [Calls -> 0..Beyond] /\ capped \subseteq Calls
            BY DEF Init, Beyond
        <2>5. \A c \in Calls : /\ handle[c] = NoShell <=> pc[c] \in {"ready", "again", "done"}
                               /\ result[c] # "none" <=> pc[c] = "done"
            BY DEF Init
        <2>6. registry \in Shells \cup {NoShell} /\ spawned \in 0..MaxShells
            BY DEF Init
        <2> QED  BY <2>1, <2>2, <2>3, <2>4, <2>5, <2>6 DEF TypeOK
    <1>2. InvCalls
        BY DEF Init, InvCalls, RegisteredIsFresh
    <1>3. InvShells
        BY DEF Init, InvShells, Reading, Holds, Writing
    <1> QED  BY <1>1, <1>2, <1>3 DEF Inv

-----------------------------------------------------------------------------
(* A call ends: it lets go of its shell, and of the lock it may have held. *)

LEMMA EndKeepsCalls ==
    ASSUME TypeOK, InvCalls, NEW c \in Calls, NEW outcome \in Results \ {"none"},
           End(c, outcome), UNCHANGED <<spawned, reading, printed>>,
           shell' \in [Shells -> Processes],
           \A s \in Shells : Len(shell'[s].output) <= PipeLines,
           timedOut' \subseteq 1..spawned,
           registry' = NoShell \/ UNCHANGED <<registry, timedOut>>
    PROVE  TypeOK' /\ InvCalls'
    <1> USE DEF reading
    <1>1. pc' \in [Calls -> Places] /\ result' \in [Calls -> Results]
        BY DEF TypeOK, End, Places
    <1>2. handle' \in [Calls -> Shells \cup {NoShell}]
        BY DEF TypeOK, End
    <1>3. \A d \in Calls : /\ handle'[d] = NoShell <=> pc'[d] \in {"ready", "again", "done"}
                           /\ result'[d] # "none" <=> pc'[d] = "done"
        BY DEF TypeOK, End
    <1>4. TypeOK'
        BY <1>1, <1>2, <1>3 DEF TypeOK
    <1>5. registry' \in 1..spawned \cup {NoShell} /\ RegisteredIsFresh'
        <2>1. 1..spawned \subseteq Shells
            BY DEF TypeOK
        <2>2. NoShell \notin timedOut'
            BY <2>1
        <2> QED  BY <2>2 DEF InvCalls, RegisteredIsFresh
    <1>6. \A d \in Calls : /\ handle'[d] \in 1..spawned \cup {NoShell}
                           /\ pc'[d] \notin {"read", "done"} => collected[d] = <<>>
        BY DEF InvCalls, End, TypeOK
    <1>7. \A d \in Calls : /\ Len(collected[d]) <= CollectCap
                           /\ d \in capped => Len(collected[d]) = CollectCap
        BY DEF InvCalls
    <1> QED  BY <1>4, <1>5, <1>6, <1>7 DEF InvCalls

LEMMA EndUnlocks ==
    ASSUME TypeOK, InvShells, NEW c \in Calls, NEW outcome, End(c, outcome)
    PROVE  /\ \A d \in Calls : Reading(d)' => d # c /\ Reading(d) /\ handle'[d] = handle[d]
           /\ \A d, e \in Calls : Holds(d)' /\ Holds(e)' /\ handle'[d] = handle'[e] => d = e
           /\ \A s \in Shells : ReadBy(s) => ReadBy(s)' \/ (Reading(c) /\ handle[c] = s)
    <1>1. \A d \in Calls : Holds(d)' => d # c /\ Holds(d) /\ handle'[d] = handle[d]
        BY DEF TypeOK, End, Holds, Writing, Reading
    <1>2. \A d \in Calls : Reading(d)' => d # c /\ Reading(d) /\ handle'[d] = handle[d]
        BY DEF TypeOK, End, Reading
    <1>3. \A s \in Shells : ReadBy(s) => ReadBy(s)' \/ (Reading(c) /\ handle[c] = s)
        BY DEF TypeOK, End, Reading, ReadBy
    <1> QED  BY <1>1, <1>2, <1>3 DEF InvShells

-----------------------------------------------------------------------------
(* The steps of a call.                                                    *)

LEMMA GetOrSpawnInv ==
    ASSUME Inv, NEW c \in Calls, NEW from \in {"ready", "again"},
           NEW to \in {"wait", "waitAgain"}, GetOrSpawn(c, from, to)
    PROVE  Inv'
    <1> USE DEF Inv, reading
    <1>1. /\ pc' \in [Calls -> Places] /\ result' \in [Calls -> Results]
          /\ collected' \in [Calls -> Seq(Lines)] /\ capped' \subseteq Calls
          /\ printed' \in [Calls -> 0..Beyond]
        BY DEF GetOrSpawn, TypeOK, Places, history
    <1>2. \A d \in Calls : Reading(d)' => d # c /\ Reading(d) /\ handle'[d] = handle[d]
                                               /\ collected'[d] = collected[d]
        BY DEF GetOrSpawn, TypeOK, Reading
    <1>3. \A s \in Shells : ReadBy(s) => ReadBy(s)'
        BY DEF GetOrSpawn, TypeOK, ReadBy, Reading
    <1>30. \A d, e \in Calls : Holds(d)' /\ Holds(e)' /\ handle'[d] = handle'[e] => d = e
        <2>1. \A d \in Calls : Holds(d)' => d # c /\ Holds(d) /\ handle'[d] = handle[d]
            BY DEF GetOrSpawn, TypeOK, Holds, Writing, Reading
        <2> QED  BY <2>1 DEF InvShells
    <1>4. CASE /\ registry # NoShell
               /\ handle' = [handle EXCEPT ![c] = registry]
               /\ UNCHANGED <<registry, spawned, shell>>
        <2>1. handle' \in [Calls -> Shells \cup {NoShell}]
            BY <1>4 DEF TypeOK
        <2>2. \A d \in Calls : /\ handle'[d] = NoShell <=> pc'[d] \in {"ready", "again", "done"}
                               /\ result'[d] # "none" <=> pc'[d] = "done"
            BY <1>4 DEF TypeOK, GetOrSpawn
        <2>3. TypeOK'
            BY <1>1, <1>4, <2>1, <2>2 DEF TypeOK
        <2>4. InvCalls'
            BY <1>4 DEF InvCalls, RegisteredIsFresh, GetOrSpawn, TypeOK, history
        <2>5. InvShells'
            BY <1>2, <1>3, <1>30, <1>4, ReadersLeave DEF GetOrSpawn, TypeOK, history
        <2> QED  BY <2>3, <2>4, <2>5
    <1>5. CASE /\ registry = NoShell
               /\ spawned < MaxShells
               /\ spawned' = spawned + 1
               /\ registry' = spawned'
               /\ shell' = [shell EXCEPT ![spawned'] = Fresh]
               /\ handle' = [handle EXCEPT ![c] = spawned']
        <2> PICK new \in Shells : new = spawned'
            BY <1>5 DEF TypeOK
        <2>1. new \notin 1..spawned /\ 1..spawned' = 1..spawned \cup {new}
            BY <1>5 DEF TypeOK
        <2>2. /\ shell' \in [Shells -> Processes] /\ shell'[new] = Fresh
              /\ \A s \in Shells \ {new} : shell'[s] = shell[s]
            BY <1>5, <2>1, FreshIsClean DEF TypeOK
        <2>3. \A s \in Shells : Len(shell'[s].output) <= PipeLines
            <3>1. \A s \in Shells \ {new} : Len(shell'[s].output) <= PipeLines
                BY <2>2 DEF TypeOK
            <3>2. shell'[new].output = <<>>
                BY <2>2, FreshIsClean
            <3> QED  BY <3>1, <3>2
        <2>4. handle' \in [Calls -> Shells \cup {NoShell}]
            BY <1>5, <2>1 DEF TypeOK
        <2>5. \A d \in Calls : /\ handle'[d] = NoShell <=> pc'[d] \in {"ready", "again", "done"}
                               /\ result'[d] # "none" <=> pc'[d] = "done"
            BY <1>5, <2>1 DEF TypeOK, GetOrSpawn
        <2>6. registry' \in Shells \cup {NoShell} /\ spawned' \in 0..MaxShells
            BY <1>5, <2>1 DEF TypeOK
        <2>7. TypeOK'
            BY <1>1, <2>2, <2>3, <2>4, <2>5, <2>6 DEF TypeOK
        <2>8. registry' \in 1..spawned' \cup {NoShell} /\ timedOut' \subseteq 1..spawned'
                                                       /\ RegisteredIsFresh'
            BY <1>5, <2>1 DEF InvCalls, RegisteredIsFresh, GetOrSpawn, history
        <2>9. \A d \in Calls : /\ handle'[d] \in 1..spawned' \cup {NoShell}
                               /\ pc'[d] \notin {"read", "done"} => collected'[d] = <<>>
                               /\ Len(collected'[d]) <= CollectCap
                               /\ d \in capped' => Len(collected'[d]) = CollectCap
            BY <1>5, <2>1 DEF InvCalls, GetOrSpawn, TypeOK
        <2>10. InvCalls'
            BY <2>8, <2>9 DEF InvCalls
        <2>11. ~ReadBy(new)'
            <3> SUFFICES ASSUME NEW d \in Calls, Reading(d)', handle'[d] = new PROVE FALSE
                BY DEF ReadBy
            <3>1. Reading(d) /\ handle[d] = new
                BY <1>2
            <3> QED  BY <3>1, <2>1 DEF InvCalls
        <2>12. Clean(new)'
            BY <2>2, FreshIsClean, <1>5 DEF Clean, Jobs
        <2>13. abandoned' = abandoned
            BY DEF GetOrSpawn, history
        <2>14. ASSUME NEW s \in (1..spawned') \ abandoned'
               PROVE  \/ /\ s \in (1..spawned) \ abandoned /\ shell'[s] = shell[s]
                         /\ ReadBy(s) => ReadBy(s)' \/ ~Open(s)
                      \/ Clean(s)' /\ ~ReadBy(s)'
            <3>1. CASE s = new
                BY <3>1, <2>11, <2>12
            <3>2. CASE s # new
                <4>0. 1..spawned \subseteq Shells
                    BY DEF TypeOK
                <4>1. s \in 1..spawned /\ s \in Shells
                    BY <4>0, <2>1, <3>2, <2>14
                <4>2. shell'[s] = shell[s]
                    BY <4>1, <3>2, <2>2
                <4>3. ReadBy(s) => ReadBy(s)'
                    BY <4>1, <1>3
                <4>4. s \notin abandoned
                    BY <2>13, <2>14
                <4> QED  BY <4>1, <4>2, <4>3, <4>4
            <3> QED  BY <3>1, <3>2
        <2>15. InvShells'
            BY <1>2, <1>30, <2>14, ReadersLeave
        <2> QED  BY <2>7, <2>10, <2>15
    <1> QED  BY <1>4, <1>5 DEF GetOrSpawn

(* The lock is free: nobody writes to the shell or reads it.               *)
LEMMA LockInv == ASSUME Inv, NEW c \in Calls, Lock(c) PROVE Inv'
    <1> USE DEF Inv, reading
    <1>1. /\ UNCHANGED <<registry, spawned, shell, handle, collected, capped, result, printed,
                         abandoned, timedOut>>
          /\ pc[c] \in {"wait", "waitAgain"} /\ pc'[c] \in {"feed", "feedAgain"}
          /\ \A d \in Calls \ {c} : pc'[d] = pc[d]
          /\ pc' \in [Calls -> Places]
        BY DEF Lock, history, TypeOK, Places
    <1>2. TypeOK'
        BY <1>1 DEF TypeOK
    <1>3. InvCalls'
        BY <1>1 DEF InvCalls, RegisteredIsFresh
    <1>4. \A d \in Calls \ {c} : (Holds(d)' <=> Holds(d)) /\ (Holds(d) => handle[d] # handle[c])
        BY <1>1 DEF Lock, MayLock, Locked, Holds, Writing, Reading
    <1>5. \A d, e \in Calls : Holds(d)' /\ Holds(e)' /\ handle'[d] = handle'[e] => d = e
        BY <1>1, <1>4 DEF InvShells
    <1>6. \A d \in Calls : Reading(d)' <=> Reading(d)
        BY <1>1 DEF Reading
    <1>7. \A s \in Shells : ReadBy(s) => ReadBy(s)'
        BY <1>1, <1>6 DEF ReadBy
    <1>8. InvShells'
        BY <1>1, <1>5, <1>6, <1>7, ReadersLeave DEF TypeOK
    <1> QED  BY <1>2, <1>3, <1>8

LEMMA FeedFailsInv == ASSUME Inv, NEW c \in Calls, FeedFails(c) PROVE Inv'
    <1> USE DEF Inv, reading
    <1>1. /\ UNCHANGED <<spawned, shell, collected, capped, printed, abandoned, timedOut>>
          /\ ~Reading(c)
        BY DEF FeedFails, Reading, Writing, history
    <1>2. CASE End(c, "unavailable") /\ UNCHANGED registry
        <2>1. TypeOK' /\ InvCalls'
            BY <1>1, <1>2, EndKeepsCalls DEF Results, TypeOK, InvCalls
        <2>2. \A s \in Shells : ReadBy(s) => ReadBy(s)'
            BY <1>1, <1>2, EndUnlocks
        <2>3. InvShells'
            BY <1>1, <1>2, <2>2, EndUnlocks, ReadersLeave DEF TypeOK
        <2> QED  BY <2>1, <2>3
    <1>3. CASE /\ pc[c] = "feed"
               /\ registry' = NoShell
               /\ pc' = [pc EXCEPT ![c] = "again"]
               /\ handle' = [handle EXCEPT ![c] = NoShell]
               /\ UNCHANGED result
        <2>1. 1..spawned \subseteq Shells
            BY DEF TypeOK
        <2>2. pc' \in [Calls -> Places] /\ handle' \in [Calls -> Shells \cup {NoShell}]
            BY <1>3 DEF TypeOK, Places
        <2>3. \A d \in Calls : /\ handle'[d] = NoShell <=> pc'[d] \in {"ready", "again", "done"}
                               /\ result'[d] # "none" <=> pc'[d] = "done"
            BY <1>3 DEF TypeOK
        <2>4. TypeOK'
            BY <1>1, <1>3, <2>2, <2>3 DEF TypeOK
        <2>5. NoShell \notin timedOut
            BY <2>1 DEF InvCalls
        <2>6. \A d \in Calls : /\ handle'[d] \in 1..spawned \cup {NoShell}
                               /\ pc'[d] \notin {"read", "done"} => collected[d] = <<>>
            BY <1>3 DEF InvCalls, TypeOK
        <2>7. InvCalls'
            BY <1>1, <1>3, <2>5, <2>6 DEF InvCalls, RegisteredIsFresh
        <2>8. \A d \in Calls : Reading(d)' => Reading(d) /\ handle'[d] = handle[d]
            BY <1>3 DEF TypeOK, Reading
        <2>9. \A s \in Shells : ReadBy(s) => ReadBy(s)'
            BY <1>3 DEF TypeOK, ReadBy, Reading
        <2>10. \A d, e \in Calls : Holds(d)' /\ Holds(e)' /\ handle'[d] = handle'[e] => d = e
            <3>1. \A d \in Calls : Holds(d)' => d # c /\ Holds(d) /\ handle'[d] = handle[d]
                BY <1>3 DEF TypeOK, Holds, Writing, Reading
            <3> QED  BY <3>1 DEF InvShells
        <2>11. InvShells'
            BY <1>1, <2>1, <2>8, <2>9, <2>10, ReadersLeave
        <2> QED  BY <2>4, <2>7, <2>11
    <1> QED  BY <1>2, <1>3 DEF FeedFails, Evicted

LEMMA SpawnFailsInv == ASSUME Inv, NEW c \in Calls, SpawnFails(c) PROVE Inv'
    <1> USE DEF Inv, SpawnFails
    <1>1. TypeOK' /\ InvCalls'
        BY EndKeepsCalls DEF Results, TypeOK, InvCalls, history, reading
    <1>2. \A s \in Shells : ReadBy(s) => ReadBy(s)'
        BY EndUnlocks DEF Reading
    <1>3. InvShells'
        BY <1>2, EndUnlocks, ReadersLeave DEF TypeOK, history, reading
    <1> QED  BY <1>1, <1>3

LEMMA AppendDomain ==
    ASSUME NEW S, NEW q \in Seq(S), NEW x \in S
    PROVE  /\ Append(q, x) \in Seq(S) /\ Len(q) + 1 \in DOMAIN Append(q, x)
           /\ Append(q, x)[Len(q) + 1] = x /\ Len(Append(q, x)) = Len(q) + 1
           /\ \A i \in DOMAIN Append(q, x) : i \in DOMAIN q \/ i = Len(q) + 1
           /\ \A i \in DOMAIN q : i \in DOMAIN Append(q, x) /\ Append(q, x)[i] = q[i]
    OBVIOUS

(* A call appends its command, or part of it, to the input of a shell.     *)
LEMMA FedTyped ==
    ASSUME TypeOK, NEW c \in Calls, NEW s \in Shells,
           shell' = [shell EXCEPT ![s].input = Append(@, c)]
    PROVE  /\ shell' \in [Shells -> Processes] /\ OthersSame(s)
           /\ shell[s].input \in Seq(Calls)
           /\ shell'[s].input = Append(shell[s].input, c)
           /\ shell'[s].running = shell[s].running /\ shell'[s].output = shell[s].output
           /\ shell'[s].alive = shell[s].alive
           /\ \A t \in Shells : Len(shell'[t].output) <= PipeLines
    <1>1. shell[s].input \in Seq(Calls) /\ shell \in [Shells -> Processes]
        BY DEF TypeOK, Processes
    <1>2. PICK q \in Seq(Calls) : q = Append(shell[s].input, c)
        <2>1. Append(shell[s].input, c) \in Seq(Calls)
            BY <1>1, AppendDomain
        <2> QED  BY <2>1
    <1>3. shell' = [shell EXCEPT ![s].input = q]
        BY <1>2
    <1>4. /\ shell' \in [Shells -> Processes] /\ OthersSame(s)
          /\ shell'[s].alive = shell[s].alive /\ shell'[s].input = q
          /\ shell'[s].running = shell[s].running /\ shell'[s].output = shell[s].output
        BY <1>1, <1>3, SetInput
    <1>5. \A t \in Shells : Len(shell'[t].output) <= PipeLines
        BY <1>4 DEF TypeOK, OthersSame
    <1> QED  BY <1>1, <1>2, <1>4, <1>5

LEMMA FeedInv == ASSUME Inv, NEW c \in Calls, Feed(c) PROVE Inv'
    <1> USE DEF Inv, reading
    <1>1. handle[c] \in Shells /\ handle[c] \in 1..spawned
        BY DEF Feed, Writing, TypeOK, InvCalls
    <1> PICK s \in Shells : s = handle[c]
        BY <1>1
    <1>5. /\ shell' \in [Shells -> Processes] /\ OthersSame(s)
          /\ shell[s].input \in Seq(Calls)
          /\ shell'[s].input = Append(shell[s].input, c)
          /\ shell'[s].running = shell[s].running /\ shell'[s].output = shell[s].output
          /\ \A t \in Shells : Len(shell'[t].output) <= PipeLines
        BY FedTyped DEF Feed
    <1>6. TypeOK'
        <2>2. pc' \in [Calls -> Places]
            BY DEF TypeOK, Feed, Places
        <2>3. \A d \in Calls : /\ handle'[d] = NoShell <=> pc'[d] \in {"ready", "again", "done"}
                               /\ result'[d] # "none" <=> pc'[d] = "done"
            BY DEF TypeOK, Feed, Writing
        <2>4. UNCHANGED <<registry, spawned, handle, collected, capped, result, printed>>
            BY DEF Feed, history
        <2> QED  BY <1>5, <2>2, <2>3, <2>4 DEF TypeOK
    <1>7. InvCalls'
        BY DEF InvCalls, RegisteredIsFresh, Feed, TypeOK, history
    <1>8. Holds(c) /\ Open(s) /\ Reading(c)' /\ Holds(c)' /\ collected[c] = <<>> /\ ~Reading(c)
        BY DEF Feed, Holds, Writing, Reading, TypeOK, InvCalls
    <1>9. \A d \in Calls \ {c} : /\ Reading(d)' = Reading(d) /\ Holds(d)' = Holds(d)
                                 /\ Holds(d) => handle[d] # s
        BY <1>8 DEF Feed, TypeOK, Reading, Writing, Holds, InvShells
    <1>90. ~ReadBy(s)
        BY <1>8, <1>9 DEF ReadBy, Holds
    <1>10. UNCHANGED <<spawned, handle, collected, abandoned>>
        BY DEF Feed, history
    <1>11. \A d, e \in Calls : Holds(d)' /\ Holds(e)' /\ handle'[d] = handle'[e] => d = e
        BY <1>9, <1>10 DEF InvShells
    <1>12. ASSUME NEW t \in (1..spawned) \ abandoned
           PROVE  /\ (Open(t) /\ ~ReadBy(t))' => Clean(t)'
                  /\ \A d \in Calls : Reading(d)' /\ handle[d] = t =>
                        Serves(t, d)' /\ Expected(d, collected[d])
        <2>1. t \in Shells
            BY <1>12 DEF TypeOK
        <2>2. CASE t = s
            <3>1. Clean(s)
                BY <1>1, <1>8, <1>90, <1>12, <2>2 DEF InvShells
            <3>2. /\ shell'[s].input = <<c>> /\ shell'[s].running = NoCall
                  /\ \A i \in DOMAIN shell'[s].output : shell'[s].output[i].kind = "job"
                BY <1>5, <3>1 DEF Clean, Jobs
            <3>3. Serves(s, c)'
                BY <3>2, <1>10 DEF Serves, Jobs
            <3>4. ReadBy(s)'
                BY <1>8, <1>10 DEF ReadBy, Reading
            <3>5. \A d \in Calls : Reading(d)' /\ handle[d] = s => d = c
                BY <1>9 DEF Holds
            <3>6. Expected(c, collected[c])
                BY <1>8 DEF Expected
            <3> QED  BY <3>3, <3>4, <3>5, <3>6, <2>2
        <2>3. CASE t # s
            <3>1. shell'[t] = shell[t]
                BY <1>5, <2>1, <2>3 DEF OthersSame
            <3>2. ReadBy(t) => ReadBy(t)'
                BY <1>8, <1>9, <1>10, <2>3 DEF ReadBy
            <3>3. \A d \in Calls : Reading(d)' /\ handle[d] = t => Reading(d)
                BY <1>9, <2>3
            <3>4. (Open(t) /\ ~ReadBy(t))' => Clean(t)'
                BY <1>12, <3>1, <3>2 DEF InvShells, Clean, Open
            <3>5. ASSUME NEW d \in Calls, Reading(d)', handle[d] = t
                  PROVE  Serves(t, d)' /\ Expected(d, collected[d])
                BY <1>12, <3>1, <3>3, <3>5 DEF InvShells, Serves
            <3> QED  BY <3>4, <3>5
        <2> QED  BY <2>2, <2>3
    <1>13. InvShells'
        BY <1>10, <1>11, <1>12 DEF InvShells, Expected
    <1> QED  BY <1>6, <1>7, <1>13

(* What a reader finds on the shell it reads, unless the shell is abandoned. *)
LEMMA ReaderIsServed ==
    ASSUME Inv, NEW c \in Calls, Reading(c), handle[c] \notin abandoned
    PROVE  handle[c] \in 1..spawned /\ Serves(handle[c], c) /\ Expected(c, collected[c])
    BY DEF Inv, TypeOK, InvCalls, InvShells, Reading

LEMMA TailLen ==
    ASSUME NEW S, NEW q \in Seq(S), q # <<>>
    PROVE  /\ Tail(q) \in Seq(S) /\ Len(Tail(q)) = Len(q) - 1 /\ Head(q) = q[1]
           /\ 1 \in DOMAIN q
           /\ \A i \in DOMAIN Tail(q) : Tail(q)[i] = q[i + 1] /\ i + 1 \in DOMAIN q
    OBVIOUS

(* A reader takes the next line of its shell's output.                     *)
LEMMA ConsumeTyped ==
    ASSUME TypeOK, InvCalls, NEW c \in Calls, Reading(c), Output(c) # <<>>, Consume(c)
    PROVE  /\ shell' \in [Shells -> Processes] /\ OthersSame(handle[c])
           /\ handle[c] \in Shells /\ Output(c) \in Seq(Lines)
           /\ shell'[handle[c]].alive = shell[handle[c]].alive
           /\ shell'[handle[c]].input = shell[handle[c]].input
           /\ shell'[handle[c]].running = shell[handle[c]].running
           /\ shell'[handle[c]].output = Tail(Output(c))
           /\ \A s \in Shells : Len(shell'[s].output) <= PipeLines
    <1>1. handle[c] \in Shells
        BY DEF TypeOK, Reading
    <1>2. Output(c) \in Seq(Lines) /\ Len(Output(c)) <= PipeLines
        BY <1>1 DEF TypeOK, Processes, Output
    <1>3. Tail(Output(c)) \in Seq(Lines) /\ Len(Tail(Output(c))) <= PipeLines
        BY <1>2, TailLen
    <1>4. shell' = [shell EXCEPT ![handle[c]].output = Tail(Output(c))]
        BY DEF Consume, Output
    <1>5. /\ shell' \in [Shells -> Processes] /\ OthersSame(handle[c])
           /\ shell'[handle[c]].alive = shell[handle[c]].alive
           /\ shell'[handle[c]].input = shell[handle[c]].input
           /\ shell'[handle[c]].running = shell[handle[c]].running
           /\ shell'[handle[c]].output = Tail(Output(c))
        BY <1>1, <1>3, <1>4, SetOutput DEF TypeOK
    <1>6. \A s \in Shells : Len(shell'[s].output) <= PipeLines
        BY <1>3, <1>5 DEF TypeOK, OthersSame
    <1> QED  BY <1>1, <1>2, <1>5, <1>6

(* A line is kept behind the others, or thrown away because they are many. *)
LEMMA Collected ==
    ASSUME Inv, NEW c \in Calls, CollectLine(c)
    PROVE  /\ \A d \in Calls \ {c} : collected'[d] = collected[d] /\ (d \in capped' <=> d \in capped)
           /\ collected' \in [Calls -> Seq(Lines)] /\ capped' \subseteq Calls
           /\ \/ /\ collected'[c] = Append(collected[c], Head(Output(c)))
                 /\ Len(collected[c]) < CollectCap /\ capped' = capped
              \/ /\ collected' = collected /\ c \in capped'
                 /\ Len(collected[c]) >= CollectCap
    <1>1. Output(c) # <<>> /\ Output(c) \in Seq(Lines)
        BY ConsumeTyped DEF CollectLine, Inv
    <1>2. PICK line \in Lines : line = Head(Output(c))
        BY <1>1
    <1>3. collected \in [Calls -> Seq(Lines)] /\ capped \subseteq Calls
        BY DEF Inv, TypeOK
    <1>4. CASE /\ Len(collected[c]) < CollectCap
               /\ collected' = [collected EXCEPT ![c] = Append(@, Head(Output(c)))]
               /\ UNCHANGED capped
        <2>1. Append(collected[c], line) \in Seq(Lines)
            BY <1>2, <1>3, AppendDomain
        <2>2. PICK longer \in Seq(Lines) : longer = Append(collected[c], line)
            BY <2>1
        <2>3. collected' = [collected EXCEPT ![c] = longer]
            BY <1>2, <1>4, <2>2
        <2>4. collected' \in [Calls -> Seq(Lines)] /\ collected'[c] = longer
            BY <1>3, <2>3
        <2> QED  BY <1>2, <1>3, <1>4, <2>2, <2>3, <2>4
    <1>5. CASE ~(Len(collected[c]) < CollectCap) /\ capped' = capped \cup {c} /\ UNCHANGED collected
        <2>1. Len(collected[c]) \in Nat
            BY <1>3
        <2> QED  BY <1>3, <1>5, <2>1
    <1> QED  BY <1>4, <1>5 DEF CollectLine

LEMMA CollectLineInv == ASSUME Inv, NEW c \in Calls, CollectLine(c) PROVE Inv'
    <1> USE DEF Inv
    <1> PICK s : s = handle[c]
        OBVIOUS
    <1> DEFINE q == Output(c)
    <1>1. /\ shell' \in [Shells -> Processes] /\ OthersSame(s) /\ s \in Shells
          /\ q \in Seq(Lines) /\ q # <<>>
          /\ shell'[s].alive = shell[s].alive /\ shell'[s].input = shell[s].input
          /\ shell'[s].running = shell[s].running /\ shell'[s].output = Tail(q)
          /\ \A t \in Shells : Len(shell'[t].output) <= PipeLines
        BY ConsumeTyped DEF CollectLine
    <1>2. Head(q) \in Lines
        BY <1>1
    <1>3. UNCHANGED <<registry, spawned, pc, handle, result, printed, abandoned, timedOut>>
        BY DEF CollectLine, history
    <1>4. TypeOK'
        BY <1>1, <1>3, Collected DEF TypeOK
    <1>5. /\ Reading(c)
          /\ \A d \in Calls : /\ Reading(d)' = Reading(d) /\ Holds(d)' = Holds(d)
                              /\ d # c => collected'[d] = collected[d]
        BY <1>3, Collected DEF CollectLine, Reading, Holds, Writing
    <1>6. InvCalls'
        <2>1. \A d \in Calls : Len(collected[d]) \in Nat
            BY DEF TypeOK
        <2>2. \A d \in Calls : Len(collected[d]) <= CollectCap
            BY DEF InvCalls
        <2>3. /\ Len(collected'[c]) <= CollectCap
              /\ c \in capped' => Len(collected'[c]) = CollectCap
            <3>1. CASE /\ collected'[c] = Append(collected[c], Head(q))
                       /\ Len(collected[c]) < CollectCap /\ capped' = capped
                <4>1. Len(collected'[c]) = Len(collected[c]) + 1
                    <5>1. collected[c] \in Seq(Lines)
                        BY DEF TypeOK
                    <5> QED  BY <1>2, <3>1, <5>1, AppendDomain
                <4>2. c \notin capped
                    BY <3>1, <2>1 DEF InvCalls
                <4> QED  BY <2>1, <3>1, <4>1, <4>2
            <3>2. CASE collected' = collected /\ Len(collected[c]) >= CollectCap
                BY <2>1, <2>2, <3>2
            <3> QED  BY <3>1, <3>2, Collected
        <2>4. \A d \in Calls : /\ Len(collected'[d]) <= CollectCap
                               /\ d \in capped' => Len(collected'[d]) = CollectCap
            BY <2>3, Collected DEF InvCalls
        <2>5. \A d \in Calls : /\ handle'[d] \in 1..spawned' \cup {NoShell}
                               /\ pc'[d] \notin {"read", "done"} => collected'[d] = <<>>
            BY <1>3, <1>5 DEF InvCalls, Reading
        <2> QED  BY <1>3, <2>4, <2>5 DEF InvCalls, RegisteredIsFresh
    <1>7. ASSUME NEW t \in (1..spawned) \ abandoned
          PROVE  /\ (Open(t) /\ ~ReadBy(t))' => Clean(t)'
                 /\ \A d \in Calls : Reading(d) /\ handle[d] = t =>
                        Serves(t, d)' /\ Expected(d, collected'[d])
        <2>1. t \in Shells /\ ReadBy(t)' = ReadBy(t)
            BY <1>3, <1>7 DEF TypeOK, ReadBy, Reading
        <2>2. CASE t = s
            <3>1. Serves(s, c) /\ Expected(c, collected[c])
                BY <1>5, <1>7, <2>2, ReaderIsServed
            <3>2. q[1] = Head(q) /\ 1 \in DOMAIN q /\ (Head(q).of = c \/ Head(q).kind = "job")
                <4>1. Head(q) = q[1] /\ 1 \in DOMAIN q
                    BY <1>1, TailLen
                <4>2. q[1].of = c \/ q[1].kind = "job"
                    BY <3>1, <4>1 DEF Serves, Output
                <4> QED  BY <4>1, <4>2
            <3>3. Expected(c, collected'[c])
                <4>1. CASE collected'[c] = Append(collected[c], Head(q))
                    <5>1. collected[c] \in Seq(Lines)
                        BY DEF TypeOK
                    <5>2. \A i \in DOMAIN collected'[c] :
                              \/ i \in DOMAIN collected[c] /\ collected'[c][i] = collected[c][i]
                              \/ collected'[c][i] = Head(q)
                        BY <1>2, <4>1, <5>1, AppendDomain
                    <5> QED  BY <3>1, <3>2, <5>2 DEF Expected
                <4>2. CASE collected' = collected
                    BY <3>1, <4>2 DEF Expected
                <4> QED  BY <4>1, <4>2, Collected
            <3>4. Serves(s, c)'
                <4> DEFINE p == Tail(q)
                <4>0. \A i \in DOMAIN p : p[i] = q[i + 1] /\ i + 1 \in DOMAIN q /\ i \in Nat
                    BY <1>1, TailLen
                <4>1. ASSUME NEW i \in DOMAIN p
                      PROVE  /\ p[i].of = c \/ p[i].kind = "job"
                             /\ p[i].kind = "marker" =>
                                   /\ shell[s].running = NoCall /\ shell[s].input = <<>>
                                   /\ \A j \in DOMAIN p : j > i => p[j].kind = "job"
                    <5>1. /\ q[i + 1].of = c \/ q[i + 1].kind = "job"
                          /\ q[i + 1].kind = "marker" =>
                                /\ shell[s].running = NoCall /\ shell[s].input = <<>>
                                /\ \A j \in DOMAIN q : j > i + 1 => q[j].kind = "job"
                        BY <3>1, <4>0 DEF Serves, Output
                    <5>2. \A j \in DOMAIN p : j > i => j + 1 > i + 1
                        BY <4>0
                    <5> QED  BY <4>0, <5>1, <5>2
                <4>2. shell[s].input # <<>> =>
                            shell[s].input = <<c>> /\ shell[s].running = NoCall /\ Jobs(p)
                    BY <3>1, <4>0 DEF Serves, Jobs, Output
                <4>3. shell'[s].output = p
                    BY <1>1
                <4>4. /\ shell'[s].running = shell[s].running /\ shell'[s].input = shell[s].input
                      /\ shell[s].running \in {c, NoCall}
                    BY <1>1, <3>1 DEF Serves
                <4> HIDE DEF p
                <4> QED  BY <4>1, <4>2, <4>3, <4>4 DEF Serves, Jobs
            <3>5. \A d \in Calls : Reading(d) /\ handle[d] = s => d = c
                BY <1>5 DEF InvShells, Holds
            <3>6. ReadBy(s)
                BY <1>5 DEF ReadBy
            <3> QED  BY <2>1, <2>2, <3>3, <3>4, <3>5, <3>6
        <2>3. CASE t # s
            <3>1. shell'[t] = shell[t]
                BY <1>1, <2>1, <2>3 DEF OthersSame
            <3>2. (Open(t) /\ ~ReadBy(t))' => Clean(t)'
                BY <1>7, <2>1, <3>1 DEF InvShells, Clean, Open
            <3>3. ASSUME NEW d \in Calls, Reading(d), handle[d] = t
                  PROVE  Serves(t, d)' /\ Expected(d, collected'[d])
                BY <1>5, <1>7, <2>3, <3>1, <3>3 DEF InvShells, Serves
            <3> QED  BY <3>2, <3>3
        <2> QED  BY <2>2, <2>3
    <1>8. InvShells'
        BY <1>3, <1>5, <1>7 DEF InvShells, Expected
    <1> QED  BY <1>4, <1>6, <1>8

LEMMA CollectMarkerInv == ASSUME Inv, NEW c \in Calls, CollectMarker(c) PROVE Inv'
    <1> USE DEF Inv
    <1> PICK s : s = handle[c]
        OBVIOUS
    <1> DEFINE q == Output(c)
    <1>1. /\ shell' \in [Shells -> Processes] /\ OthersSame(s) /\ s \in Shells
          /\ q \in Seq(Lines) /\ q # <<>>
          /\ shell'[s].alive = shell[s].alive /\ shell'[s].input = shell[s].input
          /\ shell'[s].running = shell[s].running /\ shell'[s].output = Tail(q)
          /\ \A t \in Shells : Len(shell'[t].output) <= PipeLines
        BY ConsumeTyped DEF CollectMarker
    <1>2. /\ UNCHANGED <<registry, spawned, reading, printed, abandoned, timedOut>>
          /\ UNCHANGED collected /\ Reading(c)
        BY DEF CollectMarker, history, reading
    <1>3. TypeOK' /\ InvCalls'
        BY <1>1, <1>2, EndKeepsCalls DEF CollectMarker, Results, InvCalls
    <1>4. /\ \A d \in Calls : Reading(d)' => d # c /\ Reading(d) /\ handle'[d] = handle[d]
          /\ \A d, e \in Calls : Holds(d)' /\ Holds(e)' /\ handle'[d] = handle'[e] => d = e
          /\ \A t \in Shells \ {s} : ReadBy(t) => ReadBy(t)'
        BY EndUnlocks DEF CollectMarker
    <1>5. ASSUME NEW t \in (1..spawned) \ abandoned
          PROVE  \/ shell'[t] = shell[t] /\ (ReadBy(t) => ReadBy(t)')
                 \/ Clean(t)' /\ ~ReadBy(t)'
        <2>1. t \in Shells
            BY <1>5 DEF TypeOK
        <2>2. CASE t = s
            <3>1. Serves(s, c)
                BY <1>2, <1>5, <2>2, ReaderIsServed
            <3>2. q[1] = Marker(c) /\ 1 \in DOMAIN q
                BY <1>1, TailLen DEF CollectMarker, IsOwnMarker
            <3>3. /\ shell[s].input = <<>> /\ shell[s].running = NoCall
                  /\ \A j \in DOMAIN q : j > 1 => q[j].kind = "job"
                <4>1. q[1].kind = "marker"
                    BY <3>2 DEF Marker
                <4> QED  BY <3>1, <3>2, <4>1 DEF Serves, Output
            <3>4. Jobs(Tail(q))
                <4>1. \A i \in DOMAIN Tail(q) : Tail(q)[i] = q[i + 1] /\ i + 1 \in DOMAIN q /\ i + 1 > 1
                    BY <1>1, TailLen
                <4> QED  BY <3>3, <4>1 DEF Jobs
            <3>5. Clean(s)'
                BY <1>1, <3>3, <3>4 DEF Clean, Jobs
            <3>6. ~ReadBy(s)'
                BY <1>2, <1>4 DEF InvShells, ReadBy, Holds
            <3> QED  BY <2>2, <3>5, <3>6
        <2>3. CASE t # s
            BY <1>1, <1>4, <2>1, <2>3 DEF OthersSame
        <2> QED  BY <2>2, <2>3
    <1>6. InvShells'
        BY <1>2, <1>4, <1>5, ReadersLeave
    <1> QED  BY <1>3, <1>6

LEMMA TimeoutInv == ASSUME Inv, NEW c \in Calls, Timeout(c) PROVE Inv'
    <1> USE DEF Inv, Timeout
    <1>1. handle[c] \in 1..spawned
        BY DEF TypeOK, InvCalls, Reading
    <1>2. TypeOK' /\ InvCalls'
        BY <1>1, EndKeepsCalls DEF Results, TypeOK, InvCalls, Evicted
    <1>3. \A s \in Shells \ {handle[c]} : ReadBy(s) => ReadBy(s)'
        BY EndUnlocks
    <1>4. InvShells'
        BY <1>3, EndUnlocks, ReadersLeave DEF TypeOK, reading
    <1> QED  BY <1>2, <1>4

LEMMA EndOfFileInv == ASSUME Inv, NEW c \in Calls, EndOfFile(c) PROVE Inv'
    <1> USE DEF Inv, EndOfFile
    <1>1. TypeOK' /\ InvCalls'
        BY EndKeepsCalls DEF Results, TypeOK, InvCalls, Evicted, history
    <1>2. \A s \in Shells : ReadBy(s) => ReadBy(s)' \/ ~Open(s)
        BY EndUnlocks
    <1>3. InvShells'
        BY <1>2, EndUnlocks, ReadersLeave DEF TypeOK, history, reading
    <1> QED  BY <1>1, <1>3

LEMMA DropInv == ASSUME Inv, NEW c \in Calls, Drop(c) PROVE Inv'
    <1> USE DEF Inv
    <1>0. /\ End(c, "dropped") /\ UNCHANGED <<registry, spawned, reading, printed, timedOut>>
          /\ UNCHANGED collected
        BY DEF Drop, reading
    <1>1. CASE UNCHANGED shell /\ (Reading(c) => handle[c] \in abandoned') /\ abandoned \subseteq abandoned'
        <2>1. TypeOK' /\ InvCalls'
            BY <1>0, <1>1, EndKeepsCalls DEF Results, TypeOK, InvCalls
        <2>2. \A s \in Shells \ abandoned' : ReadBy(s) => ReadBy(s)'
            BY <1>0, <1>1, EndUnlocks
        <2>3. InvShells'
            BY <1>0, <1>1, <2>2, EndUnlocks, ReadersLeave DEF TypeOK
        <2> QED  BY <2>1, <2>3
    <1>2. CASE /\ Writing(c) /\ abandoned' = abandoned \cup {handle[c]}
               /\ shell' = [shell EXCEPT ![handle[c]].input = Append(@, c)]
        <2>0. handle[c] \in Shells
            BY <1>2 DEF TypeOK, Writing
        <2> PICK s \in Shells : s = handle[c]
            BY <2>0
        <2>1. /\ shell' \in [Shells -> Processes] /\ OthersSame(s)
              /\ \A t \in Shells : Len(shell'[t].output) <= PipeLines
            BY <1>2, FedTyped
        <2>2. TypeOK' /\ InvCalls'
            BY <1>0, <2>1, EndKeepsCalls DEF Results, InvCalls
        <2>3. \A t \in Shells : ReadBy(t) => ReadBy(t)' \/ t = s
            BY <1>0, EndUnlocks
        <2>4. \A t \in (1..spawned) \ abandoned' : t \in Shells /\ t # s /\ t \notin abandoned
            BY <1>2 DEF TypeOK
        <2>5. InvShells'
            BY <1>0, <2>1, <2>3, <2>4, EndUnlocks, ReadersLeave DEF OthersSame
        <2> QED  BY <2>2, <2>5
    <1> QED  BY <1>1, <1>2 DEF Drop

-----------------------------------------------------------------------------
(* The steps of the sh process.                                            *)

(* A step of a process alone keeps what is known of the calls.             *)
LEMMA ProcessKeepsCalls ==
    ASSUME TypeOK, InvCalls, NEW s \in Shells,
           shell' \in [Shells -> Processes], OthersSame(s), Len(shell'[s].output) <= PipeLines,
           printed' \in [Calls -> 0..Beyond],
           UNCHANGED <<registry, spawned, pc, handle, reading, result, timedOut>>
    PROVE  TypeOK' /\ InvCalls'
    <1> USE DEF reading
    <1>1. \A t \in Shells : Len(shell'[t].output) <= PipeLines
        BY DEF TypeOK, OthersSame
    <1>2. TypeOK'
        BY <1>1 DEF TypeOK
    <1>3. InvCalls'
        BY DEF InvCalls, RegisteredIsFresh
    <1> QED  BY <1>2, <1>3

LEMMA ProcessTyped ==
    ASSUME TypeOK, NEW s \in Shells
    PROVE  /\ shell[s].input \in Seq(Calls) /\ shell[s].output \in Seq(Lines)
           /\ shell[s].running \in Calls \cup {NoCall} /\ Len(shell[s].output) <= PipeLines
           /\ shell[s].jobs \in SUBSET Calls /\ shell[s].alive \in BOOLEAN
    BY DEF TypeOK, Processes

LEMMA StartInv == ASSUME Inv, NEW s \in Shells, Start(s) PROVE Inv'
    <1> USE DEF Inv
    <1> DEFINE first == Head(shell[s].input)
               rest  == Tail(shell[s].input)
    <1>1. /\ shell[s].running = NoCall /\ shell[s].input # <<>> /\ shell[s].input \in Seq(Calls)
          /\ shell[s].alive
        BY ProcessTyped DEF Start, Running
    <1>2. first \in Calls /\ rest \in Seq(Calls)
        BY <1>1
    <1>3. shell' = [shell EXCEPT ![s].running = first, ![s].input = rest]
        BY DEF Start
    <1>4. /\ shell' \in [Shells -> Processes] /\ OthersSame(s)
          /\ shell'[s].alive = shell[s].alive /\ shell'[s].input = rest
          /\ shell'[s].running = first /\ shell'[s].output = shell[s].output
        BY <1>2, <1>3, SetCommand DEF TypeOK
    <1>5. /\ UNCHANGED <<registry, spawned, pc, handle, reading, result, abandoned, timedOut>>
          /\ UNCHANGED collected /\ UNCHANGED printed
        BY DEF Start, history, reading
    <1>6. TypeOK' /\ InvCalls'
        BY <1>4, <1>5, ProcessTyped, ProcessKeepsCalls DEF TypeOK
    <1>7. ASSUME NEW c \in Calls, Serves(s, c) PROVE Serves(s, c)'
        <2>1. shell[s].input = <<c>> /\ \A i \in DOMAIN shell[s].output : shell[s].output[i].kind = "job"
            BY <1>1, <1>7 DEF Serves, Jobs
        <2>2. first = c /\ rest = <<>>
            BY <2>1
        <2> QED  BY <1>4, <2>1, <2>2 DEF Serves
    <1>8. ~Clean(s) /\ Open(s)
        BY <1>1 DEF Clean, Open
    <1>9. InvShells'
        BY <1>4, <1>5, <1>7, <1>8, ProcessMoves DEF TypeOK
    <1> QED  BY <1>6, <1>9

LEMMA WritesTyped ==
    ASSUME TypeOK, NEW s \in Shells, NEW line \in Lines, NEW next \in Calls \cup {NoCall},
           Writes(s, line, next)
    PROVE  /\ shell' \in [Shells -> Processes] /\ OthersSame(s)
           /\ shell'[s].alive = shell[s].alive /\ shell'[s].input = shell[s].input
           /\ shell'[s].running = next
           /\ shell'[s].output = Append(shell[s].output, line)
           /\ UNCHANGED <<pc, handle, reading, result>>
    <1>1. shell[s].output \in Seq(Lines) /\ shell \in [Shells -> Processes]
        BY ProcessTyped DEF TypeOK
    <1>2. Append(shell[s].output, line) \in Seq(Lines)
        BY <1>1, AppendDomain
    <1> DEFINE out == Append(shell[s].output, line)
    <1>3. shell' = [shell EXCEPT ![s].output = out, ![s].running = next]
        BY DEF Writes
    <1>4. out \in Seq(Lines)
        BY <1>2
    <1> HIDE DEF out
    <1>5. /\ shell' \in [Shells -> Processes] /\ OthersSame(s)
          /\ shell'[s].alive = shell[s].alive /\ shell'[s].input = shell[s].input
          /\ shell'[s].running = next /\ shell'[s].output = out
        <2>1. shell' = [shell EXCEPT ![s] = [shell[s] EXCEPT !.output = out, !.running = next]]
            BY <1>1, <1>3
        <2>2. shell[s] \in Processes
            BY <1>1
        <2>3. PICK p : p = [shell[s] EXCEPT !.output = out, !.running = next]
            OBVIOUS
        <2>4. /\ p \in Processes /\ p.alive = shell[s].alive /\ p.input = shell[s].input
              /\ p.running = next /\ p.output = out
            BY <1>4, <2>2, <2>3 DEF Processes
        <2> QED  BY <1>1, <2>1, <2>3, <2>4 DEF OthersSame
    <1>6. UNCHANGED <<pc, handle, reading, result>>
        BY DEF Writes
    <1> QED  BY <1>5, <1>6 DEF out

(* A job prints, or a command writes a line and is over if it is its marker. *)
LEMMA WritesInv ==
    ASSUME Inv, NEW s \in Shells, NEW line \in Lines, NEW next \in Calls \cup {NoCall},
           Writes(s, line, next), printed' \in [Calls -> 0..Beyond],
           \/ line.kind = "job" /\ next = shell[s].running
           \/ /\ shell[s].running # NoCall /\ line.of = shell[s].running
              /\ line.kind # "job" /\ next \in {shell[s].running, NoCall}
              /\ line.kind = "marker" => next = NoCall
    PROVE  Inv'
    <1> USE DEF Inv
    <1> DEFINE old == shell[s].output
               out == Append(shell[s].output, line)
    <1>1. /\ Len(old) < PipeLines /\ old \in Seq(Lines)
          /\ shell[s].running \in Calls \cup {NoCall}
        BY ProcessTyped DEF Writes
    <1>2. /\ out \in Seq(Lines) /\ Len(out) = Len(old) + 1 /\ Len(out) <= PipeLines
          /\ out[Len(old) + 1] = line
          /\ \A i \in DOMAIN out : i \in Nat /\ i <= Len(old) + 1
                /\ (i # Len(old) + 1 => i \in DOMAIN old /\ out[i] = old[i])
        <2>1. Len(old) + 1 <= PipeLines
            BY <1>1, ShellAssumption
        <2>2. \A i \in DOMAIN out : i # Len(old) + 1 => i \in DOMAIN old /\ out[i] = old[i]
            BY <1>1, AppendDomain
        <2>3. DOMAIN out = 1 .. (Len(old) + 1) /\ Len(out) = Len(old) + 1 /\ Len(old) \in Nat
            BY <1>1
        <2>4. out \in Seq(Lines) /\ out[Len(old) + 1] = line
            BY <1>1
        <2> HIDE DEF out, old
        <2> QED  BY <2>1, <2>2, <2>3, <2>4
    <1>5. /\ shell' \in [Shells -> Processes] /\ OthersSame(s)
          /\ shell'[s].alive = shell[s].alive /\ shell'[s].input = shell[s].input
          /\ shell'[s].running = next /\ shell'[s].output = out
        BY WritesTyped
    <1>50. /\ UNCHANGED <<registry, spawned, pc, handle, reading, result, abandoned, timedOut>>
           /\ UNCHANGED collected
        BY DEF Writes, reading
    <1>6. TypeOK' /\ InvCalls'
        BY <1>2, <1>5, <1>50, ProcessKeepsCalls
    <1> HIDE DEF old, out
    <1>7. ASSUME NEW c \in Calls, Serves(s, c) PROVE Serves(s, c)'
        <2>0. /\ shell[s].running \in {c, NoCall}
              /\ shell[s].input # <<>> =>
                    shell[s].input = <<c>> /\ shell[s].running = NoCall /\ Jobs(old)
              /\ \A i \in DOMAIN old :
                    /\ old[i].of = c \/ old[i].kind = "job"
                    /\ old[i].kind = "marker" =>
                          /\ shell[s].running = NoCall /\ shell[s].input = <<>>
                          /\ \A j \in DOMAIN old : j > i => old[j].kind = "job"
            BY <1>7 DEF Serves, old
        <2>1. /\ line.of = c \/ line.kind = "job"
              /\ shell[s].running = NoCall => next = NoCall /\ line.kind = "job"
              /\ next \in {c, NoCall}
            BY <2>0
        <2>2. ASSUME NEW i \in DOMAIN out
              PROVE  /\ out[i].of = c \/ out[i].kind = "job"
                     /\ out[i].kind = "marker" =>
                           /\ next = NoCall /\ shell[s].input = <<>>
                           /\ \A j \in DOMAIN out : j > i => out[j].kind = "job"
            <3>1. CASE i = Len(old) + 1
                <4>1. \A j \in DOMAIN out : ~(j > i)
                    BY <1>2, <3>1
                <4>2. line.kind = "marker" => next = NoCall /\ shell[s].input = <<>>
                    BY <2>0
                <4> QED  BY <1>2, <2>1, <3>1, <4>1, <4>2
            <3>2. CASE i # Len(old) + 1
                <4>1. out[i] = old[i] /\ i \in DOMAIN old
                    BY <1>2, <3>2
                <4>2. ASSUME out[i].kind = "marker", NEW j \in DOMAIN out, j > i
                      PROVE  out[j].kind = "job"
                    BY <1>2, <2>0, <2>1, <4>1, <4>2
                <4> QED  BY <2>0, <2>1, <4>1, <4>2
            <3> QED  BY <3>1, <3>2
        <2>3. shell[s].input # <<>> =>
                shell[s].input = <<c>> /\ next = NoCall /\ Jobs(out)
            BY <1>2, <2>0, <2>1 DEF Jobs
        <2> QED  BY <1>5, <2>1, <2>2, <2>3 DEF Serves, Jobs
    <1>8. Clean(s) => Clean(s)'
        <2> SUFFICES ASSUME Clean(s) PROVE Clean(s)'
            OBVIOUS
        <2>1. shell[s].input = <<>> /\ shell[s].running = NoCall /\ Jobs(old)
            BY DEF Clean, old
        <2>2. next = NoCall /\ line.kind = "job"
            BY <2>1
        <2>3. Jobs(out)
            BY <1>2, <2>1, <2>2 DEF Jobs
        <2> QED  BY <1>5, <2>1, <2>2, <2>3 DEF Clean, Jobs
    <1>9. Open(s)' => Open(s)
        BY <1>5 DEF Open
    <1>10. InvShells'
        BY <1>5, <1>50, <1>7, <1>8, <1>9, ProcessMoves DEF TypeOK
    <1> QED  BY <1>6, <1>10

LEMMA Counted ==
    ASSUME TypeOK, NEW c \in Calls
    PROVE  /\ Another(c) \in 0..Beyond /\ printed[c] \in 0..Beyond /\ Beyond \in Nat
           /\ [printed EXCEPT ![c] = Another(c)] \in [Calls -> 0..Beyond]
           /\ \A n \in 1..Another(c) : n \in 1..printed[c] \/ n = Another(c)
    <1>1. Beyond \in Nat /\ printed \in [Calls -> 0..Beyond]
        BY DEF TypeOK, Beyond
    <1>2. printed[c] \in 0..Beyond
        BY <1>1
    <1>3. Another(c) \in 0..Beyond /\ \A n \in 1..Another(c) : n \in 1..printed[c] \/ n = Another(c)
        BY <1>1, <1>2 DEF Another
    <1> QED  BY <1>1, <1>2, <1>3

LEMMA LinesOf ==
    ASSUME NEW c \in Calls, NEW n \in 0..Beyond
    PROVE  /\ Text(c, n) \in Lines /\ Text(c, n).of = c /\ Text(c, n).kind = "text"
           /\ Marker(c) \in Lines /\ Marker(c).of = c /\ Marker(c).kind = "marker"
           /\ JobLine(c) \in Lines /\ JobLine(c).of = c /\ JobLine(c).kind = "job"
    BY DEF Text, Marker, JobLine, Lines, Beyond

LEMMA WriteLineInv == ASSUME Inv, NEW s \in Shells, WriteLine(s) PROVE Inv'
    <1> DEFINE c == shell[s].running
    <1>1. c \in Calls /\ c # NoCall
        BY ProcessTyped DEF WriteLine, Inv
    <1>2. /\ Writes(s, Text(c, Another(c)), c)
          /\ printed' = [printed EXCEPT ![c] = Another(c)]
        BY DEF WriteLine
    <1>3. Another(c) \in 0..Beyond /\ printed' \in [Calls -> 0..Beyond]
        BY <1>1, <1>2, Counted DEF Inv
    <1>4. /\ Text(c, Another(c)) \in Lines /\ Text(c, Another(c)).of = c
          /\ Text(c, Another(c)).kind = "text"
        BY <1>1, <1>3, LinesOf
    <1> QED  BY <1>1, <1>2, <1>3, <1>4, WritesInv

LEMMA FinishInv == ASSUME Inv, NEW s \in Shells, Finish(s) PROVE Inv'
    <1> DEFINE c == shell[s].running
    <1>1. c \in Calls /\ c # NoCall
        BY ProcessTyped DEF Finish, Inv
    <1>2. /\ Another(c) \in 0..Beyond /\ printed \in [Calls -> 0..Beyond]
          /\ [printed EXCEPT ![c] = Another(c)] \in [Calls -> 0..Beyond]
        BY <1>1, Counted DEF Inv, TypeOK
    <1>3. /\ Text(c, Another(c)) \in Lines /\ Text(c, Another(c)).of = c
          /\ Text(c, Another(c)).kind = "text"
          /\ Marker(c) \in Lines /\ Marker(c).of = c /\ Marker(c).kind = "marker"
        BY <1>1, <1>2, LinesOf
    <1>4. CASE Writes(s, Marker(c), NoCall) /\ UNCHANGED printed
        BY <1>1, <1>2, <1>3, <1>4, WritesInv
    <1>5. CASE /\ Writes(s, Text(c, Another(c)), NoCall)
               /\ printed' = [printed EXCEPT ![c] = Another(c)]
        BY <1>1, <1>2, <1>3, <1>5, WritesInv
    <1> QED  BY <1>4, <1>5 DEF Finish

LEMMA JobPrintsInv == ASSUME Inv, NEW s \in Shells, JobPrints(s) PROVE Inv'
    <1>1. PICK c \in Calls : Writes(s, JobLine(c), shell[s].running)
        BY ProcessTyped DEF JobPrints, Inv
    <1>2. /\ shell[s].running \in Calls \cup {NoCall}
          /\ printed' \in [Calls -> 0..Beyond] /\ 0 \in 0..Beyond
        BY ProcessTyped DEF JobPrints, Inv, TypeOK, Beyond
    <1>3. JobLine(c) \in Lines /\ JobLine(c).kind = "job"
        BY <1>2, LinesOf
    <1> QED  BY <1>1, <1>2, <1>3, WritesInv

(* Which jobs there are is no matter of the invariant's.                    *)
LEMMA JobsInv ==
    ASSUME Inv, NEW s \in Shells, NEW x \in SUBSET Calls, shell' = [shell EXCEPT ![s].jobs = x],
           UNCHANGED <<registry, spawned, pc, handle, reading, result, history>>
    PROVE  Inv'
    <1> USE DEF Inv
    <1>1. /\ shell' \in [Shells -> Processes] /\ OthersSame(s)
          /\ shell'[s].alive = shell[s].alive /\ shell'[s].input = shell[s].input
          /\ shell'[s].running = shell[s].running /\ shell'[s].output = shell[s].output
        BY SetJobs DEF TypeOK
    <1>2. UNCHANGED <<printed, abandoned, timedOut, collected>>
        BY DEF history, reading
    <1>3. TypeOK' /\ InvCalls'
        BY <1>1, <1>2, ProcessTyped, ProcessKeepsCalls DEF TypeOK
    <1>4. /\ \A c \in Calls : Serves(s, c) => Serves(s, c)'
          /\ Clean(s) => Clean(s)'
          /\ Open(s)' => Open(s)
        BY <1>1 DEF Serves, Clean, Open, Jobs
    <1> QED  BY <1>1, <1>2, <1>3, <1>4, ProcessMoves DEF TypeOK

LEMMA LeaveJobInv == ASSUME Inv, NEW s \in Shells, LeaveJob(s) PROVE Inv'
    <1>1. PICK x \in SUBSET Calls : x = shell[s].jobs \cup {shell[s].running}
        BY ProcessTyped DEF LeaveJob, Inv
    <1>2. shell' = [shell EXCEPT ![s].jobs = x]
        BY <1>1 DEF LeaveJob
    <1> QED  BY <1>2, JobsInv DEF LeaveJob

LEMMA JobEndsInv == ASSUME Inv, NEW s \in Shells, JobEnds(s) PROVE Inv'
    <1>1. PICK c \in shell[s].jobs : shell' = [shell EXCEPT ![s].jobs = @ \ {c}]
        BY DEF JobEnds
    <1>2. PICK x \in SUBSET Calls : x = shell[s].jobs \ {c}
        BY ProcessTyped DEF Inv
    <1>3. shell' = [shell EXCEPT ![s].jobs = x]
        BY <1>1, <1>2
    <1> QED  BY <1>3, JobsInv DEF JobEnds

LEMMA SwallowInv == ASSUME Inv, NEW s \in Shells, Swallow(s) PROVE Inv'
    <1> USE DEF Inv
    <1>1. /\ UNCHANGED <<registry, spawned, pc, handle, reading, result, abandoned, timedOut>>
          /\ UNCHANGED collected /\ printed' \in [Calls -> 0..Beyond]
        BY DEF Swallow, history, reading, TypeOK
    <1>2. shell[s].running # NoCall
        BY DEF Swallow
    <1>3. ~Clean(s) /\ Open(s)
        BY <1>2 DEF Clean, Open
    <1>4. CASE shell[s].input # <<>> /\ shell' = [shell EXCEPT ![s].input = <<>>]
        <2>1. <<>> \in Seq(Calls)
            OBVIOUS
        <2>2. /\ shell' \in [Shells -> Processes] /\ OthersSame(s)
              /\ shell'[s].alive = shell[s].alive /\ shell'[s].input = <<>>
              /\ shell'[s].running = shell[s].running /\ shell'[s].output = shell[s].output
            BY <1>4, <2>1, SetInput DEF TypeOK
        <2>3. \A c \in Calls : ~Serves(s, c)
            BY <1>2, <1>4 DEF Serves
        <2>4. TypeOK' /\ InvCalls'
            BY <1>1, <2>2, ProcessTyped, ProcessKeepsCalls
        <2> QED  BY <1>1, <1>3, <2>2, <2>3, <2>4, ProcessMoves DEF TypeOK
    <1>5. CASE shell' = [shell EXCEPT ![s].running = NoCall]
        <2>1. /\ shell' \in [Shells -> Processes] /\ OthersSame(s)
              /\ shell'[s].alive = shell[s].alive /\ shell'[s].input = shell[s].input
              /\ shell'[s].running = NoCall /\ shell'[s].output = shell[s].output
            BY <1>5, SetRunning DEF TypeOK
        <2>2. ASSUME NEW c \in Calls, Serves(s, c) PROVE Serves(s, c)'
            BY <1>2, <2>1, <2>2 DEF Serves
        <2>3. TypeOK' /\ InvCalls'
            BY <1>1, <2>1, ProcessTyped, ProcessKeepsCalls
        <2> QED  BY <1>1, <1>3, <2>1, <2>2, <2>3, ProcessMoves DEF TypeOK
    <1> QED  BY <1>4, <1>5 DEF Swallow

LEMMA DieInv == ASSUME Inv, NEW s \in Shells, Die(s) PROVE Inv'
    <1> USE DEF Inv
    <1>1. /\ UNCHANGED <<registry, spawned, pc, handle, reading, result, abandoned, timedOut>>
          /\ UNCHANGED collected /\ printed' \in [Calls -> 0..Beyond]
        BY DEF Die, history, reading, TypeOK
    <1>2. PICK next \in {shell[s].running, NoCall} :
              shell' = [shell EXCEPT ![s].alive = FALSE, ![s].running = next]
        BY DEF Die
    <1>3. next \in Calls \cup {NoCall}
        BY ProcessTyped
    <1>4. /\ shell' \in [Shells -> Processes] /\ OthersSame(s)
          /\ ~shell'[s].alive /\ shell'[s].input = shell[s].input
          /\ shell'[s].running = next /\ shell'[s].output = shell[s].output
        BY <1>2, <1>3, SetDead DEF TypeOK
    <1>5. TypeOK' /\ InvCalls'
        BY <1>1, <1>4, ProcessTyped, ProcessKeepsCalls
    <1>6. \A c \in Calls : Serves(s, c) => Serves(s, c)'
        BY <1>2, <1>4 DEF Serves, Jobs
    <1>7. (Clean(s) => Clean(s)') /\ (Open(s)' => Open(s))
        BY <1>2, <1>4 DEF Clean, Open, Jobs, Die, Running
    <1> QED  BY <1>1, <1>4, <1>5, <1>6, <1>7, ProcessMoves DEF TypeOK

-----------------------------------------------------------------------------
(* The eviction, and the system as a whole.                                *)

LEMMA UnregisterInv ==
    ASSUME Inv, registry' \in {registry, NoShell},
           UNCHANGED <<spawned, shell, pc, handle, reading, result, history>>
    PROVE  Inv'
    <1> USE DEF Inv, reading, history
    <1>1. TypeOK'
        BY DEF TypeOK
    <1>2. NoShell \notin timedOut
        <2>1. 1..spawned \subseteq Shells
            BY DEF TypeOK
        <2> QED  BY <2>1 DEF InvCalls
    <1>3. InvCalls'
        BY <1>2 DEF InvCalls, RegisteredIsFresh
    <1>4. InvShells'
        BY DEF InvShells, Holds, Writing, Reading, ReadBy, Open, Clean, Serves, Expected, Jobs
    <1> QED  BY <1>1, <1>3, <1>4

LEMMA NextInv == Inv /\ [Next]_vars => Inv'
    <1> SUFFICES ASSUME Inv, [Next]_vars PROVE Inv'
        OBVIOUS
    <1>1. CASE UNCHANGED vars
        BY <1>1, UnregisterInv DEF vars, reading, history
    <1>2. ASSUME NEW c \in Calls, CallStep(c) PROVE Inv'
        <2>1. CASE GetShell(c)
            BY <2>1, GetOrSpawnInv DEF GetShell
        <2>2. CASE GetAnother(c)
            BY <2>2, GetOrSpawnInv DEF GetAnother
        <2> QED  BY <1>2, <2>1, <2>2, SpawnFailsInv, LockInv, FeedInv, FeedFailsInv, CollectLineInv,
                    CollectMarkerInv, TimeoutInv, EndOfFileInv DEF CallStep
    <1>3. ASSUME NEW s \in Shells, ShellStep(s) PROVE Inv'
        BY <1>3, StartInv, WriteLineInv, FinishInv, SwallowInv, DieInv, JobPrintsInv, LeaveJobInv,
           JobEndsInv DEF ShellStep, Prints
    <1>4. CASE EvictSession
        BY <1>4, UnregisterInv DEF EvictSession
    <1> QED  BY <1>1, <1>2, <1>3, <1>4, DropInv DEF Next, Finished

(* Calls and shells are as Inv describes them at every moment: a shell has *)
(* at most one call that writes to it or reads it, and one nobody has      *)
(* abandoned is its reader's alone, or has nothing left in it but what     *)
(* background jobs print when the next call locks it.                      *)
THEOREM Invariance == Spec => []Inv
    BY InitInv, NextInv, PTL DEF Spec

(* A call on a shell no call was made to abandon reads its own output, and *)
(* besides it only what background jobs print, although it runs at the     *)
(* same time as others on the same process.                                *)
THEOREM OutputsKeptApart == Spec => []OutputIsOwn
    <1>1. Inv => OutputIsOwn
        <2> SUFFICES ASSUME Inv, NEW c \in Calls, Reading(c), handle[c] \notin abandoned
                     PROVE  Expected(c, collected[c]) /\ Expected(c, Output(c))
            BY DEF OutputIsOwn
        <2> QED  BY ReaderIsServed DEF Serves, Expected, Output
    <1> QED  BY <1>1, Invariance, PTL

(* The shell a new call is given is never one on which a call timed out:   *)
(* the timeout takes it out of the registry, and a number is spawned once. *)
THEOREM FreshAfterTimeout == Spec => []RegisteredIsFresh
    <1>1. Inv => RegisteredIsFresh
        BY DEF Inv, InvCalls
    <1> QED  BY <1>1, Invariance, PTL

-----------------------------------------------------------------------------
(* A command is fed once, and its output comes before its marker.           *)

(* Nothing is fed: what is pending was pending, and a marker that is new is *)
(* that of a command that is over.                                          *)
LEMMA OnceKept ==
    ASSUME InvOnce,
           \A s \in Shells : \A i, j \in DOMAIN shell'[s].input :
                shell'[s].input[i] = shell'[s].input[j] => i = j,
           \A s \in Shells, c \in Calls :
                /\ shell'[s].running = c => ~Waits(s, c)'
                /\ Pending(s, c)' => Pending(s, c),
           \A c \in Calls :
                /\ Marked(c)' =>
                        \/ Marked(c)
                        \/ pc[c] \in {"read", "done"} /\ \A s \in Shells : ~Pending(s, c)'
                /\ printed'[c] = printed[c] \/ pc[c] \in {"read", "done"}
                /\ pc[c] \in {"read", "done"} => pc'[c] \in {"read", "done"}
                /\ Reading(c)' => Reading(c) /\ handle'[c] = handle[c]
                /\ result'[c] = "exit" => result[c] = "exit" \/ Marked(c)
    PROVE  InvOnce'
    <1>1. ASSUME NEW s \in Shells, NEW c \in Calls, Pending(s, c)'
          PROVE  /\ pc'[c] \in {"read", "done"} /\ result'[c] # "exit" /\ ~Marked(c)'
                 /\ Reading(c)' => handle'[c] = s
                 /\ \A t \in Shells : Pending(t, c)' => s = t
        <2>1. Pending(s, c)
            BY <1>1
        <2>2. /\ pc[c] \in {"read", "done"} /\ result[c] # "exit" /\ ~Marked(c)
              /\ Reading(c) => handle[c] = s
              /\ \A t \in Shells : Pending(t, c) => s = t
            BY <2>1 DEF InvOnce
        <2> QED  BY <1>1, <2>2
    <1>2. \A c \in Calls : pc'[c] \notin {"read", "done"} => printed'[c] = 0 /\ ~Marked(c)'
        BY DEF InvOnce
    <1> QED  BY <1>1, <1>2 DEF InvOnce

(* What was in the reader's hands or ahead of it still is, or it was just   *)
(* printed.                                                                 *)
LEMMA ToldKept ==
    ASSUME InvTold, capped \subseteq capped',
           \A c \in Calls \ capped' : \A n \in 1..printed'[c] :
                \/ /\ n \in 1..printed[c]
                   /\ Kept(c, n) => Kept(c, n)'
                   /\ result'[c] = "exit" => result[c] = "exit" \/ Kept(c, n)'
                   /\ Reading(c)' => Reading(c) /\ (Ahead(c, n) => Ahead(c, n)' \/ Kept(c, n)')
                \/ result'[c] # "exit" /\ (Reading(c)' => Ahead(c, n)')
    PROVE  InvTold'
    <1> SUFFICES ASSUME NEW c \in Calls \ capped', NEW n \in 1..printed'[c]
                 PROVE  /\ result'[c] = "exit" => Kept(c, n)'
                        /\ Reading(c)' => Kept(c, n)' \/ Ahead(c, n)'
        BY DEF InvTold
    <1>1. c \in Calls \ capped
        OBVIOUS
    <1>2. n \in 1..printed[c] => /\ result[c] = "exit" => Kept(c, n)
                                 /\ Reading(c) => Kept(c, n) \/ Ahead(c, n)
        BY <1>1 DEF InvTold
    <1> QED  BY <1>2

(* The shells are left alone, or one nobody reads is replaced.              *)
LEMMA CallsLeave ==
    ASSUME InvOnce, InvTold, UNCHANGED <<printed, reading>>, handle \in [Calls -> Shells \cup {NoShell}],
           \A s \in Shells :
                \/ shell'[s] = shell[s]
                \/ /\ Clean(s)'
                   /\ \A i \in DOMAIN shell'[s].output : FALSE
                   /\ \A c \in Calls : Reading(c) => handle[c] # s,
           \A c \in Calls :
                /\ pc[c] \in {"read", "done"} => pc'[c] \in {"read", "done"}
                /\ Reading(c)' => Reading(c) /\ handle'[c] = handle[c] /\ handle[c] \in Shells
                /\ result'[c] = "exit" => result[c] = "exit"
    PROVE  InvOnce' /\ InvTold'
    <1>1. ASSUME NEW s \in Shells
          PROVE  /\ \A i, j \in DOMAIN shell'[s].input :
                        shell'[s].input[i] = shell'[s].input[j] => i = j
                 /\ \A c \in Calls :
                        /\ shell'[s].running = c => ~Waits(s, c)'
                        /\ Pending(s, c)' => Pending(s, c)
                 /\ \A i \in DOMAIN shell'[s].output :
                        i \in DOMAIN shell[s].output /\ shell'[s].output[i] = shell[s].output[i]
        <2>1. CASE shell'[s] = shell[s]
            BY <2>1 DEF InvOnce, Waits, Pending
        <2>2. CASE Clean(s)' /\ \A i \in DOMAIN shell'[s].output : FALSE
            <3>1. DOMAIN shell'[s].input = {} /\ DOMAIN shell'[s].output = {}
                BY <2>2 DEF Clean
            <3>2. shell'[s].running = NoCall
                BY <2>2 DEF Clean
            <3> QED  BY <3>1, <3>2 DEF Waits, Pending
        <2> QED  BY <2>1, <2>2
    <1>2. \A c \in Calls : Marked(c)' => Marked(c)
        BY <1>1 DEF Marked, Marker
    <1>3. InvOnce'
        <2>1. /\ \A s \in Shells : \A i, j \in DOMAIN shell'[s].input :
                    shell'[s].input[i] = shell'[s].input[j] => i = j
              /\ \A s \in Shells, c \in Calls :
                    /\ shell'[s].running = c => ~Waits(s, c)'
                    /\ Pending(s, c)' => Pending(s, c)
            BY <1>1
        <2>2. \A c \in Calls :
                /\ printed'[c] = printed[c]
                /\ pc[c] \in {"read", "done"} => pc'[c] \in {"read", "done"}
                /\ Reading(c)' => Reading(c) /\ handle'[c] = handle[c]
                /\ result'[c] = "exit" => result[c] = "exit" \/ Marked(c)
            OBVIOUS
        <2> QED  BY <2>1, <2>2, <1>2, OnceKept
    <1>4. \A c \in Calls, n \in Nat : Reading(c)' => (Ahead(c, n) => Ahead(c, n)')
        <2> SUFFICES ASSUME NEW c \in Calls, NEW n \in Nat, Reading(c)' PROVE Ahead(c, n) => Ahead(c, n)'
            OBVIOUS
        <2>1. Reading(c) /\ handle'[c] = handle[c] /\ handle[c] \in Shells
            OBVIOUS
        <2>2. shell'[handle[c]] = shell[handle[c]]
            BY <2>1
        <2> QED  BY <2>1, <2>2 DEF Ahead, Output, Text, Marker
    <1>5. \A c \in Calls, n \in Nat : Kept(c, n)' <=> Kept(c, n)
        BY DEF Kept, reading, Text
    <1>6. InvTold'
        BY <1>4, <1>5, ToldKept DEF reading
    <1> QED  BY <1>3, <1>6

(* A call ends without an exit status.                                      *)
LEMMA EndLeaves ==
    ASSUME Inv, InvOnce, InvTold, NEW c \in Calls, NEW outcome \in Results \ {"exit"},
           End(c, outcome), UNCHANGED <<shell, printed, reading>>
    PROVE  InvOnce' /\ InvTold'
    <1>1. ASSUME NEW d \in Calls
          PROVE  /\ pc[d] \in {"read", "done"} => pc'[d] \in {"read", "done"}
                 /\ Reading(d)' => Reading(d) /\ handle'[d] = handle[d] /\ handle[d] \in Shells
                 /\ result'[d] = "exit" => result[d] = "exit"
        BY DEF End, Inv, TypeOK, Reading
    <1>2. handle \in [Calls -> Shells \cup {NoShell}]
        BY DEF Inv, TypeOK
    <1> QED  BY <1>1, <1>2, CallsLeave

LEMMA GetOrSpawnOnce ==
    ASSUME Inv, InvOnce, InvTold, NEW c \in Calls, NEW from \in {"ready", "again"},
           NEW to \in {"wait", "waitAgain"}, GetOrSpawn(c, from, to)
    PROVE  InvOnce' /\ InvTold'
    <1>1. ASSUME NEW d \in Calls
          PROVE  /\ pc[d] \in {"read", "done"} => pc'[d] \in {"read", "done"}
                 /\ Reading(d)' => Reading(d) /\ handle'[d] = handle[d] /\ handle[d] \in Shells
                 /\ result'[d] = result[d]
        BY DEF GetOrSpawn, Inv, TypeOK, Reading
    <1>2. ASSUME NEW s \in Shells
          PROVE  \/ shell'[s] = shell[s]
                 \/ /\ Clean(s)'
                    /\ \A i \in DOMAIN shell'[s].output : FALSE
                    /\ \A d \in Calls : Reading(d) => handle[d] # s
        <2>1. CASE shell' = shell
            BY <2>1
        <2>2. CASE spawned' = spawned + 1 /\ shell' = [shell EXCEPT ![spawned'] = Fresh]
            <3>1. CASE s = spawned'
                <4>1. shell'[s] = Fresh
                    BY <2>2, <3>1 DEF Inv, TypeOK
                <4>2. s \notin 1..spawned /\ s # NoShell
                    BY <2>2, <3>1 DEF Inv, TypeOK
                <4>3. \A d \in Calls : handle[d] # s
                    BY <4>2 DEF Inv, InvCalls
                <4>4. DOMAIN shell'[s].output = {}
                    <5>1. shell'[s].output = <<>>
                        BY <4>1, FreshIsClean
                    <5> QED  BY <5>1
                <4>5. shell'[s].input = <<>> /\ shell'[s].running = NoCall
                    BY <4>1, FreshIsClean
                <4> QED  BY <4>3, <4>4, <4>5 DEF Clean, Jobs
            <3>2. CASE s # spawned'
                BY <2>2, <3>2 DEF Inv, TypeOK
            <3> QED  BY <3>1, <3>2
        <2> QED  BY <2>1, <2>2 DEF GetOrSpawn
    <1>3. UNCHANGED <<printed, reading>>
        BY DEF GetOrSpawn, history
    <1>4. handle \in [Calls -> Shells \cup {NoShell}]
        BY DEF Inv, TypeOK
    <1> QED  BY <1>1, <1>2, <1>3, <1>4, CallsLeave

LEMMA LockOnce ==
    ASSUME Inv, InvOnce, InvTold, NEW c \in Calls, Lock(c)
    PROVE  InvOnce' /\ InvTold'
    <1>1. ASSUME NEW d \in Calls
          PROVE  /\ pc[d] \in {"read", "done"} => pc'[d] \in {"read", "done"}
                 /\ Reading(d)' => Reading(d) /\ handle'[d] = handle[d] /\ handle[d] \in Shells
                 /\ result'[d] = result[d]
        BY DEF Lock, Inv, TypeOK, Reading
    <1>2. UNCHANGED <<printed, reading, shell>> /\ handle \in [Calls -> Shells \cup {NoShell}]
        BY DEF Lock, history, Inv, TypeOK
    <1> QED  BY <1>1, <1>2, CallsLeave

LEMMA FeedFailsOnce ==
    ASSUME Inv, InvOnce, InvTold, NEW c \in Calls, FeedFails(c)
    PROVE  InvOnce' /\ InvTold'
    <1>1. UNCHANGED <<shell, printed, reading>>
        BY DEF FeedFails, history
    <1>2. CASE End(c, "unavailable")
        BY <1>1, <1>2, EndLeaves DEF Results
    <1>3. CASE /\ pc[c] = "feed" /\ pc' = [pc EXCEPT ![c] = "again"]
               /\ handle' = [handle EXCEPT ![c] = NoShell]
               /\ UNCHANGED result
        <2>1. ASSUME NEW d \in Calls
              PROVE  /\ pc[d] \in {"read", "done"} => pc'[d] \in {"read", "done"}
                     /\ Reading(d)' => Reading(d) /\ handle'[d] = handle[d] /\ handle[d] \in Shells
                     /\ result'[d] = result[d]
            BY <1>3 DEF Inv, TypeOK, Reading
        <2>2. handle \in [Calls -> Shells \cup {NoShell}]
            BY DEF Inv, TypeOK
        <2> QED  BY <1>1, <2>1, <2>2, CallsLeave
    <1> QED  BY <1>2, <1>3 DEF FeedFails

(* A command, or part of it, goes to a shell; its call reads, or is dropped. *)
FedTo(s, c) ==
    /\ OthersSame(s) /\ shell'[s].input = Append(shell[s].input, c)
    /\ shell'[s].running = shell[s].running /\ shell'[s].output = shell[s].output

LEMMA FedIsFedTo ==
    ASSUME Inv, NEW c \in Calls, NEW s \in Shells,
           shell' = [shell EXCEPT ![s].input = Append(@, c)]
    PROVE  FedTo(s, c)
    BY FedTyped DEF FedTo, Inv

LEMMA FedOnce ==
    ASSUME Inv, InvOnce, InvTold, NEW c \in Calls, NEW s \in Shells,
           Writing(c), s = handle[c], FedTo(s, c),
           UNCHANGED <<reading, printed>>,
           pc'[c] \in {"read", "done"}, result'[c] # "exit", Reading(c)' => handle'[c] = s,
           \A d \in Calls \ {c} : /\ pc'[d] = pc[d] /\ result'[d] = result[d]
                                  /\ handle'[d] = handle[d]
    PROVE  InvOnce' /\ InvTold'
    <1>1. shell[s].input \in Seq(Calls)
        BY ProcessTyped DEF Inv
    <1>2. PICK in, longer, last :
            /\ in = shell[s].input /\ longer = shell'[s].input
            /\ last \notin DOMAIN in /\ last \in DOMAIN longer /\ longer[last] = c
            /\ \A i \in DOMAIN longer : i \in DOMAIN in \/ i = last
            /\ \A i \in DOMAIN in : i \in DOMAIN longer /\ longer[i] = in[i]
        <2> DEFINE q == shell[s].input
                   r == Append(shell[s].input, c)
                   n == Len(q) + 1
        <2>1. /\ n \in DOMAIN r /\ r[n] = c
              /\ \A i \in DOMAIN r : i \in DOMAIN q \/ i = n
              /\ \A i \in DOMAIN q : i \in DOMAIN r /\ r[i] = q[i]
            BY <1>1, AppendDomain
        <2>2. n \notin DOMAIN q
            BY <1>1
        <2>3. r = shell'[s].input /\ q = shell[s].input
            BY DEF FedTo
        <2> HIDE DEF q, r, n
        <2> QED  BY <2>1, <2>2, <2>3
    <1>4. /\ \A t \in Shells \ {s} : shell'[t] = shell[t]
          /\ shell'[s].running = shell[s].running /\ shell'[s].output = shell[s].output
        BY DEF FedTo, OthersSame
    <1>5. /\ printed[c] = 0 /\ ~Marked(c) /\ \A t \in Shells : ~Pending(t, c)
          /\ c \in Calls
        BY DEF InvOnce, Writing, Inv, TypeOK
    <1>6. /\ collected' = collected /\ printed' = printed /\ capped' = capped
          /\ \A d \in Calls \ {c} : Reading(d)' <=> Reading(d)
        BY DEF Reading, reading
    <1>7. \A t \in Shells : shell'[t].output = shell[t].output /\ shell'[t].running = shell[t].running
        BY <1>4
    <1>8. /\ \A d \in Calls : Marked(d)' <=> Marked(d)
          /\ \A d \in Calls \ {c}, n \in Nat : Ahead(d, n) /\ handle[d] \in Shells => Ahead(d, n)'
        <2>1. \A d \in Calls : Marked(d)' <=> Marked(d)
            BY <1>7 DEF Marked, Marker
        <2>2. \A d \in Calls \ {c}, n \in Nat : Ahead(d, n) /\ handle[d] \in Shells => Ahead(d, n)'
            BY <1>7 DEF Ahead, Output, Text, Marker
        <2> QED  BY <2>1, <2>2
    <1>81. \A d \in Calls : (\E i \in DOMAIN longer : longer[i] = d)
                                <=> (\E i \in DOMAIN in : in[i] = d) \/ d = c
        BY <1>2
    <1>9. \A t \in Shells, d \in Calls : Waits(t, d)' <=> Waits(t, d) \/ (t = s /\ d = c)
        <2> TAKE t \in Shells, d \in Calls
        <2>1. CASE t = s
            BY <1>2, <1>81, <2>1 DEF Waits
        <2>2. CASE t # s
            BY <1>4, <2>2 DEF Waits
        <2> QED  BY <2>1, <2>2
    <1>10. \A t \in Shells, d \in Calls : Pending(t, d)' <=> Pending(t, d) \/ (t = s /\ d = c)
        BY <1>7, <1>9 DEF Pending
    <1>11. \A t \in Shells : \A i, j \in DOMAIN shell'[t].input :
                shell'[t].input[i] = shell'[t].input[j] => i = j
        <2>1. \A i, j \in DOMAIN in : in[i] = in[j] => i = j
            BY <1>2 DEF InvOnce
        <2>2. \A i \in DOMAIN in : in[i] # c
            BY <1>2, <1>5 DEF Pending, Waits
        <2>3. \A i, j \in DOMAIN longer : longer[i] = longer[j] => i = j
            BY <1>2, <2>1, <2>2
        <2> TAKE t \in Shells
        <2>4. CASE t = s
            BY <1>2, <2>3, <2>4
        <2>5. CASE t # s
            BY <1>4, <2>5 DEF InvOnce
        <2> QED  BY <2>4, <2>5
    <1>12. \A t \in Shells, d \in Calls : shell'[t].running = d => ~Waits(t, d)'
        BY <1>5, <1>7, <1>9 DEF InvOnce, Pending
    <1>13. ASSUME NEW t \in Shells, NEW d \in Calls, Pending(t, d)'
           PROVE  /\ pc'[d] \in {"read", "done"} /\ result'[d] # "exit" /\ ~Marked(d)'
                  /\ Reading(d)' => handle'[d] = t
                  /\ \A u \in Shells : Pending(u, d)' => t = u
        <2>1. CASE d = c
            BY <1>5, <1>6, <1>8, <1>10, <1>13, <2>1
        <2>2. CASE d # c
            <3>1. Pending(t, d)
                BY <1>10, <1>13, <2>2
            <3> QED  BY <1>6, <1>8, <1>10, <2>2, <3>1 DEF InvOnce
        <2> QED  BY <2>1, <2>2
    <1>14. \A d \in Calls : pc'[d] \notin {"read", "done"} => printed'[d] = 0 /\ ~Marked(d)'
        BY <1>6, <1>8 DEF InvOnce
    <1>15. InvOnce'
        BY <1>11, <1>12, <1>13, <1>14 DEF InvOnce
    <1>16. \A d \in Calls : Reading(d) => handle[d] \in Shells
        BY DEF Reading, Inv, TypeOK
    <1>17. \A d \in Calls, n \in Nat : Kept(d, n)' <=> Kept(d, n)
        BY <1>6 DEF Kept, Text
    <1>18. ASSUME NEW d \in Calls \ capped', NEW n \in 1..printed'[d]
           PROVE  /\ result'[d] = "exit" => Kept(d, n)'
                  /\ Reading(d)' => Kept(d, n)' \/ Ahead(d, n)'
        <2>1. d # c /\ d \in Calls \ capped /\ n \in 1..printed[d] /\ n \in Nat
            BY <1>5, <1>6
        <2>2. /\ result[d] = "exit" => Kept(d, n)
              /\ Reading(d) => Kept(d, n) \/ Ahead(d, n)
            BY <2>1 DEF InvTold
        <2> QED  BY <1>6, <1>8, <1>16, <1>17, <2>1, <2>2
    <1>19. InvTold'
        BY <1>18 DEF InvTold
    <1> QED  BY <1>15, <1>19

LEMMA FeedOnce ==
    ASSUME Inv, InvOnce, InvTold, NEW c \in Calls, Feed(c)
    PROVE  InvOnce' /\ InvTold'
    <1>1. handle[c] \in Shells /\ result[c] = "none"
        BY DEF Feed, Writing, TypeOK, Inv
    <1> PICK s \in Shells : s = handle[c]
        BY <1>1
    <1>2. pc'[c] = "read" /\ \A d \in Calls \ {c} : pc'[d] = pc[d]
        BY DEF Feed, Inv, TypeOK
    <1>3. UNCHANGED <<reading, printed, result, handle>> /\ Writing(c)
        BY DEF Feed, history
    <1>4. FedTo(s, c)
        BY FedIsFedTo DEF Feed
    <1> QED  BY <1>1, <1>2, <1>3, <1>4, FedOnce

LEMMA DropOnce ==
    ASSUME Inv, InvOnce, InvTold, NEW c \in Calls, Drop(c)
    PROVE  InvOnce' /\ InvTold'
    <1>1. End(c, "dropped") /\ UNCHANGED <<reading, printed>>
        BY DEF Drop
    <1>2. CASE UNCHANGED shell
        BY <1>1, <1>2, EndLeaves DEF Results
    <1>3. CASE Writing(c) /\ shell' = [shell EXCEPT ![handle[c]].input = Append(@, c)]
        <2>1. handle[c] \in Shells
            BY <1>3 DEF Writing, TypeOK, Inv
        <2> PICK s \in Shells : s = handle[c]
            BY <2>1
        <2>2. /\ pc'[c] = "done" /\ result'[c] = "dropped"
              /\ \A d \in Calls \ {c} : /\ pc'[d] = pc[d] /\ result'[d] = result[d]
                                        /\ handle'[d] = handle[d]
            BY <1>1 DEF End, Inv, TypeOK
        <2>3. ~Reading(c)'
            BY <2>2 DEF Reading
        <2>4. FedTo(s, c)
            BY <1>3, FedIsFedTo
        <2> QED  BY <1>1, <1>3, <2>2, <2>3, <2>4, FedOnce
    <1> QED  BY <1>2, <1>3 DEF Drop

(* A line leaves the head of one shell's output.                            *)
LEMMA ConsumeOnce ==
    ASSUME Inv, InvOnce, NEW c \in Calls, Reading(c), Output(c) # <<>>, Consume(c), printed' = printed,
           \A d \in Calls :
                /\ pc[d] \in {"read", "done"} => pc'[d] \in {"read", "done"}
                /\ Reading(d)' => Reading(d) /\ handle'[d] = handle[d]
                /\ result'[d] = "exit" => result[d] = "exit" \/ Marked(d)
    PROVE  InvOnce'
    <1> DEFINE s == handle[c]
    <1>1. /\ OthersSame(s) /\ s \in Shells /\ Output(c) \in Seq(Lines)
          /\ shell'[s].input = shell[s].input /\ shell'[s].running = shell[s].running
          /\ shell'[s].output = Tail(Output(c))
        BY ConsumeTyped DEF Inv
    <1>2. \A t \in Shells : shell'[t].input = shell[t].input /\ shell'[t].running = shell[t].running
        BY <1>1 DEF OthersSame
    <1>3. /\ \A t \in Shells : \A i, j \in DOMAIN shell'[t].input :
                shell'[t].input[i] = shell'[t].input[j] => i = j
          /\ \A t \in Shells, d \in Calls :
                /\ shell'[t].running = d => ~Waits(t, d)'
                /\ Pending(t, d)' => Pending(t, d)
        BY <1>2 DEF InvOnce, Pending, Waits
    <1>4. ASSUME NEW d \in Calls, Marked(d)' PROVE Marked(d)
        <2>1. PICK t \in Shells : \E i \in DOMAIN shell'[t].output : shell'[t].output[i] = Marker(d)
            BY <1>4 DEF Marked, Marker
        <2>2. CASE t = s
            <3>1. PICK i \in DOMAIN Tail(Output(c)) : Tail(Output(c))[i] = Marker(d)
                BY <1>1, <2>1, <2>2
            <3>2. i + 1 \in DOMAIN Output(c) /\ Output(c)[i + 1] = Marker(d)
                BY <1>1, <3>1, TailLen
            <3> QED  BY <1>1, <3>2 DEF Marked, Output
        <2>3. CASE t # s
            BY <1>1, <2>1, <2>3 DEF Marked, OthersSame
        <2> QED  BY <2>2, <2>3
    <1> QED  BY <1>3, <1>4, OnceKept

(* Another reader's shell is not touched.                                   *)
LEMMA ConsumeApart ==
    ASSUME Inv, NEW c \in Calls, Reading(c), Output(c) # <<>>, Consume(c), NEW n \in Nat,
           NEW d \in Calls \ {c}, Reading(d), handle'[d] = handle[d], Ahead(d, n)
    PROVE  Ahead(d, n)'
    <1>1. OthersSame(handle[c]) /\ handle[d] # handle[c] /\ handle[d] \in Shells
        BY ConsumeTyped DEF Inv, InvShells, Holds, Reading, TypeOK
    <1>2. shell'[handle[d]] = shell[handle[d]]
        BY <1>1 DEF OthersSame
    <1> QED  BY <1>2 DEF Ahead, Output, Text, Marker

LEMMA CollectLineOnce ==
    ASSUME Inv, InvOnce, InvTold, NEW c \in Calls, CollectLine(c)
    PROVE  InvOnce' /\ InvTold'
    <1> DEFINE q == Output(c)
    <1>1. /\ UNCHANGED <<pc, handle, result, printed>> /\ Reading(c) /\ q # <<>> /\ Consume(c)
          /\ Head(q) # Marker(c)
        BY DEF CollectLine, history, IsOwnMarker
    <1>2. \A d \in Calls : Reading(d)' <=> Reading(d)
        BY <1>1 DEF Reading
    <1>3. InvOnce'
        BY <1>1, <1>2, ConsumeOnce
    <1>4. /\ q \in Seq(Lines) /\ handle[c] \in Shells /\ shell'[handle[c]].output = Tail(q)
          /\ Head(q) \in Lines /\ q[1] = Head(q)
        BY <1>1, ConsumeTyped DEF Inv
    <1>5. /\ \A d \in Calls \ {c}, n \in Nat : Kept(d, n)' <=> Kept(d, n)
          /\ \A n \in Nat : Kept(c, n) => Kept(c, n)'
          /\ c \notin capped' => collected'[c] = Append(collected[c], Head(q))
          /\ collected[c] \in Seq(Lines)
        <2>1. \A d \in Calls \ {c}, n \in Nat : Kept(d, n)' <=> Kept(d, n)
            BY Collected DEF Kept, Text
        <2>2. collected[c] \in Seq(Lines)
            BY DEF Inv, TypeOK
        <2>3. \A n \in Nat : Kept(c, n) => Kept(c, n)'
            <3>1. CASE collected'[c] = Append(collected[c], Head(q))
                BY <1>4, <2>2, <3>1, AppendDomain DEF Kept, Text
            <3>2. CASE collected' = collected
                BY <3>2 DEF Kept, Text
            <3> QED  BY <3>1, <3>2, Collected
        <2>4. c \notin capped' => collected'[c] = Append(collected[c], Head(q))
            BY Collected
        <2> QED  BY <2>1, <2>2, <2>3, <2>4
    <1>6. ASSUME NEW n \in Nat, Ahead(c, n), c \notin capped'
          PROVE  Ahead(c, n)' \/ Kept(c, n)'
        <2>1. PICK i \in DOMAIN q : q[i] = Text(c, n) /\ \A k \in 1..i : q[k] # Marker(c)
            BY <1>6 DEF Ahead
        <2>2. CASE i = 1
            <3>1. Head(q) = Text(c, n)
                BY <1>4, <2>1, <2>2
            <3>2. /\ Len(collected[c]) + 1 \in DOMAIN collected'[c]
                  /\ collected'[c][Len(collected[c]) + 1] = Head(q)
                BY <1>4, <1>5, <1>6, AppendDomain
            <3> QED  BY <3>1, <3>2 DEF Kept, Text
        <2>3. CASE i # 1
            <3>1. i - 1 \in DOMAIN Tail(q) /\ i \in Nat
                BY <1>1, <1>4, <2>1, <2>3
            <3>2. \A k \in 1..(i - 1) : Tail(q)[k] = q[k + 1] /\ k + 1 \in 1..i
                BY <1>1, <1>4, <2>1, <2>3, <3>1, TailLen
            <3>3. Tail(q)[i - 1] = Text(c, n) /\ \A k \in 1..(i - 1) : Tail(q)[k] # Marker(c)
                BY <2>1, <2>3, <3>1, <3>2
            <3>4. Output(c)' = Tail(q)
                BY <1>1, <1>4 DEF Output
            <3>5. Marker(c)' = Marker(c) /\ Text(c, n)' = Text(c, n)
                BY DEF Marker, Text
            <3> QED  BY <3>1, <3>3, <3>4, <3>5 DEF Ahead
        <2> QED  BY <2>2, <2>3
    <1>7. \A d \in Calls \ {c}, n \in Nat : Reading(d) /\ Ahead(d, n) => Ahead(d, n)'
        BY <1>1, ConsumeApart
    <1>8. InvTold'
        <2>1. capped \subseteq capped'
            BY Collected DEF Inv, TypeOK
        <2>2. ASSUME NEW d \in Calls \ capped', NEW n \in 1..printed'[d]
              PROVE  /\ n \in 1..printed[d]
                     /\ Kept(d, n) => Kept(d, n)'
                     /\ result'[d] = "exit" => result[d] = "exit" \/ Kept(d, n)'
                     /\ Reading(d)' => Reading(d) /\ (Ahead(d, n) => Ahead(d, n)' \/ Kept(d, n)')
            <3>1. n \in Nat /\ n \in 1..printed[d] /\ result'[d] = result[d]
                BY <1>1
            <3>2. CASE d = c
                BY <1>2, <1>5, <1>6, <3>1, <3>2
            <3>3. CASE d # c
                BY <1>2, <1>5, <1>7, <3>1, <3>3
            <3> QED  BY <3>2, <3>3
        <2> QED  BY <2>1, <2>2, ToldKept
    <1> QED  BY <1>3, <1>8

LEMMA CollectMarkerOnce ==
    ASSUME Inv, InvOnce, InvTold, NEW c \in Calls, CollectMarker(c)
    PROVE  InvOnce' /\ InvTold'
    <1> DEFINE q == Output(c)
    <1>1. /\ UNCHANGED <<printed, reading>> /\ Reading(c) /\ q # <<>> /\ Consume(c)
          /\ Head(q) = Marker(c)
        BY DEF CollectMarker, history, IsOwnMarker
    <1>2. /\ q \in Seq(Lines) /\ handle[c] \in Shells
        BY <1>1, ConsumeTyped DEF Inv
    <1>3. q[1] = Marker(c) /\ 1 \in DOMAIN q
        BY <1>1, <1>2, TailLen
    <1>4. Marked(c)
        BY <1>2, <1>3 DEF Marked, Output
    <1>5. \A d \in Calls :
            /\ pc[d] \in {"read", "done"} => pc'[d] \in {"read", "done"}
            /\ Reading(d)' => d # c /\ Reading(d) /\ handle'[d] = handle[d]
            /\ result'[d] = "exit" => result[d] = "exit" \/ d = c
        BY DEF CollectMarker, End, Inv, TypeOK, Reading
    <1>6. InvOnce'
        BY <1>1, <1>4, <1>5, ConsumeOnce
    <1>7. \A n \in Nat : ~Ahead(c, n)
        <2> SUFFICES ASSUME NEW n \in Nat, Ahead(c, n) PROVE FALSE
            OBVIOUS
        <2>1. PICK i \in DOMAIN q : q[i] = Text(c, n) /\ \A k \in 1..i : q[k] # Marker(c)
            BY DEF Ahead
        <2>2. 1 \in 1..i
            BY <1>2, <2>1
        <2> QED  BY <1>3, <2>1, <2>2
    <1>8. c \notin capped => \A n \in 1..printed[c] : Kept(c, n)
        BY <1>1, <1>7 DEF InvTold
    <1>9. \A d \in Calls \ {c}, n \in Nat : Reading(d)' /\ Ahead(d, n) => Ahead(d, n)'
        BY <1>1, <1>5, ConsumeApart
    <1>10. (\A d \in Calls, n \in Nat : Kept(d, n)' <=> Kept(d, n)) /\ capped' = capped
        BY <1>1 DEF Kept, reading, Text
    <1>11. InvTold'
        <2>1. ASSUME NEW d \in Calls \ capped', NEW n \in 1..printed'[d]
              PROVE  /\ n \in 1..printed[d]
                     /\ Kept(d, n) => Kept(d, n)'
                     /\ result'[d] = "exit" => result[d] = "exit" \/ Kept(d, n)'
                     /\ Reading(d)' => Reading(d) /\ (Ahead(d, n) => Ahead(d, n)' \/ Kept(d, n)')
            <3>1. n \in Nat /\ n \in 1..printed[d] /\ d \notin capped
                BY <1>1, <1>10
            <3> QED  BY <1>5, <1>8, <1>9, <1>10, <3>1
        <2> QED  BY <1>10, <2>1, ToldKept
    <1> QED  BY <1>6, <1>11

-----------------------------------------------------------------------------
(* The steps of the sh process, again.                                      *)

(* A process moves on: what it has to do can only become less, and a marker *)
(* it prints is that of a command that is over.                             *)
LEMMA ProcessOnce ==
    ASSUME InvOnce, NEW s \in Shells, OthersSame(s), UNCHANGED <<pc, handle, result>>,
           \A i, j \in DOMAIN shell'[s].input : shell'[s].input[i] = shell'[s].input[j] => i = j,
           \A c \in Calls :
                /\ shell'[s].running = c => ~Waits(s, c)'
                /\ Pending(s, c)' => Pending(s, c)
                /\ printed'[c] = printed[c] \/ Pending(s, c)
                /\ \A i \in DOMAIN shell'[s].output : shell'[s].output[i] = Marker(c) =>
                        \/ i \in DOMAIN shell[s].output /\ shell[s].output[i] = Marker(c)
                        \/ Pending(s, c) /\ ~Pending(s, c)'
    PROVE  InvOnce'
    <1>1. \A t \in Shells : \A i, j \in DOMAIN shell'[t].input :
                shell'[t].input[i] = shell'[t].input[j] => i = j
        BY DEF InvOnce, OthersSame
    <1>2. \A t \in Shells, c \in Calls :
                /\ shell'[t].running = c => ~Waits(t, c)'
                /\ Pending(t, c)' => Pending(t, c)
        <2> TAKE t \in Shells, c \in Calls
        <2>1. CASE t = s
            BY <2>1
        <2>2. CASE t # s
            BY <2>2 DEF InvOnce, OthersSame, Pending, Waits
        <2> QED  BY <2>1, <2>2
    <1>3. ASSUME NEW c \in Calls, Marked(c)', ~Marked(c)
          PROVE  pc[c] \in {"read", "done"} /\ \A t \in Shells : ~Pending(t, c)'
        <2>1. PICK t \in Shells : \E i \in DOMAIN shell'[t].output : shell'[t].output[i] = Marker(c)
            BY <1>3 DEF Marked, Marker
        <2>2. CASE t = s
            <3>1. Pending(s, c) /\ ~Pending(s, c)'
                BY <1>3, <2>1, <2>2 DEF Marked
            <3> QED  BY <1>2, <3>1 DEF InvOnce
        <2>3. CASE t # s
            BY <1>3, <2>1, <2>3 DEF Marked, OthersSame
        <2> QED  BY <2>2, <2>3
    <1>4. \A c \in Calls :
            /\ printed'[c] = printed[c] \/ pc[c] \in {"read", "done"}
            /\ pc[c] \in {"read", "done"} => pc'[c] \in {"read", "done"}
            /\ Reading(c)' => Reading(c) /\ handle'[c] = handle[c]
            /\ result'[c] = "exit" => result[c] = "exit" \/ Marked(c)
        BY DEF InvOnce, Reading
    <1> QED  BY <1>1, <1>2, <1>3, <1>4, OnceKept

(* A process only adds to its output.                                       *)
LEMMA ProcessTold ==
    ASSUME Inv, InvTold, NEW s \in Shells, OthersSame(s),
           UNCHANGED <<pc, handle, reading, result>>,
           \A i \in DOMAIN shell[s].output :
                i \in DOMAIN shell'[s].output /\ shell'[s].output[i] = shell[s].output[i],
           \A c \in Calls : \A n \in 1..printed'[c] :
                n \in 1..printed[c] \/ (result[c] # "exit" /\ (Reading(c) => Ahead(c, n)'))
    PROVE  InvTold'
    <1>1. ASSUME NEW c \in Calls, NEW n \in Nat, Reading(c), Ahead(c, n) PROVE Ahead(c, n)'
        <2>1. handle[c] \in Shells
            BY <1>1 DEF Inv, TypeOK, Reading
        <2>2. CASE handle[c] = s
            <3> DEFINE q == shell[s].output
            <3>1. PICK i \in DOMAIN q : q[i] = Text(c, n) /\ \A k \in 1..i : q[k] # Marker(c)
                BY <1>1, <2>2 DEF Ahead, Output
            <3>2. q \in Seq(Lines)
                BY ProcessTyped DEF Inv
            <3>3. 1..i \subseteq DOMAIN q
                BY <3>1, <3>2
            <3>4. /\ i \in DOMAIN shell'[s].output /\ shell'[s].output[i] = Text(c, n)
                  /\ \A k \in 1..i : shell'[s].output[k] # Marker(c)
                BY <3>1, <3>3
            <3>5. /\ Output(c)' = shell'[s].output /\ Marker(c)' = Marker(c)
                  /\ Text(c, n)' = Text(c, n)
                BY <2>2 DEF Output, Marker, Text
            <3> QED  BY <3>4, <3>5 DEF Ahead
        <2>3. CASE handle[c] # s
            BY <1>1, <2>1, <2>3 DEF OthersSame, Ahead, Output, Text, Marker
        <2> QED  BY <2>2, <2>3
    <1>2. \A c \in Calls : Reading(c)' <=> Reading(c)
        BY DEF Reading
    <1>3. (\A c \in Calls, n \in Nat : Kept(c, n)' <=> Kept(c, n)) /\ capped' = capped
        BY DEF Kept, reading, Text
    <1>4. ASSUME NEW c \in Calls \ capped', NEW n \in 1..printed'[c]
          PROVE  \/ /\ n \in 1..printed[c]
                    /\ Kept(c, n) => Kept(c, n)'
                    /\ result'[c] = "exit" => result[c] = "exit" \/ Kept(c, n)'
                    /\ Reading(c)' => Reading(c) /\ (Ahead(c, n) => Ahead(c, n)' \/ Kept(c, n)')
                 \/ result'[c] # "exit" /\ (Reading(c)' => Ahead(c, n)')
        <2>1. n \in Nat
            OBVIOUS
        <2> QED  BY <1>1, <1>2, <1>3, <2>1
    <1> QED  BY <1>3, <1>4, ToldKept

LEMMA StartOnce ==
    ASSUME Inv, InvOnce, InvTold, NEW s \in Shells, Start(s)
    PROVE  InvOnce' /\ InvTold'
    <1> DEFINE in == shell[s].input
    <1>1. in \in Seq(Calls) /\ in # <<>> /\ shell[s].running = NoCall
        BY ProcessTyped DEF Start, Inv
    <1>2. /\ Tail(in) \in Seq(Calls) /\ Head(in) \in Calls /\ Head(in) = in[1] /\ 1 \in DOMAIN in
          /\ \A i \in DOMAIN Tail(in) : Tail(in)[i] = in[i + 1] /\ i + 1 \in DOMAIN in /\ i + 1 # 1
        <2>1. \A i \in DOMAIN Tail(in) : i + 1 # 1
            BY <1>1
        <2> QED  BY <1>1, <2>1, TailLen
    <1>3. /\ OthersSame(s) /\ shell'[s].input = Tail(in) /\ shell'[s].running = Head(in)
          /\ shell'[s].output = shell[s].output
        <2>1. shell' = [shell EXCEPT ![s].running = Head(in), ![s].input = Tail(in)]
            BY DEF Start
        <2>2. shell \in [Shells -> Processes]
            BY DEF Inv, TypeOK
        <2> DEFINE first == Head(in)
                   rest  == Tail(in)
        <2>3. first \in Calls \cup {NoCall} /\ rest \in Seq(Calls)
            BY <1>2
        <2>4. shell' = [shell EXCEPT ![s].running = first, ![s].input = rest]
            BY <2>1
        <2> HIDE DEF in, first, rest
        <2>5. /\ OthersSame(s) /\ shell'[s].input = rest /\ shell'[s].running = first
              /\ shell'[s].output = shell[s].output
            BY <2>2, <2>3, <2>4 DEF Processes, OthersSame
        <2> QED  BY <2>5 DEF first, rest
    <1>4. UNCHANGED <<pc, handle, reading, result, printed>>
        BY DEF Start, history
    <1>5. \A i, j \in DOMAIN in : in[i] = in[j] => i = j
        BY DEF InvOnce
    <1>6. \A i, j \in DOMAIN Tail(in) : Tail(in)[i] = Tail(in)[j] => i = j
        <2> SUFFICES ASSUME NEW i \in DOMAIN Tail(in), NEW j \in DOMAIN Tail(in), Tail(in)[i] = Tail(in)[j]
                     PROVE  i = j
            OBVIOUS
        <2>1. i + 1 = j + 1
            BY <1>2, <1>5
        <2>2. i \in Nat /\ j \in Nat
            BY <1>2
        <2> QED  BY <2>1, <2>2
    <1>7. ASSUME NEW c \in Calls
          PROVE  /\ shell'[s].running = c => ~Waits(s, c)'
                 /\ Pending(s, c)' => Pending(s, c)
        <2>1. shell'[s].running = c => ~Waits(s, c)'
            BY <1>2, <1>3, <1>5 DEF Waits
        <2>2. Pending(s, c)' => Pending(s, c)
            BY <1>2, <1>3 DEF Waits, Pending
        <2> QED  BY <2>1, <2>2
    <1>8. InvOnce'
        <2> HIDE DEF in
        <2>1. \A i, j \in DOMAIN shell'[s].input : shell'[s].input[i] = shell'[s].input[j] => i = j
            BY <1>3, <1>6
        <2> QED  BY <1>3, <1>4, <1>7, <2>1, ProcessOnce
    <1>9. InvTold'
        BY <1>3, <1>4, ProcessTold
    <1> QED  BY <1>8, <1>9

(* A running command writes a line of its own.                              *)
LEMMA WritesOnce ==
    ASSUME Inv, InvOnce, InvTold, NEW s \in Shells, NEW line \in Lines, NEW c \in Calls,
           NEW next \in {c, NoCall}, c = shell[s].running, Writes(s, line, next),
           \/ printed' = printed /\ line = Marker(c) /\ next = NoCall
           \/ printed' = [printed EXCEPT ![c] = Another(c)] /\ line = Text(c, Another(c))
    PROVE  InvOnce' /\ InvTold'
    <1> DEFINE q == shell[s].output
               longer == Append(q, line)
    <1>1. q \in Seq(Lines) /\ c # NoCall
        BY ProcessTyped DEF Inv
    <1>2. /\ longer \in Seq(Lines) /\ Len(q) + 1 \in DOMAIN longer
          /\ longer[Len(q) + 1] = line
          /\ \A i \in DOMAIN longer : i \in DOMAIN q \/ i = Len(q) + 1
          /\ \A i \in DOMAIN q : i \in DOMAIN longer /\ longer[i] = q[i]
        BY <1>1, AppendDomain
    <1>3. /\ OthersSame(s) /\ shell'[s].input = shell[s].input /\ shell'[s].running = next
          /\ shell'[s].output = longer
          /\ UNCHANGED <<pc, handle, reading, result>>
        BY WritesTyped DEF Inv
    <1> HIDE DEF longer
    <1>4. /\ Pending(s, c) /\ ~Waits(s, c) /\ ~Marked(c) /\ result[c] # "exit"
          /\ Reading(c) => handle[c] = s
        BY DEF InvOnce, Pending
    <1>5. \A d \in Calls : Waits(s, d)' <=> Waits(s, d)
        BY <1>3 DEF Waits
    <1>6. \A d \in Calls : /\ Pending(s, d)' => Pending(s, d)
                           /\ shell'[s].running = d => ~Waits(s, d)'
        BY <1>1, <1>3, <1>4, <1>5 DEF Pending
    <1>7. next = NoCall => ~Pending(s, c)'
        BY <1>1, <1>3, <1>4, <1>5 DEF Pending
    <1>8. \A d \in Calls : line = Marker(d) => d = c /\ next = NoCall
        BY DEF Marker, Text
    <1>9. \A d \in Calls : \A i \in DOMAIN shell'[s].output : shell'[s].output[i] = Marker(d) =>
                \/ i \in DOMAIN shell[s].output /\ shell[s].output[i] = Marker(d)
                \/ Pending(s, d) /\ ~Pending(s, d)'
        BY <1>2, <1>3, <1>4, <1>7, <1>8
    <1>90. printed \in [Calls -> 0..Beyond]
        BY DEF Inv, TypeOK
    <1>10. InvOnce'
        <2>1. \A i, j \in DOMAIN shell'[s].input : shell'[s].input[i] = shell'[s].input[j] => i = j
            BY <1>3 DEF InvOnce
        <2>2. \A d \in Calls : printed'[d] = printed[d] \/ Pending(s, d)
            BY <1>4, <1>90
        <2> HIDE DEF q
        <2> QED  BY <1>3, <1>6, <1>9, <2>1, <2>2, ProcessOnce
    <1>11. ASSUME Reading(c), NEW n \in Nat, line = Text(c, n) PROVE Ahead(c, n)'
        <2>1. Output(c)' = longer /\ Marker(c)' = Marker(c) /\ Text(c, n)' = Text(c, n)
            BY <1>3, <1>4, <1>11 DEF Output, Marker, Text
        <2>2. \A k \in DOMAIN q : q[k] # Marker(c)
            BY <1>4 DEF Marked
        <2>3. \A k \in 1..(Len(q) + 1) : k \in DOMAIN q \/ k = Len(q) + 1
            BY <1>1
        <2>4. line # Marker(c)
            BY <1>11 DEF Marker, Text
        <2>5. \A k \in 1..(Len(q) + 1) : longer[k] # Marker(c)
            BY <1>2, <2>2, <2>3, <2>4
        <2> QED  BY <1>2, <1>11, <2>1, <2>5 DEF Ahead
    <1>12. InvTold'
        <2>1. ASSUME NEW d \in Calls, NEW n \in 1..printed'[d]
              PROVE  n \in 1..printed[d] \/ (result[d] # "exit" /\ (Reading(d) => Ahead(d, n)'))
            <3>1. CASE printed' = printed
                BY <3>1
            <3>2. CASE printed' = [printed EXCEPT ![c] = Another(c)] /\ line = Text(c, Another(c))
                <4>1. CASE d # c
                    BY <1>90, <3>2, <4>1
                <4>2. CASE d = c
                    <5>1. printed'[c] = Another(c)
                        BY <1>90, <3>2
                    <5>2. n \in 1..printed[c] \/ n = Another(c)
                        BY <4>2, <5>1, Counted DEF Inv
                    <5>3. n \in Nat
                        OBVIOUS
                    <5>4. n = Another(c) => result[c] # "exit" /\ (Reading(c) => Ahead(c, n)')
                        BY <1>4, <1>11, <3>2, <5>3
                    <5> QED  BY <4>2, <5>2, <5>4
                <4> QED  BY <4>1, <4>2
            <3> QED  BY <3>1, <3>2
        <2>2. \A i \in DOMAIN shell[s].output :
                i \in DOMAIN shell'[s].output /\ shell'[s].output[i] = shell[s].output[i]
            BY <1>2, <1>3 DEF q
        <2> HIDE DEF q
        <2> QED  BY <1>3, <2>1, <2>2, ProcessTold
    <1> QED  BY <1>10, <1>12

LEMMA WriteLineOnce ==
    ASSUME Inv, InvOnce, InvTold, NEW s \in Shells, WriteLine(s)
    PROVE  InvOnce' /\ InvTold'
    <1>1. PICK c \in Calls : c = shell[s].running
        BY ProcessTyped DEF WriteLine, Inv
    <1>2. Text(c, Another(c)) \in Lines
        BY LinesOf, Counted DEF Inv
    <1>3. /\ Writes(s, Text(c, Another(c)), c)
          /\ printed' = [printed EXCEPT ![c] = Another(c)]
        BY <1>1 DEF WriteLine
    <1> QED  BY <1>1, <1>2, <1>3, WritesOnce

LEMMA FinishOnce ==
    ASSUME Inv, InvOnce, InvTold, NEW s \in Shells, Finish(s)
    PROVE  InvOnce' /\ InvTold'
    <1>1. PICK c \in Calls : c = shell[s].running
        BY ProcessTyped DEF Finish, Inv
    <1>2. Text(c, Another(c)) \in Lines /\ Marker(c) \in Lines
        BY LinesOf, Counted DEF Inv
    <1>3. \/ Writes(s, Marker(c), NoCall) /\ printed' = printed
          \/ /\ Writes(s, Text(c, Another(c)), NoCall)
             /\ printed' = [printed EXCEPT ![c] = Another(c)]
        BY <1>1 DEF Finish
    <1> QED  BY <1>1, <1>2, <1>3, WritesOnce

LEMMA JobPrintsOnce ==
    ASSUME Inv, InvOnce, InvTold, NEW s \in Shells, JobPrints(s)
    PROVE  InvOnce' /\ InvTold'
    <1>1. PICK c \in Calls : Writes(s, JobLine(c), shell[s].running)
        BY ProcessTyped DEF JobPrints, Inv
    <1> DEFINE q == shell[s].output
               longer == Append(q, JobLine(c))
    <1>2. /\ JobLine(c) \in Lines /\ shell[s].running \in Calls \cup {NoCall}
          /\ q \in Seq(Lines) /\ printed' = printed
        <2>1. 0 \in 0..Beyond
            BY DEF Beyond
        <2> QED  BY <2>1, LinesOf, ProcessTyped DEF JobPrints, Inv
    <1>3. /\ \A i \in DOMAIN longer :
             \/ i \in DOMAIN q /\ longer[i] = q[i]
             \/ longer[i] = JobLine(c)
          /\ \A i \in DOMAIN q : i \in DOMAIN longer /\ longer[i] = q[i]
        BY <1>2, AppendDomain
    <1>4. /\ OthersSame(s) /\ shell'[s].input = shell[s].input
          /\ shell'[s].running = shell[s].running /\ shell'[s].output = longer
          /\ UNCHANGED <<pc, handle, reading, result>>
        BY <1>1, <1>2, WritesTyped DEF Inv
    <1> HIDE DEF longer
    <1>5. \A d \in Calls : /\ shell'[s].running = d => ~Waits(s, d)'
                           /\ Pending(s, d)' => Pending(s, d)
        BY <1>4 DEF InvOnce, Pending, Waits
    <1>6. \A i, j \in DOMAIN shell'[s].input : shell'[s].input[i] = shell'[s].input[j] => i = j
        BY <1>4 DEF InvOnce
    <1>7. \A d \in Calls : \A i \in DOMAIN shell'[s].output : shell'[s].output[i] = Marker(d) =>
                i \in DOMAIN shell[s].output /\ shell[s].output[i] = Marker(d)
        BY <1>3, <1>4 DEF Marker, JobLine
    <1>8. InvOnce'
        <2> HIDE DEF q
        <2> QED  BY <1>2, <1>4, <1>5, <1>6, <1>7, ProcessOnce
    <1>9. InvTold'
        BY <1>2, <1>3, <1>4, ProcessTold
    <1> QED  BY <1>8, <1>9

(* Which jobs there are changes nothing of that.                            *)
LEMMA JobsOnce ==
    ASSUME Inv, InvOnce, InvTold, NEW s \in Shells, NEW x \in SUBSET Calls,
           shell' = [shell EXCEPT ![s].jobs = x],
           UNCHANGED <<pc, handle, reading, result, printed>>
    PROVE  InvOnce' /\ InvTold'
    <1>1. /\ OthersSame(s) /\ shell'[s].input = shell[s].input
          /\ shell'[s].running = shell[s].running /\ shell'[s].output = shell[s].output
        BY SetJobs DEF Inv, TypeOK
    <1>2. /\ \A i, j \in DOMAIN shell'[s].input : shell'[s].input[i] = shell'[s].input[j] => i = j
          /\ \A c \in Calls : /\ shell'[s].running = c => ~Waits(s, c)'
                              /\ Pending(s, c)' => Pending(s, c)
        BY <1>1 DEF InvOnce, Waits, Pending
    <1>3. InvOnce'
        BY <1>1, <1>2, ProcessOnce
    <1>4. InvTold'
        BY <1>1, ProcessTold
    <1> QED  BY <1>3, <1>4

LEMMA LeaveJobOnce ==
    ASSUME Inv, InvOnce, InvTold, NEW s \in Shells, LeaveJob(s)
    PROVE  InvOnce' /\ InvTold'
    <1>1. PICK x \in SUBSET Calls : x = shell[s].jobs \cup {shell[s].running}
        BY ProcessTyped DEF LeaveJob, Inv
    <1>2. shell' = [shell EXCEPT ![s].jobs = x]
        BY <1>1 DEF LeaveJob
    <1> QED  BY <1>2, JobsOnce DEF LeaveJob, history

LEMMA JobEndsOnce ==
    ASSUME Inv, InvOnce, InvTold, NEW s \in Shells, JobEnds(s)
    PROVE  InvOnce' /\ InvTold'
    <1>1. PICK c \in shell[s].jobs : shell' = [shell EXCEPT ![s].jobs = @ \ {c}]
        BY DEF JobEnds
    <1>2. PICK x \in SUBSET Calls : x = shell[s].jobs \ {c}
        BY ProcessTyped DEF Inv
    <1>3. shell' = [shell EXCEPT ![s].jobs = x]
        BY <1>1, <1>2
    <1> QED  BY <1>3, JobsOnce DEF JobEnds, history

LEMMA SwallowOnce ==
    ASSUME Inv, InvOnce, InvTold, NEW s \in Shells, Swallow(s)
    PROVE  InvOnce' /\ InvTold'
    <1>1. UNCHANGED <<pc, handle, reading, result, printed>>
        BY DEF Swallow, history
    <1>2. /\ OthersSame(s) /\ shell'[s].output = shell[s].output
          /\ \/ shell'[s].input = <<>> /\ shell'[s].running = shell[s].running
             \/ shell'[s].input = shell[s].input /\ shell'[s].running = NoCall
        <2>1. <<>> \in Seq(Calls)
            OBVIOUS
        <2>2. shell \in [Shells -> Processes]
            BY DEF Inv, TypeOK
        <2>3. CASE shell' = [shell EXCEPT ![s].input = <<>>]
            BY <2>1, <2>2, <2>3, SetInput
        <2>4. CASE shell' = [shell EXCEPT ![s].running = NoCall]
            BY <2>2, <2>4, SetRunning
        <2> QED  BY <2>3, <2>4 DEF Swallow
    <1>3. /\ \A i, j \in DOMAIN shell'[s].input : shell'[s].input[i] = shell'[s].input[j] => i = j
          /\ \A c \in Calls : /\ shell'[s].running = c => ~Waits(s, c)'
                              /\ Pending(s, c)' => Pending(s, c)
        <2>1. CASE shell'[s].input = <<>> /\ shell'[s].running = shell[s].running
            <3>1. DOMAIN shell'[s].input = {}
                BY <2>1
            <3> QED  BY <2>1, <3>1 DEF Waits, Pending
        <2>2. CASE shell'[s].input = shell[s].input /\ shell'[s].running = NoCall
            BY <2>2 DEF InvOnce, Waits, Pending
        <2> QED  BY <1>2, <2>1, <2>2
    <1>4. InvOnce'
        BY <1>1, <1>2, <1>3, ProcessOnce
    <1>5. InvTold'
        BY <1>1, <1>2, ProcessTold
    <1> QED  BY <1>4, <1>5

LEMMA DieOnce ==
    ASSUME Inv, InvOnce, InvTold, NEW s \in Shells, Die(s)
    PROVE  InvOnce' /\ InvTold'
    <1>1. UNCHANGED <<pc, handle, reading, result, printed>>
        BY DEF Die, history
    <1>2. /\ OthersSame(s) /\ shell'[s].input = shell[s].input
          /\ shell'[s].running \in {shell[s].running, NoCall}
          /\ shell'[s].output = shell[s].output
        <2>1. PICK next \in {shell[s].running, NoCall} :
                  shell' = [shell EXCEPT ![s].alive = FALSE, ![s].running = next]
            BY DEF Die
        <2>2. next \in Calls \cup {NoCall}
            BY ProcessTyped DEF Inv
        <2> QED  BY <2>1, <2>2, SetDead DEF Inv, TypeOK
    <1>3. /\ \A i, j \in DOMAIN shell'[s].input : shell'[s].input[i] = shell'[s].input[j] => i = j
          /\ \A c \in Calls : /\ shell'[s].running = c => ~Waits(s, c)'
                              /\ Pending(s, c)' => Pending(s, c)
        BY <1>2 DEF InvOnce, Waits, Pending
    <1>4. InvOnce'
        BY <1>1, <1>2, <1>3, ProcessOnce
    <1>5. InvTold'
        BY <1>1, <1>2, ProcessTold
    <1> QED  BY <1>4, <1>5

-----------------------------------------------------------------------------
(* The system again.                                                        *)

LEMMA InitOnce == Init => InvOnce /\ InvTold
    <1> SUFFICES ASSUME Init PROVE InvOnce /\ InvTold
        OBVIOUS
    <1>1. ASSUME NEW s \in Shells
          PROVE  /\ DOMAIN shell[s].input = {} /\ DOMAIN shell[s].output = {}
                 /\ shell[s].running = NoCall
        <2>1. shell[s].input = <<>> /\ shell[s].output = <<>> /\ shell[s].running = NoCall
            BY FreshIsClean DEF Init, Processes
        <2> QED  BY <2>1
    <1>2. \A c \in Calls : ~Marked(c) /\ printed[c] = 0 /\ \A s \in Shells : ~Pending(s, c)
        BY <1>1 DEF Init, Marked, Pending, Waits
    <1>3. InvOnce
        BY <1>1, <1>2 DEF InvOnce, Pending
    <1> QED  BY <1>2, <1>3 DEF InvTold

LEMMA StillOnce ==
    ASSUME InvOnce, InvTold, UNCHANGED <<shell, pc, handle, reading, result, printed>>
    PROVE  InvOnce' /\ InvTold'
    <1>1. InvOnce'
        BY DEF InvOnce, Pending, Waits, Marked, Marker, Reading
    <1>2. InvTold'
        BY DEF InvTold, Ahead, Kept, Output, Marker, Text, Reading, reading
    <1> QED  BY <1>1, <1>2

LEMMA NextOnce == Inv /\ InvOnce /\ InvTold /\ [Next]_vars => InvOnce' /\ InvTold'
    <1> SUFFICES ASSUME Inv, InvOnce, InvTold, [Next]_vars PROVE InvOnce' /\ InvTold'
        OBVIOUS
    <1>1. CASE UNCHANGED vars
        BY <1>1, StillOnce DEF vars, reading
    <1>2. ASSUME NEW c \in Calls, CallStep(c) PROVE InvOnce' /\ InvTold'
        <2>1. CASE GetShell(c)
            BY <2>1, GetOrSpawnOnce DEF GetShell
        <2>2. CASE GetAnother(c)
            BY <2>2, GetOrSpawnOnce DEF GetAnother
        <2>3. CASE SpawnFails(c)
            BY <2>3, EndLeaves DEF SpawnFails, Results, history
        <2>4. CASE Timeout(c)
            BY <2>4, EndLeaves DEF Timeout, Results
        <2>5. CASE EndOfFile(c)
            BY <2>5, EndLeaves DEF EndOfFile, Results, history
        <2> QED  BY <1>2, <2>1, <2>2, <2>3, <2>4, <2>5, LockOnce, FeedOnce, FeedFailsOnce,
                    CollectLineOnce, CollectMarkerOnce DEF CallStep
    <1>3. ASSUME NEW c \in Calls, Drop(c) PROVE InvOnce' /\ InvTold'
        BY <1>3, DropOnce
    <1>4. ASSUME NEW s \in Shells, ShellStep(s) PROVE InvOnce' /\ InvTold'
        BY <1>4, StartOnce, WriteLineOnce, FinishOnce, SwallowOnce, DieOnce, JobPrintsOnce,
           LeaveJobOnce, JobEndsOnce DEF ShellStep, Prints
    <1>5. CASE EvictSession
        BY <1>5, StillOnce DEF EvictSession, history
    <1> QED  BY <1>1, <1>2, <1>3, <1>4, <1>5 DEF Next, Finished

(* A call that reports an exit status has every line its command printed:   *)
(* it found its marker, and what the command printed was ahead of the       *)
(* marker or in its hands already, whoever used the shell before and        *)
(* whatever the command did with the input of others.  Or it has thrown     *)
(* lines away, and then it holds as many as an output may.                  *)
THEOREM ExitsAreComplete == Spec => []ExitHasItsOutput
    <1>1. Init => Inv /\ InvOnce /\ InvTold
        BY InitInv, InitOnce
    <1>2. (Inv /\ InvOnce /\ InvTold) /\ [Next]_vars => (Inv /\ InvOnce /\ InvTold)'
        BY NextInv, NextOnce
    <1>3. Inv /\ InvTold => ExitHasItsOutput
        BY DEF Inv, InvCalls, InvTold, ExitHasItsOutput
    <1> QED  BY <1>1, <1>2, <1>3, PTL DEF Spec
=============================================================================
