------------------------------- MODULE BashTool -------------------------------
(***************************************************************************)
(* One call of the `bash` tool (tools/bash.rs) with the process group it   *)
(* runs in (process/process_group.rs): bash leads a group of its own, two  *)
(* reader tasks collect its pipes, and the call's future waits for bash,   *)
(* kills the group when its time is up, drains the readers for a while and *)
(* answers.  Dropping the future - a cancelled request - runs the drop     *)
(* guard of the group and leaves the reader tasks to themselves.           *)
(*                                                                         *)
(* The environment is whatever the command does: descendants that stay in  *)
(* the group or escape it with a session of their own, keep the pipes open *)
(* or close them, write and exit.  A chunk is its place in its stream.     *)
(***************************************************************************)
EXTENDS Naturals, FiniteSets

CONSTANTS
    Proc,      \* descendants the command may start
    Limited,   \* whether the call has a timeout
    MaxChunk   \* bound: chunks written to a stream

ASSUME BashAssumption ==
    Limited \in BOOLEAN /\ MaxChunk \in Nat /\ "bash" \notin Proc

Stream == {"stdout", "stderr"}

VARIABLES
    phase,     \* where the call's future is
    leader,    \* the bash process, leader of the group
    proc,      \* the descendants
    holders,   \* the processes with the pipes open
    defused,   \* the drop guard is disarmed
    timedOut,  \* the time limit has struck
    collected, \* the chunks taken: not yet ("no"), "all" as both readers had
               \* ended, or "late" as the drain expired
    written,   \* chunks written to each pipe
    got,       \* chunks read from each pipe
    reader,    \* the reader tasks
    stamp,     \* the sequence number a reader has drawn for its chunk
    nextSeq,   \* CHUNK_SEQ
    chunks,    \* chunks pushed and not taken
    taken,     \* chunks of the answer; sorting makes their order that of seq
    strayKill  \* killpg was called on a group that may be another's by then

bashVars == <<phase, leader, proc, holders, defused, timedOut, collected, written,
              got, reader, stamp, nextSeq, chunks, taken, strayKill>>
group    == <<leader, proc, holders, strayKill>>
readers  == <<got, reader, stamp, nextSeq, chunks>>
answer   == <<timedOut, collected, taken>>

Chunk == [seq : Nat, stream : Stream, nth : 1..MaxChunk]
Final == {"returned", "dropped"}

BashInit ==
    /\ phase = "idle"
    /\ leader = "none"
    /\ proc = [p \in Proc |-> "none"]
    /\ holders = {}
    /\ defused = FALSE /\ timedOut = FALSE /\ collected = "no"
    /\ written = [s \in Stream |-> 0]
    /\ got = [s \in Stream |-> 0]
    /\ reader = [s \in Stream |-> "none"]
    /\ stamp = [s \in Stream |-> 0]
    /\ nextSeq = 0
    /\ chunks = {} /\ taken = {}
    /\ strayKill = FALSE

-----------------------------------------------------------------------------
(* The process group.                                                      *)

InGroup == {p \in Proc : proc[p] = "group"}

\* Mutated form of KillGroup: only bash is signalled.
KillBashOnly ==
    /\ leader' = IF leader = "running" THEN "zombie" ELSE leader
    /\ holders' = holders \ {"bash"}
    /\ UNCHANGED <<proc, strayKill>>

\* SIGKILL to every member.  The group id stays bash's until bash is reaped
\* and the last member is gone; after that it may name another group.
KillGroup ==
    /\ leader' = IF leader = "running" THEN "zombie" ELSE leader
    /\ proc' = [p \in Proc |-> IF proc[p] = "group" THEN "dead" ELSE proc[p]]
    /\ holders' = holders \ (InGroup \cup {"bash"})
    /\ strayKill' = (strayKill \/ (leader = "reaped" /\ InGroup = {}))

\* Mutated form of DropGroup: no drop guard.
NoDropGuard == UNCHANGED group

\* Drop for GroupChild: the guard kills the group unless it was disarmed.
DropGroup ==
    IF defused THEN UNCHANGED group ELSE KillGroup

\* Mutated form of ReapLeader: the guard stays armed.
ReapArmed ==
    /\ leader = "zombie"
    /\ leader' = "reaped"
    /\ UNCHANGED <<proc, holders, defused, strayKill>>

\* wait() reaps bash and disarms the guard in the same poll.
ReapLeader ==
    /\ leader = "zombie"
    /\ leader' = "reaped"
    /\ defused' = TRUE
    /\ UNCHANGED <<proc, holders, strayKill>>

-----------------------------------------------------------------------------
(* The call's future.                                                      *)

Spawn ==
    /\ phase = "idle"
    /\ phase' = "waiting"
    /\ leader' = "running"
    /\ holders' = {"bash"}
    /\ reader' = [s \in Stream |-> "reading"]
    /\ UNCHANGED <<proc, defused, answer, written, got, stamp,
                   nextSeq, chunks, strayKill>>

SpawnFails ==
    /\ phase = "idle"
    /\ phase' = "returned"
    /\ UNCHANGED <<group, defused, answer, written, readers>>

\* Bash has exited before the limit.
WaitReturns ==
    /\ phase = "waiting"
    /\ ReapLeader
    /\ phase' = "draining"
    /\ UNCHANGED <<answer, written, readers>>

\* The limit strikes while the wait is pending: kill the group, then reap.
LimitStrikes ==
    /\ phase = "waiting" /\ Limited
    /\ KillGroup
    /\ phase' = "killing"
    /\ timedOut' = TRUE
    /\ UNCHANGED <<defused, collected, taken, written, readers>>

KilledReaped ==
    /\ phase = "killing"
    /\ ReapLeader
    /\ phase' = "draining"
    /\ UNCHANGED <<answer, written, readers>>

\* The future ends with its answer and drops the group.
Return == phase' = "returned" /\ DropGroup

\* Abort the readers and take the chunks: what has been pushed by now is the
\* answer.  A cut output is first saved to a log file.
TakeChunks(how) ==
    /\ phase = "draining"
    /\ collected' = how
    /\ taken' = chunks
    /\ chunks' = {}
    /\ (phase' = "saving" /\ UNCHANGED group) \/ Return
    /\ UNCHANGED <<defused, timedOut, written, got, reader, stamp, nextSeq>>

\* Mutated form of DrainEnds: only one reader is awaited.
DrainEndsEarly ==
    /\ reader["stdout"] = "ended"
    /\ TakeChunks("all")

DrainEnds ==
    /\ \A s \in Stream : reader[s] = "ended"
    /\ TakeChunks("all")

\* Mutated form of DrainExpires: the drain has no limit.
NoDrainLimit == FALSE

\* Two seconds have passed and somebody still keeps a pipe open.
DrainExpires ==
    /\ \E s \in Stream : reader[s] # "ended"
    /\ TakeChunks("late")

\* The log is written, or the call fails for want of it.
LogSaved ==
    /\ phase = "saving"
    /\ Return
    /\ UNCHANGED <<defused, answer, written, readers>>

\* The request is cancelled, or waiting for bash failed: the future ends in
\* the middle, the drop guard runs and the readers are left behind.
Drop ==
    /\ phase \in {"waiting", "killing", "draining", "saving"}
    /\ phase' = "dropped"
    /\ DropGroup
    /\ UNCHANGED <<defused, answer, written, readers>>

Future ==
    \/ Spawn \/ SpawnFails \/ WaitReturns \/ LimitStrikes \/ KilledReaped
    \/ DrainEnds \/ DrainExpires \/ LogSaved

-----------------------------------------------------------------------------
(* The reader tasks (read_stream).                                         *)

\* Someone can still write to the pipes.
PipesOpen == holders # {}

\* Mutated form of Aborted: the readers are not aborted.
NeverAborted == FALSE

\* The abort handles fire just before the chunks are taken.
Aborted == collected # "no"

ReadChunk(s) ==
    /\ reader[s] = "reading" /\ got[s] < written[s]
    /\ got' = [got EXCEPT ![s] = @ + 1]
    /\ reader' = [reader EXCEPT ![s] = "read"]
    /\ UNCHANGED <<stamp, nextSeq, chunks>>

\* Mutated form of Draw: the counter is read but not advanced.
DrawSame(s) ==
    /\ reader[s] = "read"
    /\ stamp' = [stamp EXCEPT ![s] = nextSeq]
    /\ reader' = [reader EXCEPT ![s] = "drawn"]
    /\ UNCHANGED <<got, nextSeq, chunks>>

\* The sequence number is drawn before the list is locked, so another reader
\* may push in between.
Draw(s) ==
    /\ reader[s] = "read"
    /\ stamp' = [stamp EXCEPT ![s] = nextSeq]
    /\ nextSeq' = nextSeq + 1
    /\ reader' = [reader EXCEPT ![s] = "drawn"]
    /\ UNCHANGED <<got, chunks>>

\* Mutated form of Push: the chunk before the one just read.
PushPrevious(s) ==
    /\ reader[s] = "drawn"
    /\ chunks' = chunks \cup {[seq |-> stamp[s], stream |-> s, nth |-> got[s] - 1]}
    /\ reader' = [reader EXCEPT ![s] = "reading"]
    /\ UNCHANGED <<got, stamp, nextSeq>>

Push(s) ==
    /\ reader[s] = "drawn"
    /\ chunks' = chunks \cup {[seq |-> stamp[s], stream |-> s, nth |-> got[s]]}
    /\ reader' = [reader EXCEPT ![s] = "reading"]
    /\ UNCHANGED <<got, stamp, nextSeq>>

EndOfFile(s) ==
    /\ reader[s] = "reading" /\ got[s] = written[s]
    /\ ~PipesOpen
    /\ reader' = [reader EXCEPT ![s] = "ended"]
    /\ UNCHANGED <<got, stamp, nextSeq, chunks>>

\* An abort takes effect where the task awaits the pipe.
Abort(s) ==
    /\ Aborted /\ reader[s] = "reading"
    /\ reader' = [reader EXCEPT ![s] = "ended"]
    /\ UNCHANGED <<got, stamp, nextSeq, chunks>>

Reader(s) ==
    /\ ReadChunk(s) \/ Draw(s) \/ Push(s) \/ EndOfFile(s) \/ Abort(s)
    /\ UNCHANGED <<phase, group, defused, answer, written>>

-----------------------------------------------------------------------------
(* The command.                                                            *)

Running == {p \in Proc : proc[p] \in {"group", "escaped"}}
              \cup (IF leader = "running" THEN {"bash"} ELSE {})

\* A process starts another, in its own group and with what it has open.
Start(parent, p) ==
    /\ proc[p] = "none"
    /\ proc' = [proc EXCEPT ![p] = IF parent = "bash" THEN "group" ELSE proc[parent]]
    /\ holders' = IF parent \in holders THEN holders \cup {p} ELSE holders
    /\ UNCHANGED <<leader, written>>

\* setsid: p leaves the group, out of killpg's reach.
Escape(p) ==
    /\ proc[p] = "group"
    /\ proc' = [proc EXCEPT ![p] = "escaped"]
    /\ UNCHANGED <<leader, holders, written>>

\* A process closes its output, or sends it elsewhere.
Redirect(p) ==
    /\ p \in holders
    /\ holders' = holders \ {p}
    /\ UNCHANGED <<leader, proc, written>>

Exit(p) ==
    /\ proc[p] \in {"group", "escaped"}
    /\ proc' = [proc EXCEPT ![p] = "dead"]
    /\ holders' = holders \ {p}
    /\ UNCHANGED <<leader, written>>

LeaderExits ==
    /\ leader = "running"
    /\ leader' = "zombie"
    /\ holders' = holders \ {"bash"}
    /\ UNCHANGED <<proc, written>>

Emit(s) ==
    /\ PipesOpen /\ written[s] < MaxChunk
    /\ written' = [written EXCEPT ![s] = @ + 1]
    /\ UNCHANGED <<leader, proc, holders>>

Command ==
    /\ \/ \E p \in Proc : Escape(p) \/ Exit(p)
       \/ \E parent \in Running, p \in Proc : Start(parent, p)
       \/ \E p \in Proc \cup {"bash"} : Redirect(p)
       \/ LeaderExits
       \/ \E s \in Stream : Emit(s)
    /\ UNCHANGED <<phase, defused, answer, readers, strayKill>>

BashNext == Future \/ Drop \/ Command \/ \E s \in Stream : Reader(s)

\* The runtime polls the future and the readers and its timers fire; nothing
\* is assumed of the command or of the client.
BashFairness == WF_bashVars(Future) /\ \A s \in Stream : WF_bashVars(Reader(s))

BashSpec == BashInit /\ [][BashNext]_bashVars /\ BashFairness

-----------------------------------------------------------------------------
(* Properties.                                                             *)

BashTypeOK ==
    /\ phase \in {"idle", "waiting", "killing", "draining", "saving"} \cup Final
    /\ leader \in {"none", "running", "zombie", "reaped"}
    /\ proc \in [Proc -> {"none", "group", "escaped", "dead"}]
    /\ holders \subseteq Proc \cup {"bash"}
    /\ {defused, timedOut, strayKill} \subseteq BOOLEAN
    /\ collected \in {"no", "all", "late"}
    /\ written \in [Stream -> 0..MaxChunk]
    /\ got \in [Stream -> 0..MaxChunk]
    /\ reader \in [Stream -> {"none", "reading", "read", "drawn", "ended"}]
    /\ stamp \in [Stream -> Nat]
    /\ nextSeq \in Nat
    /\ chunks \subseteq Chunk
    /\ taken \subseteq Chunk

\* "A timeout can kill the entire tree" (process_group.rs): once the limit
\* has struck nobody in the group runs, so no timed-out command goes on.
TimeoutKillsTree == timedOut => leader # "running" /\ InGroup = {}

\* A call cancelled before bash was reaped takes the group with it (Drop).
EarlyCancelKillsTree ==
    phase = "dropped" /\ leader # "reaped" => leader # "running" /\ InGroup = {}

\* "Dropping the tool future (request cancellation) takes the whole tree down
\* too" (process_group.rs lines 6-7), at whatever moment.
CancelKillsTree == phase = "dropped" => leader # "running" /\ InGroup = {}

\* The guard is disarmed no later than bash is reaped: killpg never signals a
\* group whose number the system may have given to someone else.
NoStrayKill == ~strayKill

\* The chunks of stream s in a set of chunks.
Of(s, set) == {c \in set : c.stream = s}

\* What the answer shows of a stream is an initial part of what was written,
\* in the order written, however the two readers interleave.
OutputIsPrefix ==
    \A s \in Stream :
        /\ \E n \in 0..written[s] : {c.nth : c \in Of(s, taken)} = 1..n
        /\ \A c, d \in Of(s, taken) : c.nth < d.nth <=> c.seq < d.seq

\* If nobody kept a pipe open the answer shows everything that was written.
OutputIsWhole ==
    collected = "all" => \A s \in Stream : {c.nth : c \in Of(s, taken)} = 1..written[s]

\* Once bash has exited, or under a time limit in any case, the call is
\* answered, even if a daemon keeps the pipes open for ever.
Answered ==
    phase = "waiting" /\ (Limited \/ leader = "zombie") ~> phase \in Final

\* A call that has taken its output leaves no reader task behind, even if a
\* daemon keeps the pipes open or the request is cancelled while the log is
\* saved.
ReadersEnd ==
    collected # "no" ~> \A s \in Stream : reader[s] \in {"none", "ended"}
=============================================================================
