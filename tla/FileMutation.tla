---------------------------- MODULE FileMutation ----------------------------
(***************************************************************************)
(* The file-mutating tools of the MCPod server: `write` (tools/write.rs)   *)
(* and `edit` (tools/edit.rs), both run under the per-file mutation queue  *)
(* (fs/mutation_queue.rs) and committed by fs/atomic_write.rs.             *)
(*                                                                         *)
(* A call is a future of the async runtime.  Each file-system operation is *)
(* a closure handed to the blocking pool: the future dispatches it and     *)
(* sleeps (pc[c] names the awaited operation), the pool runs it            *)
(* (pending[c] becomes "none"), and the future is polled again.  Dropping  *)
(* the future - a cancelled request - releases the queue guard at once but *)
(* does not recall a closure already dispatched.                           *)
(*                                                                         *)
(* Directories, the computation of the new text and the diff are           *)
(* abstracted: Edited[e][x] is the text edit e makes of the text x, or     *)
(* NoEdit where the tool answers an error (binary, not UTF-8, no match,    *)
(* several matches, overlap, no change).                                   *)
(*                                                                         *)
(* What a file holds is a whole text; or Torn, as it was created or as a   *)
(* reported error or a power loss left it; or Cut, its last chunk lost by  *)
(* an error that was not reported.                                         *)
(***************************************************************************)
EXTENDS FiniteSets

CONSTANTS
    Write, Edit,    \* the calls of each tool
    File,           \* canonical paths
    Content,        \* whole texts a file may hold
    Absent,         \* no file
    Torn, Cut,      \* a partly written file, and one with its last chunk lost
    NoEdit,         \* the edit is refused on this text
    Target,         \* the path each call resolves to
    Text,           \* the text each write carries
    Edited,         \* the text each edit makes of a text
    Initial,        \* what each file holds at the start
    Cancellable     \* the calls whose request the client may cancel

Call == Write \cup Edit

ASSUME CallAssumption ==
    /\ Write \cap Edit = {}
    /\ Cancellable \subseteq Call
    /\ Target \in [Call -> File]

ASSUME ContentAssumption ==
    /\ {Absent, Torn, Cut, NoEdit} \cap Content = {}
    /\ Absent # Torn /\ Absent # Cut /\ Torn # Cut /\ NoEdit # Absent
    /\ Text \in [Write -> Content]
    /\ Edited \in [Edit -> [Content \cup {Cut} -> Content \cup {NoEdit}]]
    /\ Initial \in [File -> Content \cup {Absent}]
    \* lines 86-91 of edit.rs: an edit that changes nothing is an error
    /\ \A e \in Edit, x \in Content : Edited[e][x] # x

VARIABLES
    pc,       \* where the future of a call is, or how the call ended
    pending,  \* the closure of the call that the blocking pool has not run yet
    result,   \* what the last closure of the call returned
    ahead,    \* the calls queued for the same file before this one
    buf,      \* the text a call has read, then the text it will write
    tmp,      \* the temp file of the call's atomic write
    file,     \* the files, as running programs see them
    entries,  \* what a power loss may leave as each file
    overtaken \* history: a cancelled call has replaced the file since the edit
              \* read it

vars == <<pc, pending, result, ahead, buf, tmp, file, entries, overtaken>>

Operation == {"mkdir", "read", "create", "fill", "sync", "rename", "remove"}
Finished  == {"ok", "error", "gone"}
\* What reading a file may give.
Readable  == Content \cup {Cut}
Inode     == [text : Readable \cup {Absent, Torn}, synced : BOOLEAN]
NoFile    == [text |-> Absent, synced |-> TRUE]

Init ==
    /\ pc = [c \in Call |-> "idle"]
    /\ pending = [c \in Call |-> "none"]
    /\ result = [c \in Call |-> "none"]
    /\ ahead = [c \in Call |-> {}]
    /\ buf = [c \in Call |-> Absent]
    /\ tmp = [c \in Call |-> NoFile]
    /\ file = [f \in File |-> [text |-> Initial[f], synced |-> TRUE]]
    /\ entries = [f \in File |-> {[text |-> Initial[f], synced |-> TRUE]}]
    /\ overtaken = [c \in Call |-> FALSE]

-----------------------------------------------------------------------------
(* The mutation queue: one fair async mutex per canonical path.            *)

\* c owns the guard of its file.
Holds(c)  == pc[c] \in Operation
\* c owns the guard or waits for it.
InLine(c) == Holds(c) \/ pc[c] = "lock"

\* Mutated form of Leave: the guard outlives the future.
LeaveKeepingGuard(c, how) ==
    /\ pc' = [pc EXCEPT ![c] = how]
    /\ result' = [result EXCEPT ![c] = "none"]
    /\ overtaken' = [overtaken EXCEPT ![c] = FALSE]
    /\ UNCHANGED <<pending, ahead>>

\* The future of c ends, by return or by drop, and the guard drops with it.
Leave(c, how) ==
    /\ pc' = [pc EXCEPT ![c] = how]
    /\ ahead' = [d \in Call |-> IF d = c THEN {} ELSE ahead[d] \ {c}]
    /\ result' = [result EXCEPT ![c] = "none"]
    /\ overtaken' = [overtaken EXCEPT ![c] = FALSE]
    /\ UNCHANGED pending

\* The call is answered, having nothing left in the pool.
Answer(c, how) == Leave(c, how) /\ buf' = [buf EXCEPT ![c] = Absent]

\* The future hands `op` to the blocking pool and sleeps until it returns.
Dispatch(c, op) ==
    /\ pc' = [pc EXCEPT ![c] = op]
    /\ pending' = [pending EXCEPT ![c] = op]
    /\ result' = [result EXCEPT ![c] = "none"]
    /\ UNCHANGED <<ahead, overtaken>>

\* An empty edit list, an empty oldText, or a path outside the workspace.
Reject(c) ==
    /\ pc[c] = "idle"
    /\ pc' = [pc EXCEPT ![c] = "error"]
    /\ UNCHANGED <<pending, result, ahead, buf, tmp, file, entries, overtaken>>

\* Mutated form of Request: only the holder is waited for, not the queue.
RequestPastQueue(c) ==
    /\ pc[c] = "idle"
    /\ pc' = [pc EXCEPT ![c] = "lock"]
    /\ ahead' = [ahead EXCEPT ![c] =
                    {d \in Call : Holds(d) /\ Target[d] = Target[c]}]
    /\ UNCHANGED <<pending, result, buf, tmp, file, entries, overtaken>>

\* Mutated form of Request: one queue for all files.
RequestOneQueue(c) ==
    /\ pc[c] = "idle"
    /\ pc' = [pc EXCEPT ![c] = "lock"]
    /\ ahead' = [ahead EXCEPT ![c] = {d \in Call : InLine(d)}]
    /\ UNCHANGED <<pending, result, buf, tmp, file, entries, overtaken>>

\* The path is resolved and the call joins the queue of its file.
Request(c) ==
    /\ pc[c] = "idle"
    /\ pc' = [pc EXCEPT ![c] = "lock"]
    /\ ahead' = [ahead EXCEPT ![c] =
                    {d \in Call : InLine(d) /\ Target[d] = Target[c]}]
    /\ UNCHANGED <<pending, result, buf, tmp, file, entries, overtaken>>

\* Mutated form of Acquire: the guard is not awaited.
AcquireAtOnce(c) ==
    /\ pc[c] = "lock"
    /\ Dispatch(c, IF c \in Write THEN "mkdir" ELSE "read")
    /\ UNCHANGED <<buf, tmp, file, entries>>

\* The guard is granted in order of arrival; the first operation goes out.
Acquire(c) ==
    /\ pc[c] = "lock"
    /\ ahead[c] = {}
    /\ Dispatch(c, IF c \in Write THEN "mkdir" ELSE "read")
    /\ UNCHANGED <<buf, tmp, file, entries>>

-----------------------------------------------------------------------------
(* The blocking pool runs one dispatched closure.                          *)

\* A dropped future is not there to see the result.
Returns(c, r) ==
    /\ pending' = [pending EXCEPT ![c] = "none"]
    /\ result' = [result EXCEPT ![c] = IF pc[c] = pending[c] THEN r ELSE "none"]
    /\ UNCHANGED <<pc, ahead>>

\* Every operation may fail and leave the files as they are; a failed write
\* leaves the temp file as Torn as its creation did.
RunFails(c) ==
    /\ pending[c] # "none"
    /\ Returns(c, "failed")
    /\ UNCHANGED <<buf, tmp, file, entries, overtaken>>

RunMkdir(c) ==
    /\ pending[c] = "mkdir"
    /\ Returns(c, "ok")
    /\ UNCHANGED <<buf, tmp, file, entries, overtaken>>

RunRead(c) ==
    /\ pending[c] = "read"
    /\ file[Target[c]].text # Absent
    /\ Returns(c, "ok")
    /\ buf' = [buf EXCEPT ![c] = file[Target[c]].text]
    /\ UNCHANGED <<tmp, file, entries, overtaken>>

RunCreate(c) ==
    /\ pending[c] = "create"
    /\ Returns(c, "ok")
    /\ tmp' = [tmp EXCEPT ![c] = [text |-> Torn, synced |-> FALSE]]
    /\ UNCHANGED <<buf, file, entries, overtaken>>

\* write_all hands the text to the pool chunk by chunk and returns with the
\* last one still to be written.  The error of an earlier chunk is its own;
\* that of the last is kept by the file for a later write or flush, and there
\* is none: sync_all only waits for the chunk.
RunFill(c) ==
    /\ pending[c] = "fill"
    /\ Returns(c, "ok")
    /\ \E text \in {buf[c], Cut} : tmp' = [tmp EXCEPT ![c].text = text]
    /\ UNCHANGED <<buf, file, entries, overtaken>>

RunSync(c) ==
    /\ pending[c] = "sync"
    /\ Returns(c, "ok")
    /\ tmp' = [tmp EXCEPT ![c].synced = TRUE]
    /\ UNCHANGED <<buf, file, entries, overtaken>>

\* d has read its file and will write what it made of the text.
HasRead(d) == d \in Edit /\ Holds(d) /\ buf[d] # Absent

\* The rename is visible at once; until the directory is synced a power
\* loss may bring back any earlier entry.
RunRename(c) ==
    /\ pending[c] = "rename"
    /\ Returns(c, "ok")
    /\ file' = [file EXCEPT ![Target[c]] = tmp[c]]
    /\ entries' = [entries EXCEPT ![Target[c]] = @ \cup {tmp[c]}]
    /\ tmp' = [tmp EXCEPT ![c] = NoFile]
    /\ overtaken' = [d \in Call |->
            overtaken[d] \/ (~Holds(c) /\ HasRead(d) /\ Target[d] = Target[c])]
    /\ UNCHANGED buf

RunRemove(c) ==
    /\ pending[c] = "remove"
    /\ tmp[c] # NoFile
    /\ Returns(c, "ok")
    /\ tmp' = [tmp EXCEPT ![c] = NoFile]
    /\ UNCHANGED <<buf, file, entries, overtaken>>

Run(c) ==
    \/ RunFails(c) \/ RunMkdir(c) \/ RunRead(c) \/ RunCreate(c)
    \/ RunFill(c) \/ RunSync(c) \/ RunRename(c) \/ RunRemove(c)

-----------------------------------------------------------------------------
(* The future is polled with the result of the operation it awaited.       *)

Awaits(c, op, r) == pc[c] = op /\ pending[c] = "none" /\ result[c] = r

\* create_dir_all or the read failed.
PrepareFails(c) ==
    /\ Awaits(c, "mkdir", "failed") \/ Awaits(c, "read", "failed")
    /\ Answer(c, "error")
    /\ UNCHANGED <<tmp, file, entries>>

WritePrepared(c) ==
    /\ Awaits(c, "mkdir", "ok")
    /\ buf' = [buf EXCEPT ![c] = Text[c]]
    /\ Dispatch(c, "create")
    /\ UNCHANGED <<tmp, file, entries>>

EditRefused(c) ==
    /\ Awaits(c, "read", "ok")
    /\ Edited[c][buf[c]] = NoEdit
    /\ Answer(c, "error")
    /\ UNCHANGED <<tmp, file, entries>>

\* Mutated form of EditPrepared: a refused edit is written all the same.
EditUnchecked(c) ==
    /\ Awaits(c, "read", "ok")
    /\ buf' = [buf EXCEPT ![c] = Edited[c][buf[c]]]
    /\ Dispatch(c, "create")
    /\ UNCHANGED <<tmp, file, entries>>

EditPrepared(c) ==
    /\ Awaits(c, "read", "ok")
    /\ Edited[c][buf[c]] # NoEdit
    /\ buf' = [buf EXCEPT ![c] = Edited[c][buf[c]]]
    /\ Dispatch(c, "create")
    /\ UNCHANGED <<tmp, file, entries>>

\* Mutated form of Following: the temp file is not synced.
FollowingUnsynced == [create |-> "fill", fill |-> "rename", sync |-> "rename"]

\* The steps of write_inner, in order.
Following == [create |-> "fill", fill |-> "sync", sync |-> "rename"]

StepDone(c) ==
    /\ \E op \in DOMAIN Following :
        /\ Awaits(c, op, "ok")
        /\ Dispatch(c, Following[op])
    /\ UNCHANGED <<buf, tmp, file, entries>>

\* Any error of write_inner makes write_atomic remove the temp file.
StepFailed(c) ==
    /\ \E op \in DOMAIN Following \cup {"rename"} : Awaits(c, op, "failed")
    /\ Dispatch(c, "remove")
    /\ UNCHANGED <<buf, tmp, file, entries>>

\* Mutated form of Committed: the outcome of the rename is ignored.
CommittedUnchecked(c) ==
    /\ pc[c] = "rename" /\ pending[c] = "none"
    /\ Answer(c, "ok")
    /\ UNCHANGED <<tmp, file, entries>>

\* The directory sync is best effort and runs in the same poll.
Committed(c) ==
    /\ Awaits(c, "rename", "ok")
    /\ Answer(c, "ok")
    /\ \/ entries' = [entries EXCEPT ![Target[c]] = {file[Target[c]]}]
       \/ UNCHANGED entries
    /\ UNCHANGED <<tmp, file>>

\* The outcome of the removal is ignored.
Removed(c) ==
    /\ pc[c] = "remove" /\ pending[c] = "none"
    /\ Answer(c, "error")
    /\ UNCHANGED <<tmp, file, entries>>

Resume(c) ==
    \/ Acquire(c) \/ PrepareFails(c) \/ WritePrepared(c) \/ EditRefused(c)
    \/ EditPrepared(c) \/ StepDone(c) \/ StepFailed(c) \/ Committed(c)
    \/ Removed(c)

-----------------------------------------------------------------------------
(* The environment.                                                        *)

\* The future is dropped: it leaves the queue, its closure stays dispatched.
Cancel(c) ==
    /\ c \in Cancellable /\ InLine(c)
    /\ Leave(c, "gone")
    /\ UNCHANGED <<buf, tmp, file, entries>>

\* Everything in memory is lost with the process, the closures included.  A
\* temp file left behind is never used again, so tmp forgets it.
Restart ==
    /\ pc' = [c \in Call |-> IF InLine(c) THEN "gone" ELSE pc[c]]
    /\ pending' = [c \in Call |-> "none"]
    /\ result' = [c \in Call |-> "none"]
    /\ ahead' = [c \in Call |-> {}]
    /\ buf' = [c \in Call |-> Absent]
    /\ tmp' = [c \in Call |-> NoFile]
    /\ overtaken' = [c \in Call |-> FALSE]

ProcessCrash ==
    /\ Restart
    /\ UNCHANGED <<file, entries>>

\* What a power loss makes of an inode.
Surviving(inode) ==
    IF inode.synced THEN inode ELSE [text |-> Torn, synced |-> TRUE]

\* A file comes back as one of its possible entries.
PowerLoss ==
    /\ Restart
    /\ \E kept \in [File -> UNION {entries[f] : f \in File}] :
        /\ \A f \in File : kept[f] \in entries[f]
        /\ file' = [f \in File |-> Surviving(kept[f])]
        /\ entries' = [f \in File |-> {Surviving(kept[f])}]

\* The client sends the call again.  A slot is reused once its last closure
\* has run; the new call draws a fresh temp name.
Reissue(c) ==
    /\ pc[c] \in Finished /\ pending[c] = "none"
    /\ pc' = [pc EXCEPT ![c] = "idle"]
    /\ buf' = [buf EXCEPT ![c] = Absent]
    /\ tmp' = [tmp EXCEPT ![c] = NoFile]
    /\ UNCHANGED <<pending, result, ahead, file, entries, overtaken>>

Next ==
    \/ \E c \in Call : \/ Reject(c) \/ Request(c) \/ Run(c) \/ Resume(c)
                       \/ Cancel(c) \/ Reissue(c)
    \/ ProcessCrash
    \/ PowerLoss

\* The pool runs what it was handed and the runtime polls what is ready.
Fairness == \A c \in Call : WF_vars(Run(c)) /\ WF_vars(Resume(c))

Spec == Init /\ [][Next]_vars /\ Fairness

-----------------------------------------------------------------------------
(* Properties.                                                             *)

TypeOK ==
    /\ pc \in [Call -> Operation \cup Finished \cup {"idle", "lock"}]
    /\ pending \in [Call -> Operation \cup {"none"}]
    /\ result \in [Call -> {"none", "ok", "failed"}]
    /\ ahead \in [Call -> SUBSET Call]
    /\ buf \in [Call -> Readable \cup {Absent}]
    /\ tmp \in [Call -> Inode]
    /\ file \in [File -> Inode]
    /\ entries \in [File -> SUBSET Inode]
    /\ overtaken \in [Call -> BOOLEAN]

\* The queue admits one transaction per file: no two calls are past the
\* lock of the same path at once, whoever was cancelled in between.
MutualExclusion ==
    \A c, d \in Call :
        c # d /\ Target[c] = Target[d] => ~(Holds(c) /\ Holds(d))

\* "A crash or cancellation never leaves a partially written target behind"
\* (atomic_write.rs): no crash, power loss, cancellation or reported error does.
\* A last chunk lost without a report is another matter: WholeAnswer.
NoTornTarget ==
    \A f \in File :
        /\ file[f].text # Torn
        /\ \A inode \in entries[f] : Surviving(inode).text # Torn

\* "Concurrent tool calls on the same file cannot lose updates"
\* (mutation_queue.rs): an edit is committed over the very text it was
\* computed from.
Commits(e) ==
    /\ file[Target[e]].text \in Readable
    /\ file'[Target[e]].text \in {Edited[e][file[Target[e]].text], Cut}

\* No call loses an update by any order of arrivals, failures, crashes and
\* cancellations but one: the rename of a cancelled call landing after an edit
\* has read the file.  mutation_queue.rs:26-35, edit.rs:34-107.
NoLostUpdate ==
    [][\A e \in Edit : Holds(e) /\ RunRename(e) => overtaken[e] \/ Commits(e)]_vars

\* The same without the exception, of that rename itself: it never wipes out
\* what another call committed meanwhile.
NoLateOverwrite ==
    [][\A e \in Edit : pc[e] = "gone" /\ RunRename(e) => Commits(e)]_vars

\* What "write" and "edit" answer with success is in the file as the call made
\* it: write_inner reports any error of the write (atomic_write.rs:29-32) and
\* "the whole call is atomic" (README.en.md:220).
WholeAnswer ==
    [][\A c \in Call : Committed(c) => file[Target[c]].text # Cut]_vars

\* Atomicity as a whole: the two tools implement AtomicFiles.  A call has been
\* applied from its rename to its answer; a cancelled one lingers as long as
\* its rename is in the pool.
Status(c) ==
    IF InLine(c) THEN IF Awaits(c, "rename", "ok") THEN "applied" ELSE "open"
    ELSE IF pending[c] = "rename" THEN "lingering" ELSE pc[c]

Atomic == INSTANCE AtomicFiles WITH
    status   <- [c \in Call |-> Status(c)],
    contents <- [f \in File |-> file[f].text],
    past     <- [f \in File |-> {inode.text : inode \in entries[f]}]

\* Every call takes effect at one instant between its request and its answer,
\* over the text its file holds then, or not at all (edit.rs, "all-or-nothing").
AtomicSpec == Atomic!Spec

\* The queue of a file holds its own calls only, and nobody waits for a call
\* that has left: "different files proceed in parallel" (mutation_queue.rs).
QueueSound ==
    /\ \A c \in Call : \A d \in ahead[c] :
        c # d /\ pc[c] = "lock" /\ InLine(d) /\ Target[d] = Target[c]
    /\ \A c, d \in Call :
        c # d /\ InLine(c) /\ InLine(d) /\ Target[c] = Target[d] =>
            c \in ahead[d] \/ d \in ahead[c]

\* A call that joined the queue is answered, or ends with its request or
\* with the process: no holder keeps the guard of a file for ever.
Answered == \A c \in Call : pc[c] = "lock" ~> pc[c] \in Finished
=============================================================================
