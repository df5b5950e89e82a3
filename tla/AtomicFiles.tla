----------------------------- MODULE AtomicFiles -----------------------------
(***************************************************************************)
(* What the `write` and `edit` tools do to files, seen from outside        *)
(* (mutation_queue.rs lines 3-6, atomic_write.rs lines 1-2, edit.rs lines  *)
(* 1-3): a call either replaces the whole text of its file in one step,    *)
(* computed from the text the file holds at that step, and may then be     *)
(* answered with success; or it leaves the file alone.  A restart ends the *)
(* calls in progress, each of them applied or not, and a power loss may    *)
(* besides bring back an earlier text of a file, but nothing else.         *)
(*                                                                         *)
(* The code keeps this but for two things.  The text may have lost its end *)
(* (Cut) all the same.  And a call that is cancelled may linger and take   *)
(* effect late; an edit that has read the file before, which it overtakes, *)
(* is then applied to a text that is no longer there.                      *)
(***************************************************************************)
CONSTANTS Write, Edit, File, Content, Absent, Cut, NoEdit, Target, Text, Edited, Initial

VARIABLES status, contents, past, overtaken

vars == <<status, contents, past, overtaken>>

Call == Write \cup Edit

Init ==
    /\ status = [c \in Call |-> "idle"]
    /\ contents = Initial
    /\ past = [f \in File |-> {Initial[f]}]
    /\ overtaken = [c \in Call |-> FALSE]

\* Only a call in progress stays overtaken.
Move(c, from, to) ==
    /\ status[c] = from /\ status' = [status EXCEPT ![c] = to]
    /\ overtaken' = [overtaken EXCEPT ![c] = @ /\ to = "applied"]

Begin(c) == Move(c, "idle", "open") /\ UNCHANGED <<contents, past>>

\* The text call c turns the text x into, if it applies to x at all.
Outcome(c, x) ==
    IF c \in Write THEN {Text[c]}
    ELSE IF x = Absent THEN {} ELSE {Edited[c][x]} \ {NoEdit}
OutcomeNow(c) == Outcome(c, contents[Target[c]])
OutcomeOnce(c) == UNION {Outcome(c, x) : x \in Content \cup {Cut}}

\* The file of c holds one of the texts, or what is left of it.
Becomes(c, texts) ==
    \E x \in texts : \E y \in {x, Cut} :
        /\ contents' = [contents EXCEPT ![Target[c]] = y]
        /\ past' = [past EXCEPT ![Target[c]] = @ \cup {y}]

Apply(c) ==
    /\ Move(c, "open", "applied")
    /\ Becomes(c, IF overtaken[c] THEN OutcomeOnce(c) ELSE OutcomeNow(c))

\* Success is answered for an applied call only; what came before is then
\* out of a power loss's reach, or not: making that sure is best effort.
Succeed(c) ==
    /\ Move(c, "applied", "ok")
    /\ \/ past' = [past EXCEPT ![Target[c]] = {contents[Target[c]]}]
       \/ UNCHANGED past
    /\ UNCHANGED contents

\* An error is answered for a call that changed nothing only.
Fail(c) ==
    /\ Move(c, "idle", "error") \/ Move(c, "open", "error")
    /\ UNCHANGED <<contents, past>>

Cancel(c) ==
    /\ \/ Move(c, "open", "lingering") \/ Move(c, "open", "gone")
       \/ Move(c, "applied", "gone") \/ Move(c, "lingering", "gone")
    /\ UNCHANGED <<contents, past>>

\* A cancelled call takes effect, over edits that have read its file.
ApplyLate(c) ==
    /\ status[c] = "lingering" /\ status' = [status EXCEPT ![c] = "gone"]
    /\ Becomes(c, OutcomeOnce(c))
    /\ \E late \in SUBSET {d \in Edit : Target[d] = Target[c]} :
          overtaken' = [d \in Call |-> overtaken[d]
                           \/ (d \in late /\ status[d] \in {"open", "applied"})]

Forget(c) ==
    /\ \E s \in {"ok", "error", "gone"} : Move(c, s, "idle")
    /\ UNCHANGED <<contents, past>>

Restart ==
    /\ status' = [c \in Call |-> IF status[c] \in {"open", "applied", "lingering"}
                                  THEN "gone" ELSE status[c]]
    /\ overtaken' = [c \in Call |-> FALSE]
    /\ \/ UNCHANGED <<contents, past>>
       \/ \E kept \in [File -> UNION {past[f] : f \in File}] :
            /\ \A f \in File : kept[f] \in past[f]
            /\ contents' = kept
            /\ past' = [f \in File |-> {kept[f]}]

Next ==
    \/ \E c \in Call : \/ Begin(c) \/ Apply(c) \/ Succeed(c) \/ Fail(c)
                       \/ Cancel(c) \/ ApplyLate(c) \/ Forget(c)
    \/ Restart

Spec == Init /\ [][Next]_vars
=============================================================================
