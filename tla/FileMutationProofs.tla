------------------------- MODULE FileMutationProofs -------------------------
(***************************************************************************)
(* Proofs about FileMutation, for every set of calls, files and texts: the *)
(* queue excludes, no crash or cancellation leaves a file half written, and *)
(* no update is lost but to the rename of a cancelled call.                *)
(***************************************************************************)
EXTENDS FileMutation, TLAPS

-----------------------------------------------------------------------------
(* The inductive invariant.                                                *)

\* What the pool holds for a call is what the call awaits; a call that is not
\* past the lock has something in the pool only if its future was dropped.
PendingSound ==
    \A c \in Call :
        /\ Holds(c) => pending[c] \in {pc[c], "none"}
        /\ pc[c] \in {"idle", "lock", "ok", "error"} => pending[c] = "none"
        /\ pc[c] = "mkdir" => c \in Write
        /\ pc[c] = "read" => c \in Edit

\* How far the atomic write of a call has come, dropped or not.
Ready(c)  == \/ {pc[c], pending[c]} \cap {"create", "fill", "sync", "rename"} # {}
             \/ Awaits(c, "read", "ok")
Full(c)   == pending[c] = "sync" \/ Awaits(c, "fill", "ok")
Synced(c) == pending[c] = "rename" \/ Awaits(c, "sync", "ok")

TempSound ==
    \A c \in Call :
        /\ Ready(c) => buf[c] \in Readable
        /\ Full(c) => tmp[c].text \in {buf[c], Cut}
        /\ Synced(c) => tmp[c].text \in {buf[c], Cut} /\ tmp[c].synced

\* Every entry a file has, or may come back with, is on disk and no torn one.
DiskSound ==
    \A f \in File :
        /\ file[f].text # Torn /\ file[f].synced
        /\ \A inode \in entries[f] : inode.text # Torn /\ inode.synced

IInv == TypeOK /\ QueueSound /\ PendingSound /\ TempSound /\ DiskSound

\* What a live edit is about to write is the edit of what its file holds, as
\* long as no cancelled call has overtaken it; only live calls are overtaken.
UpToDate ==
    /\ \A c \in Call : overtaken[c] => Holds(c)
    /\ \A e \in Edit : Holds(e) /\ ~overtaken[e] =>
        /\ Awaits(e, "read", "ok") => buf[e] = file[Target[e]].text
        /\ pc[e] \in {"create", "fill", "sync"} \/ pending[e] = "rename" =>
            /\ file[Target[e]].text \in Readable
            /\ buf[e] = Edited[e][file[Target[e]].text]

-----------------------------------------------------------------------------
(* Facts about the actions.                                                *)

\* The three steps of write_inner that another one follows.
LEMMA StepDoneCases ==
    ASSUME NEW c, StepDone(c)
    PROVE  /\ UNCHANGED <<buf, tmp, file, entries>>
           /\ \/ Awaits(c, "create", "ok") /\ Dispatch(c, "fill")
              \/ Awaits(c, "fill", "ok") /\ Dispatch(c, "sync")
              \/ Awaits(c, "sync", "ok") /\ Dispatch(c, "rename")
<1>1. DOMAIN Following = {"create", "fill", "sync"}
  BY DEF Following
<1>2. /\ Following["create"] = "fill"
      /\ Following["fill"] = "sync"
      /\ Following["sync"] = "rename"
  BY DEF Following
<1>3. PICK op \in {"create", "fill", "sync"} :
        Awaits(c, op, "ok") /\ Dispatch(c, Following[op])
  BY <1>1 DEF StepDone
<1>4. UNCHANGED <<buf, tmp, file, entries>>
  BY DEF StepDone
<1>5. CASE op = "create"
  BY <1>2, <1>3, <1>4, <1>5
<1>6. CASE op = "fill"
  BY <1>2, <1>3, <1>4, <1>6
<1>7. CASE op = "sync"
  BY <1>2, <1>3, <1>4, <1>7
<1>8. QED
  BY <1>5, <1>6, <1>7

\* Any of the four may fail, and is followed by the removal.
LEMMA StepFailedCases ==
    ASSUME NEW c, StepFailed(c)
    PROVE  /\ pc[c] \in {"create", "fill", "sync", "rename"}
           /\ pending[c] = "none" /\ result[c] = "failed"
           /\ Dispatch(c, "remove")
<1>1. DOMAIN Following = {"create", "fill", "sync"}
  BY DEF Following
<1>2. QED
  BY <1>1 DEF StepFailed, Awaits

\* Beside what it does to the disk, a power loss is a restart.
LEMMA PowerLossRestarts == PowerLoss => Restart
  BY DEF PowerLoss

\* With every entry synced, a power loss brings each file back as one of its
\* entries, unharmed.
LEMMA PowerLossKeepsAnEntry ==
    ASSUME DiskSound, PowerLoss, NEW f \in File
    PROVE  file'[f] \in entries[f] /\ entries'[f] = {file'[f]}
<1>1. PICK kept \in [File -> UNION {entries[x] : x \in File}] :
        /\ \A x \in File : kept[x] \in entries[x]
        /\ file' = [x \in File |-> Surviving(kept[x])]
        /\ entries' = [x \in File |-> {Surviving(kept[x])}]
  BY DEF PowerLoss
<1>2. kept[f] \in entries[f] /\ kept[f].synced
  BY <1>1 DEF DiskSound
<1>3. Surviving(kept[f]) = kept[f]
  BY <1>2 DEF Surviving
<1>4. file'[f] = kept[f] /\ entries'[f] = {kept[f]}
  BY <1>1, <1>3
<1>5. QED
  BY <1>2, <1>4

-----------------------------------------------------------------------------
LEMMA InitIInv == Init => IInv
<1> SUFFICES ASSUME Init PROVE IInv
  OBVIOUS
<1> USE CallAssumption, ContentAssumption DEF Init, Call
<1>1. TypeOK
  BY DEF TypeOK, Operation, Finished, Inode, NoFile, Readable
<1>2. QueueSound
  BY DEF QueueSound, InLine, Holds, Operation
<1>3. PendingSound
  BY DEF PendingSound, Holds, Operation
<1>4. TempSound
  BY DEF TempSound, Ready, Full, Synced, Awaits
<1>5. DiskSound
  BY DEF DiskSound
<1>6. QED
  BY <1>1, <1>2, <1>3, <1>4, <1>5 DEF IInv

LEMMA TypeStep == IInv /\ [Next]_vars => TypeOK'
<1> SUFFICES ASSUME IInv, [Next]_vars PROVE TypeOK'
  OBVIOUS
<1> USE CallAssumption, ContentAssumption DEF IInv, TypeOK, Operation, Finished, Inode, NoFile, Readable
<1>1. ASSUME NEW c \in Call, Reject(c) PROVE TypeOK'
  BY <1>1 DEF Reject
<1>2. ASSUME NEW c \in Call, Request(c) PROVE TypeOK'
  BY <1>2 DEF Request
<1>3. ASSUME NEW c \in Call, RunFails(c) PROVE TypeOK'
  BY <1>3 DEF RunFails, Returns
<1>4. ASSUME NEW c \in Call, RunMkdir(c) PROVE TypeOK'
  BY <1>4 DEF RunMkdir, Returns
<1>5. ASSUME NEW c \in Call, RunRead(c) PROVE TypeOK'
  <2>1. Target[c] \in File
    OBVIOUS
  <2>2. file[Target[c]] \in Inode /\ file[Target[c]].text # Torn
    BY <2>1 DEF DiskSound
  <2>3. file[Target[c]].text \in Readable
    BY <1>5, <2>2 DEF RunRead
  <2>4. QED
    BY <1>5, <2>3 DEF RunRead, Returns
<1>6. ASSUME NEW c \in Call, RunCreate(c) PROVE TypeOK'
  BY <1>6 DEF RunCreate, Returns
<1>7. ASSUME NEW c \in Call, RunFill(c) PROVE TypeOK'
  <2>1. buf[c] \in Readable
    BY <1>7 DEF RunFill, TempSound, Ready
  <2>2. PICK text \in Readable : tmp' = [tmp EXCEPT ![c].text = text]
    BY <1>7, <2>1 DEF RunFill
  <2>3. tmp \in [Call -> Inode] /\ [tmp[c] EXCEPT !.text = text] \in Inode
    <3>1. tmp[c] \in Inode /\ text \in Readable \cup {Absent, Torn}
      OBVIOUS
    <3>2. QED
      BY ONLY <1>7, <3>1, IInv DEF IInv, TypeOK, Inode
  <2>4. \A T : tmp \in [Call -> T] /\ [tmp[c] EXCEPT !.text = text] \in T
                => tmp' \in [Call -> T]
    BY ONLY <2>2
  <2>5. tmp' \in [Call -> Inode]
    BY ONLY <2>3, <2>4
  <2>6. QED
    BY <1>7, <2>5 DEF RunFill, Returns
<1>8. ASSUME NEW c \in Call, RunSync(c) PROVE TypeOK'
  BY <1>8 DEF RunSync, Returns
<1>9. ASSUME NEW c \in Call, RunRename(c) PROVE TypeOK'
  BY <1>9 DEF RunRename, Returns
<1>10. ASSUME NEW c \in Call, RunRemove(c) PROVE TypeOK'
  BY <1>10 DEF RunRemove, Returns
<1>11. ASSUME NEW c \in Call, Acquire(c) PROVE TypeOK'
  BY <1>11 DEF Acquire, Dispatch
<1>12. ASSUME NEW c \in Call, PrepareFails(c) PROVE TypeOK'
  BY <1>12 DEF PrepareFails, Answer, Leave, Awaits
<1>13. ASSUME NEW c \in Call, WritePrepared(c) PROVE TypeOK'
  <2>1. c \in Write
    BY <1>13 DEF WritePrepared, Awaits, PendingSound
  <2>2. Text[c] \in Content
    BY <2>1
  <2>3. QED
    BY <1>13, <2>2 DEF WritePrepared, Dispatch
<1>14. ASSUME NEW c \in Call, EditRefused(c) PROVE TypeOK'
  BY <1>14 DEF EditRefused, Answer, Leave, Awaits
<1>15. ASSUME NEW c \in Call, EditPrepared(c) PROVE TypeOK'
  <2>1. c \in Edit /\ buf[c] \in Readable
    BY <1>15 DEF EditPrepared, Awaits, PendingSound, TempSound, Ready
  <2>2. Edited[c][buf[c]] \in Content
    BY <1>15, <2>1 DEF EditPrepared
  <2>3. QED
    BY <1>15, <2>2 DEF EditPrepared, Dispatch
<1>16. ASSUME NEW c \in Call, StepDone(c) PROVE TypeOK'
  <2>1. CASE Dispatch(c, "fill")
    BY <1>16, <2>1, StepDoneCases DEF Dispatch
  <2>2. CASE Dispatch(c, "sync")
    BY <1>16, <2>2, StepDoneCases DEF Dispatch
  <2>3. CASE Dispatch(c, "rename")
    BY <1>16, <2>3, StepDoneCases DEF Dispatch
  <2>4. QED
    BY <1>16, <2>1, <2>2, <2>3, StepDoneCases
<1>17. ASSUME NEW c \in Call, StepFailed(c) PROVE TypeOK'
  BY <1>17, StepFailedCases DEF StepFailed, Dispatch
<1>18. ASSUME NEW c \in Call, Committed(c) PROVE TypeOK'
  <2>1. entries' \in [File -> SUBSET Inode]
    BY <1>18 DEF Committed
  <2>2. QED
    BY <1>18, <2>1 DEF Committed, Answer, Leave
<1>19. ASSUME NEW c \in Call, Removed(c) PROVE TypeOK'
  BY <1>19 DEF Removed, Answer, Leave
<1>20. ASSUME NEW c \in Call, Cancel(c) PROVE TypeOK'
  BY <1>20 DEF Cancel, Leave
<1>21. ASSUME NEW c \in Call, Reissue(c) PROVE TypeOK'
  BY <1>21 DEF Reissue
<1>22. CASE ProcessCrash
  BY <1>22 DEF ProcessCrash, Restart
<1>23. CASE PowerLoss
  <2>1. Restart
    BY <1>23, PowerLossRestarts
  <2>2. PICK kept \in [File -> UNION {entries[x] : x \in File}] :
          /\ \A x \in File : kept[x] \in entries[x]
          /\ file' = [x \in File |-> Surviving(kept[x])]
          /\ entries' = [x \in File |-> {Surviving(kept[x])}]
    BY <1>23 DEF PowerLoss
  <2>3. \A x \in File : Surviving(kept[x]) \in Inode
    BY <2>2 DEF Surviving, DiskSound
  <2>4. file' \in [File -> Inode] /\ entries' \in [File -> SUBSET Inode]
    BY <2>2, <2>3
  <2>5. NoFile \in Inode
    OBVIOUS
  <2>6. tmp' \in [Call -> Inode]
    BY <2>1, <2>5 DEF Restart
  <2>7. QED
    BY <2>1, <2>4, <2>6 DEF Restart
<1>24. CASE UNCHANGED vars
  BY <1>24 DEF vars
<1> HIDE DEF IInv, TypeOK, Operation, Finished, Inode, NoFile, Readable
<1>25. QED
  BY <1>1, <1>2, <1>3, <1>4, <1>5, <1>6, <1>7, <1>8, <1>9, <1>10, <1>11,
     <1>12, <1>13, <1>14, <1>15, <1>16, <1>17, <1>18, <1>19, <1>20, <1>21,
     <1>22, <1>23, <1>24 DEF Next, Run, Resume

LEMMA QueueStep == IInv /\ [Next]_vars => QueueSound'
<1> SUFFICES ASSUME IInv, [Next]_vars PROVE QueueSound'
  OBVIOUS
<1> USE CallAssumption, ContentAssumption DEF IInv, TypeOK, QueueSound, InLine, Holds, Operation, Finished
<1>1. ASSUME NEW c \in Call, Reject(c) PROVE QueueSound'
  BY <1>1 DEF Reject
<1>2. ASSUME NEW c \in Call, Request(c) PROVE QueueSound'
  BY <1>2 DEF Request
<1>3. ASSUME NEW c \in Call, RunFails(c) PROVE QueueSound'
  BY <1>3 DEF RunFails, Returns
<1>4. ASSUME NEW c \in Call, RunMkdir(c) PROVE QueueSound'
  BY <1>4 DEF RunMkdir, Returns
<1>5. ASSUME NEW c \in Call, RunRead(c) PROVE QueueSound'
  BY <1>5 DEF RunRead, Returns
<1>6. ASSUME NEW c \in Call, RunCreate(c) PROVE QueueSound'
  BY <1>6 DEF RunCreate, Returns
<1>7. ASSUME NEW c \in Call, RunFill(c) PROVE QueueSound'
  BY <1>7 DEF RunFill, Returns
<1>8. ASSUME NEW c \in Call, RunSync(c) PROVE QueueSound'
  BY <1>8 DEF RunSync, Returns
<1>9. ASSUME NEW c \in Call, RunRename(c) PROVE QueueSound'
  BY <1>9 DEF RunRename, Returns
<1>10. ASSUME NEW c \in Call, RunRemove(c) PROVE QueueSound'
  BY <1>10 DEF RunRemove, Returns
<1>11. ASSUME NEW c \in Call, Acquire(c) PROVE QueueSound'
  BY <1>11 DEF Acquire, Dispatch
<1>12. ASSUME NEW c \in Call, PrepareFails(c) PROVE QueueSound'
  BY <1>12 DEF PrepareFails, Answer, Leave, Awaits
<1>13. ASSUME NEW c \in Call, WritePrepared(c) PROVE QueueSound'
  BY <1>13 DEF WritePrepared, Dispatch, Awaits
<1>14. ASSUME NEW c \in Call, EditRefused(c) PROVE QueueSound'
  BY <1>14 DEF EditRefused, Answer, Leave, Awaits
<1>15. ASSUME NEW c \in Call, EditPrepared(c) PROVE QueueSound'
  BY <1>15 DEF EditPrepared, Dispatch, Awaits
<1>16. ASSUME NEW c \in Call, StepDone(c) PROVE QueueSound'
  <2>1. /\ ahead' = ahead /\ pc[c] \in Operation
        /\ \E op \in Operation : pc' = [pc EXCEPT ![c] = op]
    BY ONLY <1>16, StepDoneCases DEF Dispatch, Awaits, Operation
  <2>2. QED
    BY <2>1
<1>17. ASSUME NEW c \in Call, StepFailed(c) PROVE QueueSound'
  <2>1. /\ ahead' = ahead /\ pc[c] \in Operation
        /\ \E op \in Operation : pc' = [pc EXCEPT ![c] = op]
    BY ONLY <1>17, StepFailedCases DEF Dispatch, Operation
  <2>2. QED
    BY <2>1
<1>18. ASSUME NEW c \in Call, Committed(c) PROVE QueueSound'
  BY <1>18 DEF Committed, Answer, Leave, Awaits
<1>19. ASSUME NEW c \in Call, Removed(c) PROVE QueueSound'
  BY <1>19 DEF Removed, Answer, Leave
<1>20. ASSUME NEW c \in Call, Cancel(c) PROVE QueueSound'
  BY <1>20 DEF Cancel, Leave
<1>21. ASSUME NEW c \in Call, Reissue(c) PROVE QueueSound'
  BY <1>21 DEF Reissue
<1>22. CASE ProcessCrash
  BY <1>22 DEF ProcessCrash, Restart
<1>23. CASE PowerLoss
  BY <1>23, PowerLossRestarts DEF Restart
<1>24. CASE UNCHANGED vars
  BY <1>24 DEF vars
<1>25. QED
  BY <1>1, <1>2, <1>3, <1>4, <1>5, <1>6, <1>7, <1>8, <1>9, <1>10, <1>11,
     <1>12, <1>13, <1>14, <1>15, <1>16, <1>17, <1>18, <1>19, <1>20, <1>21,
     <1>22, <1>23, <1>24 DEF Next, Run, Resume

LEMMA PendingStep == IInv /\ [Next]_vars => PendingSound'
<1> SUFFICES ASSUME IInv, [Next]_vars PROVE PendingSound'
  OBVIOUS
<1> USE CallAssumption, ContentAssumption DEF IInv, TypeOK, PendingSound, Holds, InLine, Operation, Finished, Call
<1>1. ASSUME NEW c \in Call, Reject(c) PROVE PendingSound'
  BY <1>1 DEF Reject
<1>2. ASSUME NEW c \in Call, Request(c) PROVE PendingSound'
  BY <1>2 DEF Request
<1>3. ASSUME NEW c \in Call, RunFails(c) PROVE PendingSound'
  BY <1>3 DEF RunFails, Returns
<1>4. ASSUME NEW c \in Call, RunMkdir(c) PROVE PendingSound'
  BY <1>4 DEF RunMkdir, Returns
<1>5. ASSUME NEW c \in Call, RunRead(c) PROVE PendingSound'
  BY <1>5 DEF RunRead, Returns
<1>6. ASSUME NEW c \in Call, RunCreate(c) PROVE PendingSound'
  BY <1>6 DEF RunCreate, Returns
<1>7. ASSUME NEW c \in Call, RunFill(c) PROVE PendingSound'
  BY <1>7 DEF RunFill, Returns
<1>8. ASSUME NEW c \in Call, RunSync(c) PROVE PendingSound'
  BY <1>8 DEF RunSync, Returns
<1>9. ASSUME NEW c \in Call, RunRename(c) PROVE PendingSound'
  BY <1>9 DEF RunRename, Returns
<1>10. ASSUME NEW c \in Call, RunRemove(c) PROVE PendingSound'
  BY <1>10 DEF RunRemove, Returns
<1>11. ASSUME NEW c \in Call, Acquire(c) PROVE PendingSound'
  BY <1>11 DEF Acquire, Dispatch
<1>12. ASSUME NEW c \in Call, PrepareFails(c) PROVE PendingSound'
  BY <1>12 DEF PrepareFails, Answer, Leave, Awaits
<1>13. ASSUME NEW c \in Call, WritePrepared(c) PROVE PendingSound'
  BY <1>13 DEF WritePrepared, Dispatch, Awaits
<1>14. ASSUME NEW c \in Call, EditRefused(c) PROVE PendingSound'
  BY <1>14 DEF EditRefused, Answer, Leave, Awaits
<1>15. ASSUME NEW c \in Call, EditPrepared(c) PROVE PendingSound'
  BY <1>15 DEF EditPrepared, Dispatch, Awaits
<1>16. ASSUME NEW c \in Call, StepDone(c) PROVE PendingSound'
  BY <1>16, StepDoneCases DEF Dispatch, Awaits
<1>17. ASSUME NEW c \in Call, StepFailed(c) PROVE PendingSound'
  BY <1>17, StepFailedCases DEF StepFailed, Dispatch
<1>18. ASSUME NEW c \in Call, Committed(c) PROVE PendingSound'
  BY <1>18 DEF Committed, Answer, Leave, Awaits
<1>19. ASSUME NEW c \in Call, Removed(c) PROVE PendingSound'
  BY <1>19 DEF Removed, Answer, Leave
<1>20. ASSUME NEW c \in Call, Cancel(c) PROVE PendingSound'
  BY <1>20 DEF Cancel, Leave
<1>21. ASSUME NEW c \in Call, Reissue(c) PROVE PendingSound'
  BY <1>21 DEF Reissue
<1>22. CASE ProcessCrash
  BY <1>22 DEF ProcessCrash, Restart
<1>23. CASE PowerLoss
  BY <1>23, PowerLossRestarts DEF Restart
<1>24. CASE UNCHANGED vars
  BY <1>24 DEF vars
<1>25. QED
  BY <1>1, <1>2, <1>3, <1>4, <1>5, <1>6, <1>7, <1>8, <1>9, <1>10, <1>11,
     <1>12, <1>13, <1>14, <1>15, <1>16, <1>17, <1>18, <1>19, <1>20, <1>21,
     <1>22, <1>23, <1>24 DEF Next, Run, Resume

LEMMA TempStep == IInv /\ [Next]_vars => TempSound'
<1> SUFFICES ASSUME IInv, [Next]_vars PROVE TempSound'
  OBVIOUS
<1> USE CallAssumption, ContentAssumption DEF IInv, TypeOK, PendingSound, TempSound, Ready, Full, Synced, Readable, Awaits, Holds, InLine, Operation
<1>1. ASSUME NEW c \in Call, Reject(c) PROVE TempSound'
  BY <1>1 DEF Reject
<1>2. ASSUME NEW c \in Call, Request(c) PROVE TempSound'
  BY <1>2 DEF Request
<1>3. ASSUME NEW c \in Call, RunFails(c) PROVE TempSound'
  BY <1>3 DEF RunFails, Returns
<1>4. ASSUME NEW c \in Call, RunMkdir(c) PROVE TempSound'
  BY <1>4 DEF RunMkdir, Returns
<1>5. ASSUME NEW c \in Call, RunRead(c) PROVE TempSound'
  <2>1. Target[c] \in File
    OBVIOUS
  <2>2. file[Target[c]] \in Inode /\ file[Target[c]].text # Torn
    BY <2>1 DEF DiskSound
  <2>3. file[Target[c]].text \in Readable
    BY <1>5, <2>2 DEF RunRead, Inode, Readable
  <2>4. QED
    BY <1>5, <2>3 DEF RunRead, Returns
<1>6. ASSUME NEW c \in Call, RunCreate(c) PROVE TempSound'
  BY <1>6 DEF RunCreate, Returns
<1>7. ASSUME NEW c \in Call, RunFill(c) PROVE TempSound'
  BY <1>7 DEF RunFill, Returns
<1>8. ASSUME NEW c \in Call, RunSync(c) PROVE TempSound'
  BY <1>8 DEF RunSync, Returns
<1>9. ASSUME NEW c \in Call, RunRename(c) PROVE TempSound'
  BY <1>9 DEF RunRename, Returns
<1>10. ASSUME NEW c \in Call, RunRemove(c) PROVE TempSound'
  BY <1>10 DEF RunRemove, Returns
<1>11. ASSUME NEW c \in Call, Acquire(c) PROVE TempSound'
  BY <1>11 DEF Acquire, Dispatch
<1>12. ASSUME NEW c \in Call, PrepareFails(c) PROVE TempSound'
  BY <1>12 DEF PrepareFails, Answer, Leave
<1>13. ASSUME NEW c \in Call, WritePrepared(c) PROVE TempSound'
  <2>1. c \in Write
    BY <1>13 DEF WritePrepared
  <2>2. Text[c] \in Content
    BY <2>1
  <2>3. QED
    BY <1>13, <2>2 DEF WritePrepared, Dispatch
<1>14. ASSUME NEW c \in Call, EditRefused(c) PROVE TempSound'
  BY <1>14 DEF EditRefused, Answer, Leave
<1>15. ASSUME NEW c \in Call, EditPrepared(c) PROVE TempSound'
  <2>1. c \in Edit /\ buf[c] \in Readable
    BY <1>15 DEF EditPrepared
  <2>2. Edited[c][buf[c]] \in Content
    BY <1>15, <2>1 DEF EditPrepared
  <2>3. QED
    BY <1>15, <2>2 DEF EditPrepared, Dispatch
<1>16. ASSUME NEW c \in Call, StepDone(c) PROVE TempSound'
  BY <1>16, StepDoneCases DEF Dispatch
<1>17. ASSUME NEW c \in Call, StepFailed(c) PROVE TempSound'
  BY <1>17, StepFailedCases DEF StepFailed, Dispatch
<1>18. ASSUME NEW c \in Call, Committed(c) PROVE TempSound'
  BY <1>18 DEF Committed, Answer, Leave
<1>19. ASSUME NEW c \in Call, Removed(c) PROVE TempSound'
  BY <1>19 DEF Removed, Answer, Leave
<1>20. ASSUME NEW c \in Call, Cancel(c) PROVE TempSound'
  BY <1>20 DEF Cancel, Leave
<1>21. ASSUME NEW c \in Call, Reissue(c) PROVE TempSound'
  BY <1>21 DEF Reissue
<1>22. CASE ProcessCrash
  BY <1>22 DEF ProcessCrash, Restart
<1>23. CASE PowerLoss
  BY <1>23, PowerLossRestarts DEF Restart
<1>24. CASE UNCHANGED vars
  BY <1>24 DEF vars
<1>25. QED
  BY <1>1, <1>2, <1>3, <1>4, <1>5, <1>6, <1>7, <1>8, <1>9, <1>10, <1>11,
     <1>12, <1>13, <1>14, <1>15, <1>16, <1>17, <1>18, <1>19, <1>20, <1>21,
     <1>22, <1>23, <1>24 DEF Next, Run, Resume

LEMMA DiskStep == IInv /\ [Next]_vars => DiskSound'
<1> SUFFICES ASSUME IInv, [Next]_vars PROVE DiskSound'
  OBVIOUS
<1> USE CallAssumption, ContentAssumption DEF IInv, TypeOK, TempSound, DiskSound, Ready, Synced, Readable
<1>1. ASSUME NEW c \in Call, Reject(c) PROVE DiskSound'
  BY <1>1 DEF Reject
<1>2. ASSUME NEW c \in Call, Request(c) PROVE DiskSound'
  BY <1>2 DEF Request
<1>3. ASSUME NEW c \in Call, RunFails(c) PROVE DiskSound'
  BY <1>3 DEF RunFails, Returns
<1>4. ASSUME NEW c \in Call, RunMkdir(c) PROVE DiskSound'
  BY <1>4 DEF RunMkdir, Returns
<1>5. ASSUME NEW c \in Call, RunRead(c) PROVE DiskSound'
  BY <1>5 DEF RunRead, Returns
<1>6. ASSUME NEW c \in Call, RunCreate(c) PROVE DiskSound'
  BY <1>6 DEF RunCreate, Returns
<1>7. ASSUME NEW c \in Call, RunFill(c) PROVE DiskSound'
  BY <1>7 DEF RunFill, Returns
<1>8. ASSUME NEW c \in Call, RunSync(c) PROVE DiskSound'
  BY <1>8 DEF RunSync, Returns
<1>9. ASSUME NEW c \in Call, RunRename(c) PROVE DiskSound'
  BY <1>9 DEF RunRename, Returns
<1>10. ASSUME NEW c \in Call, RunRemove(c) PROVE DiskSound'
  BY <1>10 DEF RunRemove, Returns
<1>11. ASSUME NEW c \in Call, Acquire(c) PROVE DiskSound'
  BY <1>11 DEF Acquire, Dispatch
<1>12. ASSUME NEW c \in Call, PrepareFails(c) PROVE DiskSound'
  BY <1>12 DEF PrepareFails, Answer, Leave, Awaits
<1>13. ASSUME NEW c \in Call, WritePrepared(c) PROVE DiskSound'
  BY <1>13 DEF WritePrepared, Dispatch, Awaits
<1>14. ASSUME NEW c \in Call, EditRefused(c) PROVE DiskSound'
  BY <1>14 DEF EditRefused, Answer, Leave, Awaits
<1>15. ASSUME NEW c \in Call, EditPrepared(c) PROVE DiskSound'
  BY <1>15 DEF EditPrepared, Dispatch, Awaits
<1>16. ASSUME NEW c \in Call, StepDone(c) PROVE DiskSound'
  BY <1>16, StepDoneCases DEF Dispatch, Awaits
<1>17. ASSUME NEW c \in Call, StepFailed(c) PROVE DiskSound'
  BY <1>17, StepFailedCases DEF StepFailed, Dispatch
<1>18. ASSUME NEW c \in Call, Committed(c) PROVE DiskSound'
  BY <1>18, SMTT(30) DEF Committed
<1>19. ASSUME NEW c \in Call, Removed(c) PROVE DiskSound'
  BY <1>19 DEF Removed, Answer, Leave
<1>20. ASSUME NEW c \in Call, Cancel(c) PROVE DiskSound'
  BY <1>20 DEF Cancel, Leave
<1>21. ASSUME NEW c \in Call, Reissue(c) PROVE DiskSound'
  BY <1>21 DEF Reissue
<1>22. CASE ProcessCrash
  BY <1>22 DEF ProcessCrash, Restart
<1>23. CASE PowerLoss
  BY <1>23, PowerLossKeepsAnEntry
<1>24. CASE UNCHANGED vars
  BY <1>24 DEF vars
<1>25. QED
  BY <1>1, <1>2, <1>3, <1>4, <1>5, <1>6, <1>7, <1>8, <1>9, <1>10, <1>11,
     <1>12, <1>13, <1>14, <1>15, <1>16, <1>17, <1>18, <1>19, <1>20, <1>21,
     <1>22, <1>23, <1>24 DEF Next, Run, Resume

-----------------------------------------------------------------------------
(* The theorems.                                                           *)

\* IInv holds in every reachable state.
THEOREM Invariance == Spec => []IInv
<1>1. IInv /\ [Next]_vars => IInv'
  BY TypeStep, QueueStep, PendingStep, TempStep, DiskStep DEF IInv
<1>2. QED
  BY InitIInv, <1>1, PTL DEF Spec

\* Every variable keeps its type.
THEOREM TypeCorrect == Spec => []TypeOK
<1>1. IInv => TypeOK
  BY DEF IInv
<1>2. QED
  BY Invariance, <1>1, PTL

\* A file's queue holds its own live calls only, in one order.
THEOREM QueueCorrect == Spec => []QueueSound
<1>1. IInv => QueueSound
  BY DEF IInv
<1>2. QED
  BY Invariance, <1>1, PTL

\* Of two calls in line for a file one is ahead of the other, and who holds
\* the guard has nobody ahead.
LEMMA Exclusion == IInv => MutualExclusion
  BY DEF IInv, QueueSound, MutualExclusion, InLine, Holds, Operation

\* Two transactions on the same file never overlap, whatever is cancelled.
THEOREM MutualExclusionHolds == Spec => []MutualExclusion
  BY Invariance, Exclusion, PTL

\* No crash, power loss, cancellation or reported error leaves a half-written
\* target.
THEOREM NeverTorn == Spec => []NoTornTarget
<1>1. IInv => NoTornTarget
  BY DEF IInv, DiskSound, NoTornTarget, Surviving
<1>2. QED
  BY Invariance, <1>1, PTL

-----------------------------------------------------------------------------
(* No lost update, but to the rename of a cancelled call.                  *)

\* A live call renaming over the file of a live edit would have to hold its
\* guard too; one that was dropped marks the edit overtaken.
LEMMA UpToDateStep == IInv /\ UpToDate /\ [Next]_vars => UpToDate'
<1> SUFFICES ASSUME IInv, UpToDate, [Next]_vars PROVE UpToDate'
  OBVIOUS
<1> USE CallAssumption, ContentAssumption DEF IInv, TypeOK, PendingSound, UpToDate, Awaits, Holds, InLine, Operation, Finished, Call
<1>1. ASSUME NEW c \in Call, Reject(c) PROVE UpToDate'
  BY <1>1 DEF Reject
<1>2. ASSUME NEW c \in Call, Request(c) PROVE UpToDate'
  BY <1>2 DEF Request
<1>3. ASSUME NEW c \in Call, RunFails(c) PROVE UpToDate'
  BY <1>3 DEF RunFails, Returns
<1>4. ASSUME NEW c \in Call, RunMkdir(c) PROVE UpToDate'
  BY <1>4 DEF RunMkdir, Returns
<1>5. ASSUME NEW c \in Call, RunRead(c) PROVE UpToDate'
  BY <1>5 DEF RunRead, Returns
<1>6. ASSUME NEW c \in Call, RunCreate(c) PROVE UpToDate'
  BY <1>6 DEF RunCreate, Returns
<1>7. ASSUME NEW c \in Call, RunFill(c) PROVE UpToDate'
  BY <1>7 DEF RunFill, Returns
<1>8. ASSUME NEW c \in Call, RunSync(c) PROVE UpToDate'
  BY <1>8 DEF RunSync, Returns
<1>9. ASSUME NEW c \in Call, RunRename(c) PROVE UpToDate'
  <2>1. ASSUME NEW e \in Edit, e # c, Target[e] = Target[c], Holds(c) PROVE ~Holds(e)
    BY <2>1, Exclusion DEF MutualExclusion
  <2>2. \A e \in Edit : Target[e] # Target[c] => file'[Target[e]] = file[Target[e]]
    BY <1>9 DEF RunRename
  <2>3. pc' = pc /\ buf' = buf /\ pending' = [pending EXCEPT ![c] = "none"]
        /\ pending[c] = "rename"
        /\ \A d \in Call : d # c => result'[d] = result[d]
    BY <1>9 DEF RunRename, Returns
  <2>4. \A d \in Call : overtaken'[d] <=>
            overtaken[d] \/ (~Holds(c) /\ HasRead(d) /\ Target[d] = Target[c])
    BY <1>9 DEF RunRename
  <2>5. \A d \in Call : Holds(d)' <=> Holds(d)
    BY <2>3
  <2>6. \A d \in Call : overtaken'[d] => Holds(d)'
    BY <2>4, <2>5 DEF HasRead
  <2>7. ASSUME NEW e \in Edit, Holds(e)', ~overtaken'[e]
        PROVE  /\ Awaits(e, "read", "ok")' => buf'[e] = file'[Target[e]].text
               /\ (pc[e] \in {"create", "fill", "sync"} \/ pending[e] = "rename")' =>
                    /\ file'[Target[e]].text \in Readable
                    /\ buf'[e] = Edited[e][file'[Target[e]].text]
    <3>1. CASE e = c
      BY <2>3, <2>7, <3>1
    <3>2. CASE e # c /\ Target[e] # Target[c]
      BY <2>2, <2>3, <2>4, <2>7, <3>2
    <3>3. CASE e # c /\ Target[e] = Target[c] /\ Holds(c)
      BY <2>1, <2>5, <2>7, <3>3
    <3>4. CASE e # c /\ Target[e] = Target[c] /\ ~Holds(c)
      <4>1. ~HasRead(e)
        BY <2>4, <2>7, <3>4
      <4>2. buf[e] = Absent
        BY <2>5, <2>7, <4>1 DEF HasRead
      <4>3. ~Ready(e)
        BY <4>2 DEF TempSound, Readable
      <4>4. ~(Awaits(e, "read", "ok")')
        BY <2>3, <3>4, <4>3 DEF Ready
      <4>5. pc[e] \notin {"create", "fill", "sync"} /\ pending'[e] # "rename"
        BY <2>3, <3>4, <4>3 DEF Ready
      <4>6. QED
        BY <2>3, <4>4, <4>5
    <3>5. QED
      BY <3>1, <3>2, <3>3, <3>4
  <2>8. QED
    BY <2>6, <2>7
<1>10. ASSUME NEW c \in Call, RunRemove(c) PROVE UpToDate'
  BY <1>10 DEF RunRemove, Returns
<1>11. ASSUME NEW c \in Call, Acquire(c) PROVE UpToDate'
  BY <1>11 DEF Acquire, Dispatch
<1>12. ASSUME NEW c \in Call, PrepareFails(c) PROVE UpToDate'
  BY <1>12 DEF PrepareFails, Answer, Leave
<1>13. ASSUME NEW c \in Call, WritePrepared(c) PROVE UpToDate'
  BY <1>13 DEF WritePrepared, Dispatch
<1>14. ASSUME NEW c \in Call, EditRefused(c) PROVE UpToDate'
  BY <1>14 DEF EditRefused, Answer, Leave
<1>15. ASSUME NEW c \in Call, EditPrepared(c) PROVE UpToDate'
  <2>1. /\ c \in Edit /\ buf[c] \in Readable
        /\ ~overtaken[c] => buf[c] = file[Target[c]].text
    BY <1>15 DEF EditPrepared, TempSound, Ready
  <2>2. ~overtaken[c] => buf'[c] = Edited[c][file[Target[c]].text]
    BY <1>15, <2>1 DEF EditPrepared
  <2>3. QED
    BY <1>15, <2>1, <2>2 DEF EditPrepared, Dispatch
<1>16. ASSUME NEW c \in Call, StepDone(c) PROVE UpToDate'
  <2>1. /\ pc[c] \in {"create", "fill", "sync"}
        /\ pc'[c] \in {"fill", "sync", "rename"} /\ pending'[c] = pc'[c]
        /\ \A d \in Call : d # c => /\ pc'[d] = pc[d] /\ pending'[d] = pending[d]
                                    /\ result'[d] = result[d]
        /\ buf' = buf /\ file' = file /\ overtaken' = overtaken
    BY <1>16, StepDoneCases DEF Dispatch
  <2>2. QED
    BY <2>1
<1>17. ASSUME NEW c \in Call, StepFailed(c) PROVE UpToDate'
  BY <1>17, StepFailedCases DEF StepFailed, Dispatch
<1>18. ASSUME NEW c \in Call, Committed(c) PROVE UpToDate'
  BY <1>18 DEF Committed, Answer, Leave
<1>19. ASSUME NEW c \in Call, Removed(c) PROVE UpToDate'
  BY <1>19 DEF Removed, Answer, Leave
<1>20. ASSUME NEW c \in Call, Cancel(c) PROVE UpToDate'
  BY <1>20 DEF Cancel, Leave
<1>21. ASSUME NEW c \in Call, Reissue(c) PROVE UpToDate'
  BY <1>21 DEF Reissue
<1>22. CASE ProcessCrash
  BY <1>22 DEF ProcessCrash, Restart
<1>23. CASE PowerLoss
  BY <1>23, PowerLossRestarts DEF Restart
<1>24. CASE UNCHANGED vars
  BY <1>24 DEF vars
<1>25. QED
  BY <1>1, <1>2, <1>3, <1>4, <1>5, <1>6, <1>7, <1>8, <1>9, <1>10, <1>11,
     <1>12, <1>13, <1>14, <1>15, <1>16, <1>17, <1>18, <1>19, <1>20, <1>21,
     <1>22, <1>23, <1>24 DEF Next, Run, Resume

\* Every edit is committed over the very text it was computed from, whatever
\* crashes, fails or is cancelled, unless a cancelled call has overtaken it.
THEOREM NoUpdateIsLost == Spec => NoLostUpdate
<1>1. Init => UpToDate
  BY DEF Init, UpToDate, Call, Awaits, Holds, Operation
<1>2. IInv /\ UpToDate /\ [Next]_vars => UpToDate'
  BY UpToDateStep
<1>3. IInv /\ UpToDate /\ [Next]_vars =>
        [\A e \in Edit : Holds(e) /\ RunRename(e) => overtaken[e] \/ Commits(e)]_vars
  <2> SUFFICES ASSUME IInv, UpToDate, NEW e \in Edit, Holds(e), RunRename(e), ~overtaken[e]
               PROVE  Commits(e)
    OBVIOUS
  <2>1. pending[e] = "rename" /\ file' = [file EXCEPT ![Target[e]] = tmp[e]]
    BY DEF RunRename
  <2>2. e \in Call /\ Target[e] \in File
    BY CallAssumption DEF Call
  <2>3. tmp[e].text \in {buf[e], Cut}
    BY <2>1, <2>2 DEF IInv, TempSound, Synced
  <2>4. file[Target[e]].text \in Readable /\ buf[e] = Edited[e][file[Target[e]].text]
    BY <2>1 DEF UpToDate
  <2>5. file'[Target[e]] = tmp[e]
    BY <2>1, <2>2 DEF IInv, TypeOK
  <2>6. QED
    BY <2>3, <2>4, <2>5 DEF Commits
<1>4. QED
  BY Invariance, <1>1, <1>2, <1>3, PTL DEF Spec, NoLostUpdate

-----------------------------------------------------------------------------
(* The refinement: every step of the tools is a step of AtomicFiles, or    *)
(* changes nothing that AtomicFiles sees.                                  *)

\* What call c may make of some text.
Outcomes(c) ==
    IF c \in Write THEN {Text[c]} ELSE {Edited[c][x] : x \in Readable} \ {NoEdit}

\* From the creation of the temp file to the rename a call has such a text in
\* hand, overtaken or dropped as it may be.
CarriesText ==
    \A c \in Call :
        pc[c] \in {"create", "fill", "sync"} \/ pending[c] = "rename" => buf[c] \in Outcomes(c)

LEMMA OutcomesOnce ==
    ASSUME NEW c \in Call
    PROVE  Outcomes(c) \subseteq Atomic!OutcomeOnce(c)
<1>1. ASSUME NEW x \in Readable PROVE x \in Content \cup {Cut} /\ x # Absent
  BY <1>1, ContentAssumption DEF Readable
<1>2. CASE c \in Write
  <2>1. Text[c] \in Atomic!Outcome(c, Cut)
    BY <1>2 DEF Atomic!Outcome
  <2>2. QED
    BY <1>2, <2>1 DEF Outcomes, Atomic!OutcomeOnce
<1>3. CASE c \notin Write
  <2>1. ASSUME NEW x \in Readable, Edited[c][x] # NoEdit
        PROVE  Edited[c][x] \in Atomic!Outcome(c, x)
    BY <1>1, <1>3, <2>1 DEF Atomic!Outcome
  <2>2. QED
    BY <1>1, <1>3, <2>1 DEF Outcomes, Atomic!OutcomeOnce
<1>4. QED
  BY <1>2, <1>3

LEMMA CarriesTextStep == IInv /\ CarriesText /\ [Next]_vars => CarriesText'
<1> SUFFICES ASSUME IInv, CarriesText, [Next]_vars PROVE CarriesText'
  OBVIOUS
<1> USE CallAssumption DEF IInv, TypeOK, PendingSound, CarriesText, Outcomes, Awaits, Holds, InLine, Operation, Finished, Call
<1>1. ASSUME NEW c \in Call, Reject(c) \/ Request(c) \/ Cancel(c) \/ Reissue(c)
      PROVE  CarriesText'
  <2>1. CASE Reject(c) \/ Request(c)
    BY <2>1 DEF Reject, Request
  <2>2. CASE Cancel(c)
    BY <2>2 DEF Cancel, Leave
  <2>3. CASE Reissue(c)
    BY <2>3 DEF Reissue
  <2>4. QED
    BY <1>1, <2>1, <2>2, <2>3
<1>2. ASSUME NEW c \in Call, Run(c) PROVE CarriesText'
  <2>1. /\ pc' = pc /\ pending'[c] = "none"
        /\ \A d \in Call : d # c => pending'[d] = pending[d] /\ buf'[d] = buf[d]
        /\ buf'[c] = buf[c] \/ pending[c] = "read"
    BY <1>2 DEF Run, RunFails, RunMkdir, RunRead, RunCreate, RunFill, RunSync, RunRename,
                RunRemove, Returns
  <2>2. ASSUME NEW d \in Call,
               pc'[d] \in {"create", "fill", "sync"} \/ pending'[d] = "rename"
        PROVE  buf'[d] = buf[d] /\ buf[d] \in Outcomes(d)
    <3>1. pc[d] \in {"create", "fill", "sync"} \/ pending[d] = "rename"
      BY ONLY <2>1, <2>2
    <3>2. pending[c] = "read" => c # d
      BY <2>1, <2>2
    <3>3. buf'[d] = buf[d]
      BY ONLY <2>1, <3>2
    <3>4. buf[d] \in Outcomes(d)
      BY ONLY <3>1, CarriesText DEF CarriesText
    <3>5. QED
      BY ONLY <3>3, <3>4
  <2>3. QED
    BY ONLY <2>2 DEF CarriesText, Outcomes
<1>3. ASSUME NEW c \in Call, Acquire(c) PROVE CarriesText'
  BY <1>3 DEF Acquire, Dispatch
<1>4. ASSUME NEW c \in Call, PrepareFails(c) \/ EditRefused(c) \/ Committed(c) \/ Removed(c)
      PROVE  CarriesText'
  BY <1>4 DEF PrepareFails, EditRefused, Committed, Removed, Answer, Leave
<1>5. ASSUME NEW c \in Call, WritePrepared(c) PROVE CarriesText'
  BY <1>5 DEF WritePrepared, Dispatch
<1>6. ASSUME NEW c \in Call, EditPrepared(c) PROVE CarriesText'
  <2>1. /\ c \notin Write /\ buf[c] \in Readable
        /\ buf' = [buf EXCEPT ![c] = Edited[c][buf[c]]] /\ Edited[c][buf[c]] # NoEdit
    BY <1>6 DEF EditPrepared, TempSound, Ready
  <2>2. buf'[c] = Edited[c][buf[c]]
    BY <2>1
  <2>3. buf'[c] \in Outcomes(c)
    BY ONLY <2>1, <2>2 DEF Outcomes
  <2>4. ASSUME NEW d \in Call, d # c,
               pc'[d] \in {"create", "fill", "sync"} \/ pending'[d] = "rename"
        PROVE  buf'[d] = buf[d] /\ buf[d] \in Outcomes(d)
    <3>1. /\ pc'[d] = pc[d] /\ pending'[d] = pending[d] /\ buf'[d] = buf[d]
      BY <1>6, <2>4 DEF EditPrepared, Dispatch
    <3>2. QED
      BY ONLY <2>4, <3>1, CarriesText DEF CarriesText
  <2>5. QED
    BY ONLY <2>3, <2>4 DEF CarriesText, Outcomes
<1>7. ASSUME NEW c \in Call, StepDone(c) PROVE CarriesText'
  <2>1. /\ pc[c] \in {"create", "fill", "sync"} /\ buf' = buf
        /\ \A d \in Call : d # c => pc'[d] = pc[d] /\ pending'[d] = pending[d]
    BY <1>7, StepDoneCases DEF Dispatch
  <2>2. QED
    BY <2>1
<1>8. ASSUME NEW c \in Call, StepFailed(c) PROVE CarriesText'
  BY <1>8, StepFailedCases DEF StepFailed, Dispatch
<1>9. CASE ProcessCrash \/ PowerLoss
  BY <1>9, PowerLossRestarts DEF ProcessCrash, Restart
<1>10. CASE UNCHANGED vars
  BY <1>10 DEF vars
<1>11. QED
  BY <1>1, <1>2, <1>3, <1>4, <1>5, <1>6, <1>7, <1>8, <1>9, <1>10 DEF Next, Resume

\* The variables of AtomicFiles, as the refinement maps them.
Statuses == [c \in Call |-> Status(c)]
Contents == [p \in File |-> file[p].text]
Past     == [p \in File |-> {inode.text : inode \in entries[p]}]

AbstractVars == <<Statuses, Contents, Past, overtaken>>

\* A step that touches one call's future touches that call's status only.
LEMMA StatusStep ==
    ASSUME TypeOK, TypeOK', NEW c \in Call,
           \A d \in Call \ {c} : /\ pc'[d] = pc[d] /\ pending'[d] = pending[d]
                                 /\ result'[d] = result[d]
    PROVE  Statuses' = [Statuses EXCEPT ![c] = Status(c)']
<1>1. \A d \in Call \ {c} : Status(d)' = Status(d)
  BY DEF Status, InLine, Holds, Awaits
<1>2. QED
  BY <1>1 DEF Statuses

\* A status names how far a call is: open or applied exactly while in line,
\* lingering only once it was dropped.
LEMMA StatusInLine ==
    ASSUME TypeOK, PendingSound, NEW c \in Call
    PROVE  /\ InLine(c) <=> Status(c) \in {"open", "applied"}
           /\ ~InLine(c) => Status(c) = pc[c] \/ (Status(c) = "lingering" /\ pc[c] = "gone")
<1>1. pc[c] \in Operation \cup {"lock"} \/ pc[c] \in {"idle", "ok", "error"} \/ pc[c] = "gone"
  BY DEF TypeOK, Finished
<1>2. pc[c] \in {"idle", "ok", "error"} => pending[c] # "rename"
  BY DEF PendingSound
<1>3. InLine(c) <=> pc[c] \in Operation \cup {"lock"}
  BY DEF InLine, Holds
<1>4. CASE InLine(c)
  BY <1>4 DEF Status
<1>5. CASE ~InLine(c)
  <2>1. Status(c) = IF pending[c] = "rename" THEN "lingering" ELSE pc[c]
    BY <1>5 DEF Status
  <2>2. pc[c] \in {"idle", "ok", "error", "gone"}
    BY <1>1, <1>3, <1>5
  <2>3. CASE pending[c] = "rename"
    <3>1. pc[c] = "gone" /\ Status(c) = "lingering"
      BY <1>2, <2>1, <2>2, <2>3
    <3>2. QED
      BY <1>5, <3>1
  <2>4. CASE pending[c] # "rename"
    <3>1. Status(c) = pc[c]
      BY <2>1, <2>4
    <3>2. QED
      BY <1>5, <2>2, <3>1
  <2>5. QED
    BY <2>3, <2>4
<1>6. QED
  BY <1>4, <1>5

\* How a call's status and mark move: only a call that stays in line stays
\* overtaken.
LEMMA Moves ==
    ASSUME TypeOK, TypeOK', UpToDate, NEW c \in Call, NEW from, NEW to,
           Status(c) = from, Status(c)' = to, to # "applied",
           \A d \in Call \ {c} : /\ pc'[d] = pc[d] /\ pending'[d] = pending[d]
                                 /\ result'[d] = result[d],
           \/ overtaken' = [overtaken EXCEPT ![c] = FALSE]
           \/ overtaken' = overtaken /\ ~Holds(c)
    PROVE  Atomic!Move(c, from, to)
<1>1. Statuses' = [Statuses EXCEPT ![c] = to] /\ Statuses[c] = from
  BY StatusStep DEF Statuses
<1>2. overtaken[c] = FALSE \/ overtaken' = [overtaken EXCEPT ![c] = FALSE]
  BY DEF UpToDate, TypeOK
<1>3. overtaken' = [overtaken EXCEPT ![c] = FALSE]
  BY <1>2 DEF TypeOK
<1>4. overtaken' = [overtaken EXCEPT ![c] = overtaken[c] /\ to = "applied"]
  <2>1. (overtaken[c] /\ to = "applied") = FALSE
    OBVIOUS
  <2>2. QED
    BY <1>3, <2>1
<1>5. QED
  BY <1>1, <1>4 DEF Atomic!Move, Statuses

\* The pool does nothing that shows but the rename; the failed rename of a
\* dropped call ends its lingering.
LEMMA PoolStep ==
    ASSUME IInv, IInv', UpToDate, NEW c \in Call, Run(c), ~RunRename(c)
    PROVE  Atomic!Cancel(c) \/ UNCHANGED AbstractVars
<1> USE DEF IInv, TypeOK, Operation
<1>1. /\ pc' = pc /\ pending[c] # "none" /\ pending'[c] = "none"
      /\ file' = file /\ entries' = entries /\ overtaken' = overtaken
      /\ \A d \in Call \ {c} : pending'[d] = pending[d] /\ result'[d] = result[d]
  BY DEF Run, RunFails, RunMkdir, RunRead, RunCreate, RunFill, RunSync, RunRename,
         RunRemove, Returns
<1>2. UNCHANGED <<Contents, Past>>
  BY <1>1 DEF Contents, Past
<1>3. CASE InLine(c)
  <2>1. pc[c] = pending[c]
    BY <1>1, <1>3 DEF PendingSound, InLine, Holds
  <2>2. pending[c] = "rename" => result'[c] = "failed"
    BY <2>1 DEF Run, RunFails, RunMkdir, RunRead, RunCreate, RunFill, RunSync,
           RunRename, RunRemove, Returns
  <2>3. Status(c)' = Status(c)
    BY <1>1, <1>3, <2>1, <2>2 DEF Status, Awaits, InLine, Holds
  <2>4. Statuses' = [Statuses EXCEPT ![c] = Status(c)]
    BY <1>1, <2>3, StatusStep
  <2>5. Statuses' = Statuses
    BY <2>4 DEF Statuses
  <2>6. QED
    BY <1>1, <1>2, <2>5 DEF AbstractVars
<1>4. CASE ~InLine(c)
  <2>1. pc[c] = "gone"
    BY <1>1, <1>4 DEF PendingSound, InLine, Holds, Finished
  <2>2. Status(c)' = "gone" /\ Status(c) \in {"lingering", "gone"}
    BY <1>1, <1>4, <2>1 DEF Status, InLine, Holds
  <2>3. CASE Status(c) = "lingering"
    <3>1. Atomic!Move(c, "lingering", "gone")
      BY <1>1, <1>4, <2>2, <2>3, Moves DEF InLine
    <3>2. QED
      BY <1>2, <3>1 DEF Atomic!Cancel, Contents, Past
  <2>4. CASE Status(c) = "gone"
    <3>1. Statuses' = [Statuses EXCEPT ![c] = Status(c)]
      BY <1>1, <2>2, <2>4, StatusStep
    <3>2. Statuses' = Statuses
      BY <3>1 DEF Statuses
    <3>3. QED
      BY <1>1, <1>2, <3>2 DEF AbstractVars
  <2>5. QED
    BY <2>2, <2>3, <2>4
<1>5. QED
  BY <1>3, <1>4

\* The rename puts the text in hand, or what is left of it, in the file.
LEMMA RenameBecomes ==
    ASSUME IInv, IInv', NEW c \in Call, RunRename(c)
    PROVE  \E y \in {buf[c], Cut} :
             /\ Contents' = [Contents EXCEPT ![Target[c]] = y]
             /\ Past' = [Past EXCEPT ![Target[c]] = @ \cup {y}]
<1> USE CallAssumption, ContentAssumption DEF IInv, TypeOK
<1>1. pending[c] = "rename"
  BY DEF RunRename
<1>2. tmp[c].text \in {buf[c], Cut}
  BY <1>1 DEF TempSound, Synced
<1>3. Target[c] \in File
  OBVIOUS
<1>4. Contents' = [Contents EXCEPT ![Target[c]] = tmp[c].text]
  BY <1>3 DEF RunRename, Contents
<1>5. Past' = [Past EXCEPT ![Target[c]] = @ \cup {tmp[c].text}]
  <2>1. entries' = [entries EXCEPT ![Target[c]] = @ \cup {tmp[c]}]
    BY DEF RunRename
  <2>2. ASSUME NEW p \in File
        PROVE  Past'[p] = IF p = Target[c] THEN Past[p] \cup {tmp[c].text} ELSE Past[p]
    BY <2>1 DEF Past
  <2>3. QED
    BY <2>2 DEF Past
<1>6. QED
  BY <1>2, <1>4, <1>5

\* The rename is the instant at which a call takes effect.
LEMMA RenameApplies ==
    ASSUME IInv, IInv', UpToDate, CarriesText, NEW c \in Call, RunRename(c), Holds(c)
    PROVE  Atomic!Apply(c)
<1>0. \E y \in {buf[c], Cut} :
        /\ Contents' = [Contents EXCEPT ![Target[c]] = y]
        /\ Past' = [Past EXCEPT ![Target[c]] = @ \cup {y}]
  BY RenameBecomes
<1> USE CallAssumption, ContentAssumption DEF IInv, TypeOK
<1>1. /\ pending[c] = "rename" /\ pc[c] = "rename" /\ InLine(c)
      /\ pc' = pc /\ pending'[c] = "none" /\ result'[c] = "ok"
      /\ \A d \in Call \ {c} : pending'[d] = pending[d] /\ result'[d] = result[d]
  BY DEF RunRename, Returns, PendingSound, InLine, Holds
<1>2. Status(c) = "open" /\ Status(c)' = "applied"
  BY <1>1 DEF Status, Awaits, InLine, Holds
<1>3. Statuses' = [Statuses EXCEPT ![c] = "applied"]
  BY <1>1, <1>2, StatusStep
<1>4. overtaken' = [overtaken EXCEPT ![c] = @ /\ "applied" = "applied"]
  <2>1. overtaken' = [d \in Call |-> overtaken[d]]
    BY DEF RunRename
  <2>2. overtaken' = overtaken
    BY <2>1
  <2>3. (overtaken[c] /\ "applied" = "applied") = overtaken[c]
    OBVIOUS
  <2>4. QED
    BY <2>2, <2>3
<1>5. Atomic!Move(c, "open", "applied")
  BY <1>2, <1>3, <1>4 DEF Atomic!Move, Statuses
<1>6. CASE overtaken[c]
  <2>1. buf[c] \in Atomic!OutcomeOnce(c)
    BY <1>1, OutcomesOnce DEF CarriesText
  <2>2. QED
    BY ONLY <1>0, <1>5, <1>6, <2>1
       DEF Atomic!Apply, Atomic!Becomes, Contents, Past
<1>7. CASE ~overtaken[c]
  <2>1. Contents[Target[c]] = file[Target[c]].text
    BY DEF Contents
  <2>2. buf[c] \in Atomic!Outcome(c, Contents[Target[c]])
    <3>1. CASE c \in Write
      BY <1>1, <3>1 DEF CarriesText, Outcomes, Atomic!Outcome
    <3>2. CASE c \notin Write
      <4>1. c \in Edit
        BY <3>2 DEF Call
      <4>2. /\ file[Target[c]].text \in Readable
            /\ buf[c] = Edited[c][file[Target[c]].text]
        BY <1>1, <1>7, <4>1 DEF UpToDate
      <4>3. buf[c] # NoEdit
        BY <1>1, <3>2 DEF CarriesText, Outcomes
      <4>4. file[Target[c]].text # Absent
        BY <4>2 DEF Readable
      <4>5. QED
        BY <2>1, <3>2, <4>2, <4>3, <4>4 DEF Atomic!Outcome
    <3>3. QED
      BY <3>1, <3>2
  <2>3. buf[c] \in Atomic!OutcomeNow(c)
    BY <2>2 DEF Atomic!OutcomeNow, Contents
  <2>4. QED
    BY ONLY <1>0, <1>5, <1>7, <2>3
       DEF Atomic!Apply, Atomic!Becomes, Contents, Past
<1>8. QED
  BY <1>6, <1>7

\* The rename of a dropped call takes effect late, over the edits that have
\* read the file.
LEMMA RenameLingers ==
    ASSUME IInv, IInv', CarriesText, NEW c \in Call, RunRename(c), ~Holds(c)
    PROVE  Atomic!ApplyLate(c)
<1>0. \E y \in {buf[c], Cut} :
        /\ Contents' = [Contents EXCEPT ![Target[c]] = y]
        /\ Past' = [Past EXCEPT ![Target[c]] = @ \cup {y}]
  BY RenameBecomes
<1> USE DEF IInv, TypeOK
<1>1. /\ pending[c] = "rename" /\ pc[c] = "gone" /\ ~InLine(c)
      /\ pc' = pc /\ pending'[c] = "none"
      /\ \A d \in Call \ {c} : pending'[d] = pending[d] /\ result'[d] = result[d]
  BY DEF RunRename, Returns, PendingSound, InLine, Holds, Operation, Finished
<1>2. Status(c) = "lingering" /\ Status(c)' = "gone"
  BY <1>1 DEF Status, InLine, Holds, Operation
<1>3. Statuses' = [Statuses EXCEPT ![c] = "gone"]
  BY <1>1, <1>2, StatusStep
<1>4. buf[c] \in Atomic!OutcomeOnce(c)
  BY <1>1, OutcomesOnce DEF CarriesText
<1>5. Atomic!Becomes(c, Atomic!OutcomeOnce(c))
  BY ONLY <1>0, <1>4 DEF Atomic!Becomes, Contents, Past
<1> DEFINE late == {d \in Edit : HasRead(d) /\ Target[d] = Target[c]}
<1>6. late \in SUBSET {d \in Edit : Target[d] = Target[c]}
  OBVIOUS
<1>7. \A d \in Call :
        (~Holds(c) /\ HasRead(d) /\ Target[d] = Target[c])
          <=> (d \in late /\ Statuses[d] \in {"open", "applied"})
  <2>1. ASSUME NEW d \in Call, HasRead(d) PROVE Status(d) \in {"open", "applied"}
    BY <2>1, StatusInLine DEF HasRead, InLine
  <2>2. QED
    BY <2>1 DEF Statuses, HasRead
<1>8. overtaken' = [d \in Call |-> overtaken[d]
                       \/ (d \in late /\ Statuses[d] \in {"open", "applied"})]
  <2>1. overtaken' = [d \in Call |->
            overtaken[d] \/ (~Holds(c) /\ HasRead(d) /\ Target[d] = Target[c])]
    BY DEF RunRename
  <2>2. QED
    BY <1>7, <2>1, Zenon
<1>9. QED
  BY <1>2, <1>3, <1>5, <1>6, <1>8 DEF Atomic!ApplyLate, Atomic!Call, Call, Statuses

\* A future that is polled leaves the files alone and moves its own call only.
LEMMA PollStep ==
    ASSUME IInv, IInv', NEW c \in Call,
           Acquire(c) \/ WritePrepared(c) \/ EditPrepared(c) \/ StepDone(c) \/ StepFailed(c)
    PROVE  UNCHANGED AbstractVars
<1> USE DEF IInv, TypeOK, Operation
<1>1. /\ file' = file /\ entries' = entries /\ overtaken' = overtaken
      /\ \A d \in Call \ {c} : /\ pc'[d] = pc[d] /\ pending'[d] = pending[d]
                               /\ result'[d] = result[d]
      /\ pc'[c] \in Operation /\ pending'[c] = pc'[c]
  BY StepDoneCases, StepFailedCases
     DEF Acquire, WritePrepared, EditPrepared, StepDone, StepFailed, Dispatch
<1>2. InLine(c) /\ ~Awaits(c, "rename", "ok")
  BY StepDoneCases, StepFailedCases
     DEF Acquire, WritePrepared, EditPrepared, InLine, Holds, Awaits
<1>3. Status(c)' = Status(c)
  BY <1>1, <1>2 DEF Status, Awaits, InLine, Holds
<1>4. Statuses' = [Statuses EXCEPT ![c] = Status(c)]
  BY <1>1, <1>3, StatusStep
<1>5. Statuses' = Statuses
  BY <1>4 DEF Statuses
<1>6. Contents' = Contents /\ Past' = Past
  BY <1>1 DEF Contents, Past
<1>7. QED
  BY <1>1, <1>5, <1>6 DEF AbstractVars

\* Answering a call, dropping it, sending it again, or taking it in line moves
\* its status and nothing else of the abstract state.
LEMMA StatusMoves ==
    ASSUME IInv, IInv', UpToDate, NEW c \in Call,
           \/ Reject(c) \/ Request(c) \/ Reissue(c) \/ Cancel(c)
           \/ PrepareFails(c) \/ EditRefused(c) \/ Removed(c)
    PROVE  Atomic!Begin(c) \/ Atomic!Fail(c) \/ Atomic!Forget(c) \/ Atomic!Cancel(c)
<1> USE DEF IInv, TypeOK, Operation, Finished
<1>1. /\ file' = file /\ entries' = entries
      /\ \A d \in Call \ {c} : /\ pc'[d] = pc[d] /\ pending'[d] = pending[d]
                               /\ result'[d] = result[d]
  BY DEF Reject, Request, Reissue, Cancel, PrepareFails, EditRefused, Removed, Answer, Leave
<1>2. UNCHANGED <<Contents, Past>>
  BY <1>1 DEF Contents, Past
<1>3. \/ overtaken' = [overtaken EXCEPT ![c] = FALSE]
      \/ overtaken' = overtaken /\ ~Holds(c)
  BY DEF Reject, Request, Reissue, Cancel, PrepareFails, EditRefused, Removed, Answer,
         Leave, Holds
<1>4. CASE Request(c)
  <2>1. Status(c) = "idle" /\ Status(c)' = "open"
    BY <1>4 DEF Request, PendingSound, Status, InLine, Holds, Awaits
  <2>2. Atomic!Move(c, "idle", "open")
    BY <1>1, <1>3, <2>1, Moves
  <2>3. QED
    BY <1>2, <2>2 DEF Atomic!Begin, Contents, Past
<1>5. CASE Reissue(c)
  <2>1. Status(c) \in {"ok", "error", "gone"} /\ Status(c)' = "idle"
    BY <1>5 DEF Reissue, Status, InLine, Holds
  <2>2. Atomic!Move(c, Status(c), "idle")
    BY <1>1, <1>3, <2>1, Moves
  <2>3. QED
    BY <1>2, <2>1, <2>2 DEF Atomic!Forget, Contents, Past
<1>6. CASE Reject(c) \/ PrepareFails(c) \/ EditRefused(c) \/ Removed(c)
  <2>1. Status(c) \in {"idle", "open"} /\ Status(c)' = "error"
    BY <1>6 DEF Reject, PrepareFails, EditRefused, Removed, Answer, Leave, Awaits,
                PendingSound, Status, InLine, Holds
  <2>2. Atomic!Move(c, Status(c), "error")
    BY <1>1, <1>3, <2>1, Moves
  <2>3. QED
    BY <1>2, <2>1, <2>2 DEF Atomic!Fail, Contents, Past
<1>7. CASE Cancel(c)
  <2>1. \/ Status(c) = "open" /\ Status(c)' \in {"lingering", "gone"}
        \/ Status(c) = "applied" /\ Status(c)' = "gone"
    BY <1>7 DEF Cancel, Leave, Awaits, Status, InLine, Holds
  <2>2. Atomic!Move(c, Status(c), Status(c)')
    BY <1>1, <1>3, <2>1, Moves
  <2>3. QED
    BY <1>2, <2>1, <2>2 DEF Atomic!Cancel, Contents, Past
<1>8. QED
  BY <1>4, <1>5, <1>6, <1>7

\* Success is answered for a renamed file only; the directory sync that may go
\* with it leaves the new text as the only one a power loss can bring back.
LEMMA CommittedSucceeds ==
    ASSUME IInv, IInv', UpToDate, NEW c \in Call, Committed(c)
    PROVE  Atomic!Succeed(c)
<1> USE CallAssumption DEF IInv, TypeOK, Operation, Finished
<1>1. /\ file' = file
      /\ \A d \in Call \ {c} : /\ pc'[d] = pc[d] /\ pending'[d] = pending[d]
                               /\ result'[d] = result[d]
  BY DEF Committed, Answer, Leave
<1>2. Status(c) = "applied" /\ Status(c)' = "ok"
  BY DEF Committed, Answer, Leave, Awaits, Status, InLine, Holds
<1>3. Atomic!Move(c, "applied", "ok")
  <2>1. overtaken' = [overtaken EXCEPT ![c] = FALSE]
    BY DEF Committed, Answer, Leave
  <2>2. QED
    BY <1>1, <1>2, <2>1, Moves
<1>4. Contents' = Contents
  BY <1>1 DEF Contents
<1>5. Past' = Past \/ Past' = [Past EXCEPT ![Target[c]] = {Contents[Target[c]]}]
  <2>1. CASE entries' = entries
    BY <2>1 DEF Past
  <2>2. CASE entries' = [entries EXCEPT ![Target[c]] = {file[Target[c]]}]
    <3>1. ASSUME NEW p \in File
          PROVE  Past'[p] = IF p = Target[c] THEN {file[p].text} ELSE Past[p]
      BY <2>2 DEF Past
    <3>2. Target[c] \in File /\ Contents[Target[c]] = file[Target[c]].text
      BY DEF Contents
    <3>3. Past' = [p \in File |-> Past'[p]] /\ DOMAIN Past = File
      BY DEF Past
    <3>4. QED
      BY <3>1, <3>2, <3>3
  <2>3. QED
    BY <2>1, <2>2 DEF Committed
<1>6. QED
  BY <1>3, <1>4, <1>5 DEF Atomic!Succeed, Contents, Past

\* The process and its calls end; each file is what it was or, after a power
\* loss, one of the texts it had.
LEMMA RestartRestarts ==
    ASSUME IInv, IInv', ProcessCrash \/ PowerLoss
    PROVE  Atomic!Restart
<1> USE DEF IInv, TypeOK, Operation, Finished
<1>1. Restart
  BY PowerLossRestarts DEF ProcessCrash
<1>2. ASSUME NEW c \in Call
      PROVE  Status(c)' = IF Status(c) \in {"open", "applied", "lingering"}
                          THEN "gone" ELSE Status(c)
  <2>1. pc'[c] = IF InLine(c) THEN "gone" ELSE pc[c]
    BY <1>1 DEF Restart
  <2>2. Status(c)' = pc'[c]
    BY <1>1, <2>1 DEF Restart, Status, InLine, Holds
  <2>3. QED
    BY <2>1, <2>2, StatusInLine
<1>3. /\ Statuses' = [c \in Call |-> IF Statuses[c] \in {"open", "applied", "lingering"}
                                      THEN "gone" ELSE Statuses[c]]
      /\ overtaken' = [c \in Call |-> FALSE]
  BY <1>1, <1>2 DEF Statuses, Restart
<1>4. CASE ProcessCrash
  <2>1. UNCHANGED <<Contents, Past>>
    BY <1>4 DEF ProcessCrash, Contents, Past
  <2>2. QED
    BY <1>3, <2>1 DEF Atomic!Restart, Atomic!Call, Call, Statuses, Contents, Past
<1>5. CASE PowerLoss
  <2>1. \A p \in File : file'[p] \in entries[p] /\ entries'[p] = {file'[p]}
    BY <1>5, PowerLossKeepsAnEntry
  <2>2. \A p \in File : Contents'[p] \in Past[p]
    BY <2>1 DEF Contents, Past
  <2>3. Past' = [p \in File |-> {Contents'[p]}]
    <3>1. \A p \in File : {inode.text : inode \in entries'[p]} = {file'[p].text}
      BY <2>1
    <3>2. QED
      BY <3>1 DEF Contents, Past
  <2>4. Contents' \in [File -> UNION {Past[p] : p \in File}]
    BY <2>2 DEF Contents
  <2>5. QED
    BY <1>3, <2>2, <2>3, <2>4
       DEF Atomic!Restart, Atomic!Call, Call, Statuses, Contents, Past
<1>6. QED
  BY <1>4, <1>5

LEMMA InitRefines == Init => Atomic!Init
<1> SUFFICES ASSUME Init PROVE Atomic!Init
  OBVIOUS
<1>1. Statuses = [c \in Call |-> "idle"]
  BY DEF Init, Statuses, Status, InLine, Holds, Operation
<1>2. Contents = Initial
  BY ContentAssumption DEF Init, Contents
<1>3. Past = [p \in File |-> {Initial[p]}]
  BY DEF Init, Past
<1>4. QED
  BY <1>1, <1>2, <1>3 DEF Init, Atomic!Init, Atomic!Call, Call, Statuses, Contents, Past

LEMMA StepRefines ==
    IInv /\ IInv' /\ UpToDate /\ CarriesText /\ [Next]_vars
        => [Atomic!Next]_(Atomic!vars)
<1> SUFFICES ASSUME IInv, IInv', UpToDate, CarriesText, [Next]_vars
             PROVE  Atomic!Next \/ UNCHANGED AbstractVars
  BY DEF AbstractVars, Atomic!vars, Statuses, Contents, Past
<1>1. Atomic!Call = Call
  BY DEF Atomic!Call, Call
<1>2. ASSUME NEW c \in Call,
             \/ Reject(c) \/ Request(c) \/ Reissue(c) \/ Cancel(c)
             \/ PrepareFails(c) \/ EditRefused(c) \/ Removed(c)
      PROVE  Atomic!Next
  BY <1>1, <1>2, StatusMoves DEF Atomic!Next
<1>3. ASSUME NEW c \in Call,
             Acquire(c) \/ WritePrepared(c) \/ EditPrepared(c) \/ StepDone(c) \/ StepFailed(c)
      PROVE  UNCHANGED AbstractVars
  BY <1>3, PollStep
<1>4. ASSUME NEW c \in Call, RunRename(c)
      PROVE  Atomic!Next
  BY <1>1, <1>4, RenameApplies, RenameLingers DEF Atomic!Next
<1>5. ASSUME NEW c \in Call, Run(c), ~RunRename(c)
      PROVE  Atomic!Next \/ UNCHANGED AbstractVars
  BY <1>1, <1>5, PoolStep DEF Atomic!Next
<1>6. ASSUME NEW c \in Call, Committed(c)
      PROVE  Atomic!Next
  BY <1>1, <1>6, CommittedSucceeds DEF Atomic!Next
<1>7. CASE ProcessCrash \/ PowerLoss
  BY <1>7, RestartRestarts DEF Atomic!Next
<1>8. CASE UNCHANGED vars
  BY <1>8 DEF vars, AbstractVars, Statuses, Contents, Past, Status, InLine, Holds, Awaits
<1>9. QED
  BY <1>2, <1>3, <1>4, <1>5, <1>6, <1>7, <1>8 DEF Next, Resume

\* Every call takes effect at one instant between its request and its answer
\* or not at all, a cancelled one perhaps later, and a restart brings back
\* nothing but texts the file has had: the tools implement AtomicFiles.
THEOREM ImplementsAtomic == Spec => AtomicSpec
<1>1. Init => UpToDate /\ CarriesText
  BY DEF Init, UpToDate, CarriesText, Call, Awaits, Holds, Operation
<1>2. IInv /\ UpToDate /\ CarriesText /\ [Next]_vars => UpToDate' /\ CarriesText'
  BY UpToDateStep, CarriesTextStep
<1>3. IInv /\ IInv' /\ UpToDate /\ CarriesText /\ [Next]_vars
        => [Atomic!Next]_(Atomic!vars)
  BY StepRefines
<1>4. QED
  BY InitRefines, Invariance, <1>1, <1>2, <1>3, PTL DEF Spec, AtomicSpec, Atomic!Spec
=============================================================================
