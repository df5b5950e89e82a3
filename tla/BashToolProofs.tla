---------------------------- MODULE BashToolProofs ----------------------------
(***************************************************************************)
(* Proofs about BashTool, for any descendants and any amount of output:    *)
(* the drop guard kills whom it should and nobody else, and the answer     *)
(* shows each stream in order.                                             *)
(***************************************************************************)
EXTENDS BashTool, TLAPS

\* The drop guard is armed exactly until bash is reaped, which no phase before
\* the drain survives; a call not spawned yet has nothing to kill.
GuardSound ==
    /\ defused <=> leader = "reaped"
    /\ phase \in {"idle", "waiting", "killing"} => ~defused
    /\ phase = "idle" => leader = "none" /\ ~timedOut

\* Whom the kills reach.
KillSound == TimeoutKillsTree /\ EarlyCancelKillsTree /\ NoStrayKill

\* The chunks of stream s that its reader has pushed so far.
Pushed(s) == IF reader[s] \in {"read", "drawn"} THEN got[s] - 1 ELSE got[s]

\* What a reader has in hand comes after all that it has pushed.
ReaderSound ==
    /\ \A s \in Stream :
        /\ got[s] <= written[s]
        /\ reader[s] \in {"read", "drawn"} => got[s] >= 1
        /\ reader[s] = "drawn" => stamp[s] < nextSeq
    /\ \A c \in chunks :
        /\ c.nth <= Pushed(c.stream)
        /\ c.seq < nextSeq
        /\ reader[c.stream] = "drawn" => c.seq < stamp[c.stream]

\* The chunks of a stream are in the order in which they were written.
InOrder(set) ==
    \A c, d \in set : c.stream = d.stream => (c.nth < d.nth <=> c.seq < d.seq)

\* Until they are taken, the chunks are all that has been pushed.
ListSound ==
    /\ InOrder(chunks)
    /\ collected = "no" =>
        /\ taken = {}
        /\ \A s \in Stream : \A k \in 1..Pushed(s) :
            \E c \in chunks : c.stream = s /\ c.nth = k

\* A reader ends before the collection at the end of file only.
EndSound ==
    /\ phase \in {"idle", "waiting", "killing", "draining"} => collected = "no"
    /\ phase = "idle" => \A s \in Stream : reader[s] = "none"
    /\ collected = "no" => \A s \in Stream :
        reader[s] = "ended" => got[s] = written[s] /\ holders = {}
    /\ collected = "all" => holders = {}

AnswerSound == OutputIsPrefix /\ OutputIsWhole

IInv == BashTypeOK /\ GuardSound /\ KillSound /\ ReaderSound /\ ListSound
            /\ EndSound /\ AnswerSound

-----------------------------------------------------------------------------
LEMMA InitIInv == BashInit => IInv
<1> SUFFICES ASSUME BashInit PROVE IInv
  OBVIOUS
<1> USE BashAssumption DEF BashInit
<1>1. BashTypeOK
  <2>1. 0 \in 0..MaxChunk
    OBVIOUS
  <2>2. QED
    BY <2>1 DEF BashTypeOK, Final, Stream
<1>2. GuardSound /\ KillSound
  BY DEF GuardSound, KillSound, TimeoutKillsTree, EarlyCancelKillsTree, NoStrayKill
<1>3. ReaderSound /\ EndSound
  BY DEF ReaderSound, EndSound, Stream
<1>4. ListSound
  BY DEF ListSound, InOrder, Pushed, Stream
<1>5. OutputIsPrefix
  <2> SUFFICES ASSUME NEW s \in Stream
               PROVE  \E n \in 0..written[s] : {c.nth : c \in Of(s, taken)} = 1..n
    BY DEF OutputIsPrefix, Of
  <2>1. 0 \in 0..written[s] /\ {c.nth : c \in Of(s, taken)} = 1..0
    BY DEF Of
  <2>2. QED
    BY <2>1
<1>6. OutputIsWhole
  BY DEF OutputIsWhole
<1>7. QED
  BY <1>1, <1>2, <1>3, <1>4, <1>5, <1>6 DEF IInv, AnswerSound

LEMMA TypeStep == IInv /\ [BashNext]_bashVars => BashTypeOK'
<1> SUFFICES ASSUME IInv, [BashNext]_bashVars PROVE BashTypeOK'
  OBVIOUS
<1> USE BashAssumption DEF IInv, BashTypeOK, ReaderSound, Final, group, readers, answer
<1>1. CASE Spawn
  BY <1>1 DEF Spawn
<1>2. CASE SpawnFails
  BY <1>2 DEF SpawnFails
<1>3. CASE WaitReturns
  BY <1>3 DEF WaitReturns, ReapLeader
<1>4. CASE LimitStrikes
  BY <1>4 DEF LimitStrikes, KillGroup
<1>5. CASE KilledReaped
  BY <1>5 DEF KilledReaped, ReapLeader
<1>6. CASE DrainEnds
  BY <1>6 DEF DrainEnds, TakeChunks, Return, DropGroup, KillGroup
<1>7. CASE DrainExpires
  BY <1>7 DEF DrainExpires, TakeChunks, Return, DropGroup, KillGroup
<1>8. CASE LogSaved
  BY <1>8 DEF LogSaved, Return, DropGroup, KillGroup
<1>9. CASE Drop
  BY <1>9 DEF Drop, DropGroup, KillGroup
<1>10. ASSUME NEW s \in Stream, ReadChunk(s),
          UNCHANGED <<phase, group, defused, answer, written>>
      PROVE  BashTypeOK'
  BY <1>10 DEF ReadChunk
<1>11. ASSUME NEW s \in Stream, Draw(s),
          UNCHANGED <<phase, group, defused, answer, written>>
      PROVE  BashTypeOK'
  BY <1>11 DEF Draw
<1>12. ASSUME NEW s \in Stream, Push(s),
          UNCHANGED <<phase, group, defused, answer, written>>
      PROVE  BashTypeOK'
  <2>1. [seq |-> stamp[s], stream |-> s, nth |-> got[s]] \in Chunk
    BY <1>12 DEF Push, Chunk
  <2>2. QED
    BY <1>12, <2>1 DEF Push
<1>13. ASSUME NEW s \in Stream, EndOfFile(s),
          UNCHANGED <<phase, group, defused, answer, written>>
      PROVE  BashTypeOK'
  BY <1>13 DEF EndOfFile
<1>14. ASSUME NEW s \in Stream, Abort(s),
          UNCHANGED <<phase, group, defused, answer, written>>
      PROVE  BashTypeOK'
  BY <1>14 DEF Abort
<1>15. ASSUME NEW p \in Proc, Escape(p),
          UNCHANGED <<phase, defused, answer, readers, strayKill>>
      PROVE  BashTypeOK'
  BY <1>15 DEF Escape
<1>16. ASSUME NEW p \in Proc, Exit(p),
          UNCHANGED <<phase, defused, answer, readers, strayKill>>
      PROVE  BashTypeOK'
  BY <1>16 DEF Exit
<1>17. ASSUME NEW parent \in Running, NEW p \in Proc, Start(parent, p),
          UNCHANGED <<phase, defused, answer, readers, strayKill>>
      PROVE  BashTypeOK'
  <2>1. parent = "bash" \/ (parent # "bash" /\ parent \in Proc)
    BY DEF Running
  <2>2. proc' \in [Proc -> {"none", "group", "escaped", "dead"}]
    BY <1>17, <2>1 DEF Start
  <2>3. QED
    BY <1>17, <2>2 DEF Start
<1>18. ASSUME NEW p \in Proc \cup {"bash"}, Redirect(p),
          UNCHANGED <<phase, defused, answer, readers, strayKill>>
      PROVE  BashTypeOK'
  BY <1>18 DEF Redirect
<1>19. ASSUME LeaderExits,
          UNCHANGED <<phase, defused, answer, readers, strayKill>>
      PROVE  BashTypeOK'
  BY <1>19 DEF LeaderExits
<1>20. ASSUME NEW s \in Stream, Emit(s),
          UNCHANGED <<phase, defused, answer, readers, strayKill>>
      PROVE  BashTypeOK'
  BY <1>20 DEF Emit
<1>21. CASE UNCHANGED bashVars
  BY <1>21 DEF bashVars
<1>22. QED
  BY <1>1, <1>2, <1>3, <1>4, <1>5, <1>6, <1>7, <1>8, <1>9, <1>10, <1>11,
     <1>12, <1>13, <1>14, <1>15, <1>16, <1>17, <1>18, <1>19, <1>20, <1>21
     DEF BashNext, Future, Reader, Command

LEMMA GuardStep == IInv /\ [BashNext]_bashVars => GuardSound'
<1> SUFFICES ASSUME IInv, [BashNext]_bashVars PROVE GuardSound'
  OBVIOUS
<1> USE BashAssumption DEF IInv, GuardSound, Final, group, readers, answer
<1>1. CASE Spawn
  BY <1>1 DEF Spawn
<1>2. CASE SpawnFails
  BY <1>2 DEF SpawnFails
<1>3. CASE WaitReturns
  BY <1>3 DEF WaitReturns, ReapLeader
<1>4. CASE LimitStrikes
  BY <1>4 DEF LimitStrikes, KillGroup
<1>5. CASE KilledReaped
  BY <1>5 DEF KilledReaped, ReapLeader
<1>6. CASE DrainEnds
  BY <1>6 DEF DrainEnds, TakeChunks, Return, DropGroup, KillGroup
<1>7. CASE DrainExpires
  BY <1>7 DEF DrainExpires, TakeChunks, Return, DropGroup, KillGroup
<1>8. CASE LogSaved
  BY <1>8 DEF LogSaved, Return, DropGroup, KillGroup
<1>9. CASE Drop
  BY <1>9 DEF Drop, DropGroup, KillGroup
<1>10. ASSUME NEW s \in Stream, ReadChunk(s),
          UNCHANGED <<phase, group, defused, answer, written>>
      PROVE  GuardSound'
  BY <1>10 DEF ReadChunk
<1>11. ASSUME NEW s \in Stream, Draw(s),
          UNCHANGED <<phase, group, defused, answer, written>>
      PROVE  GuardSound'
  BY <1>11 DEF Draw
<1>12. ASSUME NEW s \in Stream, Push(s),
          UNCHANGED <<phase, group, defused, answer, written>>
      PROVE  GuardSound'
  BY <1>12 DEF Push
<1>13. ASSUME NEW s \in Stream, EndOfFile(s),
          UNCHANGED <<phase, group, defused, answer, written>>
      PROVE  GuardSound'
  BY <1>13 DEF EndOfFile
<1>14. ASSUME NEW s \in Stream, Abort(s),
          UNCHANGED <<phase, group, defused, answer, written>>
      PROVE  GuardSound'
  BY <1>14 DEF Abort
<1>15. ASSUME NEW p \in Proc, Escape(p),
          UNCHANGED <<phase, defused, answer, readers, strayKill>>
      PROVE  GuardSound'
  BY <1>15 DEF Escape
<1>16. ASSUME NEW p \in Proc, Exit(p),
          UNCHANGED <<phase, defused, answer, readers, strayKill>>
      PROVE  GuardSound'
  BY <1>16 DEF Exit
<1>17. ASSUME NEW parent \in Running, NEW p \in Proc, Start(parent, p),
          UNCHANGED <<phase, defused, answer, readers, strayKill>>
      PROVE  GuardSound'
  BY <1>17 DEF Start
<1>18. ASSUME NEW p \in Proc \cup {"bash"}, Redirect(p),
          UNCHANGED <<phase, defused, answer, readers, strayKill>>
      PROVE  GuardSound'
  BY <1>18 DEF Redirect
<1>19. ASSUME LeaderExits,
          UNCHANGED <<phase, defused, answer, readers, strayKill>>
      PROVE  GuardSound'
  BY <1>19 DEF LeaderExits
<1>20. ASSUME NEW s \in Stream, Emit(s),
          UNCHANGED <<phase, defused, answer, readers, strayKill>>
      PROVE  GuardSound'
  BY <1>20 DEF Emit
<1>21. CASE UNCHANGED bashVars
  BY <1>21 DEF bashVars
<1>22. QED
  BY <1>1, <1>2, <1>3, <1>4, <1>5, <1>6, <1>7, <1>8, <1>9, <1>10, <1>11,
     <1>12, <1>13, <1>14, <1>15, <1>16, <1>17, <1>18, <1>19, <1>20, <1>21
     DEF BashNext, Future, Reader, Command

LEMMA KillStep == IInv /\ [BashNext]_bashVars => KillSound'
<1> SUFFICES ASSUME IInv, [BashNext]_bashVars PROVE KillSound'
  OBVIOUS
<1> USE BashAssumption DEF IInv, BashTypeOK, GuardSound, KillSound, TimeoutKillsTree,
        EarlyCancelKillsTree, NoStrayKill, InGroup, Running, group, readers, answer
<1>1. CASE Spawn
  BY <1>1 DEF Spawn
<1>2. CASE SpawnFails
  BY <1>2 DEF SpawnFails
<1>3. CASE WaitReturns
  BY <1>3 DEF WaitReturns, ReapLeader
<1>4. CASE LimitStrikes
  BY <1>4 DEF LimitStrikes, KillGroup
<1>5. CASE KilledReaped
  BY <1>5 DEF KilledReaped, ReapLeader
<1>6. CASE DrainEnds
  BY <1>6 DEF DrainEnds, TakeChunks, Return, DropGroup, KillGroup
<1>7. CASE DrainExpires
  BY <1>7 DEF DrainExpires, TakeChunks, Return, DropGroup, KillGroup
<1>8. CASE LogSaved
  BY <1>8 DEF LogSaved, Return, DropGroup, KillGroup
<1>9. CASE Drop
  BY <1>9 DEF Drop, DropGroup, KillGroup
<1>10. ASSUME NEW s \in Stream, ReadChunk(s),
          UNCHANGED <<phase, group, defused, answer, written>>
      PROVE  KillSound'
  BY <1>10 DEF ReadChunk
<1>11. ASSUME NEW s \in Stream, Draw(s),
          UNCHANGED <<phase, group, defused, answer, written>>
      PROVE  KillSound'
  BY <1>11 DEF Draw
<1>12. ASSUME NEW s \in Stream, Push(s),
          UNCHANGED <<phase, group, defused, answer, written>>
      PROVE  KillSound'
  BY <1>12 DEF Push
<1>13. ASSUME NEW s \in Stream, EndOfFile(s),
          UNCHANGED <<phase, group, defused, answer, written>>
      PROVE  KillSound'
  BY <1>13 DEF EndOfFile
<1>14. ASSUME NEW s \in Stream, Abort(s),
          UNCHANGED <<phase, group, defused, answer, written>>
      PROVE  KillSound'
  BY <1>14 DEF Abort
<1>15. ASSUME NEW p \in Proc, Escape(p),
          UNCHANGED <<phase, defused, answer, readers, strayKill>>
      PROVE  KillSound'
  BY <1>15 DEF Escape
<1>16. ASSUME NEW p \in Proc, Exit(p),
          UNCHANGED <<phase, defused, answer, readers, strayKill>>
      PROVE  KillSound'
  BY <1>16 DEF Exit
<1>17. ASSUME NEW parent \in Running, NEW p \in Proc, Start(parent, p),
          UNCHANGED <<phase, defused, answer, readers, strayKill>>
      PROVE  KillSound'
  BY <1>17 DEF Start
<1>18. ASSUME NEW p \in Proc \cup {"bash"}, Redirect(p),
          UNCHANGED <<phase, defused, answer, readers, strayKill>>
      PROVE  KillSound'
  BY <1>18 DEF Redirect
<1>19. ASSUME LeaderExits,
          UNCHANGED <<phase, defused, answer, readers, strayKill>>
      PROVE  KillSound'
  BY <1>19 DEF LeaderExits
<1>20. ASSUME NEW s \in Stream, Emit(s),
          UNCHANGED <<phase, defused, answer, readers, strayKill>>
      PROVE  KillSound'
  BY <1>20 DEF Emit
<1>21. CASE UNCHANGED bashVars
  BY <1>21 DEF bashVars
<1>22. QED
  BY <1>1, <1>2, <1>3, <1>4, <1>5, <1>6, <1>7, <1>8, <1>9, <1>10, <1>11,
     <1>12, <1>13, <1>14, <1>15, <1>16, <1>17, <1>18, <1>19, <1>20, <1>21
     DEF BashNext, Future, Reader, Command

LEMMA ReaderStep == IInv /\ [BashNext]_bashVars => ReaderSound'
<1> SUFFICES ASSUME IInv, [BashNext]_bashVars PROVE ReaderSound'
  OBVIOUS
<1> USE BashAssumption DEF IInv, BashTypeOK, ReaderSound, Pushed, group, readers, answer
<1>1. CASE Spawn
  BY <1>1 DEF Spawn, EndSound, Chunk, Stream
<1>2. CASE SpawnFails
  BY <1>2 DEF SpawnFails
<1>3. CASE WaitReturns
  BY <1>3 DEF WaitReturns, ReapLeader
<1>4. CASE LimitStrikes
  BY <1>4 DEF LimitStrikes, KillGroup
<1>5. CASE KilledReaped
  BY <1>5 DEF KilledReaped, ReapLeader
<1>6. CASE DrainEnds
  BY <1>6 DEF DrainEnds, TakeChunks, Return, DropGroup, KillGroup
<1>7. CASE DrainExpires
  BY <1>7 DEF DrainExpires, TakeChunks, Return, DropGroup, KillGroup
<1>8. CASE LogSaved
  BY <1>8 DEF LogSaved, Return, DropGroup, KillGroup
<1>9. CASE Drop
  BY <1>9 DEF Drop, DropGroup, KillGroup
<1>10. ASSUME NEW s \in Stream, ReadChunk(s),
          UNCHANGED <<phase, group, defused, answer, written>>
      PROVE  ReaderSound'
  BY <1>10 DEF ReadChunk
<1>11. ASSUME NEW s \in Stream, Draw(s),
          UNCHANGED <<phase, group, defused, answer, written>>
      PROVE  ReaderSound'
  BY <1>11 DEF Draw, Chunk
<1>12. ASSUME NEW s \in Stream, Push(s),
          UNCHANGED <<phase, group, defused, answer, written>>
      PROVE  ReaderSound'
  <2> DEFINE new == [seq |-> stamp[s], stream |-> s, nth |-> got[s]]
  <2>1. /\ reader[s] = "drawn" /\ reader'[s] = "reading"
        /\ \A t \in Stream \ {s} : reader'[t] = reader[t]
        /\ UNCHANGED <<got, written, stamp, nextSeq>>
        /\ chunks' = chunks \cup {new}
    BY <1>12 DEF Push
  <2>2. \A t \in Stream : /\ got'[t] <= written'[t]
                          /\ reader'[t] \in {"read", "drawn"} => got'[t] >= 1
                          /\ reader'[t] = "drawn" => stamp'[t] < nextSeq'
    BY <2>1
  <2>3. ASSUME NEW c \in chunks
        PROVE  /\ c.nth <= Pushed(c.stream)'
               /\ c.seq < nextSeq'
               /\ reader'[c.stream] = "drawn" => c.seq < stamp'[c.stream]
    <3>1. c.stream \in Stream /\ c.nth \in Nat
      BY DEF Chunk
    <3>2. CASE c.stream = s
      BY <2>1, <3>1, <3>2
    <3>3. CASE c.stream # s
      BY <2>1, <3>1, <3>3
    <3>4. QED
      BY <3>2, <3>3
  <2>4. /\ new.nth <= Pushed(new.stream)'
        /\ new.seq < nextSeq'
        /\ reader'[new.stream] = "drawn" => new.seq < stamp'[new.stream]
    BY <2>1
  <2>5. QED
    BY <2>1, <2>2, <2>3, <2>4
<1>13. ASSUME NEW s \in Stream, EndOfFile(s),
          UNCHANGED <<phase, group, defused, answer, written>>
      PROVE  ReaderSound'
  BY <1>13 DEF EndOfFile
<1>14. ASSUME NEW s \in Stream, Abort(s),
          UNCHANGED <<phase, group, defused, answer, written>>
      PROVE  ReaderSound'
  BY <1>14 DEF Abort
<1>15. ASSUME NEW p \in Proc, Escape(p),
          UNCHANGED <<phase, defused, answer, readers, strayKill>>
      PROVE  ReaderSound'
  BY <1>15 DEF Escape
<1>16. ASSUME NEW p \in Proc, Exit(p),
          UNCHANGED <<phase, defused, answer, readers, strayKill>>
      PROVE  ReaderSound'
  BY <1>16 DEF Exit
<1>17. ASSUME NEW parent \in Running, NEW p \in Proc, Start(parent, p),
          UNCHANGED <<phase, defused, answer, readers, strayKill>>
      PROVE  ReaderSound'
  BY <1>17 DEF Start
<1>18. ASSUME NEW p \in Proc \cup {"bash"}, Redirect(p),
          UNCHANGED <<phase, defused, answer, readers, strayKill>>
      PROVE  ReaderSound'
  BY <1>18 DEF Redirect
<1>19. ASSUME LeaderExits,
          UNCHANGED <<phase, defused, answer, readers, strayKill>>
      PROVE  ReaderSound'
  BY <1>19 DEF LeaderExits
<1>20. ASSUME NEW s \in Stream, Emit(s),
          UNCHANGED <<phase, defused, answer, readers, strayKill>>
      PROVE  ReaderSound'
  BY <1>20 DEF Emit
<1>21. CASE UNCHANGED bashVars
  BY <1>21 DEF bashVars
<1>22. QED
  BY <1>1, <1>2, <1>3, <1>4, <1>5, <1>6, <1>7, <1>8, <1>9, <1>10, <1>11,
     <1>12, <1>13, <1>14, <1>15, <1>16, <1>17, <1>18, <1>19, <1>20, <1>21
     DEF BashNext, Future, Reader, Command

LEMMA ListStep == IInv /\ [BashNext]_bashVars => ListSound'
<1> SUFFICES ASSUME IInv, [BashNext]_bashVars PROVE ListSound'
  OBVIOUS
<1> USE BashAssumption DEF IInv, BashTypeOK, ReaderSound, ListSound, EndSound, InOrder,
        Pushed, Stream, group, readers, answer
<1>1. CASE Spawn
  BY <1>1 DEF Spawn
<1>2. CASE SpawnFails
  BY <1>2 DEF SpawnFails
<1>3. CASE WaitReturns
  BY <1>3 DEF WaitReturns, ReapLeader
<1>4. CASE LimitStrikes
  BY <1>4 DEF LimitStrikes, KillGroup
<1>5. CASE KilledReaped
  BY <1>5 DEF KilledReaped, ReapLeader
<1>6. CASE DrainEnds
  BY <1>6 DEF DrainEnds, TakeChunks, Return, DropGroup, KillGroup
<1>7. CASE DrainExpires
  BY <1>7 DEF DrainExpires, TakeChunks, Return, DropGroup, KillGroup
<1>8. CASE LogSaved
  BY <1>8 DEF LogSaved, Return, DropGroup, KillGroup
<1>9. CASE Drop
  BY <1>9 DEF Drop, DropGroup, KillGroup
<1>10. ASSUME NEW s \in Stream, ReadChunk(s),
          UNCHANGED <<phase, group, defused, answer, written>>
      PROVE  ListSound'
  BY <1>10 DEF ReadChunk
<1>11. ASSUME NEW s \in Stream, Draw(s),
          UNCHANGED <<phase, group, defused, answer, written>>
      PROVE  ListSound'
  BY <1>11 DEF Draw
<1>12. ASSUME NEW s \in Stream, Push(s),
          UNCHANGED <<phase, group, defused, answer, written>>
      PROVE  ListSound'
  <2> DEFINE new == [seq |-> stamp[s], stream |-> s, nth |-> got[s]]
  <2>1. /\ reader[s] = "drawn" /\ reader'[s] = "reading"
        /\ \A t \in Stream \ {s} : reader'[t] = reader[t]
        /\ UNCHANGED <<got, stamp, nextSeq, taken, collected>>
        /\ chunks' = chunks \cup {new}
    BY <1>12 DEF Push
  <2>2. \A c \in chunks : c.stream = s => /\ c.nth < new.nth /\ c.seq < new.seq
                                         /\ ~(new.nth < c.nth) /\ ~(new.seq < c.seq)
    BY <2>1 DEF Chunk
  <2>3. InOrder(chunks)'
    BY <2>1, <2>2
  <2>4. ASSUME collected = "no", NEW t \in Stream, NEW k \in 1..Pushed(t)'
        PROVE  \E c \in chunks' : c.stream = t /\ c.nth = k
    <3>1. CASE t = s /\ k = got[s]
      <4>1. new \in chunks' /\ new.stream = t /\ new.nth = k
        BY <2>1, <3>1
      <4>2. QED
        BY <4>1
    <3>2. CASE ~(t = s /\ k = got[s])
      <4>1. k \in 1..Pushed(t)
        BY <2>1, <3>2
      <4>2. QED
        BY <2>1, <2>4, <4>1
    <3>3. QED
      BY <3>1, <3>2
  <2>5. QED
    BY <2>1, <2>3, <2>4
<1>13. ASSUME NEW s \in Stream, EndOfFile(s),
          UNCHANGED <<phase, group, defused, answer, written>>
      PROVE  ListSound'
  BY <1>13 DEF EndOfFile
<1>14. ASSUME NEW s \in Stream, Abort(s),
          UNCHANGED <<phase, group, defused, answer, written>>
      PROVE  ListSound'
  BY <1>14 DEF Abort
<1>15. ASSUME NEW p \in Proc, Escape(p),
          UNCHANGED <<phase, defused, answer, readers, strayKill>>
      PROVE  ListSound'
  BY <1>15 DEF Escape
<1>16. ASSUME NEW p \in Proc, Exit(p),
          UNCHANGED <<phase, defused, answer, readers, strayKill>>
      PROVE  ListSound'
  BY <1>16 DEF Exit
<1>17. ASSUME NEW parent \in Running, NEW p \in Proc, Start(parent, p),
          UNCHANGED <<phase, defused, answer, readers, strayKill>>
      PROVE  ListSound'
  BY <1>17 DEF Start
<1>18. ASSUME NEW p \in Proc \cup {"bash"}, Redirect(p),
          UNCHANGED <<phase, defused, answer, readers, strayKill>>
      PROVE  ListSound'
  BY <1>18 DEF Redirect
<1>19. ASSUME LeaderExits,
          UNCHANGED <<phase, defused, answer, readers, strayKill>>
      PROVE  ListSound'
  BY <1>19 DEF LeaderExits
<1>20. ASSUME NEW s \in Stream, Emit(s),
          UNCHANGED <<phase, defused, answer, readers, strayKill>>
      PROVE  ListSound'
  BY <1>20 DEF Emit
<1>21. CASE UNCHANGED bashVars
  BY <1>21 DEF bashVars
<1>22. QED
  BY <1>1, <1>2, <1>3, <1>4, <1>5, <1>6, <1>7, <1>8, <1>9, <1>10, <1>11,
     <1>12, <1>13, <1>14, <1>15, <1>16, <1>17, <1>18, <1>19, <1>20, <1>21
     DEF BashNext, Future, Reader, Command

LEMMA EndStep == IInv /\ [BashNext]_bashVars => EndSound'
<1> SUFFICES ASSUME IInv, [BashNext]_bashVars PROVE EndSound'
  OBVIOUS
<1> USE BashAssumption DEF IInv, BashTypeOK, EndSound, PipesOpen, Aborted, group, readers, answer
<1>1. CASE Spawn
  BY <1>1 DEF Spawn
<1>2. CASE SpawnFails
  BY <1>2 DEF SpawnFails
<1>3. CASE WaitReturns
  BY <1>3 DEF WaitReturns, ReapLeader
<1>4. CASE LimitStrikes
  BY <1>4 DEF LimitStrikes, KillGroup
<1>5. CASE KilledReaped
  BY <1>5 DEF KilledReaped, ReapLeader
<1>6. CASE DrainEnds
  <2>1. phase = "draining" /\ collected = "no" /\ holders = {}
    BY <1>6 DEF DrainEnds, TakeChunks, Stream
  <2>2. holders' = {}
    BY <1>6, <2>1 DEF DrainEnds, TakeChunks, Return, DropGroup, KillGroup
  <2>3. QED
    BY <1>6, <2>1, <2>2 DEF DrainEnds, TakeChunks, Return
<1>7. CASE DrainExpires
  BY <1>7 DEF DrainExpires, TakeChunks, Return, DropGroup, KillGroup
<1>8. CASE LogSaved
  BY <1>8 DEF LogSaved, Return, DropGroup, KillGroup
<1>9. CASE Drop
  BY <1>9 DEF Drop, DropGroup, KillGroup
<1>10. ASSUME NEW s \in Stream, ReadChunk(s),
          UNCHANGED <<phase, group, defused, answer, written>>
      PROVE  EndSound'
  BY <1>10 DEF ReadChunk
<1>11. ASSUME NEW s \in Stream, Draw(s),
          UNCHANGED <<phase, group, defused, answer, written>>
      PROVE  EndSound'
  BY <1>11 DEF Draw
<1>12. ASSUME NEW s \in Stream, Push(s),
          UNCHANGED <<phase, group, defused, answer, written>>
      PROVE  EndSound'
  BY <1>12 DEF Push
<1>13. ASSUME NEW s \in Stream, EndOfFile(s),
          UNCHANGED <<phase, group, defused, answer, written>>
      PROVE  EndSound'
  BY <1>13 DEF EndOfFile
<1>14. ASSUME NEW s \in Stream, Abort(s),
          UNCHANGED <<phase, group, defused, answer, written>>
      PROVE  EndSound'
  BY <1>14 DEF Abort
<1>15. ASSUME NEW p \in Proc, Escape(p),
          UNCHANGED <<phase, defused, answer, readers, strayKill>>
      PROVE  EndSound'
  BY <1>15 DEF Escape
<1>16. ASSUME NEW p \in Proc, Exit(p),
          UNCHANGED <<phase, defused, answer, readers, strayKill>>
      PROVE  EndSound'
  BY <1>16 DEF Exit
<1>17. ASSUME NEW parent \in Running, NEW p \in Proc, Start(parent, p),
          UNCHANGED <<phase, defused, answer, readers, strayKill>>
      PROVE  EndSound'
  BY <1>17 DEF Start
<1>18. ASSUME NEW p \in Proc \cup {"bash"}, Redirect(p),
          UNCHANGED <<phase, defused, answer, readers, strayKill>>
      PROVE  EndSound'
  BY <1>18 DEF Redirect
<1>19. ASSUME LeaderExits,
          UNCHANGED <<phase, defused, answer, readers, strayKill>>
      PROVE  EndSound'
  BY <1>19 DEF LeaderExits
<1>20. ASSUME NEW s \in Stream, Emit(s),
          UNCHANGED <<phase, defused, answer, readers, strayKill>>
      PROVE  EndSound'
  BY <1>20 DEF Emit
<1>21. CASE UNCHANGED bashVars
  BY <1>21 DEF bashVars
<1>22. QED
  BY <1>1, <1>2, <1>3, <1>4, <1>5, <1>6, <1>7, <1>8, <1>9, <1>10, <1>11,
     <1>12, <1>13, <1>14, <1>15, <1>16, <1>17, <1>18, <1>19, <1>20, <1>21
     DEF BashNext, Future, Reader, Command

\* What has been answered stays right while the commands write on.
LEMMA AnswerKept ==
  ASSUME IInv, UNCHANGED <<taken, collected>>,
         \A s \in Stream : written'[s] \in Nat /\ written[s] <= written'[s],
         collected = "all" => written' = written
  PROVE  AnswerSound'
<1>1. OutputIsPrefix'
  <2> SUFFICES ASSUME NEW s \in Stream
               PROVE  /\ \E n \in 0..written'[s] : {c.nth : c \in Of(s, taken')} = 1..n
                      /\ \A c, d \in Of(s, taken') : c.nth < d.nth <=> c.seq < d.seq
    BY DEF OutputIsPrefix, Of
  <2>1. PICK n \in 0..written[s] : {c.nth : c \in Of(s, taken)} = 1..n
    BY DEF IInv, AnswerSound, OutputIsPrefix
  <2>2. n \in 0..written'[s]
    BY DEF IInv, BashTypeOK
  <2>3. {c.nth : c \in Of(s, taken')} = 1..n
    BY <2>1 DEF Of
  <2>4. \A c, d \in Of(s, taken') : c.nth < d.nth <=> c.seq < d.seq
    BY DEF IInv, AnswerSound, OutputIsPrefix, Of
  <2>5. QED
    BY <2>2, <2>3, <2>4
<1>2. OutputIsWhole'
  BY DEF IInv, AnswerSound, OutputIsWhole, Of
<1>3. QED
  BY <1>1, <1>2 DEF AnswerSound

\* What is collected is all that has been pushed.
LEMMA AnswerTaken ==
  ASSUME IInv, phase = "draining", taken' = chunks, UNCHANGED written,
         collected' = "all" => \A s \in Stream : reader[s] = "ended"
  PROVE  AnswerSound'
<1> USE DEF IInv
<1>1. collected = "no"
  BY DEF EndSound
<1>2. ASSUME NEW s \in Stream
      PROVE  /\ Pushed(s) \in 0..written[s]
             /\ {c.nth : c \in Of(s, chunks)} = 1..Pushed(s)
  <2>1. Pushed(s) \in 0..written[s]
    BY DEF BashTypeOK, ReaderSound, Pushed
  <2>2. ASSUME NEW c \in Of(s, chunks) PROVE c.nth \in 1..Pushed(s)
    BY <2>1, <2>2 DEF Of, BashTypeOK, Chunk, ReaderSound
  <2>3. ASSUME NEW k \in 1..Pushed(s) PROVE \E c \in Of(s, chunks) : c.nth = k
    BY <1>1, <2>3 DEF ListSound, Of
  <2>4. QED
    BY <2>1, <2>2, <2>3
<1>3. OutputIsPrefix'
  <2> SUFFICES ASSUME NEW s \in Stream
               PROVE  /\ \E n \in 0..written'[s] : {c.nth : c \in Of(s, taken')} = 1..n
                      /\ \A c, d \in Of(s, taken') : c.nth < d.nth <=> c.seq < d.seq
    BY DEF OutputIsPrefix, Of
  <2>1. Pushed(s) \in 0..written'[s] /\ {c.nth : c \in Of(s, taken')} = 1..Pushed(s)
    BY <1>2 DEF Of
  <2>2. \A c, d \in Of(s, taken') : c.nth < d.nth <=> c.seq < d.seq
    BY DEF ListSound, InOrder, Of
  <2>3. QED
    BY <2>1, <2>2
<1>4. OutputIsWhole'
  <2> SUFFICES ASSUME collected' = "all", NEW s \in Stream
               PROVE  {c.nth : c \in Of(s, taken')} = 1..written'[s]
    BY DEF OutputIsWhole, Of
  <2>1. Pushed(s) = written[s]
    BY <1>1 DEF EndSound, Pushed
  <2>2. QED
    BY <1>2, <2>1 DEF Of
<1>5. QED
  BY <1>3, <1>4 DEF AnswerSound

LEMMA AnswerStep == IInv /\ [BashNext]_bashVars => AnswerSound'
<1> SUFFICES ASSUME IInv, [BashNext]_bashVars PROVE AnswerSound'
  OBVIOUS
<1> USE DEF IInv, group, readers, answer
<1>1. CASE Spawn
  BY <1>1, AnswerKept DEF BashTypeOK, Spawn
<1>2. CASE SpawnFails
  BY <1>2, AnswerKept DEF BashTypeOK, SpawnFails
<1>3. CASE WaitReturns
  BY <1>3, AnswerKept DEF BashTypeOK, WaitReturns, ReapLeader
<1>4. CASE LimitStrikes
  BY <1>4, AnswerKept DEF BashTypeOK, LimitStrikes, KillGroup
<1>5. CASE KilledReaped
  BY <1>5, AnswerKept DEF BashTypeOK, KilledReaped, ReapLeader
<1>6. CASE DrainEnds
  BY <1>6, AnswerTaken DEF DrainEnds, TakeChunks
<1>7. CASE DrainExpires
  BY <1>7, AnswerTaken DEF DrainExpires, TakeChunks
<1>8. CASE LogSaved
  BY <1>8, AnswerKept DEF BashTypeOK, LogSaved, Return, DropGroup, KillGroup
<1>9. CASE Drop
  BY <1>9, AnswerKept DEF BashTypeOK, Drop, DropGroup, KillGroup
<1>10. ASSUME NEW s \in Stream, ReadChunk(s),
          UNCHANGED <<phase, group, defused, answer, written>>
      PROVE  AnswerSound'
  BY <1>10, AnswerKept DEF BashTypeOK
<1>11. ASSUME NEW s \in Stream, Draw(s),
          UNCHANGED <<phase, group, defused, answer, written>>
      PROVE  AnswerSound'
  BY <1>11, AnswerKept DEF BashTypeOK
<1>12. ASSUME NEW s \in Stream, Push(s),
          UNCHANGED <<phase, group, defused, answer, written>>
      PROVE  AnswerSound'
  BY <1>12, AnswerKept DEF BashTypeOK
<1>13. ASSUME NEW s \in Stream, EndOfFile(s),
          UNCHANGED <<phase, group, defused, answer, written>>
      PROVE  AnswerSound'
  BY <1>13, AnswerKept DEF BashTypeOK
<1>14. ASSUME NEW s \in Stream, Abort(s),
          UNCHANGED <<phase, group, defused, answer, written>>
      PROVE  AnswerSound'
  BY <1>14, AnswerKept DEF BashTypeOK
<1>15. ASSUME NEW p \in Proc, Escape(p),
          UNCHANGED <<phase, defused, answer, readers, strayKill>>
      PROVE  AnswerSound'
  BY <1>15, AnswerKept DEF BashTypeOK, Escape
<1>16. ASSUME NEW p \in Proc, Exit(p),
          UNCHANGED <<phase, defused, answer, readers, strayKill>>
      PROVE  AnswerSound'
  BY <1>16, AnswerKept DEF BashTypeOK, Exit
<1>17. ASSUME NEW parent \in Running, NEW p \in Proc, Start(parent, p),
          UNCHANGED <<phase, defused, answer, readers, strayKill>>
      PROVE  AnswerSound'
  BY <1>17, AnswerKept DEF BashTypeOK, Start
<1>18. ASSUME NEW p \in Proc \cup {"bash"}, Redirect(p),
          UNCHANGED <<phase, defused, answer, readers, strayKill>>
      PROVE  AnswerSound'
  BY <1>18, AnswerKept DEF BashTypeOK, Redirect
<1>19. ASSUME LeaderExits,
          UNCHANGED <<phase, defused, answer, readers, strayKill>>
      PROVE  AnswerSound'
  BY <1>19, AnswerKept DEF BashTypeOK, LeaderExits
<1>20. ASSUME NEW s \in Stream, Emit(s),
          UNCHANGED <<phase, defused, answer, readers, strayKill>>
      PROVE  AnswerSound'
  <2>1. collected # "all"
    BY <1>20 DEF Emit, PipesOpen, EndSound
  <2>2. \A t \in Stream : written'[t] \in Nat /\ written[t] <= written'[t]
    BY <1>20 DEF Emit, BashTypeOK
  <2>3. QED
    BY <1>20, <2>1, <2>2, AnswerKept
<1>21. CASE UNCHANGED bashVars
  BY <1>21 DEF bashVars, AnswerSound, OutputIsPrefix, OutputIsWhole, Of
<1>22. QED
  BY <1>1, <1>2, <1>3, <1>4, <1>5, <1>6, <1>7, <1>8, <1>9, <1>10, <1>11,
     <1>12, <1>13, <1>14, <1>15, <1>16, <1>17, <1>18, <1>19, <1>20, <1>21
     DEF BashNext, Future, Reader, Command

-----------------------------------------------------------------------------
\* IInv holds in every reachable state.
THEOREM Invariance == BashSpec => []IInv
<1>1. IInv /\ [BashNext]_bashVars => IInv'
  BY TypeStep, GuardStep, KillStep, ReaderStep, ListStep, EndStep, AnswerStep
     DEF IInv
<1>2. QED
  BY InitIInv, <1>1, PTL DEF BashSpec

\* Every variable keeps its type, however much a command writes (bash.rs).
THEOREM TypeCorrect == BashSpec => []BashTypeOK
<1>1. IInv => BashTypeOK
  BY DEF IInv
<1>2. QED
  BY Invariance, <1>1, PTL

\* Once the limit has struck nobody in the group runs: kill_group reaches every
\* member, and nobody outside the group can start one.
THEOREM TimeoutIsFatal == BashSpec => []TimeoutKillsTree
<1>1. IInv => TimeoutKillsTree
  BY DEF IInv, KillSound
<1>2. QED
  BY Invariance, <1>1, PTL

\* A call dropped before bash was reaped leaves nobody of the group running.
THEOREM EarlyCancelIsFatal == BashSpec => []EarlyCancelKillsTree
<1>1. IInv => EarlyCancelKillsTree
  BY DEF IInv, KillSound
<1>2. QED
  BY Invariance, <1>1, PTL

\* Neither kill_group nor the drop guard signals a group whose number may have
\* been given away.
THEOREM NobodyElseIsKilled == BashSpec => []NoStrayKill
<1>1. IInv => NoStrayKill
  BY DEF IInv, KillSound
<1>2. QED
  BY Invariance, <1>1, PTL

\* The answer shows an initial part of each stream in the order written, although
\* the two readers of read_stream push out of order.
THEOREM OutputInOrder == BashSpec => []OutputIsPrefix
<1>1. IInv => OutputIsPrefix
  BY DEF IInv, AnswerSound
<1>2. QED
  BY Invariance, <1>1, PTL

\* An answer collected after both readers had ended shows all that was written.
THEOREM OutputComplete == BashSpec => []OutputIsWhole
<1>1. IInv => OutputIsWhole
  BY DEF IInv, AnswerSound
<1>2. QED
  BY Invariance, <1>1, PTL
===============================================================================
