-------------------------- MODULE LegacySseProofs --------------------------
(***************************************************************************)
(* Proofs about LegacySse, for any number of sessions and POSTs and any    *)
(* channel size: the session map, the tokens and the streams agree.        *)
(***************************************************************************)
EXTENDS LegacySse, TLAPS

\* A POST that has a sender names a session whose channels exist.
PostSound ==
    \A p \in Post : post[p] = "sending" =>
        to[p] \in Session /\ service[to[p]] \in {"running", "stopped"}

\* A session without a stream yet has no entry, one with a stream has a service
\* loop, and a marked one has lost its stream.
EntrySound ==
    \A s \in Session :
        /\ stream[s] \in {"none", "requested"} => entry[s] = "absent"
        /\ stream[s] \in {"open", "ended"} => service[s] \in {"running", "stopped"}
        /\ entry[s] \in {"marked", "expired"} => stream[s] = "ended"

\* The map, the tokens and the streams: what the three safety properties say,
\* with what makes them inductive.
MapSound == EntrySound /\ OpenIsLive /\ LiveIsOpen /\ EndedIsCancelled

IInv == SseTypeOK /\ PostSound /\ MapSound

-----------------------------------------------------------------------------
LEMMA InitIInv == SseInit => IInv
<1> SUFFICES ASSUME SseInit PROVE IInv
  OBVIOUS
<1>1. 0 \in 0..Capacity
  BY SseAssumption
<1>2. SseTypeOK
  <2>1. /\ inbound \in [Session -> 0..Capacity]
        /\ outbound \in [Session -> 0..Capacity]
    BY <1>1 DEF SseInit
  <2>2. QED
    BY <2>1 DEF SseInit, SseTypeOK
<1>3. PostSound /\ MapSound
  BY DEF SseInit, PostSound, MapSound, EntrySound, OpenIsLive, LiveIsOpen,
         EndedIsCancelled
<1>4. QED
  BY <1>2, <1>3 DEF IInv

LEMMA TypeStep == IInv /\ [SseNext]_sseVars => SseTypeOK'
<1> SUFFICES ASSUME IInv, [SseNext]_sseVars PROVE SseTypeOK'
  OBVIOUS
<1> USE SseAssumption DEF IInv, SseTypeOK, PostSound, sessionVars, postVars, serverVars, Set
<1>1. ASSUME NEW s \in Session, Connect(s) PROVE SseTypeOK'
  BY <1>1 DEF Connect
<1>2. ASSUME NEW s \in Session, Open(s) PROVE SseTypeOK'
  BY <1>2 DEF Open
<1>3. ASSUME NEW s \in Session, ClientLeaves(s) PROVE SseTypeOK'
  <2>1. CASE stream[s] = "open" /\ StreamDropped(s)
    <3>1. outbound' \in [Session -> 0..Capacity]
      <4>1. 0 \in 0..Capacity
        OBVIOUS
      <4>2. QED
        BY <2>1, <4>1 DEF StreamDropped
    <3>2. /\ entry' \in [Session -> {"absent", "live", "marked", "expired"}]
          /\ cancelled' \in [Session -> BOOLEAN]
      BY <2>1 DEF StreamDropped, Disconnect
    <3>3. QED
      BY <2>1, <3>1, <3>2 DEF StreamDropped
  <2>2. CASE stream[s] = "requested"
    BY <1>3, <2>2 DEF ClientLeaves, StreamDropped
  <2>3. QED
    BY <1>3, <2>1, <2>2 DEF ClientLeaves
<1>4. ASSUME NEW s \in Session, ClientReads(s) PROVE SseTypeOK'
  BY <1>4 DEF ClientReads
<1>5. ASSUME NEW s \in Session, StreamEnds(s) PROVE SseTypeOK'
  BY <1>5 DEF StreamEnds, StreamDropped, Disconnect
<1>6. ASSUME NEW s \in Session, Receive(s) PROVE SseTypeOK'
  <2>1. inbound[s] - 1 \in 0..Capacity
    BY <1>6 DEF Receive
  <2>2. inbound' \in [Session -> 0..Capacity]
    BY <1>6, <2>1 DEF Receive
  <2>3. busy' \in [Session -> BOOLEAN]
    <3>1. CASE busy' = busy
      BY <3>1
    <3>2. CASE busy' = [busy EXCEPT ![s] = TRUE]
      BY <3>2
    <3>3. QED
      BY <1>6, <3>1, <3>2 DEF Receive
  <2>4. QED
    BY <1>6, <2>2, <2>3 DEF Receive
<1>7. ASSUME NEW s \in Session, Send(s) PROVE SseTypeOK'
  BY <1>7 DEF Send
<1>8. ASSUME NEW s \in Session, SendTimesOut(s) PROVE SseTypeOK'
  BY <1>8 DEF SendTimesOut
<1>9. ASSUME NEW s \in Session, ServiceObeys(s) PROVE SseTypeOK'
  BY <1>9 DEF ServiceObeys, ServiceStops
<1>10. ASSUME NEW s \in Session, ServiceFails(s) PROVE SseTypeOK'
  BY <1>10 DEF ServiceFails, ServiceStops
<1>11. ASSUME NEW s \in Session, Expire(s) PROVE SseTypeOK'
  BY <1>11 DEF Expire
<1>12. ASSUME NEW s \in Session, Renew(s) PROVE SseTypeOK'
  BY <1>12 DEF Renew, SenderExists
<1>13. ASSUME NEW p \in Post, PostRejected(p) PROVE SseTypeOK'
  BY <1>13 DEF PostRejected
<1>14. ASSUME NEW p \in Post, PostSends(p) PROVE SseTypeOK'
  BY <1>14 DEF PostSends
<1>15. ASSUME NEW p \in Post, PostClosed(p) PROVE SseTypeOK'
  BY <1>15 DEF PostClosed
<1>16. ASSUME NEW p \in Post, PostEnds(p) PROVE SseTypeOK'
  BY <1>16 DEF PostEnds
<1>17. ASSUME NEW p \in Post, NEW s \in Session, PostFinds(p, s) PROVE SseTypeOK'
  BY <1>17 DEF PostFinds
<1>18. ASSUME NEW p \in Post, NEW s \in Session, PostUnknown(p, s) PROVE SseTypeOK'
  BY <1>18 DEF PostUnknown
<1>19. CASE Sweep
  BY <1>19 DEF Sweep
<1>20. CASE Signal
  BY <1>20 DEF Signal
<1>21. CASE StopAccepting
  BY <1>21 DEF StopAccepting
<1>22. CASE CloseAll
  BY <1>22 DEF CloseAll
<1>23. CASE Exit
  BY <1>23 DEF Exit
<1>24. CASE UNCHANGED sseVars
  BY <1>24 DEF sseVars, sessionVars, postVars, serverVars
<1>25. QED
  BY <1>1, <1>2, <1>3, <1>4, <1>5, <1>6, <1>7, <1>8, <1>9, <1>10, <1>11,
     <1>12, <1>13, <1>14, <1>15, <1>16, <1>17, <1>18, <1>19, <1>20, <1>21,
     <1>22, <1>23, <1>24 DEF SseNext, ServiceStep, Deliver

LEMMA PostStep == IInv /\ [SseNext]_sseVars => PostSound'
<1> SUFFICES ASSUME IInv, [SseNext]_sseVars PROVE PostSound'
  OBVIOUS
<1> USE DEF IInv, SseTypeOK, PostSound, SenderExists, sessionVars, postVars, serverVars, Set
<1>1. ASSUME NEW s \in Session, Connect(s) PROVE PostSound'
  BY <1>1 DEF Connect
<1>2. ASSUME NEW s \in Session, Open(s) PROVE PostSound'
  BY <1>2 DEF Open
<1>3. ASSUME NEW s \in Session, ClientLeaves(s) PROVE PostSound'
  BY <1>3 DEF ClientLeaves, StreamDropped, Disconnect
<1>4. ASSUME NEW s \in Session, ClientReads(s) PROVE PostSound'
  BY <1>4 DEF ClientReads
<1>5. ASSUME NEW s \in Session, StreamEnds(s) PROVE PostSound'
  BY <1>5 DEF StreamEnds, StreamDropped, Disconnect
<1>6. ASSUME NEW s \in Session, Receive(s) PROVE PostSound'
  BY <1>6 DEF Receive
<1>7. ASSUME NEW s \in Session, Send(s) PROVE PostSound'
  BY <1>7 DEF Send
<1>8. ASSUME NEW s \in Session, SendTimesOut(s) PROVE PostSound'
  BY <1>8 DEF SendTimesOut
<1>9. ASSUME NEW s \in Session, ServiceObeys(s) PROVE PostSound'
  BY <1>9 DEF ServiceObeys, ServiceStops
<1>10. ASSUME NEW s \in Session, ServiceFails(s) PROVE PostSound'
  BY <1>10 DEF ServiceFails, ServiceStops
<1>11. ASSUME NEW s \in Session, Expire(s) PROVE PostSound'
  BY <1>11 DEF Expire
<1>12. ASSUME NEW s \in Session, Renew(s) PROVE PostSound'
  BY <1>12 DEF Renew, SenderExists
<1>13. ASSUME NEW p \in Post, PostRejected(p) PROVE PostSound'
  BY <1>13 DEF PostRejected
<1>14. ASSUME NEW p \in Post, PostSends(p) PROVE PostSound'
  BY <1>14 DEF PostSends
<1>15. ASSUME NEW p \in Post, PostClosed(p) PROVE PostSound'
  BY <1>15 DEF PostClosed
<1>16. ASSUME NEW p \in Post, PostEnds(p) PROVE PostSound'
  BY <1>16 DEF PostEnds
<1>17. ASSUME NEW p \in Post, NEW s \in Session, PostFinds(p, s) PROVE PostSound'
  BY <1>17 DEF PostFinds, MapSound, EntrySound, LiveIsOpen
<1>18. ASSUME NEW p \in Post, NEW s \in Session, PostUnknown(p, s) PROVE PostSound'
  BY <1>18 DEF PostUnknown
<1>19. CASE Sweep
  BY <1>19 DEF Sweep
<1>20. CASE Signal
  BY <1>20 DEF Signal
<1>21. CASE StopAccepting
  BY <1>21 DEF StopAccepting
<1>22. CASE CloseAll
  BY <1>22 DEF CloseAll
<1>23. CASE Exit
  BY <1>23 DEF Exit
<1>24. CASE UNCHANGED sseVars
  BY <1>24 DEF sseVars, sessionVars, postVars, serverVars
<1>25. QED
  BY <1>1, <1>2, <1>3, <1>4, <1>5, <1>6, <1>7, <1>8, <1>9, <1>10, <1>11,
     <1>12, <1>13, <1>14, <1>15, <1>16, <1>17, <1>18, <1>19, <1>20, <1>21,
     <1>22, <1>23, <1>24 DEF SseNext, ServiceStep, Deliver

LEMMA MapStep == IInv /\ [SseNext]_sseVars => MapSound'
<1> SUFFICES ASSUME IInv, [SseNext]_sseVars PROVE MapSound'
  OBVIOUS
<1> USE DEF IInv, SseTypeOK, MapSound, EntrySound,
        OpenIsLive, LiveIsOpen, EndedIsCancelled, sessionVars, postVars, serverVars, Set
<1>1. ASSUME NEW s \in Session, Connect(s) PROVE MapSound'
  BY <1>1 DEF Connect
<1>2. ASSUME NEW s \in Session, Open(s) PROVE MapSound'
  BY <1>2 DEF Open
<1>3. ASSUME NEW s \in Session, ClientLeaves(s) PROVE MapSound'
  BY <1>3 DEF ClientLeaves, StreamDropped, Disconnect
<1>4. ASSUME NEW s \in Session, ClientReads(s) PROVE MapSound'
  BY <1>4 DEF ClientReads
<1>5. ASSUME NEW s \in Session, StreamEnds(s) PROVE MapSound'
  BY <1>5 DEF StreamEnds, StreamDropped, Disconnect
<1>6. ASSUME NEW s \in Session, Receive(s) PROVE MapSound'
  BY <1>6 DEF Receive
<1>7. ASSUME NEW s \in Session, Send(s) PROVE MapSound'
  BY <1>7 DEF Send
<1>8. ASSUME NEW s \in Session, SendTimesOut(s) PROVE MapSound'
  BY <1>8 DEF SendTimesOut
<1>9. ASSUME NEW s \in Session, ServiceObeys(s) PROVE MapSound'
  BY <1>9 DEF ServiceObeys, ServiceStops
<1>10. ASSUME NEW s \in Session, ServiceFails(s) PROVE MapSound'
  BY <1>10 DEF ServiceFails, ServiceStops
<1>11. ASSUME NEW s \in Session, Expire(s) PROVE MapSound'
  BY <1>11 DEF Expire
<1>12. ASSUME NEW s \in Session, Renew(s) PROVE MapSound'
  BY <1>12 DEF Renew, SenderExists
<1>13. ASSUME NEW p \in Post, PostRejected(p) PROVE MapSound'
  BY <1>13 DEF PostRejected
<1>14. ASSUME NEW p \in Post, PostSends(p) PROVE MapSound'
  BY <1>14 DEF PostSends
<1>15. ASSUME NEW p \in Post, PostClosed(p) PROVE MapSound'
  BY <1>15 DEF PostClosed
<1>16. ASSUME NEW p \in Post, PostEnds(p) PROVE MapSound'
  BY <1>16 DEF PostEnds
<1>17. ASSUME NEW p \in Post, NEW s \in Session, PostFinds(p, s) PROVE MapSound'
  BY <1>17 DEF PostFinds
<1>18. ASSUME NEW p \in Post, NEW s \in Session, PostUnknown(p, s) PROVE MapSound'
  BY <1>18 DEF PostUnknown
<1>19. CASE Sweep
  BY <1>19 DEF Sweep
<1>20. CASE Signal
  BY <1>20 DEF Signal
<1>21. CASE StopAccepting
  BY <1>21 DEF StopAccepting
<1>22. CASE CloseAll
  BY <1>22 DEF CloseAll
<1>23. CASE Exit
  BY <1>23 DEF Exit
<1>24. CASE UNCHANGED sseVars
  BY <1>24 DEF sseVars, sessionVars, postVars, serverVars
<1>25. QED
  BY <1>1, <1>2, <1>3, <1>4, <1>5, <1>6, <1>7, <1>8, <1>9, <1>10, <1>11,
     <1>12, <1>13, <1>14, <1>15, <1>16, <1>17, <1>18, <1>19, <1>20, <1>21,
     <1>22, <1>23, <1>24 DEF SseNext, ServiceStep, Deliver

-----------------------------------------------------------------------------
\* IInv holds in every reachable state.
THEOREM Invariance == SseSpec => []IInv
<1>1. IInv /\ [SseNext]_sseVars => IInv'
  BY TypeStep, PostStep, MapStep DEF IInv
<1>2. QED
  BY InitIInv, <1>1, PTL DEF SseSpec

\* Every variable keeps its type; in particular both channels of a session
\* stay within Capacity (OUTBOUND_CAPACITY).
THEOREM TypeCorrect == SseSpec => []SseTypeOK
<1>1. IInv => SseTypeOK
  BY DEF IInv
<1>2. QED
  BY Invariance, <1>1, PTL

\* A client with an open stream is never swept away: its session is live until
\* the shutdown cancels it.
THEOREM OpenStaysLive == SseSpec => []OpenIsLive
<1>1. IInv => OpenIsLive
  BY DEF IInv, MapSound
<1>2. QED
  BY Invariance, <1>1, PTL

\* No session is left in the map as active once its stream is gone.
THEOREM NoOrphanEntry == SseSpec => []LiveIsOpen
<1>1. IInv => LiveIsOpen
  BY DEF IInv, MapSound
<1>2. QED
  BY Invariance, <1>1, PTL

\* The service loop of a session whose stream has ended was told to stop.
THEOREM NoOrphanService == SseSpec => []EndedIsCancelled
<1>1. IInv => EndedIsCancelled
  BY DEF IInv, MapSound
<1>2. QED
  BY Invariance, <1>1, PTL
=============================================================================
