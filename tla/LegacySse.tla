------------------------------ MODULE LegacySse ------------------------------
(***************************************************************************)
(* The legacy HTTP+SSE transport (transport/legacy_sse.rs): the session    *)
(* map, the SSE streams with their disconnect guards, the service loop of  *)
(* each session between two bounded channels, the POST handlers, the       *)
(* sweeper, and the graceful shutdown of main.rs.                          *)
(*                                                                         *)
(* A session stands for one uuid; once every trace of it is gone the value *)
(* is used for a new uuid.  Messages are counted, not told apart.  Time is *)
(* abstract: the TTL, the sweeper's tick and SEND_TIMEOUT elapse at some   *)
(* moment.  The service loop itself is rmcp's: it takes messages in order, *)
(* answers each with at most one message, and stops when its token is      *)
(* cancelled, its input closes or it fails.                                *)
(***************************************************************************)
EXTENDS Naturals

CONSTANTS
    Session,   \* sessions alive at once
    Post,      \* POST /messages requests in progress at once
    Capacity,  \* bound: OUTBOUND_CAPACITY, the size of both channels
    Nobody     \* no session

ASSUME SseAssumption == Capacity \in Nat \ {0} /\ Nobody \notin Session

VARIABLES
    entry,      \* the session map: absent, live (disconnected_at is None),
                \* marked (disconnected_at is set) or expired (past the TTL)
    cancelled,  \* the session's cancellation token
    stream,     \* the GET /sse request and its response stream
    service,    \* the spawned service loop, which owns the channel ends
    inbound,    \* messages in the inbound channel
    busy,       \* the service loop has a message to send
    outbound,   \* messages in the outbound channel
    post,       \* the POST handlers
    to,         \* the session a POST names
    foundDead,  \* deliver found the entry of a session marked disconnected
    shutdown,   \* the shutdown token is cancelled
    accepting,  \* the listener accepts connections
    sweeper,    \* the sweeper task
    exited      \* the server process has ended

sessionVars == <<entry, cancelled, stream, service, inbound, busy, outbound>>
postVars    == <<post, to, foundDead>>
serverVars  == <<shutdown, accepting, sweeper, exited>>
sseVars     == <<sessionVars, postVars, serverVars>>

SseInit ==
    /\ entry = [s \in Session |-> "absent"]
    /\ cancelled = [s \in Session |-> FALSE]
    /\ stream = [s \in Session |-> "none"]
    /\ service = [s \in Session |-> "none"]
    /\ inbound = [s \in Session |-> 0]
    /\ busy = [s \in Session |-> FALSE]
    /\ outbound = [s \in Session |-> 0]
    /\ post = [p \in Post |-> "idle"]
    /\ to = [p \in Post |-> Nobody]
    /\ foundDead = [p \in Post |-> FALSE]
    /\ shutdown = FALSE /\ accepting = TRUE
    /\ sweeper = "running" /\ exited = FALSE

Set(f, s, v) == [f EXCEPT ![s] = v]

-----------------------------------------------------------------------------
(* GET /sse.                                                               *)

\* A connection brings a GET /sse request.
Connect(s) ==
    /\ accepting /\ stream[s] = "none"
    /\ stream' = Set(stream, s, "requested")
    /\ UNCHANGED <<entry, cancelled, service, inbound, busy, outbound,
                   postVars, serverVars>>

\* sse_handler runs without a suspension point: open() spawns the service
\* loop and inserts the entry, and the stream takes the disconnect guard.
Open(s) ==
    /\ stream[s] = "requested"
    /\ stream' = Set(stream, s, "open")
    /\ entry' = Set(entry, s, "live")
    /\ service' = Set(service, s, "running")
    /\ UNCHANGED <<cancelled, inbound, busy, outbound, postVars, serverVars>>

\* Mutated form of Disconnect: the guard drops without a word.
DisconnectUnmarked(s) == UNCHANGED <<cancelled, entry>>

\* Mutated form of Disconnect: the entry is marked, its token untouched.
DisconnectUncancelled(s) ==
    /\ entry' = Set(entry, s, "marked")
    /\ UNCHANGED cancelled

\* disconnect(), from the drop of the guard: nothing if the entry is gone.
Disconnect(s) ==
    IF entry[s] = "absent" THEN UNCHANGED <<cancelled, entry>>
    ELSE /\ cancelled' = Set(cancelled, s, TRUE)
         /\ entry' = Set(entry, s, IF entry[s] = "live" THEN "marked" ELSE entry[s])

\* The stream is dropped, the receiving end of the outbound channel with it.
StreamDropped(s) ==
    /\ stream' = Set(stream, s, "ended")
    /\ outbound' = Set(outbound, s, 0)
    /\ Disconnect(s)
    /\ UNCHANGED <<service, inbound, busy, postVars, serverVars>>

\* The client disconnects; a request not handled yet leaves nothing behind.
ClientLeaves(s) ==
    \/ stream[s] = "open" /\ StreamDropped(s)
    \/ /\ stream[s] = "requested"
       /\ stream' = Set(stream, s, "none")
       /\ UNCHANGED <<entry, cancelled, service, inbound, busy, outbound,
                      postVars, serverVars>>

\* The client reads one event.
ClientReads(s) ==
    /\ stream[s] = "open" /\ outbound[s] > 0
    /\ outbound' = Set(outbound, s, outbound[s] - 1)
    /\ UNCHANGED <<entry, cancelled, stream, service, inbound, busy,
                   postVars, serverVars>>

\* The channel is drained and its sender gone: the response body ends.
StreamEnds(s) ==
    /\ stream[s] = "open" /\ outbound[s] = 0 /\ service[s] = "stopped"
    /\ StreamDropped(s)

-----------------------------------------------------------------------------
(* The service loop (rmcp) and the transport it drives.                    *)

Receive(s) ==
    /\ service[s] = "running" /\ ~busy[s] /\ inbound[s] > 0
    /\ inbound' = Set(inbound, s, inbound[s] - 1)
    /\ busy' \in {Set(busy, s, TRUE), busy}
    /\ UNCHANGED <<entry, cancelled, stream, service, outbound, postVars,
                   serverVars>>

\* Mutated form of Send: an unbounded channel.
SendUnbounded(s) ==
    /\ service[s] = "running" /\ busy[s]
    /\ busy' = Set(busy, s, FALSE)
    /\ outbound' = Set(outbound, s, outbound[s] + 1)
    /\ UNCHANGED <<entry, cancelled, stream, service, inbound, postVars,
                   serverVars>>

\* Transport::send ends: with room in the channel, or with the error Closed
\* once the stream is gone.
Send(s) ==
    /\ service[s] = "running" /\ busy[s]
    /\ outbound[s] < Capacity \/ stream[s] = "ended"
    /\ busy' = Set(busy, s, FALSE)
    /\ outbound' = IF stream[s] = "ended" THEN outbound
                   ELSE Set(outbound, s, outbound[s] + 1)
    /\ UNCHANGED <<entry, cancelled, stream, service, inbound, postVars,
                   serverVars>>

\* Mutated form of SendTimesOut: sends wait for room for ever.
SendWaits(s) == FALSE

\* The client has not read for SEND_TIMEOUT: the message is given up.
SendTimesOut(s) ==
    /\ service[s] = "running" /\ busy[s]
    /\ outbound[s] = Capacity /\ stream[s] = "open"
    /\ busy' = Set(busy, s, FALSE)
    /\ UNCHANGED <<entry, cancelled, stream, service, inbound, outbound,
                   postVars, serverVars>>

\* Somebody may still send to the inbound channel: the entry, or a POST
\* handler with a clone of the sender.
SenderExists(s) ==
    entry[s] # "absent" \/ \E p \in Post : post[p] = "sending" /\ to[p] = s

MustStop(s) ==
    service[s] = "running" /\ (cancelled[s] \/ (~SenderExists(s) /\ inbound[s] = 0))

\* The loop ends, and its channel ends close.
ServiceStops(s) ==
    /\ service' = Set(service, s, "stopped")
    /\ inbound' = Set(inbound, s, 0)
    /\ busy' = Set(busy, s, FALSE)
    /\ UNCHANGED <<entry, cancelled, stream, outbound, postVars, serverVars>>

ServiceObeys(s) == MustStop(s) /\ ServiceStops(s)

\* A failed handshake, or any other error of the loop.
ServiceFails(s) == service[s] = "running" /\ ServiceStops(s)

-----------------------------------------------------------------------------
(* POST /messages.                                                         *)

\* A wrong content type or body is refused before the session is looked at.
PostRejected(p) ==
    /\ ~exited /\ post[p] = "idle"
    /\ post' = Set(post, p, "rejected")
    /\ UNCHANGED <<to, foundDead, sessionVars, serverVars>>

\* deliver() looks the session up and clones its sender.
PostFinds(p, s) ==
    /\ ~exited /\ post[p] = "idle" /\ entry[s] # "absent"
    /\ post' = Set(post, p, "sending")
    /\ to' = Set(to, p, s)
    /\ foundDead' = Set(foundDead, p, entry[s] # "live")
    /\ UNCHANGED <<sessionVars, serverVars>>

PostUnknown(p, s) ==
    /\ ~exited /\ post[p] = "idle" /\ entry[s] = "absent"
    /\ post' = Set(post, p, "notfound")
    /\ UNCHANGED <<to, foundDead, sessionVars, serverVars>>

\* The message is in the channel: 202.
PostSends(p) ==
    /\ post[p] = "sending"
    /\ service[to[p]] = "running" /\ inbound[to[p]] < Capacity
    /\ post' = Set(post, p, "accepted")
    /\ inbound' = Set(inbound, to[p], inbound[to[p]] + 1)
    /\ UNCHANGED <<to, foundDead, entry, cancelled, stream, service, busy,
                   outbound, serverVars>>

\* The receiver is gone: 404.
PostClosed(p) ==
    /\ post[p] = "sending" /\ service[to[p]] = "stopped"
    /\ post' = Set(post, p, "notfound")
    /\ UNCHANGED <<to, foundDead, sessionVars, serverVars>>

\* The answer is out, or the client has given up on it.
PostEnds(p) ==
    /\ post[p] # "idle"
    /\ post' = Set(post, p, "idle")
    /\ to' = Set(to, p, Nobody)
    /\ foundDead' = Set(foundDead, p, FALSE)
    /\ UNCHANGED <<sessionVars, serverVars>>

-----------------------------------------------------------------------------
(* The sweeper and the shutdown.                                           *)

\* The TTL of a disconnected session passes.
Expire(s) ==
    /\ entry[s] = "marked"
    /\ entry' = Set(entry, s, "expired")
    /\ UNCHANGED <<cancelled, stream, service, inbound, busy, outbound,
                   postVars, serverVars>>

\* Mutated form of Sweep: active sessions are removed as well.
SweepLive ==
    /\ sweeper = "running" /\ ~exited
    /\ entry' = [s \in Session |-> "absent"]
    /\ UNCHANGED <<cancelled, stream, service, inbound, busy, outbound,
                   postVars, serverVars>>

\* Mutated form of Sweep: nothing is ever old enough.
SweepNothing == sweeper = "running" /\ ~exited /\ UNCHANGED sseVars

Sweep ==
    /\ sweeper = "running" /\ ~exited
    /\ entry' = [s \in Session |->
                    IF entry[s] = "expired" THEN "absent" ELSE entry[s]]
    /\ UNCHANGED <<cancelled, stream, service, inbound, busy, outbound,
                   postVars, serverVars>>

\* SIGTERM or ctrl-c: the token is cancelled.
Signal ==
    /\ ~shutdown
    /\ shutdown' = TRUE
    /\ UNCHANGED <<accepting, sweeper, exited, sessionVars, postVars>>

\* The server notices the shutdown future and closes the listener.
StopAccepting ==
    /\ shutdown /\ accepting
    /\ accepting' = FALSE
    /\ UNCHANGED <<shutdown, sweeper, exited, sessionVars, postVars>>

\* Mutated form of CloseAll: the map is cleared, the tokens are not cancelled.
ClearAll ==
    /\ shutdown /\ sweeper = "running" /\ ~exited
    /\ sweeper' = "done"
    /\ entry' = [s \in Session |-> "absent"]
    /\ UNCHANGED <<cancelled, stream, service, inbound, busy, outbound,
                   shutdown, accepting, exited, postVars>>

\* The sweeper sees the token: close_all(), and the task ends.
CloseAll ==
    /\ shutdown /\ sweeper = "running" /\ ~exited
    /\ sweeper' = "done"
    /\ cancelled' = [s \in Session |-> cancelled[s] \/ entry[s] # "absent"]
    /\ entry' = [s \in Session |-> "absent"]
    /\ UNCHANGED <<stream, service, inbound, busy, outbound, shutdown,
                   accepting, exited, postVars>>

\* serve() returns when the last connection is done, and the process ends
\* with all it has in memory.
Exit ==
    /\ ~accepting /\ ~exited
    /\ \A s \in Session : stream[s] \in {"none", "ended"}
    /\ \A p \in Post : post[p] = "idle"
    /\ exited' = TRUE
    /\ entry' = [s \in Session |-> "absent"]
    /\ cancelled' = [s \in Session |-> FALSE]
    /\ stream' = [s \in Session |-> "none"]
    /\ service' = [s \in Session |-> "none"]
    /\ inbound' = [s \in Session |-> 0]
    /\ busy' = [s \in Session |-> FALSE]
    /\ outbound' = [s \in Session |-> 0]
    /\ UNCHANGED <<shutdown, accepting, sweeper, postVars>>

\* Nothing refers to the session any more; its value stands for a new uuid.
Renew(s) ==
    /\ stream[s] = "ended" /\ service[s] = "stopped" /\ ~SenderExists(s)
    /\ stream' = Set(stream, s, "none")
    /\ service' = Set(service, s, "none")
    /\ cancelled' = Set(cancelled, s, FALSE)
    /\ UNCHANGED <<entry, inbound, busy, outbound, postVars, serverVars>>

-----------------------------------------------------------------------------
ServiceStep(s) == Receive(s) \/ Send(s) \/ SendTimesOut(s)
Deliver(p) == PostSends(p) \/ PostClosed(p)

SseNext ==
    \/ \E s \in Session :
        \/ Connect(s) \/ Open(s) \/ ClientLeaves(s) \/ ClientReads(s)
        \/ StreamEnds(s) \/ ServiceStep(s) \/ ServiceObeys(s)
        \/ ServiceFails(s) \/ Expire(s) \/ Renew(s)
    \/ \E p \in Post : \/ PostRejected(p) \/ Deliver(p) \/ PostEnds(p)
                       \/ \E s \in Session : PostFinds(p, s) \/ PostUnknown(p, s)
    \/ Sweep \/ Signal \/ StopAccepting \/ CloseAll \/ Exit

\* Tasks that can run are polled and timers fire; a waiting sender gets its
\* turn because the channels serve their senders in order of arrival.  No
\* fairness is assumed of clients: they may stop reading and never leave.
SseFairness ==
    /\ \A s \in Session :
        /\ WF_sseVars(Open(s)) /\ WF_sseVars(StreamEnds(s)) /\ WF_sseVars(Expire(s))
        /\ WF_sseVars(ServiceStep(s)) /\ WF_sseVars(ServiceObeys(s))
    /\ \A p \in Post : SF_sseVars(Deliver(p))
    /\ WF_sseVars(Sweep) /\ WF_sseVars(CloseAll) /\ WF_sseVars(StopAccepting)

SseSpec == SseInit /\ [][SseNext]_sseVars /\ SseFairness

-----------------------------------------------------------------------------
(* Properties.                                                             *)

SseTypeOK ==
    /\ entry \in [Session -> {"absent", "live", "marked", "expired"}]
    /\ cancelled \in [Session -> BOOLEAN]
    /\ stream \in [Session -> {"none", "requested", "open", "ended"}]
    /\ service \in [Session -> {"none", "running", "stopped"}]
    /\ inbound \in [Session -> 0..Capacity]
    /\ busy \in [Session -> BOOLEAN]
    /\ outbound \in [Session -> 0..Capacity]
    /\ post \in [Post -> {"idle", "sending", "accepted", "notfound", "rejected"}]
    /\ to \in [Post -> Session \cup {Nobody}]
    /\ foundDead \in [Post -> BOOLEAN]
    /\ {shutdown, accepting, exited} \subseteq BOOLEAN
    /\ sweeper \in {"running", "done"}

\* A client whose stream is open can be heard: its session is in the map, not
\* marked, until close_all cancels it; the sweeper never takes it away
\* ("Active sessions are never touched", legacy_sse.rs line 155).
OpenIsLive ==
    \A s \in Session : stream[s] = "open" => entry[s] = "live" \/ cancelled[s]

\* And only such a client: no live entry outlives the stream whose guard is to
\* mark it, or the map would keep it, and active_count count it, for ever.
LiveIsOpen == \A s \in Session : entry[s] = "live" => stream[s] = "open"

\* A session whose stream has ended has been told to stop, so its service
\* loop does not run on behind a client that is gone.
EndedIsCancelled == \A s \in Session : stream[s] = "ended" => cancelled[s]

\* Graceful shutdown: once close_all has run no stream is left whose session
\* was not cancelled ("Cancel every session", legacy_sse.rs line 169).
ShutdownCancelsAll ==
    \A s \in Session : sweeper = "done" /\ stream[s] = "open" => cancelled[s]

\* A message is not accepted for a session already marked disconnected
\* ("Unknown or dead sessions yield None", legacy_sse.rs lines 125-126).
DeadRefused == \A p \in Post : post[p] = "accepted" => ~foundDead[p]

\* A disconnected session is forgotten, or its sweeper has ended in shutdown.
DeadAreSwept ==
    \A s \in Session :
        entry[s] \in {"marked", "expired"} ~> entry[s] = "absent" \/ sweeper = "done"

\* A POST handler does not hang, even if the session's client never reads:
\* SEND_TIMEOUT gives the loop back to its input.
PostsAnswered == \A p \in Post : post[p] = "sending" ~> post[p] # "sending"

\* A session open when the signal comes is cancelled, or ends by itself.
ShutdownReaches ==
    \A s \in Session :
        shutdown /\ sweeper = "running" /\ stream[s] = "open"
            ~> cancelled[s] \/ stream[s] # "open"
=============================================================================
