------------------------------ MODULE MCServer ------------------------------
(***************************************************************************)
(* An instance for TLC of what the tools run in: the container with the    *)
(* server's configuration, the layers of its HTTP surface and the          *)
(* environment resource (MCContainer), and the sessions of the legacy      *)
(* transport.  They share no state: the layers look at a request and never *)
(* at its session.  A behaviour runs one of them.                          *)
(***************************************************************************)
EXTENDS MCContainer, LegacySse

CONSTANTS s1, s2, p1

ContainerIdle == EntryIdle /\ HttpIdle /\ EnvIdle

\* The process that had the sessions has ended.
SseOver ==
    /\ entry = [s \in Session |-> "absent"] /\ cancelled = [s \in Session |-> FALSE]
    /\ stream = [s \in Session |-> "none"] /\ service = [s \in Session |-> "none"]
    /\ inbound = [s \in Session |-> 0] /\ outbound = [s \in Session |-> 0]
    /\ busy = [s \in Session |-> FALSE]
    /\ post = [p \in Post |-> "idle"] /\ to = [p \in Post |-> Nobody]
    /\ foundDead = [p \in Post |-> FALSE]
    /\ shutdown = TRUE /\ accepting = FALSE /\ sweeper = "done" /\ exited = TRUE

ServerInit == (Init /\ SseOver) \/ (ContainerIdle /\ SseInit)

ServerNext ==
    \/ Next /\ UNCHANGED sseVars
    \/ SseNext /\ UNCHANGED vars

ServerSpec == ServerInit /\ [][ServerNext]_<<vars, sseVars>> /\ SseFairness
=============================================================================
