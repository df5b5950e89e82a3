----------------------------- MODULE MCContainer -----------------------------
(***************************************************************************)
(* Instances for TLC of what surrounds the tools: the entrypoint of the    *)
(* container, the server's configuration and the layers of its HTTP        *)
(* surface, and the environment resource.  They share no state; a          *)
(* behaviour runs one of them.                                             *)
(***************************************************************************)
EXTENDS Entrypoint, HttpSurface, EnvironmentCache

CONSTANTS secret, padded, blanks, other, mcpHost, e1, e2, e3, e4

-----------------------------------------------------------------------------
(* Environments: tokens, lists and durations unset, blank, padded, huge.   *)

MCTrim == (padded :> secret) @@ (blanks :> Blank)
Origins == [scheme : {"http", "ftp"}, host : {"localhost", "[::1]", "example.org"},
            port : {Unset, 3000}]
AllowedOrigin == [scheme |-> "http", host |-> "example.org", port |-> Unset]
Duration(n, u) == [number |-> n, unit |-> u]
MCDurations == {Unset, Blank, Duration(NotANumber, "s"), Duration(0, "s"), Duration(1, "s"),
                Duration(10, "m"), Duration(10, "h"), Duration(10, "d")}
Plain == [token |-> secret, origins |-> {}, hosts |-> {}, ttl |-> Unset,
          keepalive |-> Unset, usable |-> TRUE]
MCEnviron ==
    {[Plain EXCEPT !.token = t, !.origins = o, !.hosts = h] :
        t \in {Unset, Blank, blanks, secret, padded}, o \in {{}, {blanks, Blank}, {AllowedOrigin}},
        h \in {{}, {blanks}, {mcpHost}}}
    \cup {[Plain EXCEPT !.ttl = d, !.keepalive = k, !.usable = u] :
        d \in MCDurations, k \in MCDurations, u \in BOOLEAN}
MCHttpRequest ==
    [route : {"health", "mcp", "sse", "messages", "unknown"},
     authorization : {Unset, Opaque} \cup [scheme : {"Bearer", "Basic"}, token : {secret, padded, Blank}],
     origin : {Unset, Opaque} \cup Origins, host : {other, mcpHost}]

-----------------------------------------------------------------------------
Line(p, r, t) == [path |-> p, ro |-> r, tmpfs |-> t]
MCMountTable ==
    {<<>>,
     <<Line("/", FALSE, FALSE), Line("/workspace", FALSE, FALSE), Line("/proc", TRUE, FALSE)>>,
     <<Line("/data", FALSE, TRUE), Line("/workspace", FALSE, FALSE), Line("/data", TRUE, FALSE)>>}

-----------------------------------------------------------------------------
vars == <<entryVars, httpVars, envVars>>

Init ==
    \/ EntryInit /\ HttpIdle /\ EnvIdle
    \/ EntryIdle /\ HttpInit /\ EnvIdle
    \/ EntryIdle /\ HttpIdle /\ EnvInit

Next ==
    \/ EntryNext /\ UNCHANGED <<httpVars, envVars>>
    \/ HttpNext /\ UNCHANGED <<entryVars, envVars>>
    \/ EnvNext /\ UNCHANGED <<entryVars, httpVars>>

Spec == Init /\ [][Next]_vars
ContainerSpec == EntryInit /\ HttpIdle /\ EnvIdle /\ [][Next]_vars

\* The values of every variable.  docker-entrypoint.sh, config.rs,
\* environment.rs.
TypeOK == EntryTypeOK /\ HttpTypeOK /\ EnvTypeOK
=============================================================================
