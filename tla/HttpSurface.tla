----------------------------- MODULE HttpSurface -----------------------------
(***************************************************************************)
(* The server's configuration (config.rs) and the layers a request passes  *)
(* before its handler (server.rs 303-319, auth.rs, the routers of both     *)
(* transports).  The server reads its environment once; requests then come *)
(* one after another, and nothing of one is kept for the next.             *)
(*                                                                         *)
(* A text is a model value, an origin a record [scheme, host, port].       *)
(***************************************************************************)
EXTENDS Naturals, Sequences

CONSTANTS
    Environ,      \* bound: the environments the server is started in
    HttpRequest,  \* bound: the requests, [route, authorization, origin, host]
    Trim,         \* the texts with blanks around them, without these
    Blank,        \* the empty text
    Unset,        \* no such variable, no such header
    Opaque,       \* a header that is not visible ASCII
    NotANumber,   \* what does not parse as a number
    Resolution,   \* ticks of a number in the shortest Duration
    MaxDuration,  \* the longest Duration
    DefaultTtl, DefaultKeepalive

ASSUME HttpAssumption ==
    /\ Resolution \in Nat \ {0} /\ MaxDuration \in Nat
    /\ {DefaultTtl, DefaultKeepalive} \subseteq 1..MaxDuration
    /\ Unset # Blank
    /\ \A e \in Environ : \A d \in {e.ttl, e.keepalive} :
          d \in {Unset, Blank} \/ d.number \in Nat \cup {NotANumber}
    /\ {Unset, Blank} \cap DOMAIN Trim = {} /\ \A t \in DOMAIN Trim : Trim[t] # Unset
    /\ \A r \in HttpRequest : r.route \in {"health", "mcp", "sse", "messages", "unknown"}

VARIABLES
    serverPc,  \* idle, start, running, failed, panicked
    environ,   \* [token, origins, hosts, ttl, keepalive, usable]
    config,    \* what from_env makes of it
    request,   \* the request being served
    layer,     \* the layer it is at: none, origin, route, bearer, host, done
    reply      \* none, handled, or why it was refused

httpVars == <<serverPc, environ, config, request, layer, reply>>

HttpIdle ==
    /\ serverPc = "idle" /\ environ = Unset /\ config = Unset
    /\ request = Unset /\ layer = "none" /\ reply = "none"

HttpInit ==
    /\ serverPc = "start" /\ environ \in Environ /\ config = Unset
    /\ request = Unset /\ layer = "none" /\ reply = "none"

-----------------------------------------------------------------------------
(* config.rs *)

Trimmed(text) == IF text \in DOMAIN Trim THEN Trim[text] ELSE text

\* Mutated form of TokenEnv: an empty token is a token.
TokenAsSet(raw) == IF raw = Unset THEN Unset ELSE Trimmed(raw)

TokenEnv(raw) == IF Trimmed(raw) \in {Unset, Blank} THEN Unset ELSE Trimmed(raw)

\* The entries of a comma-separated list.
CsvEnv(entries) == {Trimmed(e) : e \in entries} \ {Blank}

\* A duration is Unset, Blank, or a number that is not negative with a unit.
Factor == [s |-> 1, m |-> 60, h |-> 3600]
Given(raw) == raw \notin {Unset, Blank}
IsDuration(raw) ==
    Given(raw) => /\ raw.number # NotANumber /\ raw.number > 0
                  /\ raw.unit \in DOMAIN Factor
Ticks(raw) == raw.number * Factor[raw.unit]

\* from_secs_f64 panics above the longest Duration, and rounds.
Overflows(raw) == Given(raw) /\ Ticks(raw) > MaxDuration * Resolution
DurationEnv(raw, default) ==
    IF Given(raw) THEN (Ticks(raw) + Resolution \div 2) \div Resolution ELSE default

FromEnv(e) ==
    [token |-> TokenEnv(e.token), origins |-> CsvEnv(e.origins), hosts |-> CsvEnv(e.hosts),
     ttl |-> DurationEnv(e.ttl, DefaultTtl),
     keepalive |-> DurationEnv(e.keepalive, DefaultKeepalive)]

ASSUME ConfigAssumption ==
    \A e \in Environ : IsDuration(e.ttl) /\ IsDuration(e.keepalive) => FromEnv(e) # Unset

\* Host, port and workspace first, then one duration after the other.
StartServer ==
    /\ serverPc = "start"
    /\ LET readable == environ.usable /\ IsDuration(environ.ttl)
           runs     == /\ readable /\ ~Overflows(environ.ttl)
                       /\ IsDuration(environ.keepalive) /\ ~Overflows(environ.keepalive)
           panics   == /\ readable
                       /\ \/ Overflows(environ.ttl)
                          \/ IsDuration(environ.keepalive) /\ Overflows(environ.keepalive)
       IN  /\ serverPc' = IF runs THEN "running" ELSE IF panics THEN "panicked" ELSE "failed"
           /\ config' = IF runs THEN FromEnv(environ) ELSE Unset
    /\ UNCHANGED <<environ, request, layer, reply>>

Loopback == {"localhost", "127.0.0.1", "[::1]"}

\* The port is cut off at the last colon, which an IPv6 literal without port
\* has inside.
OriginAllowed(origin) ==
    IF config.origins # {} THEN origin \in config.origins
    ELSE /\ origin.scheme \in {"http", "https"} /\ origin.host \in Loopback
         /\ ~(origin.host = "[::1]" /\ origin.port = Unset)

-----------------------------------------------------------------------------
(* The layers *)

Arrive ==
    /\ serverPc = "running" /\ layer = "none"
    /\ request' \in HttpRequest /\ layer' = "origin"
    /\ UNCHANGED <<serverPc, environ, config, reply>>

Pass(next) == layer' = next /\ UNCHANGED reply
End(answer) == layer' = "done" /\ reply' = answer

CheckOrigin ==
    /\ layer = "origin"
    /\ IF request.origin \in {Unset, Opaque} \/ OriginAllowed(request.origin)
       THEN Pass("route") ELSE End("forbidden")
    /\ UNCHANGED <<serverPc, environ, config, request>>

\* Mutated form of BehindBearer: one route was added outside of the layer.
BehindBearerButMessages == {"mcp", "sse", "unknown"}

\* A path that is no route falls back to the answer of the router merged last,
\* legacy_sse's, with its layer.
BehindBearer == {"mcp", "sse", "messages", "unknown"}

TakeRoute ==
    /\ layer = "route"
    /\ IF request.route \in BehindBearer THEN Pass("bearer") ELSE End("handled")
    /\ UNCHANGED <<serverPc, environ, config, request>>

RequireBearer ==
    /\ layer = "bearer"
    /\ IF \/ config.token = Unset
          \/ request.authorization = [scheme |-> "Bearer", token |-> config.token]
       THEN IF request.route = "mcp" THEN Pass("host")
            ELSE End(IF request.route = "unknown" THEN "notFound" ELSE "handled")
       ELSE End("unauthorized")
    /\ UNCHANGED <<serverPc, environ, config, request>>

\* In the streamable service.
CheckHost ==
    /\ layer = "host"
    /\ End(IF config.hosts = {} \/ request.host \in config.hosts
           THEN "handled" ELSE "forbiddenHost")
    /\ UNCHANGED <<serverPc, environ, config, request>>

Respond ==
    /\ layer = "done"
    /\ request' = Unset /\ layer' = "none" /\ reply' = "none"
    /\ UNCHANGED <<serverPc, environ, config>>

HttpNext ==
    \/ StartServer \/ Arrive \/ CheckOrigin \/ TakeRoute \/ RequireBearer
    \/ CheckHost \/ Respond

HttpSpec == HttpInit /\ [][HttpNext]_httpVars

-----------------------------------------------------------------------------
(* Properties *)

\* The values of the variables; a server that runs has a token that is not
\* empty or none at all, and Durations.  config.rs:35-79.
HttpTypeOK ==
    /\ serverPc \in {"idle", "start", "running", "failed", "panicked"}
    /\ (config # Unset) = (serverPc = "running")
    /\ serverPc = "running" =>
           config.token # Blank /\ {config.ttl, config.keepalive} \subseteq 0..MaxDuration
    /\ layer \in {"none", "origin", "route", "bearer", "host", "done"}
    /\ (reply # "none") = (layer = "done")

Listed(raw) == {Trimmed(e) : e \in raw} \ {Blank}
OriginFine ==
    \/ request.origin \in {Unset, Opaque} \cup Listed(environ.origins)
    \/ /\ Listed(environ.origins) = {}
       /\ request.origin.scheme \in {"http", "https"} /\ request.origin.host \in Loopback
TokenFine ==
    \/ environ.token \in {Unset, Blank} \/ Trimmed(environ.token) = Blank
    \/ request.authorization = [scheme |-> "Bearer", token |-> Trimmed(environ.token)]
HostFine == Listed(environ.hosts) = {} \/ request.host \in Listed(environ.hosts)
Portless6 ==
    /\ request.origin \notin {Unset, Opaque} \cup Listed(environ.origins)
    /\ request.origin.host = "[::1]" /\ request.origin.port = Unset

\* Both transports "share the same bearer/origin policy" (server.rs:300-302):
\* a request that reaches a handler has an origin that is missing, unreadable,
\* listed or, without a list, a loopback address; it carries the token as the
\* operator wrote it, blanks around it aside, unless none is set or the route
\* is /health; and a list of hosts names its host, on /mcp alone.  And every
\* such request reaches its handler.  Left open is http://[::1] without a port,
\* which is an origin "on any port" (README.en.md:136) and is refused.
\* server.rs:303-315, auth.rs:18-64, config.rs:81-110.
GuardedRoutes ==
    LET welcome == /\ OriginFine /\ request.route # "unknown"
                   /\ request.route # "health" => TokenFine
                   /\ request.route = "mcp" => HostFine
    IN  layer = "done" => /\ reply = "handled" => welcome
                          /\ welcome => reply = "handled" \/ Portless6
=============================================================================
