--------------------------- MODULE ContainerProofs ---------------------------
(***************************************************************************)
(* Proofs about what surrounds the tools, for any ids, entries of HOME and *)
(* starts, any environments and requests, and any mounts: the server runs  *)
(* as the owner of the workspace and what was handed over stays so; each   *)
(* route passes the checks meant for it and no others; requests can rely   *)
(* on what they are told of the environment.                               *)
(***************************************************************************)
EXTENDS MCContainer, SequenceLemmas


-----------------------------------------------------------------------------
(* The entrypoint (Entrypoint) *)

Phase == {"idle", "stopped", "stat", "groupmod", "usermod", "reorder",
          "prepare", "chown", "walk", "exec", "running"}
\* The steps of a start that remaps mcpod, before and after usermod.
Remapping == {"groupmod", "usermod"}
Remapped == {"reorder", "prepare", "chown", "walk", "exec"}

\* What a start knows of the owner, and what it has made of mcpod's ids.
WantSound ==
    /\ phase \in {"stat"} \cup Remapping \cup Remapped => asRoot
    /\ phase \in Remapping \cup Remapped => want = owner /\ owner.uid # RootId
    /\ phase = "usermod" => ids.gid = want.gid
    /\ phase \in Remapped => ids = want
    /\ phase = "running" /\ asRoot =>
          IF owner.uid = RootId THEN identity = RootOwner
          ELSE identity = owner /\ ids = identity

\* Between starts mcpod's uid names mcpod.
NameSound == ~interrupted /\ phase # "reorder" => first \/ ids.uid \notin Taken

AllOwned ==
    Prepared \subseteq DOMAIN home /\ \A e \in DOMAIN home \ Link : home[e] = ids

\* What was handed over once belongs to mcpod, unless this start has remapped
\* it and not walked yet.
HomeSound ==
    /\ phase \in {"chown", "walk", "exec"} => Prepared \subseteq DOMAIN home
    /\ asRoot /\ ~interrupted /\ walked =>
          \/ AllOwned
          \/ remapped /\ phase \in {"usermod", "reorder", "prepare", "chown", "walk"}

EntryInv == EntryTypeOK /\ WantSound /\ NameSound /\ HomeSound

-----------------------------------------------------------------------------
LEMMA RootIsOwner == RootOwner \in Owner
BY EntrypointAssumption DEF RootOwner, Owner

LEMMA EntryInitInv == EntryInit => EntryInv
<1> SUFFICES ASSUME EntryInit PROVE EntryInv
  OBVIOUS
<1> USE EntrypointAssumption, RootIsOwner DEF EntryInit
<1>1. ids \in Owner
  BY DEF Owner
<1>2. DOMAIN home \subseteq Entry /\ \A e \in DOMAIN home : home[e] \in Owner
  BY <1>1 DEF Entry
<1>3. EntryTypeOK
  BY <1>1, <1>2 DEF EntryTypeOK
<1>4. WantSound /\ NameSound /\ HomeSound
  BY DEF WantSound, NameSound, HomeSound, Remapping, Remapped
<1>5. QED
  BY <1>3, <1>4 DEF EntryInv

LEMMA EntryTypeStep == EntryInv /\ EntryNext => EntryTypeOK'
<1> SUFFICES ASSUME EntryInv, EntryNext PROVE EntryTypeOK'
  OBVIOUS
<1> USE EntrypointAssumption, RootIsOwner DEF EntryInv, EntryTypeOK
<1>1. CASE ChangeOwner
  BY <1>1 DEF ChangeOwner
<1>2. CASE Stop
  BY <1>2 DEF Stop, EndStart
<1>3. CASE UserWrites
  BY <1>3 DEF UserWrites, Entry
<1>4. CASE Begin
  BY <1>4 DEF Begin
<1>5. CASE StatWorkspace
  BY <1>5 DEF StatWorkspace
<1>6. CASE RemapGroup
  BY <1>6 DEF RemapGroup, Owner
<1>7. CASE RemapUser
  <2>1. ids' \in Owner
    BY <1>7 DEF RemapUser, Owner
  <2>2. DOMAIN home' = DOMAIN home /\ \A e \in DOMAIN home : home'[e] \in Owner
    BY <1>7 DEF RemapUser, Owner
  <2>3. QED
    BY <1>7, <2>1, <2>2 DEF RemapUser
<1>8. CASE Reorder
  BY <1>8 DEF Reorder, IsMcpod
<1>9. CASE Prepare
  <2>1. PICK made \in SUBSET (Prepared \ DOMAIN home) :
           home' = [e \in DOMAIN home \cup made |-> IF e \in made THEN RootOwner ELSE home[e]]
    BY <1>9 DEF Prepare
  <2>2. DOMAIN home' \subseteq Entry /\ \A e \in DOMAIN home' : home'[e] \in Owner
    BY <2>1 DEF Entry
  <2>3. QED
    BY <1>9, <2>2 DEF Prepare, EndStart
<1>10. CASE ChownHome
  BY <1>10 DEF ChownHome
<1>11. CASE Walk
  BY <1>11 DEF Walk
<1>12. CASE Exec
  BY <1>12 DEF Exec
<1>13. QED
  BY <1>1, <1>2, <1>3, <1>4, <1>5, <1>6, <1>7, <1>8, <1>9, <1>10, <1>11, <1>12 DEF EntryNext

LEMMA WantStep == EntryInv /\ EntryNext => WantSound'
<1> SUFFICES ASSUME EntryInv, EntryNext PROVE WantSound'
  OBVIOUS
<1> USE EntrypointAssumption DEF EntryInv, EntryTypeOK, WantSound, Remapping, Remapped
<1>1. CASE ChangeOwner
  BY <1>1 DEF ChangeOwner
<1>2. CASE Stop
  BY <1>2 DEF Stop, EndStart
<1>3. CASE UserWrites
  BY <1>3 DEF UserWrites
<1>4. CASE Begin
  BY <1>4 DEF Begin
<1>5. CASE StatWorkspace
  BY <1>5 DEF StatWorkspace
<1>6. CASE RemapGroup
  BY <1>6 DEF RemapGroup, Owner
<1>7. CASE RemapUser
  BY <1>7 DEF RemapUser, Owner
<1>8. CASE Reorder
  BY <1>8 DEF Reorder
<1>9. CASE Prepare
  BY <1>9 DEF Prepare, EndStart
<1>10. CASE ChownHome
  BY <1>10 DEF ChownHome
<1>11. CASE Walk
  BY <1>11 DEF Walk
<1>12. CASE Exec
  BY <1>12 DEF Exec
<1>13. QED
  BY <1>1, <1>2, <1>3, <1>4, <1>5, <1>6, <1>7, <1>8, <1>9, <1>10, <1>11, <1>12 DEF EntryNext

LEMMA NameStep == EntryInv /\ EntryNext => NameSound'
<1> SUFFICES ASSUME EntryInv, EntryNext PROVE NameSound'
  OBVIOUS
<1> USE DEF EntryInv, EntryTypeOK, NameSound
<1>1. CASE ChangeOwner
  BY <1>1 DEF ChangeOwner
<1>2. CASE Stop
  BY <1>2 DEF Stop, EndStart
<1>3. CASE UserWrites
  BY <1>3 DEF UserWrites
<1>4. CASE Begin
  BY <1>4 DEF Begin
<1>5. CASE StatWorkspace
  BY <1>5 DEF StatWorkspace
<1>6. CASE RemapGroup
  BY <1>6 DEF RemapGroup, Owner
<1>7. CASE RemapUser
  BY <1>7 DEF RemapUser
<1>8. CASE Reorder
  BY <1>8 DEF Reorder, IsMcpod, WantSound, Remapped
<1>9. CASE Prepare
  BY <1>9 DEF Prepare, EndStart
<1>10. CASE ChownHome
  BY <1>10 DEF ChownHome
<1>11. CASE Walk
  BY <1>11 DEF Walk
<1>12. CASE Exec
  BY <1>12 DEF Exec
<1>13. QED
  BY <1>1, <1>2, <1>3, <1>4, <1>5, <1>6, <1>7, <1>8, <1>9, <1>10, <1>11, <1>12 DEF EntryNext

LEMMA HomeStep == EntryInv /\ EntryNext => HomeSound'
<1> SUFFICES ASSUME EntryInv, EntryNext PROVE HomeSound'
  OBVIOUS
<1> USE DEF EntryInv, EntryTypeOK, HomeSound, AllOwned
<1>1. CASE ChangeOwner
  BY <1>1 DEF ChangeOwner
<1>2. CASE Stop
  BY <1>2 DEF Stop, EndStart
<1>3. CASE UserWrites
  <2>1. asRoot => identity = ids
    BY <1>3, EntrypointAssumption DEF UserWrites, WantSound, RootOwner
  <2>2. DOMAIN home \subseteq DOMAIN home'
        /\ (asRoot /\ AllOwned => \A e \in DOMAIN home' \ Link : home'[e] = ids)
    BY <1>3, <2>1 DEF UserWrites
  <2>3. QED
    BY <1>3, <2>2 DEF UserWrites
<1>4. CASE Begin
  BY <1>4 DEF Begin
<1>5. CASE StatWorkspace
  BY <1>5 DEF StatWorkspace
<1>6. CASE RemapGroup
  <2>1. ~remapped' => ids' = ids
    BY <1>6 DEF RemapGroup, Owner
  <2>2. QED
    BY <1>6, <2>1 DEF RemapGroup
<1>7. CASE RemapUser
  BY <1>7 DEF RemapUser
<1>8. CASE Reorder
  BY <1>8 DEF Reorder
<1>9. CASE Prepare
  <2>1. PICK made \in SUBSET (Prepared \ DOMAIN home) :
           /\ home' = [e \in DOMAIN home \cup made |-> IF e \in made THEN RootOwner ELSE home[e]]
           /\ \/ Prepared \subseteq DOMAIN home' /\ phase' = "chown"
                 /\ UNCHANGED <<remapped, interrupted>>
              \/ phase' = "stopped" /\ interrupted'
    BY <1>9 DEF Prepare, EndStart
  <2>2. AllOwned => AllOwned'
    <3>1. ids' = ids
      BY <1>9 DEF Prepare
    <3>2. Prepared \subseteq DOMAIN home => made = {}
      BY <2>1
    <3>3. QED
      BY <2>1, <3>1, <3>2
  <2>3. UNCHANGED <<asRoot, walked>>
    BY <1>9 DEF Prepare
  <2>4. QED
    BY <1>9, <2>1, <2>2, <2>3 DEF Prepare
<1>10. CASE ChownHome
  <2>1. want = ids /\ DOMAIN home' = DOMAIN home
    BY <1>10 DEF ChownHome, WantSound, Remapped
  <2>2. AllOwned => AllOwned'
    BY <1>10, <2>1 DEF ChownHome
  <2>3. QED
    BY <1>10, <2>1, <2>2 DEF ChownHome
<1>11. CASE Walk
  <2>1. want = ids /\ DOMAIN home' = DOMAIN home /\ ids' = ids
    BY <1>11 DEF Walk, WantSound, Remapped
  <2>2. remapped => \A e \in DOMAIN home \ Link : home'[e] = ids
    BY <1>11, <2>1 DEF Walk, Stale, Owner
  <2>3. ~remapped => home' = [e \in DOMAIN home |-> home[e]]
    BY <1>11 DEF Walk
  <2>4. remapped \/ AllOwned => AllOwned'
    BY <1>11, <2>1, <2>2, <2>3 DEF Walk
  <2>5. QED
    BY <1>11, <2>1, <2>4 DEF Walk
<1>12. CASE Exec
  BY <1>12 DEF Exec
<1>13. QED
  BY <1>1, <1>2, <1>3, <1>4, <1>5, <1>6, <1>7, <1>8, <1>9, <1>10, <1>11, <1>12 DEF EntryNext

LEMMA EntryStutter == EntryInv /\ UNCHANGED entryVars => EntryInv'
BY DEF entryVars, EntryInv, EntryTypeOK, WantSound, NameSound, HomeSound, AllOwned

\* The inductive invariant: types, the ids against the owner, the name of the
\* uid, and who has HOME.
THEOREM EntryInvariance == EntrySpec => []EntryInv
<1>1. EntryInv /\ [EntryNext]_entryVars => EntryInv'
  BY EntryTypeStep, WantStep, NameStep, HomeStep, EntryStutter DEF EntryInv
<1>2. QED
  BY <1>1, EntryInitInv, PTL DEF EntrySpec

LEMMA OwnerRuns == EntryInv => RunsAsOwner
BY EntrypointAssumption
   DEF EntryInv, WantSound, NameSound, RunsAsOwner, AsMcpod, IsMcpod, RootOwner

LEMMA HomeIsHandedOver == EntryInv => HandedOver
BY EntrypointAssumption
   DEF EntryInv, WantSound, HomeSound, AllOwned, HandedOver, AsMcpod, RootOwner

\* For any history of starts, stops and owners the server runs as the owner of
\* the workspace.  docker-entrypoint.sh:50-68, 118-122.
THEOREM ServerRunsAsOwner == EntrySpec => []RunsAsOwner
BY OwnerRuns, EntryInvariance, PTL

\* What has been handed over once stays with mcpod, as long as no start was cut
\* short.  docker-entrypoint.sh:70-106.
THEOREM HomeStaysHandedOver == EntrySpec => []HandedOver
BY HomeIsHandedOver, EntryInvariance, PTL

-----------------------------------------------------------------------------
(* The HTTP surface (HttpSurface) *)

\* A server that runs has the configuration its environment asks for, and
\* only such a server has a request.
ConfigSound ==
    /\ serverPc = "running" => config = FromEnv(environ)
    /\ layer # "none" => serverPc = "running" /\ request \in HttpRequest

\* What a request has shown when it comes to a layer.
LayerSound ==
    /\ layer \in {"route", "bearer", "host"} => OriginFine
    /\ layer = "bearer" => request.route \in BehindBearer
    /\ layer = "host" => request.route = "mcp" /\ TokenFine

HttpInv == ConfigSound /\ LayerSound /\ GuardedRoutes

-----------------------------------------------------------------------------
(* The checks of the code are those of the property. *)

LEMMA OriginChecked ==
    ASSUME config = FromEnv(environ)
    PROVE  LET allowed == request.origin \in {Unset, Opaque} \/ OriginAllowed(request.origin)
           IN  (allowed => OriginFine) /\ (OriginFine => allowed \/ Portless6)
<1>1. config.origins = Listed(environ.origins)
  BY DEF FromEnv, CsvEnv, Listed
<1>2. QED
  BY <1>1 DEF OriginAllowed, OriginFine, Portless6

LEMMA TokenChecked ==
    ASSUME config = FromEnv(environ)
    PROVE  (\/ config.token = Unset
            \/ request.authorization = [scheme |-> "Bearer", token |-> config.token]) <=> TokenFine
<1>1. config.token = TokenEnv(environ.token)
  BY DEF FromEnv
<1>2. CASE environ.token \in {Unset, Blank} \/ Trimmed(environ.token) = Blank
  <2>1. Trimmed(environ.token) \in {Unset, Blank}
    BY <1>2, HttpAssumption DEF Trimmed
  <2>2. config.token = Unset
    BY <1>1, <2>1 DEF TokenEnv
  <2>3. QED
    BY <1>2, <2>2 DEF TokenFine
<1>3. CASE ~(environ.token \in {Unset, Blank} \/ Trimmed(environ.token) = Blank)
  <2>1. Trimmed(environ.token) \notin {Unset, Blank}
    BY <1>3, HttpAssumption DEF Trimmed
  <2>2. config.token = Trimmed(environ.token) /\ config.token # Unset
    BY <1>1, <2>1 DEF TokenEnv
  <2>3. QED
    BY <1>3, <2>2 DEF TokenFine
<1>4. QED
  BY <1>2, <1>3

LEMMA HostChecked ==
    ASSUME config = FromEnv(environ)
    PROVE  (config.hosts = {} \/ request.host \in config.hosts) <=> HostFine
BY DEF FromEnv, CsvEnv, Listed, HostFine

-----------------------------------------------------------------------------
LEMMA HttpInitInv == HttpInit => HttpInv
BY DEF HttpInit, HttpInv, ConfigSound, LayerSound, GuardedRoutes

\* Steps that leave the request and the configuration alone.
LEMMA SameRequest ==
    ASSUME UNCHANGED <<serverPc, environ, config, request>>
    PROVE  /\ OriginFine' <=> OriginFine
           /\ TokenFine' <=> TokenFine
           /\ HostFine' <=> HostFine
           /\ Portless6' <=> Portless6
BY DEF OriginFine, TokenFine, HostFine, Portless6, Listed

LEMMA ConfigStep == HttpInv /\ HttpNext => ConfigSound'
<1> SUFFICES ASSUME HttpInv, HttpNext PROVE ConfigSound'
  OBVIOUS
<1> USE DEF HttpInv, ConfigSound
<1>1. CASE StartServer
  BY <1>1 DEF StartServer, FromEnv
<1>2. CASE Arrive
  BY <1>2 DEF Arrive, FromEnv
<1>3. CASE CheckOrigin
  BY <1>3 DEF CheckOrigin, FromEnv
<1>4. CASE TakeRoute
  BY <1>4 DEF TakeRoute, FromEnv
<1>5. CASE RequireBearer
  BY <1>5 DEF RequireBearer, FromEnv
<1>6. CASE CheckHost
  BY <1>6 DEF CheckHost, FromEnv
<1>7. CASE Respond
  BY <1>7 DEF Respond, FromEnv
<1>8. QED
  BY <1>1, <1>2, <1>3, <1>4, <1>5, <1>6, <1>7 DEF HttpNext

LEMMA LayerStep == HttpInv /\ HttpNext => LayerSound' /\ GuardedRoutes'
<1> SUFFICES ASSUME HttpInv, HttpNext PROVE LayerSound' /\ GuardedRoutes'
  OBVIOUS
<1> USE DEF HttpInv, LayerSound, GuardedRoutes, Pass, End
<1>1. CASE StartServer
  <2>1. layer = "none" /\ layer' = "none"
    BY <1>1 DEF StartServer, ConfigSound
  <2>2. QED
    BY <2>1
<1>2. CASE Arrive
  BY <1>2 DEF Arrive
<1>3. CASE CheckOrigin
  <2>1. UNCHANGED <<serverPc, environ, config, request>> /\ config = FromEnv(environ)
    BY <1>3 DEF CheckOrigin, ConfigSound
  <2>2. CASE request.origin \in {Unset, Opaque} \/ OriginAllowed(request.origin)
    <3>1. layer' = "route" /\ OriginFine
      BY <1>3, <2>1, <2>2, OriginChecked DEF CheckOrigin
    <3>2. QED
      BY <2>1, <3>1, SameRequest
  <2>3. CASE ~(request.origin \in {Unset, Opaque} \/ OriginAllowed(request.origin))
    <3>1. layer' = "done" /\ reply' = "forbidden" /\ (OriginFine => Portless6)
      BY <1>3, <2>1, <2>3, OriginChecked DEF CheckOrigin
    <3>2. QED
      BY <2>1, <3>1, SameRequest
  <2>4. QED
    BY <2>2, <2>3
<1>4. CASE TakeRoute
  <2>1. UNCHANGED <<serverPc, environ, config, request>> /\ OriginFine /\ request \in HttpRequest
    BY <1>4 DEF TakeRoute, ConfigSound
  <2>2. CASE request.route \in BehindBearer
    BY <1>4, <2>1, <2>2, SameRequest DEF TakeRoute, BehindBearer
  <2>3. CASE request.route \notin BehindBearer
    <3>1. request.route = "health"
      BY <2>1, <2>3, HttpAssumption DEF BehindBearer
    <3>2. layer' = "done" /\ reply' = "handled"
      BY <1>4, <2>3 DEF TakeRoute
    <3>3. QED
      BY <2>1, <3>1, <3>2, SameRequest
  <2>4. QED
    BY <2>2, <2>3
<1>5. CASE RequireBearer
  <2>1. /\ UNCHANGED <<serverPc, environ, config, request>> /\ config = FromEnv(environ)
        /\ OriginFine /\ request.route \in BehindBearer
    BY <1>5 DEF RequireBearer, ConfigSound
  <2>2. CASE ~TokenFine
    <3>1. layer' = "done" /\ reply' = "unauthorized"
      BY <1>5, <2>1, <2>2, TokenChecked DEF RequireBearer
    <3>2. QED
      BY <2>1, <2>2, <3>1, SameRequest DEF BehindBearer
  <2>3. CASE TokenFine /\ request.route = "mcp"
    <3>1. layer' = "host"
      BY <1>5, <2>1, <2>3, TokenChecked DEF RequireBearer
    <3>2. QED
      BY <2>1, <2>3, <3>1, SameRequest
  <2>4. CASE TokenFine /\ request.route = "unknown"
    <3>1. layer' = "done" /\ reply' = "notFound"
      BY <1>5, <2>1, <2>4, TokenChecked DEF RequireBearer
    <3>2. QED
      BY <2>1, <2>4, <3>1, SameRequest
  <2>5. CASE TokenFine /\ request.route \in {"sse", "messages"}
    <3>1. layer' = "done" /\ reply' = "handled"
      BY <1>5, <2>1, <2>5, TokenChecked DEF RequireBearer
    <3>2. QED
      BY <2>1, <2>5, <3>1, SameRequest
  <2>6. QED
    BY <2>1, <2>2, <2>3, <2>4, <2>5 DEF BehindBearer
<1>6. CASE CheckHost
  <2>1. /\ UNCHANGED <<serverPc, environ, config, request>> /\ config = FromEnv(environ)
        /\ OriginFine /\ TokenFine /\ request.route = "mcp"
    BY <1>6 DEF CheckHost, ConfigSound
  <2>2. layer' = "done" /\ (reply' = "handled" <=> HostFine)
    BY <1>6, <2>1, HostChecked DEF CheckHost
  <2>3. QED
    BY <2>1, <2>2, SameRequest
<1>7. CASE Respond
  BY <1>7 DEF Respond
<1>8. QED
  BY <1>1, <1>2, <1>3, <1>4, <1>5, <1>6, <1>7 DEF HttpNext

LEMMA HttpStutter == HttpInv /\ UNCHANGED httpVars => HttpInv'
BY DEF httpVars, HttpInv, ConfigSound, LayerSound, GuardedRoutes, OriginFine, TokenFine,
       HostFine, Portless6, Listed, FromEnv

\* The inductive invariant: the configuration of a running server, and what a
\* request has shown at each layer.
THEOREM HttpInvariance == HttpSpec => []HttpInv
<1>1. HttpInv /\ [HttpNext]_httpVars => HttpInv'
  BY ConfigStep, LayerStep, HttpStutter DEF HttpInv
<1>2. QED
  BY <1>1, HttpInitInv, PTL DEF HttpSpec

\* For any environment and any requests: no request reaches a handler without
\* what its route asks for, and each that has it reaches its handler, the origin
\* http://[::1] without a port left open.  server.rs:303-315, auth.rs:18-64.
THEOREM RoutesAreGuarded == HttpSpec => []GuardedRoutes
<1>1. HttpInv => GuardedRoutes
  BY DEF HttpInv
<1>2. QED
  BY <1>1, HttpInvariance, PTL

-----------------------------------------------------------------------------
(* The environment resource (EnvironmentCache) *)

\* What is kept is known once somebody was answered, and is what every request
\* that came later was told.
CacheSound ==
    /\ cached \in BOOLEAN \cup {Unprobed}
    /\ DOMAIN answer # {} => cached \in BOOLEAN
    /\ \A c \in late : envPc[c] = "answered" /\ c \in DOMAIN answer
                       /\ answer[c].installed = cached

EnvInv == /\ envPc \in [EnvCall -> {"idle", "called", "probing", "answered", "dropped"}]
        /\ late \subseteq EnvCall /\ CacheSound

-----------------------------------------------------------------------------
LEMMA EnvInitInv == EnvInit => EnvInv
BY DEF EnvInit, EnvInv, CacheSound

\* An answer leaves what the others were told alone.
LEMMA Told ==
    ASSUME NEW c, NEW installed, Tell(c, installed)
    PROVE  /\ DOMAIN answer' = DOMAIN answer \cup {c}
           /\ answer'[c].installed = installed
           /\ \A d \in DOMAIN answer \ {c} : answer'[d] = answer[d]
BY DEF Tell

LEMMA EnvNextInv == EnvInv /\ EnvNext => EnvInv'
<1> SUFFICES ASSUME EnvInv, EnvNext PROVE EnvInv'
  OBVIOUS
<1>0. Unprobed \notin BOOLEAN
  BY EnvAssumption
<1> USE <1>0 DEF EnvInv, CacheSound
<1>1. ASSUME NEW c \in EnvCall, Look(c) PROVE EnvInv'
  <2>1. c \notin late /\ envPc[c] = "called"
    BY <1>1 DEF Look
  <2>2. CASE cached # Unprobed
    <3>1. Tell(c, cached) /\ cached' = cached
      BY <1>1, <2>2 DEF Look
    <3>2. envPc' = [envPc EXCEPT ![c] = "answered"]
      BY <3>1 DEF Tell
    <3>3. late' \subseteq late \cup {c}
      BY <1>1 DEF Look
    <3>4. /\ DOMAIN answer' = DOMAIN answer \cup {c} /\ answer'[c].installed = cached
          /\ \A d \in DOMAIN answer \ {c} : answer'[d] = answer[d]
      BY <3>1, Told
    <3>5. QED
      BY <2>1, <2>2, <3>1, <3>2, <3>3, <3>4
  <2>3. CASE cached = Unprobed
    <3>1. UNCHANGED <<answer, late, cached>>
      BY <1>1, <2>3 DEF Look
    <3>2. envPc' = [envPc EXCEPT ![c] = "probing"]
      BY <1>1, <2>3 DEF Look
    <3>3. QED
      BY <2>1, <3>1, <3>2
  <2>4. QED
    BY <2>2, <2>3
<1>2. ASSUME NEW c \in EnvCall, Probed(c) PROVE EnvInv'
  <2>1. PICK installed \in BOOLEAN : cached' = Kept(installed) /\ Tell(c, installed)
    BY <1>2 DEF Probed
  <2>2. c \notin late /\ late' = late
    BY <1>2 DEF Probed
  <2>3. envPc' = [envPc EXCEPT ![c] = "answered"]
    BY <2>1 DEF Tell
  <2>4. cached' \in BOOLEAN /\ (late # {} => cached' = cached)
    BY <2>1 DEF Kept
  <2>5. QED
    BY <2>1, <2>2, <2>3, <2>4, Told
<1>3. ASSUME NEW c \in EnvCall, DropProbe(c) PROVE EnvInv'
  <2>1. c \notin late
    BY <1>3 DEF DropProbe
  <2>2. QED
    BY <1>3, <2>1 DEF DropProbe
<1>4. QED
  BY <1>1, <1>2, <1>3 DEF EnvNext

\* The inductive invariant: what is kept, and what late requests were told.
THEOREM EnvInvariance == EnvSpec => []EnvInv
<1>1. EnvInv /\ UNCHANGED envVars => EnvInv'
  BY DEF envVars, EnvInv, CacheSound
<1>2. QED
  BY <1>1, EnvInitInv, EnvNextInv, PTL DEF EnvSpec

LEMMA LateTold == EnvInv => LateAgree
BY DEF EnvInv, CacheSound, LateAgree

\* Any two requests that come after the first answer are told the same of
\* mise, however many probe at once and are cancelled.  environment.rs:70-87.
THEOREM LateRequestsAgree == EnvSpec => []LateAgree
BY LateTold, EnvInvariance, PTL

-----------------------------------------------------------------------------
(* The mounts: what the fold over the table has collected after each line. *)

Mount == [path : STRING, ro : BOOLEAN, tmpfs : BOOLEAN]
Described == [mode : {"ro", "rw"}, persistent : BOOLEAN]

\* The collections the fold goes through.
Collection == UNION {[P -> Described] : P \in SUBSET STRING}

\* One line of the table.
Collect(byPath, line) == IF line.path \in SystemPath THEN byPath ELSE Insert(byPath, line)

\* c is what the first k lines of t describe: every path that is not the
\* system's, and of each the last line.
Collected(t, k, c) ==
    /\ DOMAIN c = {t[i].path : i \in 1..k} \ SystemPath
    /\ \A i \in 1..k :
          \/ t[i].path \in SystemPath
          \/ \E later \in 1..k : later > i /\ t[later].path = t[i].path
          \/ c[t[i].path] = MountInfo(t[i])

LEMMA CollectType ==
    ASSUME NEW byPath \in Collection, NEW line \in Mount
    PROVE  Collect(byPath, line) \in Collection
<1>1. PICK P \in SUBSET STRING : byPath \in [P -> Described]
  BY DEF Collection
<1>2. MountInfo(line) \in Described /\ line.path \in STRING
  BY DEF MountInfo, Described, Mount
<1>3. Insert(byPath, line) \in [P \cup {line.path} -> Described]
  BY <1>1, <1>2 DEF Insert
<1>4. P \cup {line.path} \in SUBSET STRING
  BY <1>2
<1>5. QED
  BY <1>3, <1>4 DEF Collect, Collection

\* A line adds its path and hides what was mounted there before.
LEMMA CollectStep ==
    ASSUME NEW n \in Nat, NEW t \in [1..n -> Mount], NEW k \in 1..n,
           NEW byPath, Collected(t, k - 1, byPath)
    PROVE  Collected(t, k, Collect(byPath, t[k]))
<1> DEFINE c == Collect(byPath, t[k])
<1>1. k - 1 \in Nat /\ k \in Nat /\ 1..k = 1..(k - 1) \cup {k} /\ \A i \in 1..(k - 1) : i < k
  OBVIOUS
<1>2. {t[i].path : i \in 1..k} = {t[i].path : i \in 1..(k - 1)} \cup {t[k].path}
  BY <1>1
<1>3. CASE t[k].path \in SystemPath
  <2>1. c = byPath
    BY <1>3 DEF Collect
  <2> SUFFICES Collected(t, k, c)
    OBVIOUS
  <2> HIDE DEF c
  <2>2. DOMAIN c = {t[i].path : i \in 1..k} \ SystemPath
    BY <1>2, <1>3, <2>1 DEF Collected
  <2>3. QED
    BY <1>1, <1>3, <2>1, <2>2 DEF Collected
<1>4. CASE t[k].path \notin SystemPath
  <2>1. c = Insert(byPath, t[k])
    BY <1>4 DEF Collect
  <2> SUFFICES Collected(t, k, c)
    OBVIOUS
  <2> HIDE DEF c
  <2>2. /\ DOMAIN c = DOMAIN byPath \cup {t[k].path}
        /\ c[t[k].path] = MountInfo(t[k])
        /\ \A p \in DOMAIN byPath : p # t[k].path => c[p] = byPath[p]
    BY <2>1 DEF Insert
  <2>3. DOMAIN c = {t[i].path : i \in 1..k} \ SystemPath
    BY <1>2, <1>4, <2>2 DEF Collected
  <2>4. ASSUME NEW i \in 1..k
        PROVE  \/ t[i].path \in SystemPath
               \/ \E later \in 1..k : later > i /\ t[later].path = t[i].path
               \/ c[t[i].path] = MountInfo(t[i])
    <3>1. CASE i = k
      BY <2>2, <3>1
    <3>2. CASE i # k /\ t[i].path = t[k].path
      BY <1>1, <3>2
    <3>3. CASE i # k /\ t[i].path # t[k].path /\ t[i].path \notin SystemPath
      <4>1. i \in 1..(k - 1)
        BY <1>1, <3>3
      <4>2. t[i].path \in DOMAIN byPath
        BY <3>3, <4>1 DEF Collected
      <4>3. c[t[i].path] = byPath[t[i].path]
        BY <2>2, <3>3, <4>2
      <4>4. \/ \E later \in 1..(k - 1) : later > i /\ t[later].path = t[i].path
            \/ byPath[t[i].path] = MountInfo(t[i])
        BY <3>3, <4>1 DEF Collected
      <4>5. QED
        BY <1>1, <4>3, <4>4
    <3>4. QED
      BY <3>1, <3>2, <3>3
  <2>5. QED
    BY <2>3, <2>4 DEF Collected
<1>5. QED
  BY <1>3, <1>4

\* What a request is told of the mounts.
LEMMA MountsAre ==
    ASSUME NEW n \in Nat, NEW t \in [1..n -> Mount]
    PROVE  Collected(t, n, Mounts(t))
<1> DEFINE base == << >>
           F == [p \in Collection \X (1..n) |-> Collect(p[1], t[p[2]])]
           Fix(g) == g = [s \in SUBSET (1..n) |->
                            IF s = {} THEN base ELSE Collect(g[s \ {Max(s)}], t[Max(s)])]
           iter == CHOOSE g : Fix(g)
<1>1. Mounts(t) = iter[1..n]
  BY DEF Mounts, Collect, FoldLeft, MapThenFoldSet
<1>2. F \in [Collection \X (1..n) -> Collection]
      /\ \A a \in Collection, i \in 1..n : F[<<a, i>>] = Collect(a, t[i])
  <2>1. \A p \in Collection \X (1..n) : p[1] \in Collection /\ p[2] \in 1..n /\ t[p[2]] \in Mount
    OBVIOUS
  <2>2. \A p \in Collection \X (1..n) : Collect(p[1], t[p[2]]) \in Collection
    BY <2>1, CollectType
  <2>3. F \in [Collection \X (1..n) -> Collection]
    BY <2>2
  <2>4. ASSUME NEW a \in Collection, NEW i \in 1..n PROVE F[<<a, i>>] = Collect(a, t[i])
    <3>1. <<a, i>> \in Collection \X (1..n) /\ <<a, i>>[1] = a /\ <<a, i>>[2] = i
      OBVIOUS
    <3>2. QED
      BY <3>1
  <2>5. QED
    BY <2>3, <2>4
<1>3. base \in Collection /\ DOMAIN base = {}
  <2>1. << >> \in [{} -> Described]
    OBVIOUS
  <2>2. {} \in SUBSET STRING
    OBVIOUS
  <2>3. QED
    BY <2>1, <2>2 DEF Collection
<1> HIDE DEF F, base
<1>4. PICK g \in [SUBSET (1..n) -> Collection] : Folds(n, base, F, g)
  BY <1>2, <1>3, FoldExists
<1>5. ASSUME NEW s \in SUBSET (1..n)
      PROVE  g[s] = IF s = {} THEN base ELSE Collect(g[s \ {Max(s)}], t[Max(s)])
  <2> SUFFICES ASSUME s # {} PROVE g[s] = Collect(g[s \ {Max(s)}], t[Max(s)])
    BY <1>4 DEF Folds
  <2>1. s \in SUBSET (0..n)
    OBVIOUS
  <2>2. Max(s) \in 1..n
    BY <2>1, GreatestNumber
  <2>3. s \ {Max(s)} \in SUBSET (1..n)
    OBVIOUS
  <2>4. g[s] = F[<<g[s \ {Max(s)}], Max(s)>>] /\ g[s \ {Max(s)}] \in Collection
    BY <1>4, <2>3 DEF Folds
  <2>5. QED
    BY <1>2, <2>2, <2>4
<1>6. Fix(iter)
  <2>1. g = [s \in SUBSET (1..n) |-> IF s = {} THEN base ELSE Collect(g[s \ {Max(s)}], t[Max(s)])]
    BY <1>5
  <2>2. \E h : Fix(h)
    BY <2>1
  <2> HIDE DEF Fix
  <2>3. QED
    BY <2>2, Zenon
<1> HIDE DEF iter
<1>7. iter[{}] = base
  BY <1>6
<1>8. ASSUME NEW k \in 1..n PROVE iter[1..k] = Collect(iter[1..(k - 1)], t[k])
  <2>1. /\ 1..k \in SUBSET (1..n) /\ 1..k # {}
        /\ Max(1..k) = k /\ (1..k) \ {Max(1..k)} = 1..(k - 1)
    BY IntervalStep
  <2>2. iter[1..k] = Collect(iter[(1..k) \ {Max(1..k)}], t[Max(1..k)])
    BY <1>6, <2>1
  <2>3. QED
    BY <2>1, <2>2
<1> DEFINE T == {k \in 0..n : Collected(t, k, iter[1..k])}
<1>9. 0..n \subseteq T
  <2>1. 0 \in T
    <3>1. 1..0 = {}
      OBVIOUS
    <3>2. Collected(t, 0, iter[1..0])
      BY <1>3, <1>7, <3>1 DEF Collected
    <3>3. QED
      BY <3>2
  <2>2. ASSUME NEW k \in 1..n, k - 1 \in T PROVE k \in T
    BY <1>8, <2>2, CollectStep
  <2> HIDE DEF T
  <2>3. QED
    BY <2>1, <2>2, Climb
<1>10. QED
  BY <1>1, <1>9

-----------------------------------------------------------------------------
(* What the requests are told.                                             *)

\* The table stays what it was, and whoever was answered was told what it says.
ToldInv ==
    /\ table \in MountTable
    /\ \A c \in DOMAIN answer : answer[c].mounts = Mounts(table)

LEMMA ToldStep == ToldInv /\ [EnvNext]_envVars => ToldInv'
<1> SUFFICES ASSUME ToldInv, [EnvNext]_envVars PROVE ToldInv'
  OBVIOUS
<1>1. table' = table
  BY DEF EnvNext, Look, Probed, DropProbe, envVars
<1>2. Mounts(table)' = Mounts(table)
  BY <1>1
<1>3. \/ UNCHANGED answer
      \/ \E c \in EnvCall : \E installed : Tell(c, installed)
  BY DEF EnvNext, Look, Probed, DropProbe, envVars
<1>4. CASE UNCHANGED answer
  BY <1>1, <1>2, <1>4 DEF ToldInv
<1>5. ASSUME NEW c \in EnvCall, NEW installed, Tell(c, installed) PROVE ToldInv'
  <2>1. answer' = [d \in DOMAIN answer \cup {c} |->
                      IF d = c THEN [mounts |-> Mounts(table), installed |-> installed] ELSE answer[d]]
    BY <1>5 DEF Tell
  <2>2. \A d \in DOMAIN answer' : answer'[d].mounts = Mounts(table)
    BY <2>1 DEF ToldInv
  <2>3. QED
    BY <1>1, <1>2, <2>2 DEF ToldInv
<1>6. QED
  BY <1>3, <1>4, <1>5

LEMMA MountsTold == ToldInv => MountsAreSeen
<1> SUFFICES ASSUME ToldInv PROVE MountsAreSeen
  OBVIOUS
<1>1. table \in Seq(Mount)
  BY EnvAssumption DEF ToldInv, Mount
<1>2. Len(table) \in Nat /\ table \in [1..Len(table) -> Mount]
  BY <1>1
<1>3. Collected(table, Len(table), Mounts(table))
  BY <1>2, MountsAre
<1>4. DOMAIN table = 1..Len(table)
  BY <1>2
<1>5. QED
  BY <1>3, <1>4 DEF ToldInv, MountsAreSeen, Collected

\* Every path something is mounted at is told, and the last mount of each,
\* whatever the table.  environment.rs:92-127.
THEOREM MountsAreTold == EnvSpec => []MountsAreSeen
<1>1. EnvInit => ToldInv
  BY DEF EnvInit, ToldInv
<1>2. ToldInv /\ [EnvNext]_envVars => ToldInv'
  BY ToldStep
<1>3. QED
  BY <1>1, <1>2, MountsTold, PTL DEF EnvSpec

\* Both, which is what a run checks: requests can rely on what they are told of
\* mise once somebody was answered, and on the mounts.  environment.rs:47-144.
THEOREM RequestsAgree == EnvSpec => []EnvironmentAgrees
BY LateRequestsAgree, MountsAreTold, PTL DEF EnvironmentAgrees

-----------------------------------------------------------------------------
(* The three side by side, as a run checks them.                           *)

\* A duration that does not overflow is rounded to one that is no longer than
\* the longest.
LEMMA RoundingFits ==
    ASSUME NEW ticks \in Nat, ticks <= MaxDuration * Resolution
    PROVE  (ticks + Resolution \div 2) \div Resolution \in 0..MaxDuration
<1>1. Resolution \in Nat \ {0} /\ MaxDuration \in Nat
  BY HttpAssumption
<1> DEFINE half == Resolution \div 2
           q == (ticks + half) \div Resolution
<1>2. half \in Nat /\ half < Resolution
  BY <1>1
<1> HIDE DEF half
<1>3. q \in Nat /\ Resolution * q <= ticks + half
  BY <1>1, <1>2
<1> HIDE DEF q
<1>4. ~(q >= MaxDuration + 1)
  <2> SUFFICES ASSUME q >= MaxDuration + 1 PROVE FALSE
    OBVIOUS
  <2>1. \A u, v, w \in Nat : v >= u => w * v >= w * u
    OBVIOUS
  <2>2. Resolution * q >= Resolution * (MaxDuration + 1)
    BY <1>1, <1>3, <2>1
  <2>3. Resolution * (MaxDuration + 1) = MaxDuration * Resolution + Resolution
    BY <1>1
  <2>4. QED
    BY <1>1, <1>2, <1>3, <2>2, <2>3
<1>5. QED
  BY <1>1, <1>3, <1>4 DEF q, half

\* from_env makes a configuration of what it can read.
LEMMA ConfigIsTyped ==
    ASSUME HttpTypeOK, environ \in Environ, StartServer
    PROVE  HttpTypeOK'
<1> USE HttpAssumption
<1>1. /\ layer' = layer /\ reply' = reply
      /\ serverPc' \in {"running", "panicked", "failed"}
      /\ (config' # Unset) = (serverPc' = "running")
      /\ serverPc' = "running" =>
            /\ config' = FromEnv(environ)
            /\ IsDuration(environ.ttl) /\ ~Overflows(environ.ttl)
            /\ IsDuration(environ.keepalive) /\ ~Overflows(environ.keepalive)
  BY ConfigAssumption DEF StartServer
<1>2. \A raw : TokenEnv(raw) # Blank
  BY DEF TokenEnv
<1>3. ASSUME NEW d, d \in {Unset, Blank} \/ d.number \in Nat \cup {NotANumber},
             IsDuration(d), ~Overflows(d), NEW default \in 1..MaxDuration
      PROVE  DurationEnv(d, default) \in 0..MaxDuration
  <2>1. CASE ~Given(d)
    BY <1>3, <2>1 DEF DurationEnv
  <2>2. CASE Given(d)
    <3>1. d.number \in Nat /\ d.unit \in {"s", "m", "h"}
      BY <1>3, <2>2 DEF Given, IsDuration, Factor
    <3>2. Factor[d.unit] \in Nat
      BY <3>1 DEF Factor
    <3>3. Ticks(d) \in Nat
      BY <3>1, <3>2 DEF Ticks
    <3>4. Ticks(d) <= MaxDuration * Resolution
      BY <1>3, <2>2, <3>3 DEF Overflows
    <3>5. QED
      BY <2>2, <3>3, <3>4, RoundingFits DEF DurationEnv
  <2>3. QED
    BY <2>1, <2>2
<1>4. ASSUME serverPc' = "running"
      PROVE  config'.token # Blank /\ {config'.ttl, config'.keepalive} \subseteq 0..MaxDuration
  <2>1. /\ config'.token = TokenEnv(environ.token)
        /\ config'.ttl = DurationEnv(environ.ttl, DefaultTtl)
        /\ config'.keepalive = DurationEnv(environ.keepalive, DefaultKeepalive)
    BY <1>1, <1>4 DEF FromEnv
  <2>2. config'.ttl \in 0..MaxDuration /\ config'.keepalive \in 0..MaxDuration
    BY <1>1, <1>3, <1>4, <2>1
  <2>3. QED
    BY <1>2, <2>1, <2>2
<1>5. QED
  BY <1>1, <1>4 DEF HttpTypeOK

LEMMA HttpTypeStep == HttpTypeOK /\ HttpInv /\ environ \in Environ /\ HttpNext => HttpTypeOK' /\ environ' = environ
<1> SUFFICES ASSUME HttpTypeOK, HttpInv, environ \in Environ, HttpNext
             PROVE  HttpTypeOK' /\ environ' = environ
  OBVIOUS
<1>1. environ' = environ
  BY DEF HttpNext, StartServer, Arrive, CheckOrigin, TakeRoute, RequireBearer, CheckHost, Respond
<1>2. CASE StartServer
  BY <1>1, <1>2, ConfigIsTyped
<1>3. ASSUME ~StartServer
      PROVE  UNCHANGED <<serverPc, config>> /\ layer' \in {"none", "origin", "route", "bearer", "host", "done"}
             /\ ((reply' # "none") = (layer' = "done"))
  BY <1>3 DEF HttpNext, Arrive, CheckOrigin, TakeRoute, RequireBearer, CheckHost, Respond,
              Pass, End, HttpTypeOK
<1>4. QED
  BY <1>1, <1>2, <1>3 DEF HttpTypeOK

LEMMA EnvTypeStep == EnvTypeOK /\ EnvInv /\ EnvNext => EnvTypeOK'
<1> SUFFICES ASSUME EnvTypeOK, EnvInv, EnvNext PROVE EnvTypeOK'
  OBVIOUS
<1>1. EnvInv'
  BY EnvNextInv
<1>2. PICK c \in EnvCall : Look(c) \/ Probed(c) \/ DropProbe(c)
  BY DEF EnvNext
<1>3. \/ /\ DOMAIN answer' = DOMAIN answer \cup {c}
         /\ envPc' = [envPc EXCEPT ![c] = "answered"]
      \/ /\ answer' = answer /\ envPc[c] # "answered"
         /\ \E s : s # "answered" /\ envPc' = [envPc EXCEPT ![c] = s]
  BY <1>2 DEF Look, Probed, DropProbe, Tell
<1>4. DOMAIN answer' = {d \in EnvCall : envPc'[d] = "answered"}
  BY <1>3 DEF EnvTypeOK
<1>5. QED
  BY <1>1, <1>4 DEF EnvInv, CacheSound, EnvTypeOK

\* A behaviour runs one of the three, and leaves the others idle or as they are.
EntryPart == EntryIdle \/ EntryInv
HttpPart == HttpIdle \/ (HttpInv /\ HttpTypeOK /\ environ \in Environ)
EnvPart == EnvIdle \/ (EnvInv /\ EnvTypeOK /\ ToldInv)

LEMMA EntryPartStep == EntryPart /\ [EntryNext]_entryVars => EntryPart'
<1>1. ASSUME EntryIdle PROVE ~EntryNext
  BY <1>1 DEF EntryIdle, EntryNext, ChangeOwner, Stop, UserWrites, Begin, StatWorkspace, RemapGroup,
              RemapUser, Reorder, Prepare, ChownHome, Walk, Exec
<1>2. EntryInv /\ EntryNext => EntryInv'
  BY EntryTypeStep, WantStep, NameStep, HomeStep DEF EntryInv
<1>3. EntryIdle /\ UNCHANGED entryVars => EntryIdle'
  BY DEF EntryIdle, entryVars
<1>4. QED
  BY <1>1, <1>2, <1>3, EntryStutter DEF EntryPart

LEMMA HttpPartStep == HttpPart /\ [HttpNext]_httpVars => HttpPart'
<1>1. ASSUME HttpIdle PROVE ~HttpNext
  BY <1>1 DEF HttpIdle, HttpNext, StartServer, Arrive, CheckOrigin, TakeRoute, RequireBearer,
              CheckHost, Respond
<1>2. HttpInv /\ HttpNext => HttpInv'
  BY ConfigStep, LayerStep DEF HttpInv
<1>3. /\ HttpIdle /\ UNCHANGED httpVars => HttpIdle'
      /\ HttpTypeOK /\ UNCHANGED httpVars => HttpTypeOK'
      /\ environ \in Environ /\ UNCHANGED httpVars => environ' \in Environ
  BY DEF HttpIdle, HttpTypeOK, httpVars
<1>4. QED
  BY <1>1, <1>2, <1>3, HttpStutter, HttpTypeStep DEF HttpPart

LEMMA EnvPartStep == EnvPart /\ [EnvNext]_envVars => EnvPart'
<1>1. ASSUME EnvIdle PROVE ~EnvNext
  BY <1>1 DEF EnvIdle, EnvNext, Look, Probed, DropProbe
<1>2. /\ EnvIdle /\ UNCHANGED envVars => EnvIdle'
      /\ EnvInv /\ UNCHANGED envVars => EnvInv'
      /\ EnvTypeOK /\ UNCHANGED envVars => EnvTypeOK'
  BY DEF EnvIdle, EnvInv, CacheSound, EnvTypeOK, envVars
<1>3. QED
  BY <1>1, <1>2, EnvNextInv, EnvTypeStep, ToldStep DEF EnvPart

\* The inductive invariant of what surrounds the tools.
THEOREM Invariance == Spec => [](EntryPart /\ HttpPart /\ EnvPart)
<1>1. Init => EntryPart /\ HttpPart /\ EnvPart
  <2>1. EntryInit => EntryPart
    BY EntryInitInv DEF EntryPart
  <2>2. HttpInit => HttpPart
    <3>1. HttpInit => HttpTypeOK /\ environ \in Environ
      BY DEF HttpInit, HttpTypeOK
    <3>2. QED
      BY <3>1, HttpInitInv DEF HttpPart
  <2>3. EnvInit => EnvPart
    <3>1. EnvInit => EnvTypeOK /\ ToldInv
      BY DEF EnvInit, EnvTypeOK, ToldInv
    <3>2. QED
      BY <3>1, EnvInitInv DEF EnvPart
  <2>4. QED
    BY <2>1, <2>2, <2>3 DEF Init, EntryPart, HttpPart, EnvPart
<1>2. EntryPart /\ HttpPart /\ EnvPart /\ [Next]_vars
         => (EntryPart /\ HttpPart /\ EnvPart)'
  <2>1. [Next]_vars
           => [EntryNext]_entryVars /\ [HttpNext]_httpVars /\ [EnvNext]_envVars
    BY DEF Next, vars
  <2>2. QED
    BY <2>1, EntryPartStep, HttpPartStep, EnvPartStep
<1>3. QED
  BY <1>1, <1>2, PTL DEF Spec

\* Every variable keeps its type; a server that runs has a token that is not
\* empty or none, and durations that are Durations.  docker-entrypoint.sh,
\* config.rs:35-79, environment.rs:47-87.
THEOREM TypeCorrect == Spec => []TypeOK
<1>1. EntryPart => EntryTypeOK
  <2>1. EntryIdle => EntryTypeOK
    BY RootIsOwner DEF EntryIdle, EntryTypeOK
  <2>2. QED
    BY <2>1 DEF EntryPart, EntryInv
<1>2. HttpPart => HttpTypeOK
  BY DEF HttpPart, HttpIdle, HttpTypeOK
<1>3. EnvPart => EnvTypeOK
  BY DEF EnvPart, EnvIdle, EnvTypeOK
<1>4. QED
  BY <1>1, <1>2, <1>3, Invariance, PTL DEF TypeOK

\* So what the theorems above say of each holds of the three side by side.
THEOREM SideBySide ==
    Spec => [](RunsAsOwner /\ HandedOver /\ GuardedRoutes /\ EnvironmentAgrees)
<1>1. EntryPart => RunsAsOwner /\ HandedOver
  <2>1. EntryIdle => RunsAsOwner /\ HandedOver
    BY DEF EntryIdle, RunsAsOwner, HandedOver, AsMcpod
  <2>2. QED
    BY <2>1, OwnerRuns, HomeIsHandedOver DEF EntryPart
<1>2. HttpPart => GuardedRoutes
  <2>1. HttpIdle => GuardedRoutes
    BY DEF HttpIdle, GuardedRoutes
  <2>2. QED
    BY <2>1 DEF HttpPart, HttpInv
<1>3. EnvPart => EnvironmentAgrees
  <2>1. EnvIdle => EnvironmentAgrees
    BY DEF EnvIdle, EnvironmentAgrees, LateAgree, MountsAreSeen
  <2>2. QED
    BY <2>1, LateTold, MountsTold DEF EnvPart, EnvironmentAgrees
<1>4. QED
  BY <1>1, <1>2, <1>3, Invariance, PTL
=============================================================================
