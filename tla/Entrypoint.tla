----------------------------- MODULE Entrypoint -----------------------------
(***************************************************************************)
(* The container's entrypoint (scripts/docker-entrypoint.sh): user mcpod   *)
(* is given the ids of the workspace's owner, HOME is prepared and handed  *)
(* over, and the server is executed as that user.  A start may be cut      *)
(* short at any line, by "set -e" or by a stop of the container; the       *)
(* passwd file and HOME outlive it, and while the container is stopped     *)
(* the workspace may be given to another owner.                            *)
(***************************************************************************)
EXTENDS Naturals

CONSTANTS
    Id,         \* user and group ids
    RootId,     \* 0
    ImageId,    \* the id the image gives mcpod
    Taken,      \* the uids that other users of the image have
    Skel,       \* an entry of HOME that the image creates
    Prepared,   \* the entries of HOME the entrypoint creates: mise's state
    Link,       \* those of them that are links to preinstalled versions
    Work        \* an entry of HOME the user creates

HomeDir == "HOME"

ASSUME EntrypointAssumption ==
    /\ {RootId, ImageId} \subseteq Id /\ RootId # ImageId
    /\ Taken \subseteq Id \ {RootId, ImageId}
    /\ Link \subseteq Prepared \ {HomeDir, Skel, Work}

Owner == [uid : Id, gid : Id]
RootOwner == [uid |-> RootId, gid |-> RootId]
Entry == {HomeDir, Skel, Work} \cup Prepared

VARIABLES
    phase,        \* stopped, the step of the script that comes next, running
    asRoot,       \* the container was created without --user
    owner,        \* the owner of the workspace
    ids,          \* mcpod's uid and gid in the passwd file
    first,        \* mcpod's line is the first of the passwd file
    home,         \* the owner of each entry of HOME there is
    system,       \* the owner of what each link leads to, in the system tree
    want,         \* $uid and $gid of this start
    remapped,     \* $remapped of this start
    identity,     \* what the server runs as
    interrupted,  \* some start was cut short
    walked        \* some start has handed all of HOME over

entryVars == <<phase, asRoot, owner, ids, first, home, system, want, remapped,
               identity, interrupted, walked>>

EntryIdle ==
    /\ phase = "idle" /\ asRoot = TRUE /\ owner = RootOwner
    /\ ids = RootOwner /\ first = FALSE /\ home = [e \in {} |-> RootOwner]
    /\ system = [l \in Link |-> RootOwner]
    /\ want = RootOwner /\ remapped = FALSE /\ identity = RootOwner
    /\ interrupted = FALSE /\ walked = FALSE

\* A container just created from the image.
EntryInit ==
    /\ phase = "stopped" /\ asRoot \in BOOLEAN /\ owner \in Owner
    /\ ids = [uid |-> ImageId, gid |-> ImageId] /\ first = FALSE
    /\ home = [e \in {HomeDir, Skel} |-> ids] /\ system = [l \in Link |-> RootOwner]
    /\ want = RootOwner /\ remapped = FALSE /\ identity = RootOwner
    /\ interrupted = FALSE /\ walked = FALSE

-----------------------------------------------------------------------------
(* Outside the script *)

\* The host gives the workspace to somebody else.
ChangeOwner ==
    /\ phase = "stopped" /\ owner' \in Owner \ {owner}
    /\ UNCHANGED <<phase, asRoot, ids, first, home, system, want,
                   remapped, identity, interrupted, walked>>

\* The variables of the script go with it.
EndStart ==
    /\ phase' = "stopped"
    /\ want' = RootOwner /\ remapped' = FALSE /\ identity' = RootOwner

\* docker stop, a crash, or a step that fails.
Stop ==
    /\ phase \notin {"idle", "stopped"}
    /\ EndStart /\ interrupted' = (interrupted \/ phase # "running")
    /\ UNCHANGED <<asRoot, owner, ids, first, home, system, walked>>

\* The user's own files, in a HOME that is writable to it.
UserWrites ==
    /\ phase = "running" /\ identity.uid # RootId /\ home[HomeDir] = identity
    /\ Work \notin DOMAIN home /\ home' = [e \in DOMAIN home \cup {Work} |->
                                        IF e = Work THEN identity ELSE home[e]]
    /\ UNCHANGED <<phase, asRoot, owner, ids, first, system, want,
                   remapped, identity, interrupted, walked>>

-----------------------------------------------------------------------------
(* The script *)

Begin ==
    /\ phase = "stopped"
    /\ IF asRoot
       THEN phase' = "stat" /\ UNCHANGED identity
       ELSE phase' = "running" /\ identity' \in {o \in Owner : o.uid # RootId}
    /\ UNCHANGED <<asRoot, owner, ids, first, home, system,
                   want, remapped, interrupted, walked>>

StatWorkspace ==
    /\ phase = "stat" /\ want' = owner
    /\ IF owner.uid = RootId
       THEN phase' = "running" /\ identity' = RootOwner
       ELSE phase' = "groupmod" /\ UNCHANGED identity
    /\ UNCHANGED <<asRoot, owner, ids, first, home, system,
                   remapped, interrupted, walked>>

RemapGroup ==
    /\ phase = "groupmod" /\ phase' = "usermod"
    /\ ids' = [uid |-> ids.uid, gid |-> want.gid]
    /\ remapped' = (ids.gid # want.gid)
    /\ UNCHANGED <<asRoot, owner, first, home, system, want,
                   identity, interrupted, walked>>

\* Whom getpwuid names: the first line with that uid.
IsMcpod(uid) == ids.uid = uid /\ (first \/ uid \notin Taken)

\* usermod changes the uid of mcpod's own files as well, and no gid.
RemapUser ==
    /\ phase = "usermod"
    /\ IF ids.uid = want.uid
       THEN phase' = "prepare" /\ UNCHANGED <<ids, home, remapped>>
       ELSE /\ phase' = "reorder" /\ remapped' = TRUE
            /\ ids' = [uid |-> want.uid, gid |-> ids.gid]
            /\ home' = [e \in DOMAIN home |-> IF home[e].uid = ids.uid
                                               THEN [uid |-> want.uid, gid |-> home[e].gid]
                                               ELSE home[e]]
    /\ UNCHANGED <<asRoot, owner, first, system, want,
                   identity, interrupted, walked>>

\* Mutated form of Reorder: the passwd file keeps its order.
KeepOrder ==
    /\ phase = "reorder" /\ phase' = "prepare"
    /\ UNCHANGED <<asRoot, owner, ids, first, home, system, want,
                   remapped, identity, interrupted, walked>>

Reorder ==
    /\ phase = "reorder" /\ phase' = "prepare"
    /\ first' = (first \/ ~IsMcpod(want.uid))
    /\ UNCHANGED <<asRoot, owner, ids, home, system, want,
                   remapped, identity, interrupted, walked>>

\* Made by root, each only if it is not there; a start cut short here leaves
\* some of them.
Prepare ==
    /\ phase = "prepare"
    /\ \E made \in SUBSET (Prepared \ DOMAIN home) :
          /\ home' = [e \in DOMAIN home \cup made |->
                        IF e \in made THEN RootOwner ELSE home[e]]
          /\ IF Prepared \subseteq DOMAIN home'
             THEN phase' = "chown" /\ UNCHANGED <<want, remapped, identity, interrupted>>
             ELSE EndStart /\ interrupted' = TRUE
    /\ UNCHANGED <<asRoot, owner, ids, first, system, walked>>

ChownHome ==
    /\ phase = "chown" /\ phase' = "walk" /\ home' = [home EXCEPT ![HomeDir] = want]
    /\ UNCHANGED <<asRoot, owner, ids, first, system, want,
                   remapped, identity, interrupted, walked>>

\* Mutated form of Stale: only the uid is looked at.
StaleUid(e) == home[e].uid # want.uid

Stale(e) == home[e].uid # want.uid \/ home[e].gid # want.gid

\* The walk below HOME.  find looks at a link itself, chown follows it: the
\* link stays root's, and what it leads to changes its owner.
Walk ==
    /\ phase = "walk" /\ phase' = "exec"
    /\ walked' = (walked \/ remapped)
    /\ home' = [e \in DOMAIN home |->
                   IF remapped /\ Stale(e) /\ e \notin Link THEN want ELSE home[e]]
    /\ system' = [l \in Link |-> IF remapped /\ l \in DOMAIN home /\ Stale(l)
                                 THEN want ELSE system[l]]
    /\ UNCHANGED <<asRoot, owner, ids, first, want, remapped, identity, interrupted>>

\* mise reshim, which may fail, and setpriv.
Exec ==
    /\ phase = "exec" /\ phase' = "running" /\ identity' = want
    /\ UNCHANGED <<asRoot, owner, ids, first, home, system,
                   want, remapped, interrupted, walked>>

EntryNext ==
    \/ ChangeOwner \/ Stop \/ UserWrites
    \/ Begin \/ StatWorkspace \/ RemapGroup \/ RemapUser \/ Reorder \/ Prepare
    \/ ChownHome \/ Walk \/ Exec

EntrySpec == EntryInit /\ [][EntryNext]_entryVars

-----------------------------------------------------------------------------
(* Properties *)

EntryTypeOK ==
    /\ phase \in {"idle", "stopped", "stat", "groupmod", "usermod", "reorder",
                  "prepare", "chown", "walk", "exec", "running"}
    /\ {asRoot, first, remapped, interrupted, walked} \subseteq BOOLEAN
    /\ {owner, ids, want, identity} \subseteq Owner
    /\ DOMAIN home \subseteq Entry /\ \A e \in DOMAIN home : home[e] \in Owner
    /\ system \in [Link -> Owner]

AsMcpod == phase = "running" /\ asRoot /\ identity.uid # RootId

\* The server runs as the owner of the workspace, whoever had it before and
\* wherever earlier starts were cut short, and mcpod has that owner's ids;
\* "sudo, getpwuid(), and git all keep working" (README.en.md:178-180), unless
\* a start ended between usermod and the move of the passwd line: the next one
\* does not make up for it.  docker-entrypoint.sh:50-68, 118-122.
RunsAsOwner ==
    /\ phase = "running" /\ asRoot =>
          IF owner.uid = RootId THEN identity = RootOwner ELSE identity = owner
    /\ AsMcpod => ids = identity /\ (~interrupted => IsMcpod(identity.uid))

\* Once a start has remapped mcpod, everything in HOME but the links to the
\* system tree belongs to it while the server runs, and later starts need no
\* walk ("Idempotent restarts skip the walk"), as long as no start was cut
\* short.  Whose a link is decides nothing: mcpod uses what it leads to, and
\* may remove it, as it owns the directory.  docker-entrypoint.sh:70-106.
HandedOver ==
    AsMcpod /\ walked /\ ~interrupted =>
        \A e \in DOMAIN home \ Link : home[e] = identity

\* mise's "state (new installs, cache, global config) lives in its HOME so
\* `mise install` works as an unprivileged user" (Dockerfile:135-136), "a
\* writable /home/mcpod" (README.en.md:156): the same of every start.  With a
\* workspace of the image's own ids nothing is remapped and nothing walked.
HomeIsWritable ==
    AsMcpod => \A e \in DOMAIN home \ Link : home[e] = identity

\* "the preinstalled system runtimes under /usr/local/share/mise stay read-only
\* and are shared through per-version symlinks ... without ever loosening the
\* system tree's perms" (docker-entrypoint.sh:75-78): what a link leads to stays
\* root's, as the owner of a directory may write to it.
SystemTreeStaysRoots == \A l \in Link : system[l] = RootOwner
=============================================================================
