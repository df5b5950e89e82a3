--------------------------- MODULE EnvironmentCache ---------------------------
(***************************************************************************)
(* resource://environment (environment.rs; server.rs 272-291) for requests *)
(* that come at any time: the mounts are read anew for each, whether mise  *)
(* is installed is asked of mise until the first answer has been kept.     *)
(***************************************************************************)
EXTENDS Naturals, SequencesExt

CONSTANTS
    EnvCall,     \* requests
    MountTable,  \* bound: the mountinfo tables, lines [path, ro, tmpfs]
    SystemPath,  \* the paths of is_system_mount, "/" among them
    Unprobed     \* MISE_INSTALLED is empty

ASSUME EnvAssumption ==
    /\ Unprobed \notin BOOLEAN
    /\ MountTable \subseteq Seq([path : STRING, ro : BOOLEAN, tmpfs : BOOLEAN])

VARIABLES
    envPc,    \* idle, called, probing, answered, dropped
    table,    \* the mountinfo table
    cached,   \* MISE_INSTALLED
    answer,   \* what each answered request was told
    late      \* those that came after the first answer

envVars == <<envPc, table, cached, answer, late>>

EnvIdle ==
    /\ envPc = [c \in EnvCall |-> "idle"] /\ table = <<>> /\ cached = Unprobed
    /\ answer = << >> /\ late = {}

EnvInit ==
    /\ envPc = [c \in EnvCall |-> "called"] /\ table \in MountTable /\ cached = Unprobed
    /\ answer = << >> /\ late = {}

MountInfo(line) == [mode |-> IF line.ro THEN "ro" ELSE "rw", persistent |-> ~line.tmpfs]

\* BTreeMap::insert: a later mount over a path hides the one before.
Insert(byPath, line) ==
    [p \in DOMAIN byPath \cup {line.path} |->
        IF p = line.path THEN MountInfo(line) ELSE byPath[p]]

Mounts(mountinfo) ==
    FoldLeft(LAMBDA byPath, line : IF line.path \in SystemPath THEN byPath ELSE Insert(byPath, line),
             << >>, mountinfo)

Tell(c, installed) ==
    /\ answer' = [d \in DOMAIN answer \cup {c} |->
                     IF d = c THEN [mounts |-> Mounts(table), installed |-> installed]
                     ELSE answer[d]]
    /\ envPc' = [envPc EXCEPT ![c] = "answered"]

\* info up to the first await of mise_installed.
Look(c) ==
    /\ envPc[c] = "called"
    /\ late' = IF DOMAIN answer = {} THEN late ELSE late \cup {c}
    /\ IF cached # Unprobed
       THEN Tell(c, cached)
       ELSE envPc' = [envPc EXCEPT ![c] = "probing"] /\ UNCHANGED answer
    /\ UNCHANGED <<table, cached>>

\* Mutated form of Kept: the last answer is kept.
LastKept(installed) == installed

\* OnceLock::set.
Kept(installed) == IF cached = Unprobed THEN installed ELSE cached

\* mise --version has answered, failed, or taken three seconds.
Probed(c) ==
    /\ envPc[c] = "probing"
    /\ \E installed \in BOOLEAN : cached' = Kept(installed) /\ Tell(c, installed)
    /\ UNCHANGED <<table, late>>

\* The request is cancelled.
DropProbe(c) ==
    /\ envPc[c] = "probing" /\ envPc' = [envPc EXCEPT ![c] = "dropped"]
    /\ UNCHANGED <<table, cached, answer, late>>

EnvNext == \E c \in EnvCall : Look(c) \/ Probed(c) \/ DropProbe(c)

EnvSpec == EnvInit /\ [][EnvNext]_envVars

-----------------------------------------------------------------------------
(* Properties *)

EnvTypeOK ==
    /\ envPc \in [EnvCall -> {"idle", "called", "probing", "answered", "dropped"}]
    /\ cached \in BOOLEAN \cup {Unprobed}
    /\ DOMAIN answer = {c \in EnvCall : envPc[c] = "answered"}

\* Requests that come after the first answer are all told the same of mise,
\* although the first ones, each with a probe of its own, may have been told
\* otherwise.  environment.rs:70-87.
LateAgree == \A c, d \in late \cap DOMAIN answer : answer[c].installed = answer[d].installed

\* A request is told of every path something is mounted at but the system's,
\* and of each what was mounted there last, which is what the tools see.
\* environment.rs:92-144.
MountsAreSeen ==
    \A c \in DOMAIN answer :
        /\ DOMAIN answer[c].mounts = {table[k].path : k \in DOMAIN table} \ SystemPath
        /\ \A k \in DOMAIN table :
              \/ table[k].path \in SystemPath
              \/ \E later \in DOMAIN table : later > k /\ table[later].path = table[k].path
              \/ answer[c].mounts[table[k].path] = MountInfo(table[k])

\* Both of environment.rs:47-144.
EnvironmentAgrees == LateAgree /\ MountsAreSeen
=============================================================================
