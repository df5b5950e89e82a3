------------------------------- MODULE MCTools -------------------------------
(***************************************************************************)
(* An instance for TLC of the tools beside the mutation queue: what the    *)
(* file tools do with their data, and a call of bash.  The two share no    *)
(* state: a command is one more program that changes files, and what cuts  *)
(* its output is a model of the first (Truncate).  A behaviour runs one.   *)
(***************************************************************************)
EXTENDS MCFileTools, BashTool

CONSTANTS job, daemon

\* Nothing is edited, read, cut or resolved.
FileToolsIdle == EditIdle /\ ReadIdle /\ TailIdle /\ PathIdle

\* The call could not start bash.
BashOver ==
    /\ phase = "returned" /\ leader = "none" /\ proc = [p \in Proc |-> "none"]
    /\ holders = {} /\ defused = FALSE /\ timedOut = FALSE /\ collected = "no"
    /\ written = [s \in Stream |-> 0] /\ got = [s \in Stream |-> 0]
    /\ reader = [s \in Stream |-> "none"] /\ stamp = [s \in Stream |-> 0]
    /\ nextSeq = 0 /\ chunks = {} /\ taken = {} /\ strayKill = FALSE

ToolsInit == (Init /\ BashOver) \/ (FileToolsIdle /\ BashInit)

ToolsNext ==
    \/ Next /\ UNCHANGED bashVars
    \/ BashNext /\ UNCHANGED vars

ToolsSpec == ToolsInit /\ [][ToolsNext]_<<vars, bashVars>> /\ Fairness /\ BashFairness
=============================================================================
