----------------------------- MODULE MCBashTool -----------------------------
(***************************************************************************)
(* Instances of BashTool for TLC: one or two descendants that may stay in  *)
(* the group or become daemons, and a chunk or two on each stream.         *)
(***************************************************************************)
EXTENDS BashTool
CONSTANTS job, daemon
=============================================================================
