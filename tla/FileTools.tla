------------------------------ MODULE FileTools ------------------------------
(***************************************************************************)
(* The four models of what a file tool does with its data, side by side.   *)
(* They share no state: a behaviour edits a text, reads a file or an image *)
(* page by page, cuts the output of a command, or resolves the paths of    *)
(* calls that then read or write.                                          *)
(***************************************************************************)
EXTENDS EditMatch, ReadPages, PathResolve

vars == <<editVars, readVars, tailVars, pathVars>>

Init ==
    \/ EditInit /\ ReadIdle /\ TailIdle /\ PathIdle
    \/ EditIdle /\ ReadInit /\ TailIdle /\ PathIdle
    \/ EditIdle /\ ReadIdle /\ TailInit /\ PathIdle
    \/ EditIdle /\ ReadIdle /\ TailIdle /\ PathInit

Next ==
    \/ EditNext /\ UNCHANGED <<readVars, tailVars, pathVars>>
    \/ ReadNext /\ UNCHANGED <<editVars, tailVars, pathVars>>
    \/ Collect /\ UNCHANGED <<editVars, readVars, pathVars>>
    \/ PathNext /\ UNCHANGED <<editVars, readVars, tailVars>>

\* The agent asks for the page a note names, and the handler finishes.
Fairness == WF_readVars(Read) /\ WF_readVars(AttachImage)

Spec == Init /\ [][Next]_vars /\ Fairness
EditOnlySpec == EditInit /\ ReadIdle /\ TailIdle /\ PathIdle /\ [][Next]_vars

\* The values of every variable.  edit.rs, read.rs, path.rs.
TypeOK == EditTypeOK /\ ReadTypeOK /\ PathTypeOK
=============================================================================
