----------------------------- MODULE MCLegacySse -----------------------------
(***************************************************************************)
(* Instances of LegacySse for TLC.                                         *)
(***************************************************************************)
EXTENDS LegacySse
CONSTANTS s1, s2, p1, p2
=============================================================================
