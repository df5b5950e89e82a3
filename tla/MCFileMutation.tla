--------------------------- MODULE MCFileMutation ---------------------------
(***************************************************************************)
(* Instances of FileMutation for TLC.  A text has two independent halves,  *)
(* each old (0) or new (1): one edit rewrites the left half, one the right *)
(* half, and a write replaces both.  Losing an update shows as a half that *)
(* turns back.                                                             *)
(***************************************************************************)
EXTENDS FileMutation, Naturals

CONSTANTS w, left, right, f, g

MCContent == {0, 1} \X {0, 1}
MCText == [c \in Write |-> <<1, 1>>]
OneFile == [c \in Call |-> f]
TwoFiles == [c \in Call |-> IF c = right THEN g ELSE f]
AllOld == [p \in File |-> <<0, 0>>]
OneMissing == [p \in File |-> IF p = g THEN Absent ELSE <<0, 0>>]
MCEdited == [e \in Edit |-> [x \in MCContent \cup {Cut} |->
    IF x = Cut THEN NoEdit
    ELSE IF e = left THEN IF x[1] = 0 THEN <<1, x[2]>> ELSE NoEdit
                     ELSE IF x[2] = 0 THEN <<x[1], 1>> ELSE NoEdit]]
=============================================================================
