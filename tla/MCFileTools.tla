----------------------------- MODULE MCFileTools -----------------------------
(***************************************************************************)
(* Instances of the four models of what a file tool does with its data,    *)
(* for TLC.  They share no state, so a behaviour runs one of them: an edit *)
(* of a text, a file or an image read page by page, the output of a        *)
(* command cut for an answer, or two calls that resolve their paths and    *)
(* then read or write.                                                     *)
(***************************************************************************)
EXTENDS FileTools

CONSTANTS dot, dots, nbsp, x, ws, out, a, l, m, f, absent, c1, c2

UpTo(S, k) == UNION {[1..i -> S] : i \in 0..k}

-----------------------------------------------------------------------------
(* Texts: "dots" expands to two characters, "nbsp" stands for a space.     *)

MCChar == {dot, dots, nbsp, x, Space, Tab, CR, LF, Bom}
MCAscii == [c \in MCChar |-> IF c = nbsp THEN Space ELSE c]
MCNfkc == [c \in MCChar |-> IF c = dots THEN <<dot, dot>> ELSE <<c>>]

Changes(Old, New) == {[old |-> o, new |-> t] : o \in Old, t \in New}
Single(Old, New) == {<<e>> : e \in Changes(Old, New)}

\* One edit that may match exactly, after normalization, or not at all.
OneEdit ==
    [file : UpTo({dot, dots, nbsp, CR, LF}, 4),
     edits : Single(UpTo({dot, Space, CR, LF}, 2), {<<>>, <<x, CR, LF>>})]
\* The same with a BOM, which is stripped first and may occur again.
WithBom ==
    [file : {<<Bom>> \o t : t \in UpTo({Bom, dot, LF}, 2)},
     edits : Single({<<dot>>, <<Bom>>, <<LF>>}, {<<>>, <<Bom>>, <<x>>})]
\* Blanks before breaks and inside lines.
WithBlanks ==
    [file : UpTo({dot, Tab, nbsp, LF}, 4), edits : Single({<<dot, Space, dot>>, <<dot, LF>>}, {<<x>>})]
\* Several edits, in any order, of texts that shrink and grow.
SomeEdits ==
    [file : UpTo({dot, x, nbsp}, 4),
     edits : [1..2 -> Changes({<<dot>>, <<x>>, <<x, dot>>, <<dot, Space>>}, {<<>>, <<dot, dot>>})]]
ThreeEdits ==
    [file : {<<x, dot, nbsp, Tab>>, <<dots, x, Tab>>, <<Space, dots, Tab, x>>},
     edits : [1..3 -> Changes({<<x>>, <<dot>>, <<dot, dot>>, <<nbsp>>, <<Tab>>}, {<<>>, <<dot, dot>>})]]
MCEditInput == OneEdit \cup WithBom \cup WithBlanks \cup SomeEdits \cup ThreeEdits
\* A text of the editor's own: LF, where the file has CRLF.
CrlfEditInput ==
    [file : UpTo({dot, CR, LF}, 3), edits : Single(UpTo({dot, LF}, 2), {<<LF, x>>})]
\* A text that repeats itself.
RepeatedEditInput ==
    [file : UpTo({dot, LF}, 4), edits : Single(UpTo({dot, LF}, 3) \ {<<>>}, {<<x>>})]

-----------------------------------------------------------------------------
(* Files: lines of one to six bytes, read from any offset, also with limits*)
(* of none, more than any page holds, and zero.                            *)

MCLines == {<<1>>, <<2, 1>>, <<1, 1, 1>>, <<3, 2, 1>>}
MCOutput == UpTo(MCLines, 4)
MCTexts == [kind : {"text"}, lines : MCOutput, blank : {{}, {1}, {2, 3}}]
MCImages == [kind : {"image"}, format : {"png", "jpeg"}, big : BOOLEAN, whole : BOOLEAN]
MCReadInput == [doc : MCTexts \cup MCImages \cup {[kind |-> "binary"]},
                offset : 0..3, limit : {0, 1, 2, 4, NoLimit}]
MCSwapped == MCImages \cup {[kind |-> "missing"]}

-----------------------------------------------------------------------------
(* Trees: a directory and a file in the workspace, a file outside, and a   *)
(* link, which may lead to either, through another link, to nothing, to    *)
(* itself.                                                                 *)

Dir == [kind |-> "dir", to |-> <<>>]
File == [kind |-> "file", to |-> <<>>]
Link(p) == [kind |-> "link", to |-> p]
MCRoot == <<ws>>
MCName == {ws, out, a, l, m, f, absent, Up, Here}
MCHop == 0..8
Base == (<<ws>> :> Dir) @@ (<<ws, a>> :> Dir) @@ (<<ws, a, f>> :> File)
            @@ (<<out>> :> Dir) @@ (<<out, f>> :> File)
MCTree ==
    {Base}
    \cup {Base @@ (<<ws, l>> :> Link(p)) :
            p \in {<<ws, a>>, <<ws, a, f>>, <<out>>, <<ws, absent>>, <<ws, l>>, <<out, absent>>}}
    \cup {Base @@ (<<ws, l>> :> Link(<<ws, a, m>>)) @@ (<<ws, a, m>> :> Link(p)) :
            p \in {<<ws>>, <<out>>}}
MCRequest ==
    [absolute : {FALSE},
     names : {<<a, f>>, <<l>>, <<l, f>>, <<absent, absent>>, <<l, absent, f>>, <<a, Here, m, a, f>>,
              <<Up, ws, a, Up, l>>, <<l, Up, Up, out, f>>}]
    \cup [absolute : {TRUE}, names : {<<ws, a, absent>>, <<out, f>>}]
=============================================================================
