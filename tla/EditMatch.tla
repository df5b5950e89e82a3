------------------------------ MODULE EditMatch ------------------------------
(***************************************************************************)
(* What one call of edit does to a text (tools/edit.rs, fs/text.rs): every *)
(* oldText is looked for in the original, exactly and else after           *)
(* normalization; ranges that overlap are refused; the replacements are    *)
(* made from the tail to the head; the BOM and the line endings stay.      *)
(*                                                                         *)
(* A text is a sequence of characters and a position counts characters:    *)
(* every byte offset of the code is the start of a character.              *)
(***************************************************************************)
EXTENDS Naturals, SequencesExt

CONSTANTS
    Char,                     \* characters
    Space, Tab, CR, LF, Bom,  \* those the code names
    AsciiOf,                  \* map_char: the ASCII a character stands for
    Nfkc,                     \* the NFKC form of a character, a sequence
    EditInput                 \* bound: the [file, edits] a call may meet

ASSUME EditAssumption ==
    /\ {Space, Tab, CR, LF, Bom} \subseteq Char
    /\ CR # LF /\ Bom \notin {CR, LF} /\ {CR, LF} \cap {Space, Tab} = {}
    /\ AsciiOf \in [Char -> Char] /\ Nfkc \in [Char -> Seq(Char)]
    /\ \A c \in {Space, Tab, CR, LF} : AsciiOf[c] = c
    \* NFKC makes of no character nothing, and ends none in a space but those
    \* that map_char maps to one.
    /\ \A c \in Char : c \notin {CR, LF} /\ AsciiOf[c] \notin {Space, Tab} =>
          Nfkc[AsciiOf[c]] # <<>> /\ Last(Nfkc[AsciiOf[c]]) # Space
    /\ EditInput \subseteq [file : Seq(Char), edits : Seq([old : Seq(Char), new : Seq(Char)])]

VARIABLES
    editPc,    \* idle, called, match, apply, ok, error
    file,      \* the text of the file
    edits,     \* the call's edits, each [old, new]
    original,  \* original_text
    matches,   \* the ranges found so far, each [from, to, new]
    pending,   \* those still to be applied
    text,      \* final_content
    refusal    \* why the call failed

editVars == <<editPc, file, edits, original, matches, pending, text, refusal>>

EditIdle ==
    /\ editPc = "idle" /\ file = <<>> /\ edits = <<>> /\ original = <<>>
    /\ matches = <<>> /\ pending = {} /\ text = <<>> /\ refusal = "none"

EditInit ==
    /\ \E input \in EditInput : file = input.file /\ edits = input.edits
    /\ editPc = "called" /\ original = <<>>
    /\ matches = <<>> /\ pending = {} /\ text = <<>> /\ refusal = "none"

-----------------------------------------------------------------------------
(* fs/text.rs *)

HasBom(t) == t # <<>> /\ t[1] = Bom
StripBom(t) == IF HasBom(t) THEN Tail(t) ELSE t
RestoreBom(had, t) == IF had THEN <<Bom>> \o t ELSE t

CrlfAt(t, i) == t[i] = CR /\ i < Len(t) /\ t[i + 1] = LF

\* A file with as many lone LF as CRLF counts as LF.
IsCrlf(t) ==
    LET crlf == Cardinality({i \in DOMAIN t : CrlfAt(t, i)})
        lf   == Cardinality({i \in DOMAIN t : t[i] = LF})
    IN  crlf > 0 /\ crlf > lf - crlf

\* Mutated form of AdoptLineEndings: the text keeps its own.
AsGiven(t, crlf) == t

AdoptLineEndings(t, crlf) ==
    LET lf == FlattenSeq([i \in DOMAIN t |->
                  IF CrlfAt(t, i) THEN <<>> ELSE <<t[i]>>])
    IN  IF ~crlf THEN lf
        ELSE FlattenSeq([i \in DOMAIN lf |->
                  IF lf[i] = LF THEN <<CR, LF>> ELSE <<lf[i]>>])

-----------------------------------------------------------------------------
(* Normalization: breaks become LF, blanks before a break or the end go.   *)

IsBlank(c) == AsciiOf[c] \in {Space, Tab}
\* Mutated form of IsBreak: only LF ends a line.
IsLf(c) == c = LF

IsBreak(c) == c \in {CR, LF}

\* The start of the run of blanks that ends before i, or i.
BlanksBefore(t, i) ==
    Min({j \in 1..i : \A k \in j..(i - 1) : IsBlank(t[k])})

\* Blanks at i that something other than a break follows.
IsInner(t, i) ==
    \E j \in i..Len(t) : /\ ~IsBlank(t[j]) /\ ~IsBreak(t[j])
                         /\ \A k \in i..(j - 1) : IsBlank(t[k])

\* What the character at i becomes, each piece with the range it stands for.
Piece(t, i) ==
    LET Of(c, from, to) == [char |-> c, from |-> from, to |-> to]
        expanded == Nfkc[AsciiOf[t[i]]]
    IN  CASE t[i] = LF /\ i > 1 /\ t[i - 1] = CR -> <<>>
          [] t[i] = CR ->
                <<Of(LF, BlanksBefore(t, i), IF CrlfAt(t, i) THEN i + 1 ELSE i)>>
          [] t[i] = LF /\ ~(i > 1 /\ t[i - 1] = CR) ->
                <<Of(LF, BlanksBefore(t, i), i)>>
          [] IsBlank(t[i]) -> IF IsInner(t, i) THEN <<Of(Space, i, i)>> ELSE <<>>
          [] OTHER -> [k \in DOMAIN expanded |-> Of(expanded[k], i, i)]

NormalizedText(t) == FlattenSeq([i \in DOMAIN t |-> Piece(t, i)])

Chars(pieces) == [k \in DOMAIN pieces |-> pieces[k].char]

\* The same for a needle, in one pass and without ranges.
NormalizeChars(t) ==
    LET Step(acc, c) ==
          CASE c = CR -> [chars |-> Append(acc.chars, LF), blanks |-> 0, cr |-> TRUE]
            [] c = LF /\ acc.cr -> [acc EXCEPT !.cr = FALSE]
            [] c = LF /\ ~acc.cr ->
                  [acc EXCEPT !.chars = Append(@, LF), !.blanks = 0]
            [] IsBlank(c) -> [acc EXCEPT !.blanks = @ + 1, !.cr = FALSE]
            [] OTHER -> [chars |-> acc.chars \o [k \in 1..acc.blanks |-> Space]
                                             \o Nfkc[AsciiOf[c]],
                         blanks |-> 0, cr |-> FALSE]
    IN  FoldLeft(Step, [chars |-> <<>>, blanks |-> 0, cr |-> FALSE], t).chars

-----------------------------------------------------------------------------
(* Matching *)

OccursAt(t, p, i) ==
    i + Len(p) <= Len(t) + 1 /\ SubSeq(t, i, i + Len(p) - 1) = p

\* Every position, overlapping ones included.
FindAllCharPositions(t, p) ==
    IF p = <<>> THEN {} ELSE {i \in DOMAIN t : OccursAt(t, p, i)}

\* Mutated form of MatchIndices: the search stops at the first.
FirstIndex(t, p) ==
    {i \in DOMAIN t : OccursAt(t, p, i) /\ \A j \in 1..(i - 1) : ~OccursAt(t, p, j)}

\* From the left, none overlapping the one before: those up to each position.
MatchIndices(t, p) ==
    LET upTo[i \in 0..Len(t)] ==
            IF i = 0 THEN {}
            ELSE IF OccursAt(t, p, i) /\ \A j \in upTo[i - 1] : j + Len(p) <= i
                 THEN upTo[i - 1] \cup {i} ELSE upTo[i - 1]
    IN  upTo[Len(t)]

\* Mutated form of OriginalRange: the last piece counts for one character.
RangeOfStarts(pieces, i, j) == [from |-> pieces[i].from, to |-> pieces[j].from]

\* The original characters behind the normalized ones at i to j.
OriginalRange(pieces, i, j) == [from |-> pieces[i].from, to |-> pieces[j].to]

\* find_unique_range: the candidates, as <<position, range>>.
Candidates(t, old) ==
    LET exact  == {<<i, [from |-> i, to |-> i + Len(old) - 1]>> : i \in MatchIndices(t, old)}
        pieces == NormalizedText(t)
        needle == NormalizeChars(old)
    IN  IF exact # {} THEN exact
        ELSE {<<i, OriginalRange(pieces, i, i + Len(needle) - 1)>> :
                 i \in FindAllCharPositions(Chars(pieces), needle)}

-----------------------------------------------------------------------------
(* The call *)

Content == StripBom(original)

Refuse(why) ==
    /\ editPc' = "error" /\ refusal' = why
    /\ UNCHANGED <<file, edits, original, matches, pending, text>>

EditStart ==
    /\ editPc = "called"
    /\ IF edits = <<>> \/ \E k \in DOMAIN edits : edits[k].old = <<>>
       THEN Refuse("empty")
       ELSE /\ editPc' = "match" /\ original' = file
            /\ UNCHANGED <<file, edits, matches, pending, text, refusal>>

\* Mutated form of Matched: the end of a range is taken to lie outside it.
MatchedPastEnd(edit, range) ==
    [from |-> range.from, to |-> range.to + 1,
     new |-> AdoptLineEndings(edit.new, IsCrlf(Content))]

Matched(edit, range) ==
    [from |-> range.from, to |-> range.to,
     new |-> AdoptLineEndings(edit.new, IsCrlf(Content))]

MatchNext ==
    /\ editPc = "match" /\ Len(matches) < Len(edits)
    /\ LET edit  == edits[Len(matches) + 1]
           found == Candidates(Content, edit.old)
       IN  CASE found = {} -> Refuse("notFound")
             [] Cardinality(found) > 1 -> Refuse("multiple")
             [] OTHER ->
                  /\ \E c \in found : matches' = Append(matches, Matched(edit, c[2]))
                  /\ UNCHANGED <<editPc, file, edits, original, pending, text, refusal>>

\* Mutated form of CheckOverlap: neighbours in the order of the call.
CheckUnsorted ==
    /\ editPc = "match" /\ Len(matches) = Len(edits)
    /\ IF \E k \in 1..(Len(matches) - 1) : matches[k + 1].from <= matches[k].to
       THEN Refuse("overlap")
       ELSE /\ editPc' = "apply" /\ text' = Content /\ pending' = ToSet(matches)
            /\ UNCHANGED <<file, edits, original, matches, refusal>>

\* sort_by_key: the ranges in the order of their starts.
ByStart(ranges) ==
    {[k \in DOMAIN ranges |-> ranges[order[k]]] :
        order \in {o \in Bijection(DOMAIN ranges, DOMAIN ranges) :
            \A j, k \in DOMAIN ranges : j < k => ranges[o[j]].from <= ranges[o[k]].from}}

CheckOverlap ==
    /\ editPc = "match" /\ Len(matches) = Len(edits)
    /\ \E sorted \in ByStart(matches) :
          IF \E k \in 1..(Len(sorted) - 1) : sorted[k + 1].from <= sorted[k].to
          THEN Refuse("overlap")
          ELSE /\ editPc' = "apply" /\ text' = Content
               /\ pending' = ToSet(matches)
               /\ UNCHANGED <<file, edits, original, matches, refusal>>

\* Mutated form of ApplyNext: the first range first.
ApplyFirst ==
    /\ editPc = "apply"
    /\ \E m \in pending :
          /\ \A other \in pending : other.from >= m.from
          /\ text' = SubSeq(text, 1, m.from - 1) \o m.new
                        \o SubSeq(text, m.to + 1, Len(text))
          /\ pending' = pending \ {m}
    /\ UNCHANGED <<editPc, file, edits, original, matches, refusal>>

\* The last range first, so that the others keep their places.
ApplyNext ==
    /\ editPc = "apply"
    /\ \E m \in pending :
          /\ \A other \in pending : other.from <= m.from
          /\ text' = SubSeq(text, 1, m.from - 1) \o m.new
                        \o SubSeq(text, m.to + 1, Len(text))
          /\ pending' = pending \ {m}
    /\ UNCHANGED <<editPc, file, edits, original, matches, refusal>>

Commit ==
    /\ editPc = "apply" /\ pending = {}
    /\ IF text = Content THEN Refuse("noChange")
       ELSE /\ file' = RestoreBom(HasBom(original), text) /\ editPc' = "ok"
            /\ UNCHANGED <<edits, original, matches, pending, text, refusal>>

EditNext == EditStart \/ MatchNext \/ CheckOverlap \/ ApplyNext \/ Commit

EditSpec == EditInit /\ [][EditNext]_editVars

-----------------------------------------------------------------------------
(* Properties *)

EditTypeOK ==
    /\ editPc \in {"idle", "called", "match", "apply", "ok", "error"}
    /\ {file, original, text} \subseteq Seq(Char)
    /\ \A m \in ToSet(matches) :
          m.from \in 1..m.to /\ m.to \in 1..Len(Content) /\ m.new \in Seq(Char)
    /\ pending \subseteq ToSet(matches)
    /\ refusal \in {"none", "empty", "notFound", "multiple", "overlap", "noChange"}

\* Edits are "matched against the ORIGINAL file contents" (edit.rs:1-2): the
\* file ends as the original with each range exchanged for its text and every
\* character outside them in place, whatever the order of edits and the
\* lengths of the texts; the BOM stays.  edit.rs:77-84, 107.
Spliced ==
    editPc = "ok" =>
        LET inserted(i) == FlattenSeq([k \in DOMAIN matches |->
                               IF matches[k].from = i THEN matches[k].new ELSE <<>>])
            kept(i) == IF \E m \in ToSet(matches) : i \in m.from..m.to
                       THEN <<>> ELSE <<Content[i]>>
        IN  file = RestoreBom(HasBom(original),
                       FlattenSeq([i \in DOMAIN Content |-> inserted(i) \o kept(i)]))

\* No call goes on with two ranges that share a character, and none is refused
\* for an overlap whose ranges are all apart, although the code compares
\* neighbours only.  Ranges that touch are left open: they are to be rejected
\* by the comment on the check and pass the check.  edit.rs:60-75.
OverlapIsRefused ==
    LET Pair(P(_, _)) == \E j, k \in DOMAIN matches : j # k /\ P(matches[j], matches[k])
        Overlap(a, b) == a.from \in b.from..b.to
        Touch(a, b)   == a.from = b.to + 1
    IN  /\ editPc \in {"apply", "ok"} => ~Pair(Overlap)
        /\ refusal = "overlap" => Pair(Overlap) \/ Pair(Touch)

\* normalize_chars "mirrors NormalizedText::new" (edit.rs:287-290): a needle is
\* normalized as the same text would be in the file.  edit.rs:196-245, 291-329.
NormalizersAgree ==
    editPc = "called" =>
        \A t \in {file} \cup {edits[k].old : k \in DOMAIN edits} :
            NormalizeChars(t) = Chars(NormalizedText(t))

\* What a range holds is the oldText up to normalization, neither more nor
\* less, unless a character at its ends expands to several.  edit.rs:170-182,
\* 248-254.
RangeIsOldText ==
    \A k \in DOMAIN matches :
        LET held == SubSeq(Content, matches[k].from, matches[k].to)
        IN  (\A c \in {Head(held), Last(held)} : Len(Nfkc[AsciiOf[c]]) = 1)
                => NormalizeChars(held) = NormalizeChars(edits[k].old)

\* If an accepted oldText occurs in the file as it is, its range is the first of
\* the places, and every other begins inside that range: an exact text is never
\* edited at one of two places that share no character.  Two places that do, as
\* those of "aa" in "aaa", are left to OldTextOccursOnce.  edit.rs:154-166.
OldTextIsUnique ==
    \A k \in DOMAIN matches :
        LET at == FindAllCharPositions(Content, edits[k].old)
        IN  at # {} => /\ matches[k].from \in at
                       /\ at \subseteq matches[k].from..matches[k].to

\* An oldText "must match exactly one unique, non-overlapping region of the
\* original file" (tools/mod.rs:119-120), "must be unique" (README.en.md:219):
\* also when its places overlap.  match_indices, edit.rs:156, skips those that
\* overlap the one before; the search of the normalized text counts them.
OldTextOccursOnce ==
    \A k \in DOMAIN matches :
        Cardinality(FindAllCharPositions(Content, edits[k].old)) <= 1

CrlfOnly(t) ==
    \A i \in DOMAIN t : (t[i] = CR => CrlfAt(t, i))
                     /\ (t[i] = LF => i > 1 /\ t[i - 1] = CR)
LfOnly(t) == \A i \in DOMAIN t : t[i] # CR
WholeBreaks(t) == \A i \in DOMAIN t : t[i] = CR => CrlfAt(t, i)
Splits(m) == \E i \in {m.from - 1, m.to} : i \in DOMAIN Content /\ CrlfAt(Content, i)

\* A file whose lines all end alike stays so, as long as no range begins or
\* ends inside a CRLF.  text.rs:24-40, edit.rs:45-57.
EndingsKept ==
    (editPc = "ok" /\ \A k \in DOMAIN edits : WholeBreaks(edits[k].new)) =>
        /\ LfOnly(original) => LfOnly(file)
        /\ CrlfOnly(original) /\ IsCrlf(Content) /\ ~(\E m \in ToSet(matches) : Splits(m))
              => CrlfOnly(file)

\* "CRLF endings and UTF-8 BOMs are preserved" (README.en.md:220), "an edit
\* never leaks foreign endings into the file" (text.rs:31-32): the same
\* without the last proviso.  An oldText that starts with LF matches the
\* second half of a CRLF exactly, edit.rs:156.
CrlfPreserved ==
    (editPc = "ok" /\ \A k \in DOMAIN edits : WholeBreaks(edits[k].new)) =>
        (CrlfOnly(original) /\ IsCrlf(Content) => CrlfOnly(file))
=============================================================================
