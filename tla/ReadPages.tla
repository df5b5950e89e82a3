------------------------------ MODULE ReadPages ------------------------------
(***************************************************************************)
(* The read tool (tools/read.rs; server.rs 52-87) under an agent that      *)
(* reads a file page by page, each time from the offset the last page      *)
(* names.  An image is read twice, by the tool and again by its handler;   *)
(* another program may replace the file in between.                        *)
(***************************************************************************)
EXTENDS Truncate

CONSTANTS
    ReadInput,  \* bound: the [doc, offset, limit] a read may start from
    Swapped,    \* bound: what an image may be replaced by
    NoLimit     \* no limit was given

ASSUME ReadAssumption ==
    /\ NoLimit \notin Nat
    /\ \A input \in ReadInput :
          /\ input.offset \in Nat /\ input.limit \in Nat \cup {NoLimit}
          /\ input.doc.kind = "text" => input.doc.lines \in Seq(Seq(Nat))

\* What is at the path: a text (its lines, and the numbers of the blank ones),
\* an image (its format, whether it is above IMAGE_MAX_DIM and whether it can
\* be decoded: only its first bytes tell that it is one), or neither.
IsText(d) == d.kind = "text"
IsImage(d) == d.kind = "image"

VARIABLES
    readPc,  \* idle, called, image, done, error
    doc,     \* what is at the path
    begin,   \* the offset of the first page
    offset,  \* where the next page starts
    limit,   \* the limit of every page
    shown,   \* the numbers of the lines that reached the agent, in order
    page,    \* the last page
    block    \* the image block of the answer: its data and its label

readVars == <<readPc, doc, begin, offset, limit, shown, page, block>>

NoPage == [first |-> 1, last |-> 0, giant |-> FALSE, note |-> FALSE]
NoBlock == [data |-> "none", label |-> "none"]

ReadIdle ==
    /\ readPc = "idle" /\ doc = [kind |-> "missing"]
    /\ begin = 1 /\ offset = 1
    /\ limit = NoLimit /\ shown = <<>> /\ page = NoPage /\ block = NoBlock

ReadInit ==
    /\ \E input \in ReadInput :
          /\ doc = input.doc /\ begin = input.offset /\ offset = input.offset
          /\ limit = input.limit
    /\ readPc = "called" /\ shown = <<>> /\ page = NoPage /\ block = NoBlock

LineBudget == IF limit = NoLimit \/ limit > MaxLines THEN MaxLines ELSE limit

\* Mutated form of WindowEnd: a page that fills its bytes exactly is too long.
WindowBelow(lines, first) ==
    LET end[e \in (first - 1)..Len(lines)] ==
            IF /\ e < Len(lines) /\ e - first + 1 < LineBudget
               /\ TextBytes(SubSeq(lines, first, e + 1)) < MaxBytes
            THEN end[e + 1] ELSE e
    IN  end[first - 1]

\* The last line of the window that starts at first; first - 1 if none fits.
WindowEnd(lines, first) ==
    LET end[e \in (first - 1)..Len(lines)] ==
            IF /\ e < Len(lines) /\ e - first + 1 < LineBudget
               /\ TextBytes(SubSeq(lines, first, e + 1)) <= MaxBytes
            THEN end[e + 1] ELSE e
    IN  end[first - 1]

\* Mutated form of Continues: only the line budget is announced.
ContinuesAtBudget(lines, first, last) ==
    last < Len(lines) /\ last - first + 1 = LineBudget

\* Whether a page says "Use offset=N to continue": the byte cap or the budget
\* stopped it.
Continues(lines, first, last) ==
    LET byteCapped == last < Len(lines) /\ last - first + 1 < LineBudget
        budgetHit  == last < Len(lines) /\ last - first + 1 = LineBudget
    IN  byteCapped \/ budgetHit

Interval(first, last) == [k \in 1..(last - first + 1) |-> first + k - 1]

\* append_note: a page of blank lines only is replaced by its note.
Visible(first, last, note) ==
    IF note /\ \A k \in first..last : k \in doc.blank THEN <<>> ELSE Interval(first, last)

ReadFails ==
    /\ readPc' = "error"
    /\ UNCHANGED <<doc, begin, offset, limit, shown, page, block>>

Refused == offset = 0 \/ limit = 0 \/ ~(IsText(doc) \/ IsImage(doc))

\* Mutated form of ReadText: a line too long for a page is an empty page.
ReadNoGiant ==
    LET last == WindowEnd(doc.lines, offset)
        note == Continues(doc.lines, offset, last)
    IN  /\ page' = [first |-> offset, last |-> last, giant |-> FALSE, note |-> note]
        /\ shown' = shown \o Visible(offset, last, note)
        /\ IF note THEN offset' = last + 1 /\ UNCHANGED readPc
           ELSE readPc' = "done" /\ UNCHANGED offset
        /\ UNCHANGED <<doc, begin, limit, block>>

ReadText ==
    LET last  == WindowEnd(doc.lines, offset)
        giant == last < offset
        note  == ~giant /\ Continues(doc.lines, offset, last)
        upTo  == IF giant THEN offset ELSE last
    IN  /\ page' = [first |-> offset, last |-> upTo, giant |-> giant, note |-> note]
        /\ shown' = shown \o IF giant THEN <<offset>> ELSE Visible(offset, last, note)
        \* A giant line is reported and left to bash; the agent goes on after it.
        /\ IF note \/ (giant /\ offset < Len(doc.lines))
           THEN offset' = upTo + 1 /\ UNCHANGED readPc
           ELSE readPc' = "done" /\ UNCHANGED offset
        /\ UNCHANGED <<doc, begin, limit, block>>

Read ==
    /\ readPc = "called"
    /\ CASE Refused -> ReadFails
         [] IsImage(doc) /\ ~Refused ->
               readPc' = "image" /\ UNCHANGED <<doc, begin, offset, limit, shown, page, block>>
         [] IsText(doc) /\ ~Refused ->
               IF doc.lines = <<>>
               THEN readPc' = "done" /\ UNCHANGED <<doc, begin, offset, limit, shown, page, block>>
               ELSE IF offset > Len(doc.lines) THEN ReadFails ELSE ReadText

Swap ==
    /\ readPc = "image" /\ doc' \in Swapped
    /\ UNCHANGED <<readPc, begin, offset, limit, shown, page, block>>

\* encode_image_for_content: a large image becomes a PNG.
Encoded(d) == LET format == IF d.big THEN "png" ELSE d.format
              IN  [data |-> format, label |-> format]

AttachImage ==
    /\ readPc = "image"
    /\ IF IsImage(doc) /\ doc.whole
       THEN /\ block' = Encoded(doc) /\ readPc' = "done"
            /\ UNCHANGED <<doc, begin, offset, limit, shown, page>>
       ELSE ReadFails

ReadNext == Read \/ Swap \/ AttachImage

ReadSpec == ReadInit /\ [][ReadNext]_readVars

-----------------------------------------------------------------------------
(* Properties *)

ReadTypeOK ==
    /\ readPc \in {"idle", "called", "image", "done", "error"}
    /\ {begin, offset} \subseteq Nat /\ shown \in Seq(Nat)
    /\ page.last >= page.first - 1

\* "Use offset=N to continue" (README.en.md:208-209): an agent that follows
\* the notes sees every line from the first it asked for, once and in order,
\* and an answer without a note reaches the end of the file.  A line too long
\* for a page is named instead, and blank lines may be missing: a page of
\* them is replaced by its note.  read.rs:81-150, tools/mod.rs:152-162.
PagesInOrder ==
    (IsText(doc) /\ page # NoPage) =>
        /\ ToSet(shown) \subseteq begin..page.last
        /\ begin..page.last \subseteq ToSet(shown) \cup doc.blank
        /\ \A i, j \in DOMAIN shown : i < j => shown[i] < shown[j]
        /\ readPc = "done" => page.last = Len(doc.lines)

\* The tools share one truncation (truncate.rs:1-3) although read has a loop
\* of its own: a page is the head take_head gives of the rest of the file, a
\* line too long is what it calls first_line_too_big, and a page has a note
\* exactly when that head was cut.  read.rs:92-130, truncate.rs:31-63.
PageIsHead ==
    (IsText(doc) /\ page # NoPage) =>
        LET rest == SubSeq(doc.lines, page.first, Len(doc.lines))
            head == TakeHead(rest, LineBudget, MaxBytes)
        IN  /\ page.giant = head.firstLineTooBig
            /\ ~page.giant => /\ page.last - page.first + 1 = head.keptLines
                              /\ page.note = (head.keptLines < Len(rest))

\* Following the notes comes to an end: every page but an error shows or
\* names at least one line, whatever the limits.  read.rs:96-124.
PagingEnds == readPc = "called" ~> readPc \in {"done", "error"}
=============================================================================
