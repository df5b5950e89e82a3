------------------------------- MODULE Truncate -------------------------------
(***************************************************************************)
(* Output truncation (output/truncate.rs).  A text is the sequence of its  *)
(* lines, a line the sequence of the widths in bytes of its characters,    *)
(* its newline among them.                                                 *)
(***************************************************************************)
EXTENDS Naturals, SequencesExt

CONSTANTS
    MaxLines, MaxBytes,  \* the two limits
    Output               \* bound: the texts a command may have written

ASSUME TruncateAssumption ==
    MaxLines \in Nat \ {0} /\ MaxBytes \in Nat \ {0} /\ Output \subseteq Seq(Seq(Nat))

VARIABLES
    tailPc,  \* idle, called, done
    output,  \* the text a command wrote
    tail     \* the part of it the answer shows; the rest is in the log

tailVars == <<tailPc, output, tail>>

Bytes(line) == FoldLeft(+, 0, line)
TextBytes(lines) == Bytes(FlattenSeq(lines))

\* take_head: the first lines within both limits.
TakeHead(lines, maxLines, maxBytes) ==
    LET total == Len(lines)
        kept[k \in 0..total] ==
            IF k < maxLines /\ k < total /\ TextBytes(SubSeq(lines, 1, k + 1)) <= maxBytes
            THEN kept[k + 1] ELSE k
        fits == TextBytes(lines) <= maxBytes /\ total <= maxLines
        n    == IF fits THEN total ELSE kept[0]
    IN  [text |-> SubSeq(lines, 1, n), keptLines |-> n,
         byteLimited |-> ~fits /\ n < total /\ n < maxLines,
         firstLineTooBig |-> ~fits /\ n = 0 /\ lines # <<>>]

\* Mutated form of CutLine: the boundary before is taken.
CutBefore(line, max) ==
    LET cut[i \in 0..Len(line)] ==
            IF i = Len(line) \/ Bytes(SubSeq(line, 1, i + 1)) > Bytes(line) - max
            THEN i ELSE cut[i + 1]
    IN  SubSeq(line, cut[0] + 1, Len(line))

\* The end of a line from the first boundary that leaves at most max bytes.
CutLine(line, max) ==
    LET cut[i \in 0..Len(line)] ==
            IF Bytes(SubSeq(line, 1, i)) >= Bytes(line) - max THEN i ELSE cut[i + 1]
    IN  SubSeq(line, cut[0] + 1, Len(line))

\* A text nothing was cut from.
Whole(lines) == [text |-> lines, firstLine |-> 1, keptLines |-> Len(lines),
                 byteLimited |-> FALSE, cutMidLine |-> FALSE, truncated |-> FALSE]

\* take_tail: the last lines within both limits, or the end of the last one.
TakeTail(lines, maxLines, maxBytes) ==
    LET total == Len(lines)
        limit == IF maxLines = 0 THEN 1 ELSE maxLines
        first == IF total > limit THEN total - limit + 1 ELSE 1
        start[s \in first..total] ==
            IF TextBytes(SubSeq(lines, s, total)) <= maxBytes \/ s = total
            THEN s ELSE start[s + 1]
        fits == TextBytes(lines) <= maxBytes /\ total <= limit
        cut  == Bytes(lines[total]) > maxBytes
    IN  IF fits
        THEN Whole(lines)
        ELSE [text |-> IF cut THEN <<CutLine(lines[total], maxBytes)>>
                       ELSE SubSeq(lines, start[first], total),
              firstLine |-> start[first], keptLines |-> total - start[first] + 1,
              byteLimited |-> TextBytes(SubSeq(lines, first, total)) > maxBytes,
              cutMidLine |-> cut, truncated |-> TRUE]

TailIdle == tailPc = "idle" /\ output = <<>> /\ tail = Whole(<<>>)
TailInit == tailPc = "called" /\ output \in Output /\ tail = Whole(<<>>)

\* bash collects its answer; the whole output is logged if any of it is cut.
Collect ==
    /\ tailPc = "called" /\ tailPc' = "done"
    /\ tail' = TakeTail(output, MaxLines, MaxBytes)
    /\ UNCHANGED output

TailSpec == TailInit /\ [][Collect]_tailVars

-----------------------------------------------------------------------------
(* Properties *)

\* What an answer shows of an output is the longest end of it that keeps to
\* both limits and begins with a line or, when the last line alone is too
\* long, with a character; the first line it names and the limit it blames
\* are the right ones, and an output that fits is whole.  truncate.rs:82-133.
TailIsLongest ==
    tailPc = "done" =>
        LET total   == Len(output)
            Fits(t) == Len(t) <= MaxLines /\ TextBytes(t) <= MaxBytes
            whole   == {SubSeq(output, s, total) : s \in 1..total}
            inside  == IF total = 0 THEN {}
                       ELSE {<<SubSeq(output[total], i, Len(output[total]))>> :
                                 i \in 1..(Len(output[total]) + 1)}
            fitting == {t \in (IF \E t \in whole : Fits(t) THEN whole ELSE inside) : Fits(t)}
        IN  IF Fits(output) THEN tail = Whole(output)
            ELSE /\ tail.truncated
                 /\ tail.text \in fitting
                 /\ \A t \in fitting : TextBytes(t) <= TextBytes(tail.text)
                 /\ total = tail.firstLine + tail.keptLines - 1
                 /\ tail.keptLines = Len(tail.text)
                 /\ tail.cutMidLine = (tail.text # SubSeq(output, tail.firstLine, total))
                 /\ ~tail.byteLimited => tail.keptLines = MaxLines
=============================================================================
