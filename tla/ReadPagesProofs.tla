--------------------------- MODULE ReadPagesProofs ---------------------------
(***************************************************************************)
(* Proofs about ReadPages, over ReadSpec and TailSpec, for any text, any   *)
(* caps and any sequence of calls: each page that a read shows is the      *)
(* longest head of what was asked for, the pages of one reading follow one *)
(* another without a gap, and the output bash shows is the longest tail    *)
(* that its two caps allow.                                                *)
(*                                                                         *)
(* The arithmetic is in the first sections: the bytes of a line and of a   *)
(* text are sums, sums grow with what is appended, and the loops of        *)
(* truncate.rs stop at the first line that does not fit.  Then the window  *)
(* a read leaves is identified with the head it should be, which makes     *)
(* ReadInv inductive, and at last the same is done for the tail.           *)
(***************************************************************************)
EXTENDS ReadPages, SequenceLemmas

-----------------------------------------------------------------------------
(* How many bytes the lines of a text have.                                *)

Line == Seq(Nat)

\* The bytes of a line are the sum of those of its characters.
LEMMA BytesSum ==
    ASSUME NEW n \in Nat, NEW t \in [1..n -> Nat]
    PROVE  \E f \in [0..n -> Nat] : Sums(n, t, f) /\ f[n] = Bytes(t)
BY SumIs, Zenon DEF Bytes

LEMMA BytesType ==
    ASSUME NEW s \in Line
    PROVE  Bytes(s) \in Nat
<1>1. Len(s) \in Nat /\ s \in [1..Len(s) -> Nat]
  BY DEF Line
<1>2. PICK f \in [0..Len(s) -> Nat] : Sums(Len(s), s, f) /\ f[Len(s)] = Bytes(s)
  BY <1>1, BytesSum
<1>3. f[Len(s)] \in Nat
  BY <1>1, <1>2
<1>4. QED
  BY <1>2, <1>3

LEMMA BytesOfNothing == Bytes(<<>>) = 0
<1>1. <<>> \in [1..0 -> Nat] /\ 0 \in Nat
  OBVIOUS
<1>2. PICK f \in [0..0 -> Nat] : Sums(0, <<>>, f) /\ f[0] = Bytes(<<>>)
  BY <1>1, BytesSum
<1>3. QED
  BY <1>2 DEF Sums

\* The elements i to j of s.
Part(S, s, i, j, part) ==
    /\ part \in Seq(S) /\ Len(part) = (j - i) + 1 /\ part \in [1..((j - i) + 1) -> S]
    /\ \A k \in 1..((j - i) + 1) : part[k] = s[(i - 1) + k]

LEMMA PartIs ==
    ASSUME NEW S, NEW s \in Seq(S), NEW i \in 1..(Len(s) + 1), NEW j \in (i - 1)..Len(s)
    PROVE  Part(S, s, i, j, SubSeq(s, i, j))
<1>1. i \in Int /\ j \in Int /\ \A k \in i..j : s[k] \in S
  OBVIOUS
<1>2. /\ SubSeq(s, i, j) \in Seq(S)
      /\ Len(SubSeq(s, i, j)) = IF i <= j THEN j - i + 1 ELSE 0
      /\ \A k \in 1..(j - i + 1) : SubSeq(s, i, j)[k] = s[i + k - 1]
  BY <1>1, SubSeqProperties
<1> DEFINE part == SubSeq(s, i, j)
<1> HIDE DEF part
<1>3. part \in Seq(S) /\ Len(part) = (j - i) + 1
  BY <1>2 DEF part
<1>4. \A k \in 1..((j - i) + 1) : part[k] = s[(i - 1) + k]
  BY <1>2 DEF part
<1>5. part \in [1..((j - i) + 1) -> S]
  BY <1>3
<1>6. QED
  BY <1>3, <1>4, <1>5 DEF Part, part

\* Bytes add up.
LEMMA BytesOfCat ==
    ASSUME NEW s \in Line, NEW t \in Line
    PROVE  Bytes(Cat(s, t)) = Bytes(s) + Bytes(t)
<1> DEFINE n == Len(s)
           m == Len(t)
           c == Cat(s, t)
<1>1. n \in Nat /\ m \in Nat /\ s \in [1..n -> Nat] /\ t \in [1..m -> Nat]
  BY DEF Line
<1>2. /\ c \in Seq(Nat) /\ Len(c) = n + m
      /\ \A k \in 1..(n + m) : c[k] = IF k <= n THEN s[k] ELSE t[k - n]
  <2>1. Joins(Nat, n, s, t, c)
    BY CatJoins DEF Line
  <2> HIDE DEF c
  <2>2. QED
    BY <2>1 DEF Joins
<1> HIDE DEF c
<1>3. n + m \in Nat /\ c \in [1..(n + m) -> Nat]
  BY <1>1, <1>2
<1> HIDE DEF n, m
<1>4. PICK f \in [0..n -> Nat] : Sums(n, s, f) /\ f[n] = Bytes(s)
  BY <1>1, BytesSum
<1>5. PICK g \in [0..m -> Nat] : Sums(m, t, g) /\ g[m] = Bytes(t)
  BY <1>1, BytesSum
<1>6. PICK h \in [0..(n + m) -> Nat] : Sums(n + m, c, h) /\ h[n + m] = Bytes(c)
  BY <1>3, BytesSum
<1>7. h[n] = f[n]
  <2>1. \A k \in 1..n : k \in 1..(n + m) /\ k <= n
    BY <1>1
  <2>2. \A k \in 1..n : s[k] = c[k] /\ h[k] = h[k - 1] + c[k]
    BY <1>2, <1>6, <2>1 DEF Sums
  <2>3. h[0] = 0
    BY <1>6 DEF Sums
  <2> DEFINE T == {k \in 0..n : h[k] = f[k]}
  <2>4. 0 \in T
    BY <1>1, <1>4, <2>3 DEF Sums
  <2>5. ASSUME NEW k \in 1..n, k - 1 \in T PROVE k \in T
    BY <1>4, <2>2, <2>5 DEF Sums
  <2> HIDE DEF T
  <2>6. 0..n \subseteq T
    BY <1>1, <2>4, <2>5, Climb
  <2>7. QED
    BY <1>1, <2>6 DEF T
<1> DEFINE T == {k \in 0..m : h[n + k] = f[n] + g[k]}
<1>8. 0 \in T
  <2>1. n + 0 = n /\ f[n] \in Nat /\ g[0] = 0 /\ 0 \in 0..m
    BY <1>1, <1>4, <1>5 DEF Sums
  <2>2. QED
    BY <1>7, <2>1
<1>9. ASSUME NEW k \in 1..m, k - 1 \in T PROVE k \in T
  <2>1. /\ n + k \in 1..(n + m) /\ (n + k) - 1 = n + (k - 1) /\ (n + k) - n = k /\ ~(n + k <= n)
        /\ k - 1 \in 0..m /\ n \in 0..n
    BY <1>1
  <2>2. h[n + k] = h[n + (k - 1)] + c[n + k] /\ c[n + k] = t[k]
    BY <1>2, <1>6, <2>1 DEF Sums
  <2>3. g[k] = g[k - 1] + t[k] /\ h[n + (k - 1)] = f[n] + g[k - 1]
    BY <1>5, <1>9 DEF Sums
  <2>4. t[k] \in Nat /\ f[n] \in Nat /\ g[k - 1] \in Nat
    BY <1>1, <1>4, <1>5, <2>1
  <2>5. \A u, v, w \in Nat : (u + v) + w = u + (v + w)
    OBVIOUS
  <2>6. h[n + k] = f[n] + g[k]
    BY <2>2, <2>3, <2>4, <2>5
  <2>7. QED
    BY <2>6
<1> HIDE DEF T
<1>10. 0..m \subseteq T
  BY <1>1, <1>8, <1>9, Climb
<1>11. h[n + m] = f[n] + g[m]
  BY <1>1, <1>10 DEF T
<1>12. QED
  BY <1>4, <1>5, <1>6, <1>11 DEF c

\* w gives the bytes of the first lines of a text.
Weighs(lines, w) ==
    /\ w \in [0..Len(lines) -> Nat] /\ w[0] = 0
    /\ \A k \in 1..Len(lines) : w[k] = w[k - 1] + Bytes(lines[k])

LEMMA WeightsExist ==
    ASSUME NEW lines \in Seq(Line)
    PROVE  \E w : Weighs(lines, w)
<1> DEFINE n == Len(lines)
           t == [k \in 1..n |-> Bytes(lines[k])]
<1>1. n \in Nat /\ \A k \in 1..n : lines[k] \in Line
  OBVIOUS
<1>2. t \in [1..n -> Nat]
  BY <1>1, BytesType
<1>3. \A k \in 1..n : t[k] = Bytes(lines[k])
  OBVIOUS
<1> HIDE DEF t
<1>4. PICK f \in [0..n -> Nat] : Sums(n, t, f)
  BY <1>1, <1>2, BytesSum
<1>5. QED
  BY <1>3, <1>4 DEF Sums, Weighs

\* The lines i to j of a text have the bytes of the first j without those of
\* the first i - 1.
LEMMA TextBytesIs ==
    ASSUME NEW lines \in Seq(Line), NEW w, Weighs(lines, w),
           NEW i \in 1..(Len(lines) + 1), NEW j \in (i - 1)..Len(lines)
    PROVE  TextBytes(SubSeq(lines, i, j)) + w[i - 1] = w[j]
<1> DEFINE m == (j - i) + 1
           part == SubSeq(lines, i, j)
<1>1. Len(lines) \in Nat /\ i \in Nat /\ j \in Nat /\ m \in Nat /\ i - 1 \in 0..Len(lines)
      /\ (i - 1) + m = j
  OBVIOUS
<1>2. part \in [1..m -> Line] /\ \A k \in 1..m : part[k] = lines[(i - 1) + k]
  <2>1. Part(Line, lines, i, j, part)
    BY PartIs
  <2>2. QED
    BY <2>1 DEF Part
<1> HIDE DEF part, m
<1>3. PICK f \in [0..m -> Line] : Flattens(m, part, f)
  BY <1>1, <1>2, FlattenExists DEF Line
<1>4. FlattenSeq(part) = f[m]
  BY <1>1, <1>2, <1>3, FlattenValue DEF Line
<1> DEFINE T == {k \in 0..m : Bytes(f[k]) + w[i - 1] = w[(i - 1) + k]}
<1>5. 0 \in T
  <2>1. f[0] = <<>>
    BY <1>3 DEF Flattens
  <2>2. (i - 1) + 0 = i - 1 /\ 0 \in 0..m
    BY <1>1
  <2>3. w[i - 1] \in Nat
    BY <1>1 DEF Weighs
  <2>4. Bytes(f[0]) + w[i - 1] = w[i - 1]
    BY <2>1, <2>3, BytesOfNothing
  <2>5. QED
    BY <2>2, <2>4
<1>6. ASSUME NEW k \in 1..m, k - 1 \in T PROVE k \in T
  <2>1. /\ (i - 1) + k \in 1..Len(lines) /\ ((i - 1) + k) - 1 = (i - 1) + (k - 1)
        /\ k - 1 \in 0..m /\ (i - 1) + (k - 1) \in 0..Len(lines)
    BY <1>1
  <2>2. f[k] = Cat(f[k - 1], part[k]) /\ part[k] \in Line /\ f[k - 1] \in Line
    BY <1>2, <1>3, <2>1 DEF Flattens
  <2>3. Bytes(f[k]) = Bytes(f[k - 1]) + Bytes(part[k])
    BY <2>2, BytesOfCat
  <2>4. w[(i - 1) + k] = w[(i - 1) + (k - 1)] + Bytes(part[k])
    BY <1>2, <2>1 DEF Weighs
  <2>5. Bytes(f[k - 1]) + w[i - 1] = w[(i - 1) + (k - 1)]
    BY <1>6
  <2>6. Bytes(f[k - 1]) \in Nat /\ Bytes(part[k]) \in Nat /\ w[i - 1] \in Nat
    BY <1>1, <2>2, BytesType DEF Weighs
  <2>7. \A u, v, x \in Nat : (u + v) + x = (u + x) + v
    OBVIOUS
  <2>8. Bytes(f[k]) + w[i - 1] = w[(i - 1) + k]
    BY <2>3, <2>4, <2>5, <2>6, <2>7
  <2>9. QED
    BY <2>8
<1> HIDE DEF T
<1>7. 0..m \subseteq T
  BY <1>1, <1>5, <1>6, Climb
<1>8. Bytes(f[m]) + w[i - 1] = w[(i - 1) + m]
  BY <1>1, <1>7 DEF T
<1>9. QED
  BY <1>1, <1>4, <1>8 DEF TextBytes, part

\* Of two parts of a text, the one within the other has no more bytes.
LEMMA TextBytesGrow ==
    ASSUME NEW lines \in Seq(Line), NEW i \in 1..(Len(lines) + 1), NEW j \in (i - 1)..Len(lines),
           NEW p \in i..(j + 1), NEW q \in (p - 1)..j
    PROVE  /\ TextBytes(SubSeq(lines, p, q)) \in Nat /\ TextBytes(SubSeq(lines, i, j)) \in Nat
           /\ TextBytes(SubSeq(lines, p, q)) <= TextBytes(SubSeq(lines, i, j))
<1>1. PICK w : Weighs(lines, w)
  BY WeightsExist
<1>2. /\ Len(lines) \in Nat /\ i - 1 \in 0..Len(lines) /\ p - 1 \in (i - 1)..Len(lines)
      /\ q \in (p - 1)..j /\ j \in q..Len(lines) /\ p \in 1..(Len(lines) + 1)
      /\ q \in (p - 1)..Len(lines) /\ i \in Nat /\ j \in 0..Len(lines) /\ q \in 0..Len(lines)
  OBVIOUS
<1>3. \A x \in 0..Len(lines) : \A y \in x..Len(lines) : w[x] \in Nat /\ w[y] \in Nat /\ w[x] <= w[y]
  <2> SUFFICES ASSUME NEW x \in 0..Len(lines), NEW y \in x..Len(lines)
               PROVE  w[x] \in Nat /\ w[y] \in Nat /\ w[x] <= w[y]
    OBVIOUS
  <2> DEFINE T == {k \in 0..(y - x) : w[x] <= w[x + k]}
  <2>1. y - x \in Nat /\ x + (y - x) = y /\ \A k \in 0..(y - x) : x + k \in 0..Len(lines)
    BY <1>2
  <2>2. \A k \in 0..(y - x) : w[x + k] \in Nat
    BY <1>1, <2>1 DEF Weighs
  <2>3. w[x] \in Nat /\ w[y] \in Nat
    BY <1>1, <1>2, SMTT(30) DEF Weighs
  <2>4. 0 \in T
    BY <2>1, <2>3
  <2>5. ASSUME NEW k \in 1..(y - x), k - 1 \in T PROVE k \in T
    <3>1. /\ x + k \in 1..Len(lines) /\ (x + k) - 1 = x + (k - 1) /\ k - 1 \in 0..(y - x)
          /\ k \in 0..(y - x)
      BY <1>2
    <3>2. lines[x + k] \in Line
      BY <3>1
    <3>3. w[x + k] = w[x + (k - 1)] + Bytes(lines[x + k]) /\ Bytes(lines[x + k]) \in Nat
      BY <1>1, <3>1, <3>2, BytesType DEF Weighs
    <3>4. w[x] <= w[x + (k - 1)]
      BY <2>5
    <3>5. \A u, v, z \in Nat : u <= v => u <= v + z
      OBVIOUS
    <3>6. w[x] <= w[x + k]
      BY <2>2, <2>3, <3>1, <3>3, <3>4, <3>5
    <3>7. QED
      BY <3>1, <3>6
  <2> HIDE DEF T
  <2>6. 0..(y - x) \subseteq T
    BY <2>1, <2>4, <2>5, Climb
  <2>7. w[x] <= w[x + (y - x)]
    BY <2>1, <2>6 DEF T
  <2>8. QED
    BY <2>1, <2>3, <2>7
<1>4. ASSUME NEW x \in 1..(Len(lines) + 1), NEW y \in (x - 1)..Len(lines)
      PROVE  TextBytes(SubSeq(lines, x, y)) \in Nat
  <2> DEFINE m == (y - x) + 1
  <2>1. m \in Nat /\ SubSeq(lines, x, y) \in [1..m -> Line]
    <3>1. Part(Line, lines, x, y, SubSeq(lines, x, y))
      BY PartIs
    <3>2. QED
      BY <1>2, <3>1 DEF Part
  <2>2. FlattenSeq(SubSeq(lines, x, y)) \in Seq(Nat)
    BY <2>1, FlattenType DEF Line
  <2>3. QED
    BY <2>2, BytesType DEF TextBytes, Line
<1> DEFINE big == TextBytes(SubSeq(lines, i, j))
           small == TextBytes(SubSeq(lines, p, q))
<1>5. big \in Nat /\ small \in Nat
  BY <1>2, <1>4
<1>6. big + w[i - 1] = w[j] /\ small + w[p - 1] = w[q]
  BY <1>1, <1>2, TextBytesIs
<1>7. w[i - 1] \in Nat /\ w[j] \in Nat /\ w[p - 1] \in Nat /\ w[q] \in Nat
      /\ w[i - 1] <= w[p - 1] /\ w[q] <= w[j]
  <2>1. i - 1 \in 0..Len(lines) /\ p - 1 \in (i - 1)..Len(lines) /\ q \in 0..Len(lines) /\ j \in q..Len(lines)
    BY <1>2
  <2>2. QED
    BY <1>3, <2>1
<1> HIDE DEF big, small
<1>8. small <= big
  BY <1>5, <1>6, <1>7
<1>9. QED
  BY <1>5, <1>8 DEF big, small

-----------------------------------------------------------------------------
(* Where a page ends, and where take_head does.                            *)

\* The places the loop of read_text goes on from: another line fits the page.
GoesOn(lines, first, budget) ==
    {e \in (first - 1)..Len(lines) :
        /\ e < Len(lines) /\ e - first + 1 < budget
        /\ TextBytes(SubSeq(lines, first, e + 1)) <= MaxBytes}

\* The window ends at the first line that no other can follow.
LEMMA WindowIs ==
    ASSUME NEW lines \in Seq(Line), NEW first \in 1..Len(lines)
    PROVE  FirstStop(first - 1, Len(lines), GoesOn(lines, first, LineBudget),
                     WindowEnd(lines, first))
<1> DEFINE a == first - 1
           b == Len(lines)
           Go == GoesOn(lines, first, LineBudget)
           Fix(g) == g = [e \in (first - 1)..Len(lines) |->
                            IF /\ e < Len(lines) /\ e - first + 1 < LineBudget
                               /\ TextBytes(SubSeq(lines, first, e + 1)) <= MaxBytes
                            THEN g[e + 1] ELSE e]
           end == CHOOSE g : Fix(g)
<1>1. a \in Nat /\ b \in Nat /\ a <= b
  OBVIOUS
<1>2. Go \in SUBSET (a..b) /\ b \notin Go
  BY <1>1 DEF GoesOn
<1>3. ASSUME NEW g PROVE Fix(g) <=> Searches(a, b, Go, g)
  <2>1. \A e \in a..b :
           e \in Go <=> /\ e < Len(lines) /\ e - first + 1 < LineBudget
                        /\ TextBytes(SubSeq(lines, first, e + 1)) <= MaxBytes
    BY DEF GoesOn
  <2> HIDE DEF Go
  <2>2. QED
    BY <2>1 DEF Searches
<1> HIDE DEF Go, Fix
<1>4. \E g : Searches(a, b, Go, g)
  BY <1>1, <1>2, SearchExists
<1>5. Fix(end)
  BY <1>3, <1>4, Zenon
<1>6. WindowEnd(lines, first) = end[a]
  BY DEF WindowEnd, Fix
<1> HIDE DEF end
<1>7. Searches(a, b, Go, end)
  BY <1>3, <1>5
<1> HIDE DEF a, b
<1>8. FirstStop(a, b, Go, end[a])
  BY <1>1, <1>2, <1>7, SearchStops
<1>9. QED
  BY <1>6, <1>8 DEF a, b, Go

\* The lines take_head goes on from.
KeepsOn(lines, maxLines, maxBytes) ==
    {k \in 0..Len(lines) :
        k < maxLines /\ k < Len(lines) /\ TextBytes(SubSeq(lines, 1, k + 1)) <= maxBytes}

Fitting(lines, maxLines, maxBytes) == TextBytes(lines) <= maxBytes /\ Len(lines) <= maxLines

\* What take_head returns: all of a text that fits, or what its loop kept.
HeadIs(lines, maxLines, maxBytes, n) ==
    LET fits == Fitting(lines, maxLines, maxBytes)
        head == TakeHead(lines, maxLines, maxBytes)
    IN  /\ n \in 0..Len(lines) /\ head.keptLines = n
        /\ head.firstLineTooBig = (~fits /\ n = 0 /\ lines # <<>>)
        /\ fits => n = Len(lines)
        /\ ~fits => FirstStop(0, Len(lines), KeepsOn(lines, maxLines, maxBytes), n)

LEMMA HeadExists ==
    ASSUME NEW lines \in Seq(Line), NEW maxLines \in Nat, NEW maxBytes \in Nat
    PROVE  \E n : HeadIs(lines, maxLines, maxBytes, n)
<1> DEFINE b == Len(lines)
           Go == KeepsOn(lines, maxLines, maxBytes)
           fits == Fitting(lines, maxLines, maxBytes)
           Fix(g) == g = [k \in 0..Len(lines) |->
                            IF k < maxLines /\ k < Len(lines)
                               /\ TextBytes(SubSeq(lines, 1, k + 1)) <= maxBytes
                            THEN g[k + 1] ELSE k]
           kept == CHOOSE g : Fix(g)
           n == IF fits THEN Len(lines) ELSE kept[0]
<1>1. b \in Nat /\ 0 \in Nat /\ 0 <= b
  OBVIOUS
<1>2. Go \in SUBSET (0..b) /\ b \notin Go
  BY <1>1 DEF KeepsOn
<1>3. ASSUME NEW g PROVE Fix(g) <=> Searches(0, b, Go, g)
  <2>1. \A k \in 0..b :
           k \in Go <=> k < maxLines /\ k < Len(lines)
                        /\ TextBytes(SubSeq(lines, 1, k + 1)) <= maxBytes
    BY DEF KeepsOn
  <2> HIDE DEF Go
  <2>2. QED
    BY <2>1 DEF Searches
<1> HIDE DEF Go, Fix
<1>4. \E g : Searches(0, b, Go, g)
  BY <1>1, <1>2, SearchExists
<1>5. Fix(kept)
  BY <1>3, <1>4, Zenon
<1>6. /\ TakeHead(lines, maxLines, maxBytes).keptLines = n
      /\ TakeHead(lines, maxLines, maxBytes).firstLineTooBig = (~fits /\ n = 0 /\ lines # <<>>)
  BY DEF TakeHead, Fix, Fitting
<1> HIDE DEF kept, fits
<1>7. Searches(0, b, Go, kept)
  BY <1>3, <1>5
<1> HIDE DEF b
<1>8. FirstStop(0, b, Go, kept[0])
  BY <1>1, <1>2, <1>7, SearchStops
<1>9. n \in 0..b /\ (fits => n = b) /\ (~fits => FirstStop(0, b, Go, n))
  BY <1>1, <1>8 DEF FirstStop, b
<1> HIDE DEF n
<1>10. HeadIs(lines, maxLines, maxBytes, n)
  BY <1>6, <1>9 DEF HeadIs, b, Go, fits
<1>11. QED
  BY <1>10

\* The first k of the lines after the first - 1 of a text.
LEMMA PartOfRest ==
    ASSUME NEW lines \in Seq(Line), NEW first \in 1..Len(lines),
           NEW k \in 0..(Len(lines) - first + 1)
    PROVE  SubSeq(SubSeq(lines, first, Len(lines)), 1, k) = SubSeq(lines, first, (first - 1) + k)
<1> DEFINE rest == SubSeq(lines, first, Len(lines))
           left == SubSeq(rest, 1, k)
           right == SubSeq(lines, first, (first - 1) + k)
           total == (Len(lines) - first) + 1
<1>1. /\ Len(lines) \in Nat /\ first \in 1..(Len(lines) + 1) /\ Len(lines) \in (first - 1)..Len(lines)
      /\ k \in Nat /\ total \in Nat /\ k <= total /\ (first - 1) + k \in (first - 1)..Len(lines)
      /\ (((first - 1) + k) - first) + 1 = k /\ (k - 1) + 1 = k
  OBVIOUS
<1>2. Part(Line, lines, first, Len(lines), rest)
  BY <1>1, PartIs
<1>3. Part(Line, lines, first, (first - 1) + k, right)
  BY <1>1, PartIs
<1> HIDE DEF rest, right
<1>4. rest \in Seq(Line) /\ Len(rest) = total
  BY <1>2 DEF Part
<1>5. 1 \in 1..(Len(rest) + 1) /\ k \in (1 - 1)..Len(rest)
  BY <1>1, <1>4
<1>6. Part(Line, rest, 1, k, left)
  BY <1>4, <1>5, PartIs
<1> HIDE DEF left
<1>7. left \in Seq(Line) /\ Len(left) = k /\ \A i \in 1..k : left[i] = rest[i]
  BY <1>1, <1>6 DEF Part
<1>8. right \in Seq(Line) /\ Len(right) = k /\ \A i \in 1..k : right[i] = lines[(first - 1) + i]
  BY <1>1, <1>3 DEF Part
<1>9. \A i \in 1..k : rest[i] = lines[(first - 1) + i]
  BY <1>1, <1>2 DEF Part
<1>10. left = right
  BY <1>7, <1>8, <1>9, SeqEqual
<1>11. QED
  BY <1>10 DEF left, right, rest

\* The loop of read_text ends where take_head does, within the budget.
LEMMA WindowIsHead ==
    ASSUME NEW lines \in Seq(Line), NEW first \in 1..Len(lines), LineBudget \in Nat \ {0},
           NEW n, HeadIs(SubSeq(lines, first, Len(lines)), LineBudget, MaxBytes, n)
    PROVE  /\ WindowEnd(lines, first) \in (first - 1)..Len(lines)
           /\ n = WindowEnd(lines, first) - first + 1 /\ n \in Nat /\ n <= LineBudget
<1> DEFINE rest == SubSeq(lines, first, Len(lines))
           L == Len(lines)
           total == (L - first) + 1
           a == first - 1
           last == WindowEnd(lines, first)
           budget == LineBudget
           Go == GoesOn(lines, first, budget)
           Keep == KeepsOn(rest, budget, MaxBytes)
<1>1. /\ L \in Nat /\ first \in 1..(L + 1) /\ L \in (first - 1)..L /\ total \in Nat
      /\ a \in Nat /\ a + total = L /\ budget \in Nat
  OBVIOUS
<1>2. rest \in Seq(Line) /\ Len(rest) = total
  <2>1. Part(Line, lines, first, L, rest)
    BY <1>1, PartIs
  <2>2. QED
    BY <2>1 DEF Part
<1>3. FirstStop(a, L, Go, last)
  BY WindowIs
<1>4. \A k \in 0..(L - first + 1) : SubSeq(rest, 1, k) = SubSeq(lines, first, a + k)
  BY PartOfRest
<1>5. \A k \in 0..total : k \in Keep <=> a + k \in Go
  <2> SUFFICES ASSUME NEW k \in 0..total PROVE k \in Keep <=> a + k \in Go
    OBVIOUS
  <2>1. /\ (k < total <=> a + k < L) /\ (a + k) - first + 1 = k /\ a + k \in a..L
        /\ (a + k) + 1 = a + (k + 1)
    BY <1>1
  <2>2. k < total => SubSeq(rest, 1, k + 1) = SubSeq(lines, first, (a + k) + 1)
    <3> SUFFICES ASSUME k < total PROVE SubSeq(rest, 1, k + 1) = SubSeq(lines, first, a + (k + 1))
      BY <2>1
    <3>1. k + 1 \in 0..(L - first + 1)
      BY <1>1
    <3> HIDE DEF rest, L, a
    <3>2. QED
      BY <1>4, <3>1
  <2> HIDE DEF rest, L, a, total
  <2>3. k \in Keep <=> k < budget /\ k < total /\ TextBytes(SubSeq(rest, 1, k + 1)) <= MaxBytes
    BY <1>2 DEF KeepsOn
  <2>4. a + k \in Go <=> /\ a + k < L /\ k < budget
                         /\ TextBytes(SubSeq(lines, first, (a + k) + 1)) <= MaxBytes
    BY <2>1 DEF GoesOn, L, a
  <2> HIDE DEF Go, Keep
  <2>5. QED
    BY <2>1, <2>2, <2>3, <2>4
<1>6. last \in a..L /\ last \notin Go /\ \A e \in a..(last - 1) : e \in Go
  BY <1>3 DEF FirstStop
<1>7. (last - first) + 1 \in 0..total /\ a + ((last - first) + 1) = last /\ last \in Nat
  BY <1>1, <1>6
<1>8. last - first + 1 <= budget
  <2>1. CASE last = a
    BY <1>1, <2>1
  <2>2. CASE last # a
    <3>1. last - 1 \in a..(last - 1)
      BY <1>1, <1>6, <2>2
    <3>2. last - 1 \in Go
      BY <1>6, <3>1
    <3>3. (last - 1) - first + 1 < budget
      BY <3>2 DEF GoesOn
    <3>4. QED
      BY <1>1, <1>6, <3>3
  <2>3. QED
    BY <2>1, <2>2
<1>9. CASE Fitting(rest, budget, MaxBytes)
  <2>1. n = total /\ TextBytes(rest) <= MaxBytes /\ total <= budget
    BY <1>2, <1>9 DEF HeadIs, Fitting
  <2>2. last = L
    <3> SUFFICES ASSUME last < L PROVE FALSE
      BY <1>1, <1>6
    <3>1. last + 1 \in (first - 1)..L /\ first \in first..(L + 1) /\ last + 1 \in (first - 1)..L
          /\ last < L /\ last - first + 1 < budget
      <4> HIDE DEF last, budget, Go, rest
      <4>1. last \in Nat /\ last >= first - 1 /\ first \in Nat
        BY <1>1, <1>6
      <4>2. (L - first) + 1 <= budget
        BY <2>1
      <4> HIDE DEF L
      <4>3. last - first + 1 < budget
        BY <1>1, <4>1, <4>2
      <4>4. QED
        BY <1>1, <1>6, <4>1, <4>3
    <3>2. TextBytes(SubSeq(lines, first, last + 1)) <= TextBytes(rest)
          /\ TextBytes(SubSeq(lines, first, last + 1)) \in Nat /\ TextBytes(rest) \in Nat
      BY <1>1, <3>1, TextBytesGrow
    <3>3. TextBytes(SubSeq(lines, first, last + 1)) <= MaxBytes
      BY <2>1, <3>2, TruncateAssumption
    <3>4. last \in Go
      BY <1>6, <3>1, <3>3 DEF GoesOn
    <3>5. QED
      BY <1>6, <3>4
  <2> HIDE DEF last, budget
  <2>3. QED
    BY <1>1, <1>6, <1>8, <2>1, <2>2 DEF last, budget
<1>10. CASE ~Fitting(rest, budget, MaxBytes)
  <2>1. FirstStop(0, total, Keep, n)
    BY <1>2, <1>10 DEF HeadIs
  <2>2. n \in 0..total /\ n \notin Keep /\ \A k \in 0..(n - 1) : k \in Keep
    BY <2>1 DEF FirstStop
  <2> DEFINE m == (last - first) + 1
  <2>3. m \in 0..total /\ a + m = last
    BY <1>7
  <2>4. n \in Nat /\ m \in Nat /\ a + n \in a..L
    BY <1>1, <2>2, <2>3
  <2> HIDE DEF last, Go, Keep, a, L, total, m, rest
  <2>5. ~(n < m)
    <3> SUFFICES ASSUME n < m PROVE FALSE
      OBVIOUS
    <3>1. a + n \in a..(last - 1)
      BY <1>1, <2>3, <2>4
    <3>2. a + n \in Go
      BY <1>6, <3>1
    <3>3. QED
      BY <1>5, <2>2, <3>2
  <2>6. ~(m < n)
    <3> SUFFICES ASSUME m < n PROVE FALSE
      OBVIOUS
    <3>1. m \in 0..(n - 1)
      BY <2>4
    <3>2. m \in Keep
      BY <2>2, <3>1
    <3>3. a + m \in Go
      BY <1>5, <2>3, <3>2
    <3>4. QED
      BY <1>6, <2>3, <3>3
  <2>7. n = m
    BY <2>4, <2>5, <2>6
  <2>8. QED
    BY <1>6, <1>8, <2>4, <2>7 DEF m, last, a, L
<1>11. QED
  BY <1>9, <1>10

-----------------------------------------------------------------------------
(* What reached the agent.                                                 *)

\* s has the lines lo to hi in order, each once, but for blank ones.
Covers(blank, s, lo, hi) ==
    /\ s \in Seq(Nat)
    /\ \A i \in 1..Len(s) : s[i] \in lo..hi
    /\ \A i, j \in 1..Len(s) : i < j => s[i] < s[j]
    /\ \A k \in lo..hi : k \in blank \/ \E i \in 1..Len(s) : s[i] = k

\* A page follows what came before.
LEMMA CoversOn ==
    ASSUME NEW blank, NEW lo \in Nat, NEW hi \in Nat, NEW end \in Nat, lo <= hi + 1, hi <= end,
           NEW s, NEW v, Covers(blank, s, lo, hi), Covers(blank, v, hi + 1, end)
    PROVE  Covers(blank, Cat(s, v), lo, end)
<1> DEFINE n == Len(s)
           m == Len(v)
           c == Cat(s, v)
<1>1. s \in Seq(Nat) /\ v \in Seq(Nat) /\ n \in Nat /\ m \in Nat
  BY DEF Covers
<1>2. c \in Seq(Nat) /\ Len(c) = n + m /\ \A k \in 1..(n + m) : c[k] = IF k <= n THEN s[k] ELSE v[k - n]
  <2>1. Joins(Nat, n, s, v, c)
    BY <1>1, CatJoins
  <2> HIDE DEF c
  <2>2. QED
    BY <2>1 DEF Joins
<1>3. /\ \A i \in 1..n : s[i] \in lo..hi
      /\ \A i, j \in 1..n : i < j => s[i] < s[j]
      /\ \A k \in lo..hi : k \in blank \/ \E i \in 1..n : s[i] = k
  BY DEF Covers
<1>4. /\ \A i \in 1..m : v[i] \in (hi + 1)..end
      /\ \A i, j \in 1..m : i < j => v[i] < v[j]
      /\ \A k \in (hi + 1)..end : k \in blank \/ \E i \in 1..m : v[i] = k
  BY DEF Covers
<1> SUFFICES Covers(blank, c, lo, end)
  OBVIOUS
<1> HIDE DEF n, m, c
<1>5. ASSUME NEW i \in 1..(n + m)
      PROVE  /\ i <= n => i \in 1..n /\ c[i] = s[i]
             /\ i > n => i - n \in 1..m /\ c[i] = v[i - n]
  <2>1. c[i] = IF i <= n THEN s[i] ELSE v[i - n]
    BY <1>2
  <2>2. (i <= n => i \in 1..n) /\ (i > n => ~(i <= n) /\ i - n \in 1..m)
    BY <1>1
  <2>3. QED
    BY <2>1, <2>2
<1>6. ASSUME NEW i \in 1..n PROVE i \in 1..(n + m) /\ c[i] = s[i]
  <2>1. i \in 1..(n + m) /\ i <= n
    BY <1>1
  <2>2. QED
    BY <1>5, <2>1
<1>7. \A i \in 1..m : n + i \in 1..(n + m) /\ c[n + i] = v[i]
  <2> SUFFICES ASSUME NEW i \in 1..m PROVE n + i \in 1..(n + m) /\ c[n + i] = v[i]
    OBVIOUS
  <2>1. n + i \in 1..(n + m) /\ ~(n + i <= n) /\ (n + i) - n = i
    BY <1>1
  <2>2. QED
    BY <1>2, <2>1
<1>8. ASSUME NEW i \in 1..(n + m) PROVE c[i] \in lo..end /\ (i <= n => c[i] <= hi) /\ (i > n => c[i] > hi)
  <2>1. CASE i <= n
    <3>1. c[i] \in lo..hi
      BY <1>3, <1>5, <2>1
    <3>2. QED
      BY <1>1, <2>1, <3>1
  <2>2. CASE i > n
    <3>1. c[i] \in (hi + 1)..end
      BY <1>4, <1>5, <2>2
    <3>2. QED
      BY <2>2, <3>1, <1>1
  <2>3. QED
    BY <1>1, <2>1, <2>2
<1>9. ASSUME NEW i \in 1..(n + m), NEW j \in 1..(n + m), i < j PROVE c[i] < c[j]
  <2>0. i \in Nat /\ j \in Nat /\ c[i] \in Nat /\ c[j] \in Nat
    BY <1>8
  <2>1. CASE j <= n
    <3>1. i <= n
      BY <1>1, <1>9, <2>0, <2>1
    <3>2. i \in 1..n /\ j \in 1..n /\ c[i] = s[i] /\ c[j] = s[j]
      BY <1>5, <2>1, <3>1
    <3>3. QED
      BY <1>3, <1>9, <3>2
  <2>2. CASE i > n
    <3>1. j > n
      BY <1>1, <1>9, <2>0, <2>2
    <3>2. i - n \in 1..m /\ j - n \in 1..m /\ c[i] = v[i - n] /\ c[j] = v[j - n]
      BY <1>5, <2>2, <3>1
    <3>3. i - n < j - n
      BY <1>1, <1>9, <2>0
    <3>4. QED
      BY <1>4, <3>2, <3>3
  <2>3. CASE i <= n /\ j > n
    <3>1. c[i] <= hi /\ c[j] > hi
      BY <1>8, <2>3
    <3>2. QED
      BY <2>0, <3>1
  <2>4. QED
    BY <1>1, <2>0, <2>1, <2>2, <2>3
<1>10. ASSUME NEW k \in lo..end PROVE k \in blank \/ \E i \in 1..(n + m) : c[i] = k
  <2>1. CASE k <= hi
    <3>1. k \in lo..hi
      BY <2>1
    <3>2. QED
      BY <1>3, <1>6, <3>1
  <2>2. CASE k > hi
    <3>1. k \in (hi + 1)..end
      BY <2>2
    <3>2. QED
      BY <1>4, <1>7, <3>1
  <2>3. QED
    BY <2>1, <2>2
<1>11. QED
  BY <1>2, <1>8, <1>9, <1>10 DEF Covers

\* A page shows its lines, nothing if all of them are blank, or names one.
LEMMA NothingCovers ==
    ASSUME NEW blank, NEW lo \in Nat, NEW hi \in Int, lo..hi \subseteq blank
    PROVE  Covers(blank, <<>>, lo, hi)
<1>1. <<>> \in Seq(Nat) /\ Len(<<>>) = 0 /\ 1..0 = {}
  OBVIOUS
<1>2. QED
  BY <1>1 DEF Covers

LEMMA OneCovers ==
    ASSUME NEW blank, NEW k \in Nat
    PROVE  Covers(blank, <<k>>, k, k)
<1>1. <<k>> \in Seq(Nat) /\ Len(<<k>>) = 1 /\ <<k>>[1] = k /\ 1..1 = {1} /\ k..k = {k}
  OBVIOUS
<1>2. QED
  BY <1>1 DEF Covers

LEMMA IntervalCovers ==
    ASSUME NEW blank, NEW lo \in Nat, NEW hi \in Nat, lo <= hi
    PROVE  Covers(blank, Interval(lo, hi), lo, hi)
<1> DEFINE n == hi - lo + 1
           s == Interval(lo, hi)
<1>1. n \in Nat
  OBVIOUS
<1>2. s \in [1..n -> Nat] /\ \A k \in 1..n : s[k] = lo + k - 1
  <2>1. s = [k \in 1..n |-> lo + k - 1]
    BY DEF Interval
  <2>2. \A k \in 1..n : lo + k - 1 \in Nat
    OBVIOUS
  <2> HIDE DEF s, n
  <2>3. QED
    BY <2>1, <2>2
<1> HIDE DEF s
<1>3. s \in Seq(Nat) /\ Len(s) = n
  BY <1>1, <1>2
<1>4. \A k \in lo..hi : k - lo + 1 \in 1..n /\ s[k - lo + 1] = k
  <2> SUFFICES ASSUME NEW k \in lo..hi PROVE k - lo + 1 \in 1..n /\ s[k - lo + 1] = k
    OBVIOUS
  <2>1. k - lo + 1 \in 1..n /\ lo + (k - lo + 1) - 1 = k
    OBVIOUS
  <2> HIDE DEF n
  <2>2. QED
    BY <1>2, <2>1
<1>5. \A k \in 1..n : lo + k - 1 \in lo..hi
  OBVIOUS
<1>6. \A i, j \in 1..n : i < j => lo + i - 1 < lo + j - 1
  OBVIOUS
<1> HIDE DEF n
<1>7. QED
  BY <1>2, <1>3, <1>4, <1>5, <1>6 DEF Covers, s

-----------------------------------------------------------------------------
(* The invariant.                                                          *)

\* Of a text of which a page has been answered.
PageSound ==
    /\ IsText(doc) /\ doc.lines \in Seq(Line) /\ limit # 0
    /\ readPc \in {"called", "done", "error"}
    /\ begin # 0 /\ page.first \in Nat /\ page.last \in Nat
    /\ begin <= page.first /\ page.first <= page.last /\ page.last <= Len(doc.lines)
    /\ readPc = "called" => offset = page.last + 1
    /\ readPc = "done" => page.last = Len(doc.lines)
    /\ Covers(doc.blank, shown, begin, page.last)
    /\ PageIsHead

ReadInv ==
    /\ readPc \in {"called", "image", "done", "error"}
    /\ begin \in Nat /\ offset \in Nat /\ limit \in Nat \cup {NoLimit}
    /\ \/ /\ page = NoPage /\ shown = <<>>
          /\ readPc = "called" => offset = begin /\ (IsText(doc) => doc.lines \in Seq(Line))
       \/ PageSound

LEMMA ReadInitInv == ReadInit => ReadInv
BY ReadAssumption DEF ReadInit, ReadInv, IsText, Line

LEMMA BudgetType ==
    ASSUME limit \in Nat \cup {NoLimit}, limit # 0
    PROVE  LineBudget \in Nat \ {0}
BY TruncateAssumption, ReadAssumption DEF LineBudget

\* What the calls before a page have shown ends where it begins.
LEMMA ShownBefore ==
    ASSUME ReadInv, readPc = "called", IsText(doc), offset # 0
    PROVE  /\ doc.lines \in Seq(Line) /\ begin \in Nat \ {0} /\ begin <= offset
           /\ offset - 1 \in Nat /\ Covers(doc.blank, shown, begin, offset - 1)
<1>1. CASE page = NoPage /\ shown = <<>> /\ offset = begin /\ doc.lines \in Seq(Line)
  <2>1. begin \in Nat /\ offset - 1 \in Nat /\ begin..(begin - 1) = {}
    BY <1>1 DEF ReadInv
  <2>2. Covers(doc.blank, <<>>, begin, begin - 1)
    BY <2>1, NothingCovers
  <2>3. QED
    BY <1>1, <2>1, <2>2
<1>2. CASE PageSound
  <2>1. offset = page.last + 1 /\ page.last \in Nat /\ page.first \in Nat /\ begin \in Nat
        /\ begin <= page.first /\ page.first <= page.last
    BY <1>2 DEF PageSound, ReadInv
  <2>2. offset - 1 = page.last /\ begin <= offset
    BY <2>1
  <2>3. QED
    BY <1>2, <2>1, <2>2 DEF PageSound
<1>3. QED
  BY <1>1, <1>2 DEF ReadInv

\* What PageIsHead says of the page p of a text.
HeadOf(lines, p, budget) ==
    LET rest == SubSeq(lines, p.first, Len(lines))
        head == TakeHead(rest, budget, MaxBytes)
    IN  /\ p.giant = head.firstLineTooBig
        /\ ~p.giant => /\ p.last - p.first + 1 = head.keptLines
                       /\ p.note = (head.keptLines < Len(rest))

\* A page that ends with its window is a head, its giant line and note too.
LEMMA HeadPage ==
    ASSUME doc.lines \in Seq(Line), LineBudget \in Nat \ {0},
           NEW p, p.first \in 1..Len(doc.lines),
           NEW last, last = WindowEnd(doc.lines, p.first),
           p.giant = (last < p.first),
           ~p.giant => /\ p.last = last
                       /\ p.note = Continues(doc.lines, p.first, last)
    PROVE  HeadOf(doc.lines, p, LineBudget)
<1> DEFINE lines == doc.lines
           first == p.first
           rest == SubSeq(lines, first, Len(lines))
           head == TakeHead(rest, LineBudget, MaxBytes)
<1>1. /\ Len(lines) \in Nat /\ first \in Nat /\ first <= Len(lines) /\ first >= 1
      /\ rest \in Seq(Line) /\ Len(rest) = Len(lines) - first + 1
  <2>1. first \in 1..(Len(lines) + 1) /\ Len(lines) \in (first - 1)..Len(lines)
    OBVIOUS
  <2>2. Part(Line, lines, first, Len(lines), rest)
    BY <2>1, PartIs
  <2>3. QED
    BY <2>2 DEF Part
<1>2. PICK n : HeadIs(rest, LineBudget, MaxBytes, n)
  BY <1>1, HeadExists, TruncateAssumption
<1>3. last \in (first - 1)..Len(lines) /\ n = last - first + 1 /\ n \in Nat /\ n <= LineBudget
  BY <1>2, WindowIsHead
<1>4. /\ n \in 0..Len(rest) /\ head.keptLines = n
      /\ head.firstLineTooBig = (~Fitting(rest, LineBudget, MaxBytes) /\ n = 0 /\ rest # <<>>)
      /\ Fitting(rest, LineBudget, MaxBytes) => n = Len(rest)
  BY <1>2 DEF HeadIs
<1> HIDE DEF head
<1>5. rest # <<>> /\ Len(rest) # 0
  <2>1. \A u, v \in Nat : u <= v => v - u + 1 # 0
    OBVIOUS
  <2>2. Len(rest) # 0
    BY <1>1, <2>1
  <2> HIDE DEF rest
  <2>3. QED
    BY <2>2
<1> HIDE DEF rest
<1>6. p.giant = head.firstLineTooBig
  <2>1. last < first <=> n = 0
    BY <1>1, <1>3
  <2>2. n = 0 => ~Fitting(rest, LineBudget, MaxBytes)
    BY <1>4, <1>5
  <2>3. head.firstLineTooBig = (n = 0)
    BY <1>4, <1>5, <2>2
  <2>4. QED
    BY <2>1, <2>3
<1>7. ASSUME ~p.giant
      PROVE  p.last - p.first + 1 = head.keptLines /\ p.note = (head.keptLines < Len(rest))
  <2>1. p.last = last /\ p.note = Continues(lines, first, last)
    BY <1>7
  <2>2. Continues(lines, first, last) <=> last < Len(lines)
    <3>1. last - first + 1 <= LineBudget /\ last - first + 1 \in Nat /\ LineBudget \in Nat
      BY <1>3
    <3>2. last - first + 1 < LineBudget \/ last - first + 1 = LineBudget
      BY <3>1
    <3>3. QED
      BY <3>2 DEF Continues
  <2>3. last < Len(lines) <=> n < Len(rest)
    <3>1. \A u, v \in Nat : \A w \in (u - 1)..v : w < v <=> w - u + 1 < v - u + 1
      OBVIOUS
    <3>2. QED
      BY <1>1, <1>3, <3>1
  <2>4. Continues(lines, first, last) \in BOOLEAN
    BY DEF Continues
  <2>5. p.note = (n < Len(rest))
    BY <2>1, <2>2, <2>3, <2>4
  <2>6. QED
    BY <1>3, <1>4, <2>1, <2>5
<1>8. QED
  BY <1>6, <1>7 DEF HeadOf, rest, head

\* A page is sound.
LEMMA TextStep ==
    ASSUME ReadInv, readPc = "called", ~Refused, IsText(doc), offset <= Len(doc.lines), ReadText
    PROVE  PageSound'
<1> DEFINE lines == doc.lines
           last == WindowEnd(lines, offset)
           giant == last < offset
           note == ~giant /\ Continues(lines, offset, last)
           upTo == IF giant THEN offset ELSE last
           added == IF giant THEN <<offset>> ELSE Visible(offset, last, note)
<1>1. offset # 0 /\ limit # 0 /\ offset \in Nat /\ limit \in Nat \cup {NoLimit}
  BY DEF Refused, ReadInv
<1>2. /\ lines \in Seq(Line) /\ begin \in Nat \ {0} /\ begin <= offset
      /\ offset - 1 \in Nat /\ Covers(doc.blank, shown, begin, offset - 1)
  BY <1>1, ShownBefore
<1>3. LineBudget \in Nat \ {0}
  BY <1>1, BudgetType
<1>4. offset \in 1..Len(lines) /\ Len(lines) \in Nat
  BY <1>1, <1>2
<1>5. last \in (offset - 1)..Len(lines) /\ last - offset + 1 <= LineBudget
  <2>1. offset \in 1..(Len(lines) + 1) /\ Len(lines) \in (offset - 1)..Len(lines)
    BY <1>4
  <2>2. Part(Line, lines, offset, Len(lines), SubSeq(lines, offset, Len(lines)))
    BY <1>2, <2>1, PartIs
  <2>3. SubSeq(lines, offset, Len(lines)) \in Seq(Line)
    BY <2>2 DEF Part
  <2>4. PICK n : HeadIs(SubSeq(lines, offset, Len(lines)), LineBudget, MaxBytes, n)
    BY <1>3, <2>3, HeadExists, TruncateAssumption
  <2>5. QED
    BY <1>2, <1>3, <1>4, <2>4, WindowIsHead
<1>6. /\ page' = [first |-> offset, last |-> upTo, giant |-> giant, note |-> note]
      /\ shown' = Cat(shown, added)
      /\ IF note \/ (giant /\ offset < Len(lines))
         THEN offset' = upTo + 1 /\ UNCHANGED readPc
         ELSE readPc' = "done" /\ UNCHANGED offset
      /\ UNCHANGED <<doc, begin, limit, block>>
  BY DEF ReadText, Cat
<1>7. HeadOf(lines, page', LineBudget)
  <2>1. /\ page'.first = offset /\ page'.giant = giant /\ page'.last = upTo /\ page'.note = note
    BY <1>6
  <2>2. giant \in BOOLEAN /\ note \in BOOLEAN /\ Continues(lines, offset, last) \in BOOLEAN
    BY DEF Continues
  <2>3. ~page'.giant => page'.last = last /\ page'.note = Continues(lines, page'.first, last)
    BY <2>1, <2>2
  <2> HIDE DEF last
  <2>4. last = WindowEnd(lines, page'.first)
    BY <2>1 DEF last
  <2>5. QED
    BY <1>2, <1>3, <1>4, <2>1, <2>3, <2>4, HeadPage
<1>8. PageIsHead'
  <2>1. doc' = doc /\ LineBudget' = LineBudget
    BY <1>6 DEF LineBudget
  <2>2. PageIsHead' = ((IsText(doc') /\ page' # NoPage) => HeadOf(doc'.lines, page', LineBudget'))
    BY DEF PageIsHead, HeadOf, IsText
  <2>3. QED
    BY <1>7, <2>1, <2>2
<1>9. upTo \in Nat /\ offset <= upTo /\ upTo <= Len(lines)
  BY <1>4, <1>5
<1>10. Covers(doc.blank, added, offset, upTo)
  <2>1. CASE giant
    <3>1. added = <<offset>> /\ upTo = offset
      BY <2>1
    <3>2. QED
      BY <1>1, <3>1, OneCovers
  <2>2. CASE ~giant /\ note /\ \A k \in offset..last : k \in doc.blank
    <3>1. added = <<>> /\ upTo = last /\ offset..last \subseteq doc.blank
      BY <2>2 DEF Visible
    <3>2. QED
      BY <1>1, <1>5, <3>1, NothingCovers
  <2>3. CASE ~giant /\ ~(note /\ \A k \in offset..last : k \in doc.blank)
    <3>1. added = Interval(offset, last) /\ upTo = last
      BY <2>3 DEF Visible
    <3>2. last \in Nat /\ offset <= last
      BY <1>4, <1>5, <2>3
    <3>3. QED
      BY <1>1, <3>1, <3>2, IntervalCovers
  <2>4. QED
    BY <2>1, <2>2, <2>3
<1>11. Covers(doc.blank, shown', begin, upTo)
  <2> HIDE DEF added, upTo
  <2>1. begin \in Nat /\ offset - 1 \in Nat /\ begin <= (offset - 1) + 1 /\ offset - 1 <= upTo
        /\ (offset - 1) + 1 = offset
    BY <1>1, <1>2, <1>9
  <2>2. Covers(doc.blank, added, (offset - 1) + 1, upTo)
    BY <1>10, <2>1
  <2>3. QED
    BY <1>2, <1>6, <1>9, <2>1, <2>2, CoversOn
<1>12. /\ readPc' \in {"called", "done"}
       /\ readPc' = "called" => offset' = upTo + 1
       /\ readPc' = "done" => upTo = Len(lines)
  <2>1. CASE note \/ (giant /\ offset < Len(lines))
    BY <1>6, <2>1
  <2>2. CASE ~(note \/ (giant /\ offset < Len(lines)))
    <3>1. readPc' = "done"
      BY <1>6, <2>2
    <3>2. CASE giant
      BY <1>4, <2>2, <3>1, <3>2
    <3>3. CASE ~giant
      <4>1. ~Continues(lines, offset, last) /\ upTo = last
        BY <2>2, <3>3
      <4>2. last - offset + 1 < LineBudget \/ last - offset + 1 = LineBudget
        BY <1>3, <1>4, <1>5
      <4>3. ~(last < Len(lines))
        BY <4>1, <4>2 DEF Continues
      <4>4. QED
        BY <1>4, <1>5, <3>1, <4>1, <4>3
    <3>4. QED
      BY <3>2, <3>3
  <2>3. QED
    BY <2>1, <2>2
<1>13. page'.first = offset /\ page'.last = upTo /\ doc' = doc /\ limit' = limit /\ begin' = begin
  BY <1>6
<1> HIDE DEF last, giant, note, upTo, added
<1>14. /\ IsText(doc') /\ doc'.lines \in Seq(Line) /\ limit' # 0 /\ begin' # 0
  BY <1>1, <1>2, <1>13
<1>15. /\ page'.first \in Nat /\ page'.last \in Nat
       /\ begin' <= page'.first /\ page'.first <= page'.last /\ page'.last <= Len(doc'.lines)
  BY <1>1, <1>2, <1>9, <1>13
<1>16. Covers(doc'.blank, shown', begin', page'.last)
  BY <1>11, <1>13
<1>17. /\ readPc' \in {"called", "done", "error"}
       /\ readPc' = "called" => offset' = page'.last + 1
       /\ readPc' = "done" => page'.last = Len(doc'.lines)
  BY <1>12, <1>13
<1>18. QED
  BY <1>8, <1>14, <1>15, <1>16, <1>17 DEF PageSound, IsText

\* Every step keeps the invariant.
LEMMA ReadNextInv == ReadInv /\ ReadNext => ReadInv'
<1> SUFFICES ASSUME ReadInv, ReadNext PROVE ReadInv'
  OBVIOUS
<1>1. ASSUME ReadFails PROVE ReadInv'
  <2>1. /\ readPc' = "error" /\ UNCHANGED <<doc, begin, offset, limit, shown, page, block>>
    BY <1>1 DEF ReadFails
  <2>2. PageIsHead => PageIsHead'
    BY <2>1 DEF PageIsHead, LineBudget, IsText
  <2>3. PageSound => PageSound'
    BY <2>1, <2>2 DEF PageSound, IsText
  <2>4. QED
    BY <2>1, <2>3 DEF ReadInv
<1>2. ASSUME readPc # "called" \/ ~IsText(doc) \/ doc.lines = <<>>, readPc # "done", readPc # "error"
      PROVE  page = NoPage /\ shown = <<>>
  <2>1. ~PageSound
    <3> SUFFICES ASSUME PageSound PROVE FALSE
      OBVIOUS
    <3>1. readPc = "called" /\ IsText(doc) /\ doc.lines = <<>>
      BY <1>2 DEF PageSound
    <3>2. begin \in Nat /\ begin # 0 /\ page.first \in Nat /\ page.last \in Nat /\ begin <= page.first
          /\ page.first <= page.last /\ page.last <= 0
      BY <3>1 DEF PageSound, ReadInv
    <3>3. QED
      BY <3>2
  <2>2. QED
    BY <2>1 DEF ReadInv
<1>3. ASSUME Read PROVE ReadInv'
  <2>0. readPc = "called"
    BY <1>3 DEF Read
  <2>1. \/ ReadFails
        \/ /\ IsImage(doc) /\ ~Refused
           /\ readPc' = "image" /\ UNCHANGED <<doc, begin, offset, limit, shown, page, block>>
        \/ /\ IsText(doc) /\ ~Refused /\ doc.lines = <<>>
           /\ readPc' = "done" /\ UNCHANGED <<doc, begin, offset, limit, shown, page, block>>
        \/ IsText(doc) /\ ~Refused /\ ~(offset > Len(doc.lines)) /\ ReadText
    BY <1>3 DEF Read, Refused
  <2>2. ASSUME IsImage(doc) \/ (IsText(doc) /\ doc.lines = <<>>), readPc' \in {"image", "done"},
               UNCHANGED <<doc, begin, offset, limit, shown, page, block>>
        PROVE  ReadInv'
    <3>1. page = NoPage /\ shown = <<>>
      BY <1>2, <2>0, <2>2 DEF IsImage, IsText
    <3>2. QED
      BY <2>2, <3>1 DEF ReadInv
  <2>3. ASSUME IsText(doc), ~Refused, ~(offset > Len(doc.lines)), ReadText PROVE ReadInv'
    <3>1. doc.lines \in Seq(Line) /\ offset \in Nat
      BY <2>0, <2>3, ShownBefore DEF Refused, ReadInv
    <3>2. offset <= Len(doc.lines) /\ Len(doc.lines) \in Nat
      BY <2>3, <3>1
    <3>3. PageSound'
      BY <2>0, <2>3, <3>2, TextStep
    <3>4. begin' = begin /\ limit' = limit
      BY <2>3 DEF ReadText
    <3>5. offset' \in Nat
      <4>1. readPc' = "called" \/ offset' = offset
        BY <2>0, <2>3 DEF ReadText
      <4>2. QED
        BY <3>1, <3>3, <4>1 DEF PageSound
    <3>6. QED
      BY <3>3, <3>4, <3>5 DEF ReadInv, PageSound
  <2>4. QED
    BY <1>1, <2>1, <2>2, <2>3
<1>4. ASSUME Swap PROVE ReadInv'
  <2>1. page = NoPage /\ shown = <<>> /\ readPc' = "image"
        /\ UNCHANGED <<begin, offset, limit, shown, page>>
    BY <1>2, <1>4 DEF Swap
  <2>2. QED
    BY <2>1 DEF ReadInv
<1>5. ASSUME AttachImage PROVE ReadInv'
  <2>1. CASE ReadFails
    BY <1>1, <2>1
  <2>2. CASE ~ReadFails
    <3>1. page = NoPage /\ shown = <<>> /\ readPc' = "done"
          /\ UNCHANGED <<begin, offset, limit, shown, page>>
      BY <1>2, <1>5, <2>2 DEF AttachImage
    <3>2. QED
      BY <3>1 DEF ReadInv
  <2>3. QED
    BY <2>1, <2>2
<1>6. QED
  BY <1>3, <1>4, <1>5 DEF ReadNext

\* The inductive invariant of a file that is read page by page.
THEOREM ReadInvariance == ReadSpec => []ReadInv
<1>1. ReadInv /\ UNCHANGED readVars => ReadInv'
  <2> SUFFICES ASSUME ReadInv, UNCHANGED readVars PROVE ReadInv'
    OBVIOUS
  <2>1. UNCHANGED <<readPc, doc, begin, offset, limit, shown, page, block>>
    BY DEF readVars
  <2>2. PageIsHead => PageIsHead'
    BY <2>1 DEF PageIsHead, LineBudget, IsText
  <2>3. PageSound => PageSound'
    BY <2>1, <2>2 DEF PageSound, IsText
  <2>4. QED
    BY <2>1, <2>3 DEF ReadInv
<1>2. QED
  BY <1>1, ReadInitInv, ReadNextInv, PTL DEF ReadSpec

\* An agent that follows the notes sees every line from the first it asked
\* for, once and in order, whatever the lines and the limits, and an answer
\* without a note reaches the end of the file.  read.rs:81-150.
THEOREM PagesFollow == ReadSpec => []PagesInOrder
<1>1. ReadInv => PagesInOrder
  <2> SUFFICES ASSUME ReadInv, page # NoPage PROVE PagesInOrder
    BY DEF PagesInOrder
  <2>1. PageSound
    BY DEF ReadInv
  <2>2. /\ shown \in Seq(Nat)
        /\ \A i \in 1..Len(shown) : shown[i] \in begin..page.last
        /\ \A i, j \in 1..Len(shown) : i < j => shown[i] < shown[j]
        /\ \A k \in begin..page.last : k \in doc.blank \/ \E i \in 1..Len(shown) : shown[i] = k
    BY <2>1 DEF PageSound, Covers
  <2>3. DOMAIN shown = 1..Len(shown)
    BY <2>2
  <2>4. QED
    BY <2>1, <2>2, <2>3 DEF PagesInOrder, PageSound, ToSet
<1>2. QED
  BY <1>1, ReadInvariance, PTL

\* A page is the head that take_head gives of the rest of the file, and has a
\* note exactly when that head was cut.  read.rs:92-130, truncate.rs:31-63.
THEOREM PagesAreHeads == ReadSpec => []PageIsHead
<1>1. ReadInv => PageIsHead
  BY DEF ReadInv, PageSound, PageIsHead
<1>2. QED
  BY <1>1, ReadInvariance, PTL

\* The variables of a read keep their types: a page never ends before the line
\* above its first.  read.rs:108-196.
THEOREM ReadType == ReadSpec => []ReadTypeOK
<1>1. ReadInv => ReadTypeOK
  <2> SUFFICES ASSUME ReadInv PROVE ReadTypeOK
    OBVIOUS
  <2>1. CASE page = NoPage /\ shown = <<>>
    BY <2>1 DEF ReadInv, ReadTypeOK, NoPage
  <2>2. CASE PageSound
    <3>1. page.first \in Nat /\ page.last \in Nat /\ page.first <= page.last
      BY <2>2 DEF PageSound
    <3>2. shown \in Seq(Nat)
      BY <2>2 DEF PageSound, Covers
    <3>3. QED
      BY <3>1, <3>2 DEF ReadInv, ReadTypeOK
  <2>3. QED
    BY <2>1, <2>2 DEF ReadInv
<1>2. QED
  BY <1>1, ReadInvariance, PTL

-----------------------------------------------------------------------------
(* The tail of an output.                                                  *)

\* What follows the first i elements, cut at j.
LEMMA RestCut ==
    ASSUME NEW S, NEW s \in Seq(S), NEW i \in 0..Len(s), NEW j \in i..Len(s)
    PROVE  SubSeq(s, i + 1, Len(s)) = Cat(SubSeq(s, i + 1, j), SubSeq(s, j + 1, Len(s)))
<1> DEFINE n == Len(s)
           whole == SubSeq(s, i + 1, n)
           left == SubSeq(s, i + 1, j)
           right == SubSeq(s, j + 1, n)
           joined == Cat(left, right)
<1>1. /\ n \in Nat /\ i \in Nat /\ j \in Nat /\ i + 1 \in 1..(n + 1) /\ j + 1 \in 1..(n + 1)
      /\ n \in ((i + 1) - 1)..n /\ j \in ((i + 1) - 1)..n /\ n \in ((j + 1) - 1)..n
      /\ (n - (i + 1)) + 1 = n - i /\ (j - (i + 1)) + 1 = j - i /\ (n - (j + 1)) + 1 = n - j
      /\ (i + 1) - 1 = i /\ (j + 1) - 1 = j /\ i <= j /\ j <= n
  OBVIOUS
<1>2. Part(S, s, i + 1, n, whole)
  BY <1>1, PartIs
<1>3. Part(S, s, i + 1, j, left)
  BY <1>1, PartIs
<1>4. Part(S, s, j + 1, n, right)
  BY <1>1, PartIs
<1> HIDE DEF whole, left, right, n
<1>5. whole \in Seq(S) /\ Len(whole) = n - i /\ \A k \in 1..(n - i) : whole[k] = s[i + k]
  BY <1>1, <1>2 DEF Part
<1>6. left \in Seq(S) /\ Len(left) = j - i /\ \A k \in 1..(j - i) : left[k] = s[i + k]
  BY <1>1, <1>3 DEF Part
<1>7. right \in Seq(S) /\ Len(right) = n - j /\ \A k \in 1..(n - j) : right[k] = s[j + k]
  BY <1>1, <1>4 DEF Part
<1>8. Joins(S, Len(left), left, right, joined)
  BY <1>6, <1>7, CatJoins
<1> HIDE DEF joined
<1>9. /\ joined \in Seq(S) /\ Len(joined) = n - i
      /\ \A k \in 1..(n - i) : joined[k] = IF k <= j - i THEN left[k] ELSE right[k - (j - i)]
  <2>1. (j - i) + (n - j) = n - i
    BY <1>1
  <2>2. QED
    BY <1>6, <1>7, <1>8, <2>1 DEF Joins
<1>10. ASSUME NEW k \in 1..(n - i) PROVE whole[k] = joined[k]
  <2>1. CASE k <= j - i
    <3>1. k \in 1..(j - i)
      BY <1>1, <2>1
    <3>2. QED
      BY <1>5, <1>6, <1>9, <2>1, <3>1
  <2>2. CASE ~(k <= j - i)
    <3>1. k - (j - i) \in 1..(n - j) /\ j + (k - (j - i)) = i + k
      BY <1>1, <2>2
    <3>2. right[k - (j - i)] = s[i + k]
      BY <1>7, <3>1
    <3>3. QED
      BY <1>5, <1>9, <2>2, <3>2
  <2>3. QED
    BY <2>1, <2>2
<1>11. whole = joined
  BY <1>5, <1>9, <1>10, SeqEqual
<1>12. QED
  BY <1>11 DEF whole, joined, left, right, n

\* The end of a line from i + 1 on, and that from j + 1 on.
LEMMA LineEnds ==
    ASSUME NEW line \in Line, NEW i \in 0..Len(line), NEW j \in i..Len(line)
    PROVE  /\ SubSeq(line, i + 1, Len(line)) \in Line /\ SubSeq(line, 1, i) \in Line
           /\ Bytes(line) = Bytes(SubSeq(line, 1, i)) + Bytes(SubSeq(line, i + 1, Len(line)))
           /\ Bytes(SubSeq(line, j + 1, Len(line))) <= Bytes(SubSeq(line, i + 1, Len(line)))
<1> DEFINE n == Len(line)
<1>1. line \in Seq(Nat) /\ n \in Nat /\ i \in Nat /\ j \in Nat /\ 0 \in 0..n /\ i \in 0..n /\ j \in 0..n
      /\ 0 + 1 = 1
  BY DEF Line
<1>2. ASSUME NEW p \in 0..n, NEW q \in p..n PROVE SubSeq(line, p + 1, q) \in Line
  <2>1. p + 1 \in 1..(n + 1) /\ q \in ((p + 1) - 1)..n
    BY <1>1
  <2>2. Part(Nat, line, p + 1, q, SubSeq(line, p + 1, q))
    BY <1>1, <2>1, PartIs
  <2>3. QED
    BY <2>2 DEF Part, Line
<1>3. ASSUME NEW p \in 0..n, NEW q \in p..n
      PROVE  Bytes(SubSeq(line, p + 1, n)) = Bytes(SubSeq(line, p + 1, q)) + Bytes(SubSeq(line, q + 1, n))
  <2>1. SubSeq(line, p + 1, n) = Cat(SubSeq(line, p + 1, q), SubSeq(line, q + 1, n))
    BY <1>1, RestCut
  <2>2. q \in 0..n /\ n \in q..n
    BY <1>1
  <2>3. SubSeq(line, p + 1, q) \in Line /\ SubSeq(line, q + 1, n) \in Line
    BY <1>2, <2>2
  <2>4. QED
    BY <2>1, <2>3, BytesOfCat
<1>4. SubSeq(line, 1, n) = line
  BY <1>1, SubSeqFull
<1>5. i \in 0..n /\ n \in i..n /\ n \in j..n
  BY <1>1
<1>6. SubSeq(line, i + 1, n) \in Line /\ SubSeq(line, i + 1, j) \in Line /\ SubSeq(line, j + 1, n) \in Line
  BY <1>1, <1>2, <1>5
<1>7. SubSeq(line, 1, i) \in Line
  BY <1>1, <1>2
<1>8. Bytes(line) = Bytes(SubSeq(line, 1, i)) + Bytes(SubSeq(line, i + 1, n))
  <2>1. Bytes(SubSeq(line, 0 + 1, n)) = Bytes(SubSeq(line, 0 + 1, i)) + Bytes(SubSeq(line, i + 1, n))
    BY <1>1, <1>3
  <2>2. QED
    BY <1>1, <1>4, <2>1
<1>9. Bytes(SubSeq(line, i + 1, n)) = Bytes(SubSeq(line, i + 1, j)) + Bytes(SubSeq(line, j + 1, n))
  BY <1>3
<1>10. Bytes(SubSeq(line, i + 1, j)) \in Nat /\ Bytes(SubSeq(line, j + 1, n)) \in Nat
  BY <1>6, BytesType
<1>11. Bytes(SubSeq(line, j + 1, n)) <= Bytes(SubSeq(line, i + 1, n))
  BY <1>9, <1>10
<1>12. QED
  BY <1>6, <1>7, <1>8, <1>11

\* The text of one line.
LEMMA OneLine ==
    ASSUME NEW line \in Line
    PROVE  <<line>> \in Seq(Line) /\ Len(<<line>>) = 1 /\ TextBytes(<<line>>) = Bytes(line)
<1>1. <<line>> \in Seq(Line) /\ Len(<<line>>) = 1 /\ <<line>>[1] = line
  OBVIOUS
<1> DEFINE t == <<line>>
<1> HIDE DEF t
<1>2. t \in Seq(Line) /\ Len(t) = 1 /\ t[1] = line
  BY <1>1 DEF t
<1>3. PICK w : Weighs(t, w)
  BY <1>2, WeightsExist
<1>4. 1 \in 1..(Len(t) + 1) /\ 1 \in (1 - 1)..Len(t) /\ 1 \in 1..Len(t) /\ 1 - 1 = 0
  BY <1>2
<1>5. TextBytes(SubSeq(t, 1, 1)) + w[0] = w[1]
  BY <1>2, <1>3, <1>4, TextBytesIs
<1>6. SubSeq(t, 1, 1) = t
  BY <1>2, SubSeqFull
<1>7. w[0] = 0 /\ w[1] = w[0] + Bytes(line) /\ Bytes(line) \in Nat
  BY <1>2, <1>3, <1>4, BytesType DEF Weighs
<1>8. TextBytes(t) \in Nat
  <2>1. 1 \in 1..(Len(t) + 1) /\ 1 \in (1 - 1)..Len(t) /\ 1 \in 1..(1 + 1)
    BY <1>2
  <2>2. TextBytes(SubSeq(t, 1, 1)) \in Nat
    BY <1>2, <2>1, TextBytesGrow
  <2>3. QED
    BY <1>6, <2>2
<1>9. TextBytes(t) = Bytes(line)
  <2>1. TextBytes(t) + w[0] = w[1]
    BY <1>5, <1>6, Zenon
  <2>2. \A u, v \in Nat : u + 0 = 0 + v => u = v
    OBVIOUS
  <2>3. TextBytes(t) + 0 = 0 + Bytes(line)
    BY <1>7, <2>1
  <2>4. QED
    BY <1>7, <1>8, <2>2, <2>3
<1>10. QED
  BY <1>1, <1>9 DEF t

\* Where CutLine cuts: the first boundary that leaves at most max bytes.
LEMMA CutIs ==
    ASSUME NEW line \in Line, NEW max \in Nat, Bytes(line) > max
    PROVE  \E i \in 0..Len(line) :
              /\ CutLine(line, max) = SubSeq(line, i + 1, Len(line))
              /\ Bytes(SubSeq(line, i + 1, Len(line))) <= max
              /\ \A j \in 0..(i - 1) : Bytes(SubSeq(line, j + 1, Len(line))) > max
<1> DEFINE b == Len(line)
           Go == {i \in 0..b : ~(Bytes(SubSeq(line, 1, i)) >= Bytes(line) - max)}
           Fix(g) == g = [i \in 0..Len(line) |->
                            IF Bytes(SubSeq(line, 1, i)) >= Bytes(line) - max THEN i ELSE g[i + 1]]
           cut == CHOOSE g : Fix(g)
           After(i) == Bytes(SubSeq(line, i + 1, Len(line)))
           Before(i) == Bytes(SubSeq(line, 1, i))
<1>1. b \in Nat /\ 0 \in Nat /\ 0 <= b
  BY DEF Line
<1>2. ASSUME NEW i \in 0..b PROVE i \in Go <=> After(i) > max
  <2>1. i \in i..Len(line)
    BY <1>1
  <2>2. /\ SubSeq(line, i + 1, Len(line)) \in Line /\ SubSeq(line, 1, i) \in Line
        /\ Bytes(line) = Before(i) + After(i)
    BY <2>1, LineEnds
  <2>3. Before(i) \in Nat /\ After(i) \in Nat /\ Bytes(line) \in Nat
    BY <2>2, BytesType
  <2>4. i \in Go <=> ~(Before(i) >= Bytes(line) - max)
    OBVIOUS
  <2> HIDE DEF Before, After, Go
  <2>5. QED
    BY <2>2, <2>3, <2>4
<1>3. b \notin Go
  <2>1. SubSeq(line, 1, b) = line
    BY SubSeqFull DEF Line
  <2>2. Bytes(line) \in Nat
    BY BytesType
  <2>3. Bytes(SubSeq(line, 1, b)) = Bytes(line)
    BY <2>1, Zenon
  <2>4. \A u, v \in Nat : u >= u - v
    OBVIOUS
  <2>5. Bytes(SubSeq(line, 1, b)) >= Bytes(line) - max
    BY <2>2, <2>3, <2>4
  <2>6. QED
    BY <2>5
<1>4. Go \in SUBSET (0..b)
  OBVIOUS
<1>5. ASSUME NEW g PROVE Fix(g) <=> Searches(0, b, Go, g)
  <2>1. \A i \in 0..b : i \in Go <=> ~(Bytes(SubSeq(line, 1, i)) >= Bytes(line) - max)
    OBVIOUS
  <2> HIDE DEF Go
  <2>2. QED
    BY <2>1 DEF Searches
<1> HIDE DEF Go, Fix
<1>6. \E g : Searches(0, b, Go, g)
  BY <1>1, <1>3, <1>4, SearchExists
<1>7. Fix(cut)
  BY <1>5, <1>6, Zenon
<1>8. CutLine(line, max) = SubSeq(line, cut[0] + 1, Len(line))
  BY DEF CutLine, Fix
<1> HIDE DEF cut
<1>9. Searches(0, b, Go, cut)
  BY <1>5, <1>7
<1> HIDE DEF After
<1>10. FirstStop(0, b, Go, cut[0])
  <2> HIDE DEF b
  <2>1. QED
    BY <1>1, <1>3, <1>4, <1>9, SearchStops
<1> DEFINE i == cut[0]
<1>11. i \in 0..b /\ i \notin Go /\ \A j \in 0..(i - 1) : j \in Go
  BY <1>10 DEF FirstStop
<1> HIDE DEF i
<1>12. After(i) <= max
  <2>1. ~(After(i) > max)
    BY <1>2, <1>11
  <2>2. i \in i..Len(line)
    BY <1>1, <1>11
  <2>3. SubSeq(line, i + 1, Len(line)) \in Line
    BY <1>11, <2>2, LineEnds
  <2>4. After(i) \in Nat
    BY <2>3, BytesType DEF After
  <2>5. QED
    BY <2>1, <2>4
<1>13. \A j \in 0..(i - 1) : After(j) > max
  <2> SUFFICES ASSUME NEW j \in 0..(i - 1) PROVE After(j) > max
    OBVIOUS
  <2>1. j \in 0..b /\ j \in Go
    BY <1>1, <1>11
  <2>2. QED
    BY <1>2, <2>1
<1>14. CutLine(line, max) = SubSeq(line, i + 1, Len(line))
  BY <1>8 DEF i
<1>15. QED
  BY <1>11, <1>12, <1>13, <1>14 DEF After

\* Where the lines of a tail start: the first, among those the line limit
\* leaves, from which the bytes fit, or the last line.
TailFirst(lines, most) == IF Len(lines) > most THEN Len(lines) - most + 1 ELSE 1

TailStart(lines, most, maxBytes, s) ==
    /\ s \in TailFirst(lines, most)..Len(lines)
    /\ TextBytes(SubSeq(lines, s, Len(lines))) <= maxBytes \/ s = Len(lines)
    /\ \A r \in TailFirst(lines, most)..(s - 1) :
          TextBytes(SubSeq(lines, r, Len(lines))) > maxBytes

\* What take_tail returns of a text that does not fit.
CutTail(lines, most, maxBytes, s) ==
    LET total == Len(lines)
        cut   == Bytes(lines[total]) > maxBytes
    IN  [text |-> IF cut THEN <<CutLine(lines[total], maxBytes)>> ELSE SubSeq(lines, s, total),
         firstLine |-> s, keptLines |-> total - s + 1,
         byteLimited |-> TextBytes(SubSeq(lines, TailFirst(lines, most), total)) > maxBytes,
         cutMidLine |-> cut, truncated |-> TRUE]

LEMMA TailIs ==
    ASSUME NEW lines \in Seq(Line), lines # <<>>, NEW maxLines \in Nat \ {0}, NEW maxBytes \in Nat,
           ~Fitting(lines, maxLines, maxBytes)
    PROVE  \E s : /\ TailStart(lines, maxLines, maxBytes, s)
                  /\ TakeTail(lines, maxLines, maxBytes) = CutTail(lines, maxLines, maxBytes, s)
<1> DEFINE total == Len(lines)
           first == IF Len(lines) > maxLines THEN Len(lines) - maxLines + 1 ELSE 1
           Go == {s \in first..total : ~(TextBytes(SubSeq(lines, s, total)) <= maxBytes \/ s = total)}
           Fix(g) == g = [s \in first..total |->
                            IF TextBytes(SubSeq(lines, s, total)) <= maxBytes \/ s = total
                            THEN s ELSE g[s + 1]]
           start == CHOOSE g : Fix(g)
<1>1. total \in Nat /\ first \in Nat /\ first <= total /\ first >= 1
  <2>1. total \in Nat /\ total # 0
    OBVIOUS
  <2> HIDE DEF total
  <2>2. (IF total > maxLines THEN total - maxLines + 1 ELSE 1) \in 1..total
    BY <2>1
  <2>3. QED
    BY <2>1, <2>2 DEF total
<1>2. first = TailFirst(lines, maxLines)
  BY DEF TailFirst
<1>3. TakeTail(lines, maxLines, maxBytes) = CutTail(lines, maxLines, maxBytes, start[first])
  <2>1. maxLines # 0
    OBVIOUS
  <2>2. QED
    BY <2>1 DEF TakeTail, CutTail, Fitting, TailFirst
<1> HIDE DEF first
<1>4. Go \in SUBSET (first..total) /\ total \notin Go
  BY <1>1
<1>5. ASSUME NEW g PROVE Fix(g) <=> Searches(first, total, Go, g)
  <2>1. \A s \in first..total :
           s \in Go <=> ~(TextBytes(SubSeq(lines, s, total)) <= maxBytes \/ s = total)
    OBVIOUS
  <2> HIDE DEF Go
  <2>2. QED
    BY <2>1 DEF Searches
<1>6. \A s \in first..total : s \in Go <=> ~(TextBytes(SubSeq(lines, s, total)) <= maxBytes \/ s = total)
  OBVIOUS
<1> HIDE DEF Go, Fix
<1>7. \E g : Searches(first, total, Go, g)
  BY <1>1, <1>4, SearchExists
<1>8. Fix(start)
  BY <1>5, <1>7, Zenon
<1> HIDE DEF start
<1>9. Searches(first, total, Go, start)
  BY <1>5, <1>8
<1>10. FirstStop(first, total, Go, start[first])
  <2> HIDE DEF total
  <2>1. QED
    BY <1>1, <1>4, <1>9, SearchStops
<1> DEFINE s == start[first]
<1>11. s \in first..total /\ s \notin Go /\ \A r \in first..(s - 1) : r \in Go
  BY <1>10 DEF FirstStop
<1> HIDE DEF s
<1>12. ASSUME NEW r \in first..(s - 1) PROVE TextBytes(SubSeq(lines, r, total)) > maxBytes
  <2>1. r \in first..total /\ r \in Go
    BY <1>1, <1>11
  <2>2. ~(TextBytes(SubSeq(lines, r, total)) <= maxBytes)
    BY <1>6, <2>1
  <2>3. r \in 1..(total + 1) /\ total \in (r - 1)..total
    BY <1>1, <2>1
  <2>4. total \in (r - 1)..total /\ r \in r..(total + 1)
    BY <1>1, <2>1
  <2>5. TextBytes(SubSeq(lines, r, total)) \in Nat
    BY <2>3, <2>4, TextBytesGrow
  <2>6. QED
    BY <2>2, <2>5
<1>13. TailStart(lines, maxLines, maxBytes, s)
  BY <1>2, <1>6, <1>11, <1>12 DEF TailStart
<1>14. QED
  BY <1>3, <1>13 DEF s

\* The text fits an answer.
Fits(t) == Len(t) <= MaxLines /\ TextBytes(t) <= MaxBytes

\* The ends of a text that begin with a line, and those within its last line.
WholeEnds(lines) == {SubSeq(lines, s, Len(lines)) : s \in 1..Len(lines)}
InnerEnds(lines) ==
    IF Len(lines) = 0 THEN {}
    ELSE {<<SubSeq(lines[Len(lines)], i, Len(lines[Len(lines)]))>> :
              i \in 1..(Len(lines[Len(lines)]) + 1)}

\* kept is the longest end of lines among the candidates that fit, and says so.
LongestOf(lines, candidates, kept) ==
    LET total   == Len(lines)
        fitting == {t \in candidates : Fits(t)}
    IN  /\ kept.truncated
        /\ kept.text \in fitting
        /\ \A t \in fitting : TextBytes(t) <= TextBytes(kept.text)
        /\ total = kept.firstLine + kept.keptLines - 1
        /\ kept.keptLines = Len(kept.text)
        /\ kept.cutMidLine = (kept.text # SubSeq(lines, kept.firstLine, total))
        /\ ~kept.byteLimited => kept.keptLines = MaxLines

\* A text without lines fits.
LEMMA NothingFits == Fits(<<>>)
<1>1. <<>> \in [1..0 -> Seq(Nat)] /\ 0 \in Nat /\ Len(<<>>) = 0 /\ \A i \in 1..0 : <<>>[i] = <<>>
  OBVIOUS
<1>2. FlattenSeq(<<>>) = <<>>
  BY <1>1, FlattenNothing
<1>3. TextBytes(<<>>) = 0
  BY <1>2, BytesOfNothing DEF TextBytes
<1>4. QED
  BY <1>1, <1>3, TruncateAssumption DEF Fits

\* The ends of a text grow towards its beginning.
LEMMA EndsGrow ==
    ASSUME NEW lines \in Seq(Line), NEW k \in 1..Len(lines), NEW m \in k..Len(lines)
    PROVE  /\ SubSeq(lines, k, Len(lines)) \in Seq(Line)
           /\ Len(SubSeq(lines, k, Len(lines))) = Len(lines) - k + 1
           /\ TextBytes(SubSeq(lines, k, Len(lines))) \in Nat
           /\ TextBytes(SubSeq(lines, m, Len(lines))) \in Nat
           /\ TextBytes(SubSeq(lines, m, Len(lines))) <= TextBytes(SubSeq(lines, k, Len(lines)))
<1> DEFINE n == Len(lines)
<1>1. /\ n \in Nat /\ k \in 1..(n + 1) /\ n \in (k - 1)..n /\ m \in k..(n + 1) /\ n \in (m - 1)..n
  OBVIOUS
<1>2. Part(Line, lines, k, n, SubSeq(lines, k, n))
  BY <1>1, PartIs
<1>3. SubSeq(lines, k, n) \in Seq(Line) /\ Len(SubSeq(lines, k, n)) = n - k + 1
  BY <1>2 DEF Part
<1>4. /\ TextBytes(SubSeq(lines, k, n)) \in Nat /\ TextBytes(SubSeq(lines, m, n)) \in Nat
      /\ TextBytes(SubSeq(lines, m, n)) <= TextBytes(SubSeq(lines, k, n))
  BY <1>1, TextBytesGrow
<1>5. QED
  BY <1>3, <1>4

\* The last of them is the last line.
LEMMA LastEnd ==
    ASSUME NEW lines \in Seq(Line), lines # <<>>
    PROVE  /\ lines[Len(lines)] \in Line
           /\ SubSeq(lines, Len(lines), Len(lines)) = <<lines[Len(lines)]>>
           /\ TextBytes(SubSeq(lines, Len(lines), Len(lines))) = Bytes(lines[Len(lines)])
           /\ Bytes(lines[Len(lines)]) \in Nat
<1> DEFINE n == Len(lines)
           x == lines[n]
           end == SubSeq(lines, n, n)
<1>1. n \in Nat /\ n # 0
  OBVIOUS
<1>2. x \in Line
  BY <1>1
<1>3. end = <<x>>
  <2>1. n \in 1..(n + 1) /\ n \in (n - 1)..n /\ n - n + 1 = 1
    BY <1>1
  <2>2. Part(Line, lines, n, n, end)
    BY <2>1, PartIs
  <2> HIDE DEF end
  <2>3. end \in Seq(Line) /\ Len(end) = 1 /\ end[1] = x
    <3>1. 1 \in 1..((n - n) + 1) /\ (n - n) + 1 = 1 /\ (n - 1) + 1 = n
      BY <1>1
    <3>2. end[1] = lines[(n - 1) + 1]
      BY <2>2, <3>1 DEF Part
    <3>3. QED
      BY <2>2, <3>1, <3>2 DEF Part
  <2> HIDE DEF x
  <2>4. QED
    BY <2>3
<1>4. TextBytes(<<x>>) = Bytes(x) /\ Bytes(x) \in Nat
  BY <1>2, OneLine, BytesType
<1>5. TextBytes(end) = Bytes(x)
  BY <1>3, <1>4, Zenon
<1>6. QED
  BY <1>2, <1>3, <1>4, <1>5

\* Some end that begins with a line fits: the longest of those is kept.
LEMMA WholeLinesKept ==
    ASSUME NEW lines \in Seq(Line), lines # <<>>, ~Fits(lines),
           NEW s, TailStart(lines, MaxLines, MaxBytes, s), \E t \in WholeEnds(lines) : Fits(t)
    PROVE  LongestOf(lines, WholeEnds(lines), CutTail(lines, MaxLines, MaxBytes, s))
<1> DEFINE n == Len(lines)
           End(k) == SubSeq(lines, k, n)
           first == TailFirst(lines, MaxLines)
           kept == CutTail(lines, MaxLines, MaxBytes, s)
           cut == Bytes(lines[n]) > MaxBytes
           capped == TextBytes(End(first)) > MaxBytes
<1>1. n \in Nat /\ n # 0 /\ MaxLines \in Nat /\ MaxLines # 0 /\ MaxBytes \in Nat /\ n \in 1..n
  BY TruncateAssumption
<1>2. \A k \in 1..n : \A m \in k..n :
         /\ End(k) \in Seq(Line) /\ Len(End(k)) = n - k + 1
         /\ TextBytes(End(k)) \in Nat /\ TextBytes(End(m)) \in Nat
         /\ TextBytes(End(m)) <= TextBytes(End(k))
  BY EndsGrow
<1>3. TextBytes(End(n)) = Bytes(lines[n]) /\ Bytes(lines[n]) \in Nat
  BY LastEnd
<1>4. /\ first \in 1..n /\ s \in first..n /\ (TextBytes(End(s)) <= MaxBytes \/ s = n)
      /\ \A r \in first..(s - 1) : TextBytes(End(r)) > MaxBytes
  <2>1. (IF n > MaxLines THEN n - MaxLines + 1 ELSE 1) \in 1..n
    BY <1>1
  <2>2. QED
    BY <2>1 DEF TailStart, TailFirst
<1>5. first = IF n > MaxLines THEN n - MaxLines + 1 ELSE 1
  BY DEF TailFirst
<1>6. WholeEnds(lines) = {End(k) : k \in 1..n}
  BY DEF WholeEnds
<1>7. SubSeq(lines, 1, n) = lines
  BY SubSeqFull
<1>8. PICK f \in 1..n : Fits(End(f))
  BY <1>6
<1>9. kept = [text |-> IF cut THEN <<CutLine(lines[n], MaxBytes)>> ELSE End(s),
              firstLine |-> s, keptLines |-> n - s + 1,
              byteLimited |-> capped, cutMidLine |-> cut, truncated |-> TRUE]
  BY DEF CutTail
<1>10. TextBytes(End(1)) = TextBytes(lines)
  BY <1>7, Zenon
<1>0. cut \in BOOLEAN /\ capped \in BOOLEAN
  OBVIOUS
<1> HIDE DEF n, End, first, kept, cut, capped
<1>11. ~cut
  <2>1. n \in f..n
    BY <1>1, <1>8
  <2>2. TextBytes(End(n)) <= TextBytes(End(f)) /\ TextBytes(End(f)) <= MaxBytes
        /\ TextBytes(End(f)) \in Nat /\ TextBytes(End(n)) \in Nat
    BY <1>2, <1>8, <2>1 DEF Fits
  <2>3. QED
    BY <1>1, <1>3, <2>2 DEF cut
<1>12. /\ kept.text = End(s) /\ kept.firstLine = s /\ kept.keptLines = n - s + 1
       /\ kept.byteLimited = capped
       /\ kept.cutMidLine = FALSE /\ kept.truncated = TRUE
  BY <1>0, <1>9, <1>11
<1>13. s \in 1..n /\ s \in s..n /\ s \in Nat /\ first \in Nat /\ first <= s /\ s <= n
  BY <1>1, <1>4
<1>14. Fits(End(s))
  <2>1. TextBytes(End(s)) <= MaxBytes
    <3>1. TextBytes(End(n)) <= MaxBytes
      BY <1>1, <1>3, <1>11 DEF cut
    <3>2. QED
      BY <1>4, <3>1
  <2>2. Len(End(s)) = n - s + 1
    BY <1>2, <1>13
  <2>3. n - s + 1 <= MaxLines
    BY <1>1, <1>5, <1>13
  <2>4. QED
    BY <2>1, <2>2, <2>3 DEF Fits
<1>15. ASSUME NEW k \in 1..n, Fits(End(k)) PROVE TextBytes(End(k)) <= TextBytes(End(s))
  <2>0. k \in k..n /\ k \in Nat /\ k <= n
    BY <1>1
  <2>1. n - k + 1 <= MaxLines /\ TextBytes(End(k)) <= MaxBytes /\ TextBytes(End(k)) \in Nat
    BY <1>2, <1>15, <2>0 DEF Fits
  <2>2. k >= first
    BY <1>1, <1>5, <2>0, <2>1
  <2>3. ~(k < s)
    <3> SUFFICES ASSUME k < s PROVE FALSE
      OBVIOUS
    <3>1. k \in first..(s - 1)
      BY <1>13, <2>0, <2>2
    <3>2. TextBytes(End(k)) > MaxBytes
      BY <1>4, <3>1
    <3>3. QED
      BY <1>1, <2>1, <3>2
  <2>4. k \in s..n
    BY <1>13, <2>0, <2>3
  <2>5. QED
    BY <1>2, <1>13, <2>4
<1>16. ASSUME ~capped PROVE n - s + 1 = MaxLines
  <2>0. first \in 1..n /\ first \in first..n
    BY <1>1, <1>4, <1>13
  <2>1. TextBytes(End(first)) \in Nat
    BY <1>2, <2>0
  <2>2. s = first
    <3> SUFFICES ASSUME s # first PROVE FALSE
      OBVIOUS
    <3>1. first \in first..(s - 1)
      BY <1>13
    <3>2. QED
      BY <1>4, <1>16, <3>1 DEF capped
  <2>3. n > MaxLines
    <3> SUFFICES ASSUME ~(n > MaxLines) PROVE FALSE
      OBVIOUS
    <3>1. first = 1
      BY <1>5
    <3>2. TextBytes(lines) <= MaxBytes
      BY <1>1, <1>10, <1>16, <2>1, <3>1 DEF capped
    <3>3. Len(lines) <= MaxLines
      BY <1>1 DEF n
    <3>4. QED
      BY <3>2, <3>3 DEF Fits
  <2>4. QED
    BY <1>1, <1>5, <2>2, <2>3
<1>17. n = s + (n - s + 1) - 1 /\ Len(End(s)) = n - s + 1
  BY <1>1, <1>2, <1>13
<1>18. QED
  <2> DEFINE fitting == {t \in WholeEnds(lines) : Fits(t)}
  <2>1. End(s) \in fitting
    BY <1>6, <1>13, <1>14
  <2>2. \A t \in fitting : TextBytes(t) <= TextBytes(End(s))
    BY <1>6, <1>15
  <2>3. SubSeq(lines, kept.firstLine, n) = End(s)
    BY <1>12 DEF End
  <2> HIDE DEF fitting
  <2>4. /\ kept.truncated /\ kept.text \in fitting
        /\ \A t \in fitting : TextBytes(t) <= TextBytes(kept.text)
        /\ n = kept.firstLine + kept.keptLines - 1
        /\ kept.keptLines = Len(kept.text)
        /\ kept.cutMidLine = (kept.text # SubSeq(lines, kept.firstLine, n))
        /\ ~kept.byteLimited => kept.keptLines = MaxLines
    BY <1>12, <1>16, <1>17, <2>1, <2>2, <2>3
  <2>5. QED
    BY <2>4 DEF LongestOf, fitting, kept, n

\* None fits: the last line alone is too long, and the longest end of it that
\* begins with a character is kept.
LEMMA InnerEndKept ==
    ASSUME NEW lines \in Seq(Line), lines # <<>>, ~Fits(lines),
           NEW s, TailStart(lines, MaxLines, MaxBytes, s), \A t \in WholeEnds(lines) : ~Fits(t)
    PROVE  LongestOf(lines, InnerEnds(lines), CutTail(lines, MaxLines, MaxBytes, s))
<1> DEFINE n == Len(lines)
           x == lines[n]
           End(k) == SubSeq(lines, k, n)
           Inner(i) == SubSeq(x, i, Len(x))
           first == TailFirst(lines, MaxLines)
           kept == CutTail(lines, MaxLines, MaxBytes, s)
           cut == Bytes(lines[n]) > MaxBytes
           capped == TextBytes(End(first)) > MaxBytes
<1>1. n \in Nat /\ n # 0 /\ MaxLines \in Nat /\ MaxLines # 0 /\ MaxBytes \in Nat /\ n \in 1..n
  BY TruncateAssumption
<1>2. \A k \in 1..n : \A m \in k..n :
         /\ End(k) \in Seq(Line) /\ Len(End(k)) = n - k + 1
         /\ TextBytes(End(k)) \in Nat /\ TextBytes(End(m)) \in Nat
         /\ TextBytes(End(m)) <= TextBytes(End(k))
  BY EndsGrow
<1>3. x \in Line /\ End(n) = <<x>> /\ TextBytes(End(n)) = Bytes(x) /\ Bytes(x) \in Nat
  BY LastEnd
<1>4. /\ first \in 1..n /\ s \in first..n /\ (TextBytes(End(s)) <= MaxBytes \/ s = n)
  <2>1. (IF n > MaxLines THEN n - MaxLines + 1 ELSE 1) \in 1..n
    BY <1>1
  <2>2. QED
    BY <2>1 DEF TailStart, TailFirst
<1>5. WholeEnds(lines) = {End(k) : k \in 1..n}
  BY DEF WholeEnds
<1>6. InnerEnds(lines) = {<<Inner(i)>> : i \in 1..(Len(x) + 1)}
  BY <1>1 DEF InnerEnds
<1>7. kept = [text |-> IF cut THEN <<CutLine(x, MaxBytes)>> ELSE End(s),
              firstLine |-> s, keptLines |-> n - s + 1,
              byteLimited |-> capped, cutMidLine |-> cut, truncated |-> TRUE]
  BY DEF CutTail
<1>8. cut \in BOOLEAN /\ capped \in BOOLEAN
  OBVIOUS
<1>9. Len(x) \in Nat
  BY <1>3 DEF Line
<1>10. \A i \in 0..Len(x) : \A j \in i..Len(x) :
          /\ Inner(i + 1) \in Line
          /\ Bytes(Inner(j + 1)) <= Bytes(Inner(i + 1))
  BY <1>3, LineEnds
<1> HIDE DEF End, first, kept, capped, x, Inner
<1>11. Bytes(x) > MaxBytes
  <2>1. Len(End(n)) = 1
    <3>1. n \in n..n /\ n - n + 1 = 1
      BY <1>1
    <3> HIDE DEF n
    <3>2. QED
      BY <1>1, <1>2, <3>1
  <2>2. ~Fits(End(n))
    BY <1>1, <1>5
  <2>3. ~(TextBytes(End(n)) <= MaxBytes)
    BY <1>1, <2>1, <2>2 DEF Fits
  <2> HIDE DEF n
  <2>4. QED
    BY <1>1, <1>3, <2>3
<1>12. cut = TRUE
  BY <1>8, <1>11 DEF x
<1> HIDE DEF n, cut
<1>13. ASSUME NEW k \in 1..n PROVE TextBytes(End(k)) > MaxBytes
  <2>1. n \in k..n
    BY <1>1
  <2>2. TextBytes(End(n)) <= TextBytes(End(k)) /\ TextBytes(End(k)) \in Nat
    BY <1>2, <2>1
  <2>3. QED
    BY <1>1, <1>3, <1>11, <2>2
<1>14. s = n
  <2>1. s \in 1..n
    BY <1>1, <1>4
  <2>2. TextBytes(End(s)) \in Nat /\ TextBytes(End(s)) > MaxBytes
    <3>1. s \in s..n
      BY <1>1, <2>1
    <3>2. QED
      BY <1>2, <1>13, <2>1, <3>1
  <2>3. QED
    BY <1>1, <1>4, <2>2
<1>15. capped = TRUE
  BY <1>4, <1>8, <1>13 DEF capped
<1>16. PICK i \in 0..Len(x) :
          /\ CutLine(x, MaxBytes) = Inner(i + 1)
          /\ Bytes(Inner(i + 1)) <= MaxBytes
          /\ \A j \in 0..(i - 1) : Bytes(Inner(j + 1)) > MaxBytes
  BY <1>1, <1>3, <1>11, CutIs DEF Inner
<1> DEFINE text == <<Inner(i + 1)>>
<1>17. /\ kept.text = text /\ kept.firstLine = n /\ kept.keptLines = 1
       /\ kept.byteLimited = TRUE /\ kept.cutMidLine = TRUE /\ kept.truncated = TRUE
  <2>1. n - n + 1 = 1
    BY <1>1
  <2>2. QED
    BY <1>7, <1>12, <1>14, <1>15, <1>16, <2>1
<1>18. ASSUME NEW j \in 0..Len(x)
       PROVE  Inner(j + 1) \in Line /\ Len(<<Inner(j + 1)>>) = 1
              /\ TextBytes(<<Inner(j + 1)>>) = Bytes(Inner(j + 1)) /\ Bytes(Inner(j + 1)) \in Nat
  <2>1. j \in j..Len(x)
    BY <1>9
  <2>2. Inner(j + 1) \in Line
    BY <1>10, <2>1
  <2>3. QED
    BY <2>2, OneLine, BytesType
<1>19. Fits(text)
  BY <1>1, <1>16, <1>18 DEF Fits
<1>20. ASSUME NEW j \in 1..(Len(x) + 1), Fits(<<Inner(j)>>)
       PROVE  TextBytes(<<Inner(j)>>) <= TextBytes(text)
  <2>1. j - 1 \in 0..Len(x) /\ (j - 1) + 1 = j /\ j - 1 \in Nat /\ i \in Nat
    BY <1>9
  <2>2. Bytes(Inner(j)) <= MaxBytes /\ TextBytes(<<Inner(j)>>) = Bytes(Inner(j)) /\ Bytes(Inner(j)) \in Nat
    BY <1>18, <1>20, <2>1 DEF Fits
  <2>3. ~(j - 1 < i)
    <3> SUFFICES ASSUME j - 1 < i PROVE FALSE
      OBVIOUS
    <3>1. j - 1 \in 0..(i - 1)
      BY <2>1
    <3>2. Bytes(Inner((j - 1) + 1)) > MaxBytes
      BY <1>16, <3>1
    <3>3. QED
      BY <1>1, <2>1, <2>2, <3>2
  <2>4. j - 1 \in i..Len(x)
    BY <2>1, <2>3, <1>9
  <2>5. Bytes(Inner((j - 1) + 1)) <= Bytes(Inner(i + 1))
    BY <1>10, <2>4
  <2>6. TextBytes(text) = Bytes(Inner(i + 1))
    BY <1>18
  <2>7. QED
    BY <2>1, <2>2, <2>5, <2>6
<1>21. text # <<x>>
  <2>1. Inner(i + 1) # x
    <3> SUFFICES ASSUME Inner(i + 1) = x PROVE FALSE
      OBVIOUS
    <3>1. Bytes(x) <= MaxBytes
      BY <1>16, Zenon
    <3>2. QED
      BY <1>1, <1>3, <1>11, <3>1
  <2>2. <<Inner(i + 1)>>[1] = Inner(i + 1) /\ <<x>>[1] = x
    OBVIOUS
  <2>3. QED
    BY <2>1, <2>2
<1>22. i + 1 \in 1..(Len(x) + 1)
  BY <1>9
<1>23. QED
  <2> DEFINE fitting == {t \in InnerEnds(lines) : Fits(t)}
  <2>1. text \in fitting
    BY <1>6, <1>19, <1>22
  <2>2. \A t \in fitting : TextBytes(t) <= TextBytes(text)
    BY <1>6, <1>20
  <2>3. SubSeq(lines, kept.firstLine, n) = <<x>>
    BY <1>3, <1>17 DEF End
  <2>4. Len(text) = 1
    OBVIOUS
  <2> HIDE DEF fitting, text
  <2>5. n = n + 1 - 1
    BY <1>1
  <2>6. /\ kept.truncated /\ kept.text \in fitting
        /\ \A t \in fitting : TextBytes(t) <= TextBytes(kept.text)
        /\ n = kept.firstLine + kept.keptLines - 1
        /\ kept.keptLines = Len(kept.text)
        /\ ~kept.byteLimited => kept.keptLines = MaxLines
    BY <1>17, <2>1, <2>2, <2>4, <2>5
  <2>7. kept.cutMidLine = (kept.text # SubSeq(lines, kept.firstLine, n))
    <3>1. kept.cutMidLine = TRUE /\ kept.text # SubSeq(lines, kept.firstLine, n)
      BY <1>17, <1>21, <2>3
    <3>2. QED
      BY <3>1
  <2>8. QED
    BY <2>6, <2>7 DEF LongestOf, fitting, kept, n

\* What an answer has collected is the longest end of its output.
TailInv ==
    /\ output \in Seq(Line)
    /\ tailPc = "done" => tail = TakeTail(output, MaxLines, MaxBytes)

\* An answer shows the longest end of an output that keeps to both limits, for
\* every output and all limits, and blames the right one.  truncate.rs:82-133.
THEOREM TailsAreLongest == TailSpec => []TailIsLongest
<1>1. TailInit => TailInv
  BY TruncateAssumption DEF TailInit, TailInv, Line
<1>2. TailInv /\ [Collect]_tailVars => TailInv'
  BY DEF TailInv, Collect, tailVars
<1>3. TailInv => TailIsLongest
  <2> SUFFICES ASSUME TailInv, tailPc = "done" PROVE TailIsLongest
    BY DEF TailIsLongest
  <2> DEFINE candidates == IF \E t \in WholeEnds(output) : Fits(t) THEN WholeEnds(output)
                           ELSE InnerEnds(output)
  <2>1. output \in Seq(Line) /\ tail = TakeTail(output, MaxLines, MaxBytes)
    BY DEF TailInv
  <2>2. MaxLines \in Nat \ {0} /\ MaxBytes \in Nat
    BY TruncateAssumption
  <2>3. Fits(output) => tail = Whole(output)
    BY <2>1, <2>2 DEF TakeTail, Fits
  <2>4. ~Fits(output) => LongestOf(output, candidates, tail)
    <3> SUFFICES ASSUME ~Fits(output) PROVE LongestOf(output, candidates, tail)
      OBVIOUS
    <3>1. output # <<>>
      BY NothingFits
    <3>2. ~Fitting(output, MaxLines, MaxBytes)
      BY DEF Fitting, Fits
    <3>3. PICK s : /\ TailStart(output, MaxLines, MaxBytes, s)
                   /\ tail = CutTail(output, MaxLines, MaxBytes, s)
      BY <2>1, <2>2, <3>1, <3>2, TailIs
    <3>4. CASE \E t \in WholeEnds(output) : Fits(t)
      BY <2>1, <3>1, <3>3, <3>4, WholeLinesKept
    <3>5. CASE ~ \E t \in WholeEnds(output) : Fits(t)
      BY <2>1, <3>1, <3>3, <3>5, InnerEndKept
    <3>6. QED
      BY <3>4, <3>5
  <2>5. candidates = IF \E t \in {SubSeq(output, s, Len(output)) : s \in 1..Len(output)} : Fits(t)
                     THEN {SubSeq(output, s, Len(output)) : s \in 1..Len(output)}
                     ELSE InnerEnds(output)
    BY DEF WholeEnds
  <2> HIDE DEF candidates
  <2>6. QED
    BY <2>3, <2>4, <2>5 DEF TailIsLongest, LongestOf, InnerEnds, Fits
<1>4. QED
  BY <1>1, <1>2, <1>3, PTL DEF TailSpec
=============================================================================
