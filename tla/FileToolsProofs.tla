--------------------------- MODULE FileToolsProofs ---------------------------
(***************************************************************************)
(* Proofs about what the file tools do with their data, for texts of any   *)
(* length over any characters.  An edit: its matches are ranges of the     *)
(* original, found where one text can be meant only; two that share a      *)
(* character are refused; the file is the original with the ranges         *)
(* exchanged.                                                              *)
(***************************************************************************)
EXTENDS FileTools, ReadPagesProofs, PathResolveProofs, SequenceLemmas, FiniteSetTheorems

-----------------------------------------------------------------------------
(* The operators of EditMatch on texts of any characters                   *)

\* The least number of a set is what Min gives.
LEMMA MinIs ==
    ASSUME NEW s \in SUBSET Nat, s # {}
    PROVE  Min(s) \in s /\ \A n \in s : Min(s) <= n
<1>1. \E n \in s : \A k \in s : n <= k
  BY LeastNumber
<1>2. QED
  BY <1>1 DEF Min

\* Endings taken over from the file make of a text a text.
LEMMA AdoptLineEndingsType ==
    ASSUME NEW t \in Seq(Char), NEW crlf \in BOOLEAN
    PROVE  AdoptLineEndings(t, crlf) \in Seq(Char)
<1> DEFINE one == [i \in 1..Len(t) |-> IF CrlfAt(t, i) THEN <<>> ELSE <<t[i]>>]
           lf == FlattenSeq(one)
           two == [i \in 1..Len(lf) |-> IF lf[i] = LF THEN <<CR, LF>> ELSE <<lf[i]>>]
<1>1. CR \in Char /\ LF \in Char
  BY EditAssumption
<1>2. one \in [1..Len(t) -> Seq(Char)] /\ Len(t) \in Nat
  OBVIOUS
<1>3. lf \in Seq(Char)
  BY <1>2, FlattenType
<1> HIDE DEF lf
<1>4. two \in [1..Len(lf) -> Seq(Char)] /\ Len(lf) \in Nat
  BY <1>1, <1>3
<1>5. FlattenSeq(two) \in Seq(Char)
  BY <1>4, FlattenType
<1>6. DOMAIN t = 1..Len(t) /\ DOMAIN lf = 1..Len(lf)
  BY <1>3
<1>7. AdoptLineEndings(t, crlf) = IF ~crlf THEN lf ELSE FlattenSeq(two)
  BY <1>6 DEF AdoptLineEndings, lf
<1>8. QED
  BY <1>3, <1>5, <1>7

\* The run of blanks before a character.
LEMMA BlanksBeforeIs ==
    ASSUME NEW t, NEW i \in Nat, i > 0
    PROVE  BlanksBefore(t, i) \in 1..i /\ \A k \in BlanksBefore(t, i)..(i - 1) : IsBlank(t[k])
<1> DEFINE s == {j \in 1..i : \A k \in j..(i - 1) : IsBlank(t[k])}
<1>1. s \in SUBSET Nat /\ i \in s
  OBVIOUS
<1>2. Min(s) \in s
  BY <1>1, MinIs
<1>3. QED
  BY <1>2 DEF BlanksBefore

\* The pieces of the text t.
PieceOf(t) == [char : Char, from : 1..Len(t), to : 1..Len(t)]

\* Each piece stands for a range of the text around the character it is made of.
LEMMA PieceRange ==
    ASSUME NEW t \in Seq(Char), NEW i \in 1..Len(t)
    PROVE  /\ Piece(t, i) \in Seq(PieceOf(t))
           /\ \A q \in 1..Len(Piece(t, i)) :
                  Piece(t, i)[q].from <= i /\ i <= Piece(t, i)[q].to
<1> DEFINE Of(c, from, to) == [char |-> c, from |-> from, to |-> to]
           Good(s) == /\ s \in Seq(PieceOf(t))
                      /\ \A q \in 1..Len(s) : s[q].from <= i /\ i <= s[q].to
<1>1. \A c \in Char, from \in 1..i, to \in i..Len(t) : Good(<<Of(c, from, to)>>)
  BY DEF PieceOf
<1>2. Good(<<>>)
  OBVIOUS
<1>3. Space \in Char /\ LF \in Char /\ t[i] \in Char
  BY EditAssumption
<1>4. BlanksBefore(t, i) \in 1..i
  BY BlanksBeforeIs
<1>5. (IF CrlfAt(t, i) THEN i + 1 ELSE i) \in i..Len(t)
  BY DEF CrlfAt
<1> DEFINE expanded == Nfkc[AsciiOf[t[i]]]
           every == [k \in DOMAIN expanded |-> Of(expanded[k], i, i)]
<1>6. Good(every)
  <2>1. expanded \in Seq(Char)
    BY <1>3, EditAssumption
  <2> HIDE DEF expanded
  <2>2. DOMAIN expanded = 1..Len(expanded) /\ Len(expanded) \in Nat
    BY <2>1
  <2>3. \A k \in 1..Len(expanded) : Of(expanded[k], i, i) \in PieceOf(t)
    BY <2>1 DEF PieceOf
  <2>4. every \in Seq(PieceOf(t)) /\ Len(every) = Len(expanded)
    BY <2>2, <2>3
  <2>5. QED
    BY <2>2, <2>4
<1> HIDE DEF Good, Of, every
<1>7. Good(Piece(t, i))
  <2> DEFINE atEnd == IF CrlfAt(t, i) THEN i + 1 ELSE i
             start == BlanksBefore(t, i)
  <2>1. Good(<<Of(LF, start, atEnd)>>) /\ Good(<<Of(LF, start, i)>>) /\ Good(<<Of(Space, i, i)>>)
    BY <1>1, <1>3, <1>4, <1>5
  <2> HIDE DEF atEnd, start
  <2>2. QED
    BY <1>2, <1>6, <2>1 DEF Piece, Of, atEnd, start, every
<1>8. QED
  BY <1>7 DEF Good

\* The normalized text of a file: the pieces keep the order of what they
\* stand for, so that two of them span a range.
LEMMA NormalizedRanges ==
    ASSUME NEW t \in Seq(Char)
    PROVE  /\ NormalizedText(t) \in Seq(PieceOf(t))
           /\ \A i, j \in 1..Len(NormalizedText(t)) :
                  i <= j => NormalizedText(t)[i].from <= NormalizedText(t)[j].to
<1> DEFINE n == Len(t)
           seqs == [i \in 1..n |-> Piece(t, i)]
           flat == FlattenSeq(seqs)
<1>1. n \in Nat /\ DOMAIN t = 1..n
  OBVIOUS
<1>2. seqs \in [1..n -> Seq(PieceOf(t))]
  BY PieceRange
<1>3. NormalizedText(t) = flat
  BY <1>1 DEF NormalizedText
<1>4. PICK source : Sources(n, seqs, flat, source)
  BY <1>1, <1>2, FlattenSources
<1>5. flat \in Seq(PieceOf(t))
  BY <1>1, <1>2, FlattenType
<1>6. \A i \in 1..n : seqs[i] = Piece(t, i)
  OBVIOUS
<1> HIDE DEF seqs, flat
<1>7. ASSUME NEW k \in 1..Len(flat)
      PROVE  source[k] \in 1..n /\ flat[k].from <= source[k] /\ source[k] <= flat[k].to
  <2>1. source[k] \in 1..n
    BY <1>4 DEF Sources
  <2>2. PICK q \in 1..Len(seqs[source[k]]) : flat[k] = seqs[source[k]][q]
    BY <1>4 DEF Sources
  <2>3. seqs[source[k]] = Piece(t, source[k])
    BY <1>6, <2>1
  <2>4. QED
    BY <2>1, <2>2, <2>3, PieceRange
<1>8. ASSUME NEW i \in 1..Len(flat), NEW j \in 1..Len(flat), i <= j
      PROVE  flat[i].from <= flat[j].to
  <2>1. source[i] <= source[j]
    BY <1>4, <1>8 DEF Sources
  <2>2. flat[i] \in PieceOf(t) /\ flat[j] \in PieceOf(t)
    BY <1>5, ElementOfSeq
  <2>3. flat[i].from \in Nat /\ flat[j].to \in Nat
    BY <2>2 DEF PieceOf
  <2>4. source[i] \in Nat /\ source[j] \in Nat /\ flat[i].from <= source[i] /\ source[j] <= flat[j].to
    BY <1>1, <1>7
  <2>5. \A p, q, r, s \in Nat : p <= q /\ q <= r /\ r <= s => p <= s
    OBVIOUS
  <2>6. QED
    BY <2>1, <2>3, <2>4, <2>5, Zenon
<1>9. QED
  BY <1>3, <1>5, <1>8

\* What has been normalized of a needle so far.
NeedleState == [chars : Seq(Char), blanks : Nat, cr : BOOLEAN]

\* One character more.
Broken(acc) == Append(acc.chars, LF)
Extended(acc, c) == acc.chars \o [k \in 1..acc.blanks |-> Space] \o Nfkc[AsciiOf[c]]
NeedleStep(acc, c) ==
    CASE c = CR -> [chars |-> Broken(acc), blanks |-> 0, cr |-> TRUE]
      [] c = LF /\ acc.cr -> [acc EXCEPT !.cr = FALSE]
      [] c = LF /\ ~acc.cr -> [acc EXCEPT !.chars = Broken(acc), !.blanks = 0]
      [] IsBlank(c) -> [acc EXCEPT !.blanks = @ + 1, !.cr = FALSE]
      [] OTHER -> [chars |-> Extended(acc, c), blanks |-> 0, cr |-> FALSE]

\* A step leaves what has been normalized a text.
LEMMA NeedleStepType ==
    ASSUME NEW acc \in NeedleState, NEW c \in Char
    PROVE  NeedleStep(acc, c) \in NeedleState
<1>1. acc.chars \in Seq(Char) /\ acc.blanks \in Nat /\ acc.cr \in BOOLEAN
  BY DEF NeedleState
<1>2. Space \in Char /\ LF \in Char
  BY EditAssumption
<1>3. Broken(acc) \in Seq(Char)
  BY <1>1, <1>2 DEF Broken
<1>4. Extended(acc, c) \in Seq(Char)
  <2> DEFINE spaces == [k \in 1..acc.blanks |-> Space]
             more == Nfkc[AsciiOf[c]]
  <2>1. spaces \in Seq(Char)
    BY <1>1, <1>2
  <2>2. more \in Seq(Char)
    BY EditAssumption
  <2>3. Extended(acc, c) = acc.chars \o spaces \o more
    BY DEF Extended
  <2> HIDE DEF spaces, more
  <2>4. QED
    BY <1>1, <2>1, <2>2, <2>3, ConcatProperties
<1> DEFINE Q == Seq(Char)
<1>5. Broken(acc) \in Q /\ Extended(acc, c) \in Q
  BY <1>3, <1>4
<1>6. NeedleState = [chars : Q, blanks : Nat, cr : BOOLEAN]
  BY DEF NeedleState
<1> HIDE DEF Q
<1>7. acc \in [chars : Q, blanks : Nat, cr : BOOLEAN]
  BY <1>6
<1> DEFINE R == [chars : Q, blanks : Nat, cr : BOOLEAN]
           atCr == [chars |-> Broken(acc), blanks |-> 0, cr |-> TRUE]
           afterCr == [acc EXCEPT !.cr = FALSE]
           atLf == [acc EXCEPT !.chars = Broken(acc), !.blanks = 0]
           atBlank == [acc EXCEPT !.blanks = @ + 1, !.cr = FALSE]
           atOther == [chars |-> Extended(acc, c), blanks |-> 0, cr |-> FALSE]
<1>8. atCr \in R /\ afterCr \in R /\ atOther \in R
  BY <1>5, <1>7
<1>9. atLf \in R
  <2>1. [acc EXCEPT !.chars = Broken(acc)] \in R
    BY <1>5, <1>7
  <2> HIDE DEF R
  <2>2. QED
    BY <2>1 DEF R
<1>10. atBlank \in R
  <2>1. [acc EXCEPT !.blanks = @ + 1] \in R
    BY <1>1, <1>7
  <2> HIDE DEF R
  <2>2. QED
    BY <2>1 DEF R
<1> HIDE DEF R, atCr, afterCr, atLf, atBlank, atOther
<1>11. NeedleStep(acc, c) \in R
  BY <1>8, <1>9, <1>10 DEF NeedleStep, atCr, afterCr, atLf, atBlank, atOther
<1>12. QED
  BY <1>6, <1>11 DEF R

\* f gives what the fold keeps of each prefix of a needle.
Needles(t, f) ==
    /\ f[0] = [chars |-> <<>>, blanks |-> 0, cr |-> FALSE]
    /\ \A k \in 1..Len(t) : f[k] = NeedleStep(f[k - 1], t[k])

LEMMA NormalizeCharsIs ==
    ASSUME NEW t \in Seq(Char)
    PROVE  \E f \in [0..Len(t) -> NeedleState] :
               Needles(t, f) /\ NormalizeChars(t) = f[Len(t)].chars
<1> DEFINE n == Len(t)
           base == [chars |-> <<>>, blanks |-> 0, cr |-> FALSE]
           F == [p \in NeedleState \X (1..n) |-> NeedleStep(p[1], t[p[2]])]
           Fix(g) == g = [s \in SUBSET (1..n) |->
                            IF s = {} THEN base ELSE NeedleStep(g[s \ {Max(s)}], t[Max(s)])]
           iter == CHOOSE g : Fix(g)
<1>1. n \in Nat /\ DOMAIN t = 1..n /\ t \in [1..n -> Char]
  OBVIOUS
<1>2. NormalizeChars(t) = iter[1..n].chars
  BY <1>1 DEF NormalizeChars, FoldLeft, MapThenFoldSet, NeedleStep, Broken, Extended
<1>3. base \in NeedleState
  BY DEF NeedleState
<1> HIDE DEF n, base
<1>4. /\ F \in [NeedleState \X (1..n) -> NeedleState]
      /\ \A acc \in NeedleState, i \in 1..n : F[<<acc, i>>] = NeedleStep(acc, t[i])
  <2>1. \A p \in NeedleState \X (1..n) : p[1] \in NeedleState /\ t[p[2]] \in Char
    BY <1>1
  <2>2. F \in [NeedleState \X (1..n) -> NeedleState]
    BY <2>1, NeedleStepType
  <2>3. QED
    BY <2>2
<1> HIDE DEF F
<1>5. PICK g \in [SUBSET (1..n) -> NeedleState] : Folds(n, base, F, g)
  BY <1>1, <1>3, <1>4, FoldExists
<1>6. ASSUME NEW s \in SUBSET (1..n)
      PROVE  g[s] = IF s = {} THEN base ELSE NeedleStep(g[s \ {Max(s)}], t[Max(s)])
  <2> SUFFICES ASSUME s # {} PROVE g[s] = NeedleStep(g[s \ {Max(s)}], t[Max(s)])
    BY <1>5 DEF Folds
  <2>1. s \in SUBSET (0..n)
    OBVIOUS
  <2>2. Max(s) \in 1..n
    BY <1>1, <2>1, GreatestNumber
  <2>3. s \ {Max(s)} \in SUBSET (1..n)
    OBVIOUS
  <2>4. g[s] = F[<<g[s \ {Max(s)}], Max(s)>>] /\ g[s \ {Max(s)}] \in NeedleState
    BY <1>5, <2>3 DEF Folds
  <2>5. QED
    BY <1>4, <2>2, <2>4
<1>7. Fix(iter)
  <2>1. g = [s \in SUBSET (1..n) |-> IF s = {} THEN base ELSE NeedleStep(g[s \ {Max(s)}], t[Max(s)])]
    BY <1>6
  <2>2. \E h : Fix(h)
    BY <2>1
  <2> HIDE DEF Fix
  <2>3. QED
    BY <2>2, Zenon
<1> HIDE DEF iter
<1>8. iter[{}] = base
  BY <1>7
<1>9. ASSUME NEW k \in 1..n PROVE iter[1..k] = NeedleStep(iter[1..(k - 1)], t[k])
  <2> DEFINE s == 1..k
  <2>1. s \in SUBSET (1..n) /\ s # {} /\ Max(s) = k /\ s \ {Max(s)} = 1..(k - 1)
    BY <1>1, IntervalStep
  <2> HIDE DEF s
  <2>2. iter[s] = NeedleStep(iter[s \ {Max(s)}], t[Max(s)])
    BY <1>7, <2>1
  <2>3. QED
    BY <2>1, <2>2, Zenon DEF s
<1> DEFINE T == {k \in 0..n : iter[1..k] \in NeedleState}
<1>10. 0..n \subseteq T
  <2>1. 0 \in T
    BY <1>1, <1>3, <1>8
  <2>2. ASSUME NEW k \in 1..n, k - 1 \in T PROVE k \in T
    BY <1>1, <1>9, <2>2, NeedleStepType
  <2> HIDE DEF T
  <2>3. QED
    BY <1>1, <2>1, <2>2, Climb
<1> DEFINE f == [k \in 0..n |-> iter[1..k]]
<1>11. f \in [0..n -> NeedleState]
  BY <1>10
<1>12. f[0] = base /\ f[n] = iter[1..n] /\ \A k \in 1..n : f[k] = NeedleStep(f[k - 1], t[k])
  <2>1. 1..0 = {} /\ 0 \in 0..n /\ n \in 0..n
    BY <1>1
  <2>2. \A k \in 1..n : k \in 0..n /\ k - 1 \in 0..n
    BY <1>1
  <2>3. QED
    BY <1>8, <1>9, <2>1, <2>2
<1> HIDE DEF f
<1>13. QED
  BY <1>2, <1>11, <1>12 DEF Needles, n, base

\* A normalized needle is a text.
LEMMA NormalizeCharsType ==
    ASSUME NEW t \in Seq(Char)
    PROVE  NormalizeChars(t) \in Seq(Char)
<1>1. PICK f \in [0..Len(t) -> NeedleState] : NormalizeChars(t) = f[Len(t)].chars
  BY NormalizeCharsIs
<1>2. f[Len(t)] \in NeedleState
  <2>1. Len(t) \in 0..Len(t)
    OBVIOUS
  <2>2. QED
    BY <2>1
<1>3. QED
  BY <1>1, <1>2 DEF NeedleState

\* The characters of two lists of pieces, one after the other.
LEMMA CharsJoin ==
    ASSUME NEW t \in Seq(Char), NEW a \in Seq(PieceOf(t)), NEW b \in Seq(PieceOf(t))
    PROVE  Chars(a) \in Seq(Char) /\ Chars(Cat(a, b)) = Cat(Chars(a), Chars(b))
<1> DEFINE P == PieceOf(t)
           ab == Cat(a, b)
           ca == Chars(a)
           cb == Chars(b)
<1>1. \A p \in P : p.char \in Char
  BY DEF PieceOf
<1> HIDE DEF P
<1>2. a \in Seq(P) /\ b \in Seq(P)
  BY DEF P
<1>3. \A s \in Seq(P) : /\ Chars(s) \in Seq(Char) /\ Len(Chars(s)) = Len(s)
                        /\ \A k \in 1..Len(s) : Chars(s)[k] = s[k].char
  <2> TAKE s \in Seq(P)
  <2>1. DOMAIN s = 1..Len(s) /\ Len(s) \in Nat /\ \A k \in 1..Len(s) : s[k] \in P
    OBVIOUS
  <2>2. Chars(s) = [k \in 1..Len(s) |-> s[k].char]
    BY <2>1 DEF Chars
  <2>3. \A k \in 1..Len(s) : s[k].char \in Char
    BY <1>1, <2>1
  <2>4. QED
    BY <2>1, <2>2, <2>3
<1>4. Joins(P, Len(a), a, b, ab)
  BY <1>2, CatJoins
<1>5. ca \in Seq(Char) /\ cb \in Seq(Char) /\ Len(ca) = Len(a) /\ Len(cb) = Len(b)
  BY <1>2, <1>3
<1>6. Joins(Char, Len(ca), ca, cb, Cat(ca, cb))
  BY <1>5, CatJoins
<1> DEFINE cab == Chars(ab)
           joined == Cat(ca, cb)
<1>7. ab \in Seq(P) /\ cab \in Seq(Char) /\ Len(cab) = Len(ab)
  BY <1>3, <1>4 DEF Joins
<1>8. joined \in Seq(Char) /\ Len(joined) = Len(a) + Len(b) /\ Len(ab) = Len(a) + Len(b)
  BY <1>4, <1>5, <1>6 DEF Joins
<1>9. ASSUME NEW k \in 1..(Len(a) + Len(b)) PROVE cab[k] = joined[k]
  <2>1. cab[k] = ab[k].char
    BY <1>3, <1>7, <1>8
  <2>2. CASE k <= Len(a)
    <3>1. k \in 1..Len(a) /\ ab[k] = a[k] /\ joined[k] = ca[k]
      BY <1>2, <1>4, <1>5, <1>6, <2>2 DEF Joins
    <3>2. QED
      BY <1>2, <1>3, <2>1, <3>1
  <2>3. CASE ~(k <= Len(a))
    <3>1. k - Len(a) \in 1..Len(b) /\ ab[k] = b[k - Len(a)] /\ joined[k] = cb[k - Len(a)]
      BY <1>2, <1>4, <1>5, <1>6, <2>3 DEF Joins
    <3>2. QED
      BY <1>2, <1>3, <2>1, <3>1
  <2>4. QED
    BY <2>2, <2>3
<1> HIDE DEF ab, ca, cb, cab, joined
<1>10. cab = joined
  BY <1>7, <1>8, <1>9, SeqEqual
<1>11. QED
  BY <1>5, <1>10 DEF ab, ca, cb, cab, joined

\* What the pieces of a text come to, with and without their ranges.
Normalizes(t, f, h) ==
    /\ Flattens(Len(t), [i \in 1..Len(t) |-> Piece(t, i)], f)
    /\ Flattens(Len(t), [i \in 1..Len(t) |-> Chars(Piece(t, i))], h)
    /\ NormalizedText(t) = f[Len(t)]
    /\ \A k \in 0..Len(t) : h[k] = Chars(f[k])

\* Both exist for every text.
LEMMA NormalizedPieces ==
    ASSUME NEW t \in Seq(Char)
    PROVE  \E f \in [0..Len(t) -> Seq(PieceOf(t))], h \in [0..Len(t) -> Seq(Char)] : Normalizes(t, f, h)
<1> DEFINE n == Len(t)
           P == PieceOf(t)
           seqs == [i \in 1..n |-> Piece(t, i)]
           chars == [i \in 1..n |-> Chars(Piece(t, i))]
<1>1. n \in Nat /\ DOMAIN t = 1..n
  OBVIOUS
<1>2. seqs \in [1..n -> Seq(P)]
  BY PieceRange
<1>3. NormalizedText(t) = FlattenSeq(seqs)
  BY <1>1 DEF NormalizedText
<1>4. PICK f \in [0..n -> Seq(P)] : Flattens(n, seqs, f)
  BY <1>1, <1>2, FlattenExists
<1>5. NormalizedText(t) = f[n]
  BY <1>1, <1>2, <1>3, <1>4, FlattenValue
<1> DEFINE h == [k \in 0..n |-> Chars(f[k])]
<1>6. \A a, b \in Seq(P) : Chars(a) \in Seq(Char) /\ Chars(Cat(a, b)) = Cat(Chars(a), Chars(b))
  BY CharsJoin
<1>7. \A i \in 1..n : i \in 0..n /\ i - 1 \in 0..n /\ seqs[i] \in Seq(P) /\ chars[i] = Chars(seqs[i])
  BY <1>1, <1>2
<1>8. 0 \in 0..n
  BY <1>1
<1> HIDE DEF n, P, seqs, chars
<1>9. h \in [0..n -> Seq(Char)] /\ \A k \in 0..n : h[k] = Chars(f[k])
  BY <1>6
<1>10. h[0] = <<>>
  BY <1>4, <1>8 DEF Flattens, Chars
<1>11. ASSUME NEW i \in 1..n PROVE h[i] = Cat(h[i - 1], chars[i])
  <2>1. f[i] = Cat(f[i - 1], seqs[i]) /\ f[i - 1] \in Seq(P)
    BY <1>4, <1>7 DEF Flattens
  <2>2. Chars(f[i]) = Cat(Chars(f[i - 1]), Chars(seqs[i]))
    BY <1>6, <1>7, <2>1
  <2>3. QED
    BY <1>7, <2>2
<1> HIDE DEF h
<1>12. Flattens(n, chars, h)
  BY <1>10, <1>11 DEF Flattens
<1>13. Normalizes(t, f, h)
  BY <1>4, <1>5, <1>9, <1>12 DEF Normalizes, n, seqs, chars
<1>14. QED
  BY <1>9, <1>13 DEF n, P

\* The characters of a normalized text are those of its pieces, one by one.
LEMMA NormalizedChars ==
    ASSUME NEW t \in Seq(Char)
    PROVE  \E h \in [0..Len(t) -> Seq(Char)] :
               /\ Flattens(Len(t), [i \in 1..Len(t) |-> Chars(Piece(t, i))], h)
               /\ Chars(NormalizedText(t)) = h[Len(t)]
<1>1. PICK f \in [0..Len(t) -> Seq(PieceOf(t))], h \in [0..Len(t) -> Seq(Char)] : Normalizes(t, f, h)
  BY NormalizedPieces
<1>2. Len(t) \in 0..Len(t)
  OBVIOUS
<1>3. QED
  BY <1>1, <1>2 DEF Normalizes

\* The characters that one character of a text becomes.
LEMMA PieceChars ==
    ASSUME NEW t \in Seq(Char), NEW i \in 1..Len(t)
    PROVE  /\ t[i] = CR => Chars(Piece(t, i)) = <<LF>>
           /\ t[i] = LF => Chars(Piece(t, i)) = IF i > 1 /\ t[i - 1] = CR THEN <<>> ELSE <<LF>>
           /\ IsBlank(t[i]) => Chars(Piece(t, i)) = IF IsInner(t, i) THEN <<Space>> ELSE <<>>
           /\ ~IsBlank(t[i]) /\ ~IsBreak(t[i]) => Chars(Piece(t, i)) = Nfkc[AsciiOf[t[i]]]
           /\ Chars(Piece(t, i)) \in Seq(Char)
           /\ IsBlank(t[i]) => ~IsBreak(t[i])
<1>1. CR # LF /\ ~IsBlank(CR) /\ ~IsBlank(LF)
  BY EditAssumption DEF IsBlank
<1>2. \A c, from, to : Chars(<<[char |-> c, from |-> from, to |-> to]>>) = <<c>>
  BY DEF Chars
<1>3. Chars(<<>>) = <<>>
  BY DEF Chars
<1>4. Chars(Piece(t, i)) \in Seq(Char)
  BY PieceRange, CharsJoin
<1>5. CASE t[i] = CR
  <2>1. \E c, from, to : Piece(t, i) = <<[char |-> LF, from |-> from, to |-> to]>>
    BY <1>1, <1>5 DEF Piece
  <2>2. QED
    BY <1>1, <1>2, <1>4, <1>5, <2>1 DEF IsBreak
<1>6. CASE t[i] = LF /\ i > 1 /\ t[i - 1] = CR
  <2>1. Piece(t, i) = <<>>
    BY <1>1, <1>6 DEF Piece
  <2>2. QED
    BY <1>1, <1>3, <1>4, <1>6, <2>1 DEF IsBreak
<1>7. CASE t[i] = LF /\ ~(i > 1 /\ t[i - 1] = CR)
  <2>1. \E c, from, to : Piece(t, i) = <<[char |-> LF, from |-> from, to |-> to]>>
    BY <1>1, <1>7 DEF Piece
  <2>2. QED
    BY <1>1, <1>2, <1>4, <1>7, <2>1 DEF IsBreak
<1>8. CASE IsBlank(t[i])
  <2>1. ~IsBreak(t[i]) /\ t[i] # CR /\ t[i] # LF
    BY <1>1, <1>8 DEF IsBreak
  <2>2. Piece(t, i) = IF IsInner(t, i) THEN <<[char |-> Space, from |-> i, to |-> i]>> ELSE <<>>
    BY <1>8, <2>1 DEF Piece
  <2>3. QED
    BY <1>2, <1>3, <1>4, <1>8, <2>1, <2>2
<1>9. CASE ~IsBlank(t[i]) /\ ~IsBreak(t[i])
  <2> DEFINE expanded == Nfkc[AsciiOf[t[i]]]
             every == [k \in DOMAIN expanded |-> [char |-> expanded[k], from |-> i, to |-> i]]
  <2>1. t[i] # CR /\ t[i] # LF
    BY <1>9 DEF IsBreak
  <2>2. Piece(t, i) = every
    BY <1>9, <2>1 DEF Piece
  <2>3. expanded \in Seq(Char)
    BY EditAssumption
  <2>4. Chars(every) = [k \in DOMAIN expanded |-> expanded[k]]
    BY DEF Chars
  <2> HIDE DEF expanded
  <2>5. [k \in DOMAIN expanded |-> expanded[k]] = expanded
    BY <2>3
  <2>6. QED
    BY <1>4, <1>9, <2>1, <2>2, <2>4, <2>5 DEF expanded
<1>10. QED
  BY <1>5, <1>6, <1>7, <1>8, <1>9 DEF IsBreak

\* What the fold keeps of the first k characters of t, against what the pieces
\* give: blanks that may still be dropped are counted and not yet kept.
Meets(t, h, k, acc) ==
    /\ acc.blanks \in 0..k /\ (acc.cr <=> k > 0 /\ t[k] = CR)
    /\ acc.chars = h[k - acc.blanks]
    /\ \A i \in (k - acc.blanks + 1)..k : IsBlank(t[i])

LEMMA MeetsAnew ==
    ASSUME NEW t, NEW h, NEW k \in Nat, NEW acc, acc.blanks = 0, acc.chars = h[k],
           acc.cr <=> k > 0 /\ t[k] = CR
    PROVE  Meets(t, h, k, acc)
<1>1. 0 \in 0..k /\ k - 0 = k /\ (k - 0 + 1)..k = {}
  OBVIOUS
<1>2. QED
  BY <1>1 DEF Meets

\* Blanks before a break or the end are dropped,
LEMMA BlanksDropped ==
    ASSUME NEW t \in Seq(Char), NEW k \in 1..(Len(t) + 1), NEW i \in 1..(k - 1),
           \A j \in i..(k - 1) : IsBlank(t[j]), k > Len(t) \/ IsBreak(t[k])
    PROVE  Chars(Piece(t, i)) = <<>>
<1>1. i \in 1..Len(t) /\ Len(t) \in Nat
  OBVIOUS
<1>2. k \in 1..Len(t) => ~IsBlank(t[k])
  BY PieceChars
<1>3. ~IsInner(t, i)
  <2> SUFFICES ASSUME NEW j \in i..Len(t), ~IsBlank(t[j]), ~IsBreak(t[j]),
                      \A m \in i..(j - 1) : IsBlank(t[m])
               PROVE  FALSE
    BY DEF IsInner
  <2>1. j \notin i..(k - 1)
    OBVIOUS
  <2>2. j >= k /\ k \in 1..Len(t)
    BY <1>1, <2>1
  <2>3. j # k
    BY <2>2
  <2>4. k \in i..(j - 1)
    BY <1>1, <2>2, <2>3
  <2>5. QED
    BY <1>2, <2>2, <2>4
<1>4. i \in i..(k - 1)
  BY <1>1
<1>5. QED
  BY <1>1, <1>3, <1>4, PieceChars

\* and become spaces before anything else.
LEMMA BlanksKept ==
    ASSUME NEW t \in Seq(Char), NEW k \in 1..Len(t), NEW i \in 1..(k - 1),
           \A j \in i..(k - 1) : IsBlank(t[j]), ~IsBreak(t[k]), ~IsBlank(t[k])
    PROVE  Chars(Piece(t, i)) = <<Space>>
<1>1. i \in 1..Len(t) /\ k \in i..Len(t) /\ i \in i..(k - 1)
  OBVIOUS
<1>2. IsInner(t, i)
  BY <1>1 DEF IsInner
<1>3. QED
  BY <1>1, <1>2, PieceChars

LEMMA NeedleMeets ==
    ASSUME NEW t \in Seq(Char), NEW h \in [0..Len(t) -> Seq(Char)],
           Flattens(Len(t), [i \in 1..Len(t) |-> Chars(Piece(t, i))], h),
           NEW k \in 1..Len(t), NEW acc \in NeedleState, Meets(t, h, k - 1, acc)
    PROVE  Meets(t, h, k, NeedleStep(acc, t[k]))
<1> DEFINE n == Len(t)
           b == acc.blanks
           c == t[k]
           chars == [i \in 1..n |-> Chars(Piece(t, i))]
           next == NeedleStep(acc, c)
<1>1. n \in Nat /\ k \in Nat /\ k \in 1..n /\ c \in Char /\ k - 1 \in 0..n
  OBVIOUS
<1>m. /\ b \in 0..(k - 1) /\ acc.chars = h[k - 1 - b] /\ (acc.cr <=> k - 1 > 0 /\ t[k - 1] = CR)
      /\ \A i \in (k - 1 - b + 1)..(k - 1) : IsBlank(t[i])
  BY DEF Meets
<1> HIDE DEF b
<1>2. /\ b \in 0..(k - 1) /\ acc.chars = h[k - 1 - b] /\ (acc.cr <=> k > 1 /\ t[k - 1] = CR)
      /\ \A i \in (k - b)..(k - 1) : IsBlank(t[i])
  <2>1. k - 1 - b + 1 = k - b /\ (k - 1 > 0 <=> k > 1)
    BY <1>1, <1>m
  <2>2. QED
    BY <1>m, <2>1
<1>3. b \in Nat /\ k - 1 - b \in 0..n /\ k - 1 \in (k - 1 - b)..n
  <2> HIDE DEF n
  <2>1. QED
    BY <1>1, <1>2
<1>4. chars \in [1..n -> Seq(Char)] /\ \A i \in 1..n : chars[i] = Chars(Piece(t, i))
  BY PieceChars
<1>5. /\ IsBlank(c) => ~IsBreak(c)
      /\ c = CR => chars[k] = <<LF>>
      /\ c = LF => chars[k] = IF acc.cr THEN <<>> ELSE <<LF>>
      /\ ~IsBlank(c) /\ ~IsBreak(c) => chars[k] = Nfkc[AsciiOf[c]]
  BY <1>1, <1>2, <1>4, PieceChars
<1>6. CR # LF /\ Space \in Char /\ LF \in Char
  BY EditAssumption
<1> HIDE DEF n, chars
<1>7. Flattens(n, chars, h) /\ h \in [0..n -> Seq(Char)]
  BY DEF n, chars
<1>8. h[k] = Cat(h[k - 1], chars[k]) /\ h[k - 1] \in Seq(Char)
  BY <1>1, <1>7 DEF Flattens
<1>9. ASSUME IsBreak(c) PROVE h[k - 1] = acc.chars
  <2>1. ASSUME NEW i \in (k - 1 - b + 1)..(k - 1) PROVE chars[i] = <<>>
    <3>1. i \in 1..(k - 1) /\ i \in 1..n /\ \A j \in i..(k - 1) : j \in (k - b)..(k - 1)
      BY <1>1, <1>2, <2>1
    <3>2. QED
      BY <1>1, <1>2, <1>4, <1>9, <3>1, BlanksDropped DEF n
  <2>2. AreEmpty(chars, k - 1 - b, k - 1)
    BY <2>1 DEF AreEmpty
  <2>3. h[k - 1] = h[k - 1 - b]
    <3> DEFINE p == k - 1 - b
               q == k - 1
    <3>1. p \in 0..n /\ q \in p..n /\ AreEmpty(chars, p, q) /\ n \in Nat
      BY <1>1, <1>3, <2>2
    <3> HIDE DEF p, q
    <3>2. h[q] = h[p]
      BY <1>4, <1>7, <3>1, FlattenEmptyRun, ZenonT(60)
    <3>3. QED
      BY <3>2 DEF p, q
  <2>4. QED
    BY <1>2, <2>3
<1> DEFINE spaces == [m \in 1..b |-> Space]
<1>10. ASSUME ~IsBlank(c), ~IsBreak(c) PROVE h[k - 1] = acc.chars \o spaces
  <2> DEFINE sp == [m \in 1..n |-> Space]
  <2>1. sp \in Seq(Char) /\ Len(sp) = n
    BY <1>1, <1>6
  <2>2. ASSUME NEW i \in (k - 1 - b + 1)..(k - 1) PROVE chars[i] = <<sp[i]>>
    <3>1. i \in 1..(k - 1) /\ i \in 1..n /\ \A j \in i..(k - 1) : j \in (k - b)..(k - 1)
      BY <1>1, <1>2, <2>2
    <3>2. QED
      BY <1>1, <1>2, <1>4, <1>10, <3>1, BlanksKept DEF n
  <2>3. SubSeq(sp, k - 1 - b + 1, k - 1) = spaces
    <3>1. \A p, q \in 1..n : q = p + b - 1 => SubSeq(sp, p, q) = spaces
      <4> TAKE p, q \in 1..n
      <4> HAVE q = p + b - 1
      <4> DEFINE part == SubSeq(sp, p, q)
      <4>1. part \in Seq(Char) /\ Len(part) = b /\ \A m \in 1..b : part[m] = Space
        <5>1. \A m \in 1..n : sp[m] = Space
          OBVIOUS
        <5> HIDE DEF sp
        <5>2. p \in Nat /\ q \in Nat /\ q - p + 1 = b /\ q <= Len(sp)
          BY <1>1, <1>3, <2>1
        <5>3. part \in Seq(Char) /\ Len(part) = b /\ \A m \in 1..b : part[m] = sp[p + m - 1]
          BY <1>1, <1>3, <2>1, <5>2
        <5>4. \A m \in 1..b : p + m - 1 \in 1..n
          BY <1>1, <1>3, <5>2
        <5>5. QED
          BY <5>1, <5>3, <5>4
      <4>2. spaces \in Seq(Char) /\ Len(spaces) = b /\ \A m \in 1..b : spaces[m] = Space
        BY <1>3, <1>6
      <4> HIDE DEF part, spaces
      <4>3. part = spaces
        BY <4>1, <4>2, SeqEqual
      <4>4. QED
        BY <4>3 DEF part
    <3>2. CASE b = 0
      BY <1>1, <2>1, <3>2
    <3>3. CASE b # 0
      <4>1. k - 1 - b + 1 \in 1..n /\ k - 1 \in 1..n /\ k - 1 = (k - 1 - b + 1) + b - 1
        BY <1>1, <1>2, <3>3
      <4>2. QED
        BY <3>1, <4>1
    <3>4. QED
      BY <3>2, <3>3
  <2> HIDE DEF sp
  <2>4. AreKept(chars, sp, k - 1 - b, k - 1)
    BY <2>2 DEF AreKept
  <2>5. h[k - 1] = h[k - 1 - b] \o SubSeq(sp, k - 1 - b + 1, k - 1)
    BY <1>1, <1>3, <1>4, <1>7, <2>1, <2>4, FlattenKeptRun, ZenonT(60)
  <2>6. QED
    BY <1>2, <2>3, <2>5
<1>11. acc.chars \in Seq(Char) /\ acc.cr \in BOOLEAN
  BY DEF NeedleState
<1>12. CASE c = CR
  <2>1. next = [chars |-> Broken(acc), blanks |-> 0, cr |-> TRUE]
    BY <1>5, <1>6, <1>12 DEF NeedleStep, IsBreak
  <2>2. h[k] = Broken(acc)
    BY <1>5, <1>8, <1>9, <1>11, <1>12, <1>6, AppendIsConcat DEF IsBreak, Broken, Cat
  <2> HIDE DEF next
  <2>3. next.chars = Broken(acc) /\ next.blanks = 0 /\ next.cr = TRUE
    BY <2>1
  <2>4. QED
    BY <1>1, <1>12, <2>2, <2>3, MeetsAnew DEF next
<1>13. CASE c = LF /\ acc.cr
  <2>1. next = [acc EXCEPT !.cr = FALSE]
    BY <1>5, <1>6, <1>13 DEF NeedleStep, IsBreak
  <2>2. b = 0
    <3>1. k > 1 /\ t[k - 1] = CR
      BY <1>2, <1>13
    <3>2. ~IsBlank(t[k - 1])
      BY <3>1, EditAssumption DEF IsBlank
    <3>3. QED
      BY <1>1, <1>2, <3>2
  <2>3. h[k] = acc.chars
    BY <1>5, <1>8, <1>9, <1>11, <1>13, ConcatEmptySeq DEF IsBreak, Cat
  <2> HIDE DEF next
  <2>4. next.chars = acc.chars /\ next.blanks = 0 /\ next.cr = FALSE
    BY <2>1, <2>2 DEF NeedleState, b
  <2>5. QED
    BY <1>1, <1>6, <1>13, <2>3, <2>4, MeetsAnew DEF next
<1>14. CASE c = LF /\ ~acc.cr
  <2>1. next = [acc EXCEPT !.chars = Broken(acc), !.blanks = 0]
    BY <1>5, <1>6, <1>14 DEF NeedleStep, IsBreak
  <2>2. h[k] = Broken(acc)
    BY <1>5, <1>8, <1>9, <1>11, <1>14, <1>6, AppendIsConcat DEF IsBreak, Broken, Cat
  <2> HIDE DEF next
  <2>3. next.chars = Broken(acc) /\ next.blanks = 0 /\ next.cr = FALSE
    BY <1>11, <1>14, <2>1 DEF NeedleState
  <2>4. QED
    BY <1>1, <1>6, <1>14, <2>2, <2>3, MeetsAnew DEF next
<1>15. CASE IsBlank(c)
  <2>1. c # CR /\ c # LF
    BY <1>5, <1>15 DEF IsBreak
  <2>2. next = [acc EXCEPT !.blanks = @ + 1, !.cr = FALSE]
    BY <1>15, <2>1 DEF NeedleStep
  <2> HIDE DEF next
  <2>3. next.chars = acc.chars /\ next.blanks = b + 1 /\ next.cr = FALSE
    BY <2>2 DEF NeedleState, b
  <2>4. \A i \in (k - (b + 1) + 1)..k : IsBlank(t[i])
    <3>1. \A i \in (k - (b + 1) + 1)..k : i = k \/ i \in (k - b)..(k - 1)
      BY <1>1, <1>3
    <3>2. QED
      BY <1>2, <1>15, <3>1
  <2>5. b + 1 \in 0..k /\ k - (b + 1) = k - 1 - b
    BY <1>1, <1>2, <1>3
  <2>6. QED
    BY <1>1, <1>2, <2>1, <2>3, <2>4, <2>5 DEF Meets, next
<1>16. CASE ~IsBlank(c) /\ ~IsBreak(c)
  <2>1. c # CR /\ c # LF
    BY <1>16 DEF IsBreak
  <2>2. next = [chars |-> Extended(acc, c), blanks |-> 0, cr |-> FALSE]
    BY <1>16, <2>1 DEF NeedleStep
  <2>3. h[k] = Extended(acc, c)
    <3> DEFINE before == acc.chars \o spaces
    <3>1. h[k] = h[k - 1] \o Nfkc[AsciiOf[c]] /\ h[k - 1] = before
      BY <1>5, <1>8, <1>10, <1>16 DEF Cat
    <3>2. Extended(acc, c) = before \o Nfkc[AsciiOf[c]]
      BY DEF Extended, b
    <3> HIDE DEF before
    <3>3. QED
      BY <3>1, <3>2
  <2> HIDE DEF next
  <2>4. next.chars = Extended(acc, c) /\ next.blanks = 0 /\ next.cr = FALSE
    BY <2>2
  <2>5. QED
    BY <1>1, <2>1, <2>3, <2>4, MeetsAnew DEF next
<1>17. QED
  BY <1>12, <1>13, <1>14, <1>15, <1>16 DEF IsBreak

\* The one pass over a needle makes of a text what the pieces of it are.
LEMMA NormalizersMeet ==
    ASSUME NEW t \in Seq(Char)
    PROVE  NormalizeChars(t) = Chars(NormalizedText(t))
<1> DEFINE n == Len(t)
           chars == [i \in 1..n |-> Chars(Piece(t, i))]
<1>1. PICK f \in [0..n -> NeedleState] : Needles(t, f) /\ NormalizeChars(t) = f[n].chars
  BY NormalizeCharsIs
<1>2. PICK h \in [0..n -> Seq(Char)] : Flattens(n, chars, h) /\ Chars(NormalizedText(t)) = h[n]
  BY NormalizedChars
<1>3. n \in Nat /\ n \in 0..n
  OBVIOUS
<1> DEFINE T == {k \in 0..n : Meets(t, h, k, f[k])}
<1>4. 0 \in T
  <2>1. f[0] = [chars |-> <<>>, blanks |-> 0, cr |-> FALSE] /\ h[0] = <<>>
    BY <1>1, <1>2 DEF Needles, Flattens
  <2>2. f[0].chars = <<>> /\ f[0].blanks = 0 /\ f[0].cr = FALSE
    BY <2>1
  <2>3. QED
    BY <1>3, <2>1, <2>2, MeetsAnew, SMTT(30)
<1>5. ASSUME NEW k \in 1..n, k - 1 \in T PROVE k \in T
  <2>1. f[k] = NeedleStep(f[k - 1], t[k]) /\ f[k - 1] \in NeedleState /\ Meets(t, h, k - 1, f[k - 1])
    BY <1>1, <1>5 DEF Needles
  <2>2. Meets(t, h, k, NeedleStep(f[k - 1], t[k]))
    BY <1>2, <2>1, NeedleMeets
  <2>3. QED
    BY <1>3, <2>1, <2>2
<1>6. Meets(t, h, n, f[n])
  <2> HIDE DEF T
  <2>1. 0..n \subseteq T
    BY <1>3, <1>4, <1>5, Climb
  <2>2. QED
    BY <1>3, <2>1 DEF T
<1> DEFINE b == f[n].blanks
<1>7. b \in 0..n /\ f[n].chars = h[n - b] /\ \A i \in (n - b + 1)..n : IsBlank(t[i])
  BY <1>6 DEF Meets
<1> HIDE DEF b
<1>8. h[n] = h[n - b]
  <2>1. ASSUME NEW i \in (n - b + 1)..n PROVE chars[i] = <<>>
    <3>1. i \in 1..n /\ i \in 1..((n + 1) - 1) /\ n + 1 \in 1..(n + 1) /\ n + 1 > n
          /\ \A j \in i..((n + 1) - 1) : j \in (n - b + 1)..n
      BY <1>3, <1>7, <2>1
    <3>2. Chars(Piece(t, i)) = <<>>
      BY <1>7, <3>1, BlanksDropped
    <3>3. QED
      BY <3>1, <3>2
  <2>2. chars \in [1..n -> Seq(Char)]
    BY PieceChars
  <2>3. AreEmpty(chars, n - b, n)
    BY <2>1 DEF AreEmpty
  <2>4. n - b \in 0..n /\ n \in (n - b)..n
    BY <1>3, <1>7
  <2> HIDE DEF n, chars
  <2>5. QED
    BY <1>2, <1>3, <2>2, <2>3, <2>4, FlattenEmptyRun
<1>9. QED
  BY <1>1, <1>2, <1>7, <1>8

\* f gives the matches taken up to each position.
Takes(t, p, f) ==
    /\ f[0] = {}
    /\ \A i \in 1..Len(t) :
          f[i] = IF OccursAt(t, p, i) /\ \A j \in f[i - 1] : j + Len(p) <= i
                 THEN f[i - 1] \cup {i} ELSE f[i - 1]

\* MatchIndices gives those taken up to the last position.
LEMMA MatchIndicesValue ==
    ASSUME NEW t \in Seq(Char), NEW p \in Seq(Char)
    PROVE  \E f : Takes(t, p, f) /\ MatchIndices(t, p) = f[Len(t)]
<1> DEFINE n == Len(t)
           Q == SUBSET Nat
           Value(s, i) == IF OccursAt(t, p, i) /\ \A j \in s : j + Len(p) <= i
                          THEN s \cup {i} ELSE s
           F == [q \in Q \X (1..n) |-> Value(q[1], q[2])]
           Fix(g) == g = [i \in 0..n |-> IF i = 0 THEN {} ELSE Value(g[i - 1], i)]
           upTo == CHOOSE g : Fix(g)
<1>1. MatchIndices(t, p) = upTo[n]
  BY DEF MatchIndices
<1>2. n \in Nat
  OBVIOUS
<1>3. \A s \in Q, i \in 1..n : Value(s, i) \in Q
  OBVIOUS
<1>4. {} \in Q
  OBVIOUS
<1>5. \A f : f[0] = {} /\ (\A i \in 1..n : f[i] = Value(f[i - 1], i)) => Takes(t, p, f)
  BY DEF Takes
<1> HIDE DEF n, Q, Value
<1>6. F \in [Q \X (1..n) -> Q] /\ \A s \in Q, i \in 1..n : F[<<s, i>>] = Value(s, i)
  <2>1. \A q \in Q \X (1..n) : q[1] \in Q /\ q[2] \in 1..n
    OBVIOUS
  <2>2. F \in [Q \X (1..n) -> Q]
    BY <1>3, <2>1
  <2>3. QED
    BY <2>2
<1> HIDE DEF F
<1>7. PICK f \in [0..n -> Q] : Recurs(n, {}, F, f)
  BY <1>2, <1>4, <1>6, Recursion
<1>8. Fix(f)
  <2>1. ASSUME NEW i \in 0..n PROVE f[i] = IF i = 0 THEN {} ELSE Value(f[i - 1], i)
    <3>1. CASE i = 0
      BY <1>7, <3>1 DEF Recurs
    <3>2. CASE i # 0
      <4>1. i \in 1..n /\ i - 1 \in 0..n
        BY <1>2, <3>2
      <4>2. f[i] = F[<<f[i - 1], i>>] /\ f[i - 1] \in Q
        BY <1>7, <4>1 DEF Recurs
      <4>3. QED
        BY <1>6, <3>2, <4>1, <4>2
    <3>3. QED
      BY <3>1, <3>2
  <2>2. f = [i \in 0..n |-> f[i]]
    OBVIOUS
  <2>3. QED
    BY <2>1, <2>2
<1>9. Fix(upTo)
  <2> HIDE DEF Fix
  <2>1. QED
    BY <1>8, Zenon
<1>10. upTo[0] = {} /\ \A i \in 1..n : upTo[i] = Value(upTo[i - 1], i)
  <2> HIDE DEF upTo
  <2>1. \A i \in 0..n : upTo[i] = IF i = 0 THEN {} ELSE Value(upTo[i - 1], i)
    BY <1>9
  <2>2. QED
    BY <1>2, <2>1
<1>11. Takes(t, p, upTo)
  BY <1>5, <1>10
<1>12. QED
  BY <1>1, <1>11 DEF n

\* The exact matches are occurrences, and every occurrence begins inside one.
LEMMA MatchIndicesCover ==
    ASSUME NEW t \in Seq(Char), NEW p \in Seq(Char), p # <<>>
    PROVE  /\ MatchIndices(t, p) \subseteq {i \in 1..Len(t) : OccursAt(t, p, i)}
           /\ \A i \in 1..Len(t) : OccursAt(t, p, i) =>
                 \E j \in MatchIndices(t, p) : j <= i /\ i < j + Len(p)
<1> DEFINE n == Len(t)
<1>1. PICK f : Takes(t, p, f) /\ MatchIndices(t, p) = f[n]
  BY MatchIndicesValue
<1>2. n \in Nat /\ Len(p) \in Nat /\ Len(p) # 0
  OBVIOUS
<1> DEFINE Hits(i) == OccursAt(t, p, i)
<1>3. /\ f[0] = {}
      /\ \A i \in 1..n : f[i] = IF Hits(i) /\ \A j \in f[i - 1] : j + Len(p) <= i
                                THEN f[i - 1] \cup {i} ELSE f[i - 1]
  BY <1>1 DEF Takes
<1> DEFINE T == {k \in 0..n : /\ f[k] \subseteq {i \in 1..k : Hits(i)}
                              /\ \A i \in 1..k : Hits(i) => \E j \in f[k] : j <= i /\ i < j + Len(p)}
<1> HIDE DEF n, Hits
<1>4. 0..n \subseteq T
  <2>1. 0 \in T
    BY <1>2, <1>3
  <2>2. ASSUME NEW k \in 1..n, k - 1 \in T PROVE k \in T
    <3>1. f[k - 1] \subseteq {i \in 1..(k - 1) : Hits(i)}
      BY <2>2
    <3>2. \A i \in 1..(k - 1) : Hits(i) => \E j \in f[k - 1] : j <= i /\ i < j + Len(p)
      BY <2>2
    <3>3. CASE Hits(k) /\ \A j \in f[k - 1] : j + Len(p) <= k
      <4>1. f[k] = f[k - 1] \cup {k}
        BY <1>3, <3>3
      <4>2. f[k] \subseteq {i \in 1..k : Hits(i)}
        BY <1>2, <3>1, <3>3, <4>1
      <4>3. ASSUME NEW i \in 1..k, Hits(i) PROVE \E j \in f[k] : j <= i /\ i < j + Len(p)
        <5>1. CASE i = k
          <6>1. k \in f[k] /\ k <= i /\ i < k + Len(p)
            BY <1>2, <4>1, <5>1
          <6>2. QED
            BY <6>1
        <5>2. CASE i # k
          <6>1. i \in 1..(k - 1)
            BY <1>2, <5>2
          <6>2. QED
            BY <3>2, <4>1, <4>3, <6>1
        <5>3. QED
          BY <5>1, <5>2
      <4>4. QED
        BY <4>2, <4>3
    <3>4. CASE ~(Hits(k) /\ \A j \in f[k - 1] : j + Len(p) <= k)
      <4>1. f[k] = f[k - 1]
        BY <1>3, <3>4
      <4>2. f[k] \subseteq {i \in 1..k : Hits(i)}
        BY <1>2, <3>1, <4>1
      <4>3. ASSUME NEW i \in 1..k, Hits(i) PROVE \E j \in f[k] : j <= i /\ i < j + Len(p)
        <5>1. CASE i = k
          <6>1. PICK j \in f[k - 1] : ~(j + Len(p) <= k)
            BY <3>4, <4>3, <5>1
          <6>2. j \in 1..(k - 1)
            BY <3>1
          <6>3. QED
            BY <1>2, <4>1, <5>1, <6>1, <6>2
        <5>2. CASE i # k
          BY <1>2, <3>2, <4>1, <4>3, <5>2
        <5>3. QED
          BY <5>1, <5>2
      <4>4. QED
        BY <4>2, <4>3
    <3>5. QED
      BY <3>3, <3>4
  <2> HIDE DEF T
  <2>3. QED
    BY <1>2, <2>1, <2>2, Climb
<1>5. n \in T
  BY <1>2, <1>4
<1>6. QED
  BY <1>1, <1>5 DEF n, Hits

\* A match is a range of the text, whichever way it was found.
RangeOf(t) == [from : 1..Len(t), to : 1..Len(t)]

\* The same for each candidate of a search.
LEMMA CandidateRange ==
    ASSUME NEW t \in Seq(Char), NEW old \in Seq(Char), old # <<>>,
           NEW c \in Candidates(t, old)
    PROVE  c[2] \in RangeOf(t) /\ c[2].from <= c[2].to
<1> DEFINE exact == {<<i, [from |-> i, to |-> i + Len(old) - 1]>> : i \in MatchIndices(t, old)}
           pieces == NormalizedText(t)
           needle == NormalizeChars(old)
           found == FindAllCharPositions(Chars(pieces), needle)
           normal == {<<i, OriginalRange(pieces, i, i + Len(needle) - 1)>> : i \in found}
<1>1. Len(t) \in Nat /\ Len(old) \in Nat /\ Len(old) # 0
  OBVIOUS
<1>2. CASE c \in exact
  <2>1. PICK i \in MatchIndices(t, old) : c = <<i, [from |-> i, to |-> i + Len(old) - 1]>>
    BY <1>2
  <2>2. i \in 1..Len(t) /\ OccursAt(t, old, i)
    BY <2>1, MatchIndicesCover
  <2>3. i + Len(old) <= Len(t) + 1
    BY <2>2 DEF OccursAt
  <2>4. c[2] = [from |-> i, to |-> i + Len(old) - 1]
    BY <2>1
  <2>5. QED
    BY <1>1, <2>2, <2>3, <2>4 DEF RangeOf
<1>3. CASE c \in normal
  <2>1. pieces \in Seq(PieceOf(t)) /\ \A i, j \in 1..Len(pieces) : i <= j => pieces[i].from <= pieces[j].to
    BY NormalizedRanges
  <2>2. needle \in Seq(Char)
    BY NormalizeCharsType
  <2> HIDE DEF pieces, needle
  <2>3. PICK i \in found : c = <<i, OriginalRange(pieces, i, i + Len(needle) - 1)>>
    BY <1>3
  <2>4. Len(pieces) \in Nat /\ DOMAIN Chars(pieces) = 1..Len(pieces) /\ Len(Chars(pieces)) = Len(pieces)
    BY <2>1 DEF Chars
  <2>5. needle # <<>> /\ i \in 1..Len(pieces) /\ OccursAt(Chars(pieces), needle, i)
    BY <2>3, <2>4 DEF FindAllCharPositions
  <2>6. Len(needle) \in Nat /\ Len(needle) # 0
    BY <2>2, <2>5
  <2>7. i + Len(needle) <= Len(pieces) + 1
    BY <2>4, <2>5 DEF OccursAt
  <2> DEFINE j == i + Len(needle) - 1
  <2>8. j \in 1..Len(pieces) /\ i <= j
    BY <2>4, <2>5, <2>6, <2>7
  <2>9. c[2] = [from |-> pieces[i].from, to |-> pieces[j].to]
    BY <2>3 DEF OriginalRange
  <2> HIDE DEF j
  <2>10. pieces[i] \in PieceOf(t) /\ pieces[j] \in PieceOf(t)
    BY <2>1, <2>5, <2>8, ElementOfSeq
  <2>11. pieces[i].from <= pieces[j].to
    BY <2>1, <2>5, <2>8
  <2>12. QED
    BY <2>9, <2>10, <2>11 DEF PieceOf, RangeOf
<1>4. QED
  BY <1>2, <1>3 DEF Candidates

\* Where a text has been found once, all of its occurrences begin inside the one
\* that was taken.
LEMMA OnlyOnePlace ==
    ASSUME NEW t \in Seq(Char), NEW old \in Seq(Char), old # <<>>,
           ~(Cardinality(Candidates(t, old)) > 1),
           NEW c \in Candidates(t, old), NEW i \in FindAllCharPositions(t, old)
    PROVE  c[2].from \in FindAllCharPositions(t, old) /\ i \in c[2].from..c[2].to
<1> DEFINE taken == MatchIndices(t, old)
           Found(k) == <<k, [from |-> k, to |-> k + Len(old) - 1]>>
           exact == {Found(k) : k \in taken}
<1>1. Len(t) \in Nat /\ Len(old) \in Nat
  OBVIOUS
<1>2. i \in 1..Len(t) /\ OccursAt(t, old, i)
  BY DEF FindAllCharPositions
<1>3. taken \subseteq {k \in 1..Len(t) : OccursAt(t, old, k)}
  BY MatchIndicesCover
<1>4. PICK z \in taken : z <= i /\ i < z + Len(old)
  BY <1>2, MatchIndicesCover
<1> HIDE DEF taken
<1>5. Candidates(t, old) = exact
  BY <1>4 DEF Candidates, taken
<1>6. PICK y \in taken : c = Found(y)
  BY <1>5
<1>7. y = z
  <2> DEFINE g == [k \in taken |-> Found(k)]
  <2>1. IsFiniteSet(1..Len(t))
    BY <1>1, FS_Interval
  <2>2. IsFiniteSet(taken)
    BY <1>3, <2>1, FS_Subset
  <2>3. \A k \in taken : Found(k)[1] = k
    OBVIOUS
  <2> HIDE DEF Found
  <2>4. g \in Surjection(taken, exact)
    BY DEF Surjection
  <2>5. g \in Injection(taken, exact)
    BY <2>3 DEF Injection, IsInjective
  <2> HIDE DEF g, exact
  <2>6. Cardinality(exact) = Cardinality(taken)
    BY <2>2, <2>4, <2>5, FS_Surjection
  <2>7. Cardinality(taken) \in Nat
    BY <2>2, FS_CardinalityType
  <2>8. Cardinality(taken) # 0
    BY <1>4, <2>2, FS_EmptySet
  <2>9. Cardinality(taken) = 1
    BY <1>5, <2>6, <2>7, <2>8
  <2>10. \E w : taken = {w}
    BY <2>2, <2>9, FS_Singleton
  <2>11. QED
    BY <2>10
<1>8. c[2].from = z /\ c[2].to = z + Len(old) - 1
  BY <1>6, <1>7
<1>9. z \in 1..Len(t) /\ OccursAt(t, old, z)
  BY <1>3, <1>4
<1>10. c[2].from \in FindAllCharPositions(t, old)
  BY <1>8, <1>9 DEF FindAllCharPositions
<1>11. i \in c[2].from..c[2].to
  BY <1>1, <1>2, <1>4, <1>8, <1>9
<1>12. QED
  BY <1>10, <1>11

\* The ranges an edit may hold of the text t.
Ranges(t) == {r \in [from : 1..Len(t), to : 1..Len(t), new : Seq(Char)] : r.from <= r.to}

\* No range begins inside another.
Disjoint(ranges) ==
    \A j, k \in DOMAIN ranges : j # k => ranges[j].from \notin ranges[k].from..ranges[k].to

\* In the order of their starts, it is enough to compare neighbours.
LEMMA NeighboursSuffice ==
    ASSUME NEW t \in Seq(Char), NEW ranges \in Seq(Ranges(t)), NEW sorted \in ByStart(ranges)
    PROVE  Disjoint(ranges) <=> ~\E k \in 1..(Len(sorted) - 1) : sorted[k + 1].from <= sorted[k].to
<1> DEFINE n == Len(ranges)
<1>1. n \in Nat /\ DOMAIN ranges = 1..n /\ \A k \in 1..n : ranges[k] \in Ranges(t)
  OBVIOUS
<1>2. \A r \in Ranges(t) : r.from \in Nat /\ r.to \in Nat /\ r.from <= r.to
  BY DEF Ranges
<1> HIDE DEF n
<1>3. PICK o \in Bijection(1..n, 1..n) :
         /\ sorted = [k \in 1..n |-> ranges[o[k]]]
         /\ \A j, k \in 1..n : j < k => ranges[o[j]].from <= ranges[o[k]].from
  BY <1>1 DEF ByStart
<1>4. /\ o \in [1..n -> 1..n]
      /\ \A j, k \in 1..n : o[j] = o[k] => j = k
      /\ \A j \in 1..n : \E k \in 1..n : o[k] = j
  BY DEF Bijection, Injection, Surjection, IsInjective
<1>5. Len(sorted) = n /\ \A k \in 1..n : sorted[k] = ranges[o[k]]
  BY <1>1, <1>3, <1>4
<1>6. ASSUME NEW k \in 1..n
      PROVE  /\ sorted[k].from \in Nat /\ sorted[k].to \in Nat /\ sorted[k].from <= sorted[k].to
             /\ \A j \in 1..n : j < k => sorted[j].from <= sorted[k].from
  <2>1. ranges[o[k]] \in Ranges(t)
    BY <1>1, <1>4
  <2>2. \A j \in 1..n : j < k => sorted[j].from <= sorted[k].from
    BY <1>3, <1>5
  <2>3. QED
    BY <1>2, <1>5, <2>1, <2>2
<1>7. ASSUME NEW k \in 1..(n - 1), sorted[k + 1].from <= sorted[k].to PROVE ~Disjoint(ranges)
  <2>1. k \in 1..n /\ k + 1 \in 1..n /\ k < k + 1 /\ k # k + 1
    BY <1>1
  <2>2. sorted[k].from <= sorted[k + 1].from
    BY <1>6, <2>1
  <2>3. sorted[k + 1].from \in sorted[k].from..sorted[k].to
    BY <1>6, <1>7, <2>1, <2>2
  <2>4. o[k] \in 1..n /\ o[k + 1] \in 1..n /\ o[k + 1] # o[k]
    BY <1>4, <2>1
  <2>5. ranges[o[k + 1]].from \in ranges[o[k]].from..ranges[o[k]].to
    BY <1>5, <2>1, <2>3
  <2>6. QED
    BY <1>1, <2>4, <2>5 DEF Disjoint
<1>8. ASSUME \A k \in 1..(n - 1) : ~(sorted[k + 1].from <= sorted[k].to) PROVE Disjoint(ranges)
  <2>1. ASSUME NEW p \in 1..n, NEW q \in 1..n, p < q PROVE sorted[p].to < sorted[q].from
    <3>1. p \in 1..(n - 1) /\ p + 1 \in 1..n
      BY <1>1, <2>1
    <3>2. sorted[p].to < sorted[p + 1].from
      BY <1>6, <1>8, <3>1
    <3>3. p + 1 = q \/ p + 1 < q
      BY <2>1
    <3>4. sorted[p + 1].from <= sorted[q].from
      BY <1>6, <3>1, <3>3
    <3>5. \A u, v, w \in Nat : u < v /\ v <= w => u < w
      OBVIOUS
    <3>6. QED
      BY <1>6, <3>1, <3>2, <3>4, <3>5
  <2>2. ASSUME NEW j \in 1..n, NEW k \in 1..n, j # k
        PROVE  ranges[j].from \notin ranges[k].from..ranges[k].to
    <3>1. PICK p \in 1..n, q \in 1..n : o[p] = j /\ o[q] = k
      BY <1>4
    <3>2. ranges[j] = sorted[p] /\ ranges[k] = sorted[q]
      BY <1>5, <3>1
    <3>3. p < q \/ q < p
      BY <2>2, <3>1
    <3>4. sorted[p].to < sorted[q].from \/ sorted[q].to < sorted[p].from
      BY <2>1, <3>3
    <3>5. /\ sorted[p].from \in Nat /\ sorted[p].to \in Nat /\ sorted[p].from <= sorted[p].to
          /\ sorted[q].from \in Nat /\ sorted[q].to \in Nat
      BY <1>6
    <3>6. \A u, v, w, y \in Nat : u <= v /\ (v < w \/ y < u) => u \notin w..y
      OBVIOUS
    <3>7. sorted[p].from \notin sorted[q].from..sorted[q].to
      BY <3>4, <3>5, <3>6
    <3>8. QED
      BY <3>2, <3>7
  <2>3. QED
    BY <1>1, <2>2 DEF Disjoint
<1>9. QED
  BY <1>5, <1>7, <1>8

-----------------------------------------------------------------------------
(* The replacements, from the tail to the head                             *)

\* What Spliced says becomes of the character at i.
Inserted(ranges, i) ==
    FlattenSeq([k \in DOMAIN ranges |-> IF ranges[k].from = i THEN ranges[k].new ELSE <<>>])
Kept(t, ranges, i) == IF \E m \in ToSet(ranges) : i \in m.from..m.to THEN <<>> ELSE <<t[i]>>
SplicePiece(t, ranges, i) == Inserted(ranges, i) \o Kept(t, ranges, i)
SplicePieces(t, ranges) == [i \in 1..Len(t) |-> SplicePiece(t, ranges, i)]

\* What is known of the ranges of an edit.
LEMMA RangeFacts ==
    ASSUME NEW t, NEW ranges \in Seq(Ranges(t))
    PROVE  /\ Len(ranges) \in Nat /\ DOMAIN ranges = 1..Len(ranges)
           /\ \A m \in ToSet(ranges) : \E k \in 1..Len(ranges) : m = ranges[k]
           /\ \A k \in 1..Len(ranges) :
                 /\ ranges[k] \in ToSet(ranges) /\ ranges[k].new \in Seq(Char)
                 /\ ranges[k].from \in 1..Len(t) /\ ranges[k].to \in 1..Len(t)
                 /\ ranges[k].from <= ranges[k].to
<1>1. \A k \in 1..Len(ranges) : ranges[k] \in Ranges(t)
  OBVIOUS
<1>2. Len(ranges) \in Nat /\ DOMAIN ranges = 1..Len(ranges)
  OBVIOUS
<1>3. QED
  BY <1>1, <1>2 DEF Ranges, ToSet

\* A piece is a text; where a range begins it is the range's own text.
LEMMA SplicePieceType ==
    ASSUME NEW t \in Seq(Char), NEW ranges \in Seq(Ranges(t)), NEW i \in 1..Len(t)
    PROVE  SplicePiece(t, ranges, i) \in Seq(Char)
<1> DEFINE n == Len(ranges)
           seqs == [k \in 1..n |-> IF ranges[k].from = i THEN ranges[k].new ELSE <<>>]
<1>1. n \in Nat /\ seqs \in [1..n -> Seq(Char)]
  BY RangeFacts
<1>2. FlattenSeq(seqs) \in Seq(Char)
  BY <1>1, FlattenType
<1>3. Inserted(ranges, i) \in Seq(Char)
  BY <1>2, RangeFacts DEF Inserted
<1>4. Kept(t, ranges, i) \in Seq(Char)
  BY DEF Kept
<1>5. QED
  BY <1>3, <1>4, ConcatProperties DEF SplicePiece

\* A character outside every range stays.
LEMMA SplicePieceOutside ==
    ASSUME NEW t \in Seq(Char), NEW ranges \in Seq(Ranges(t)), NEW i \in 1..Len(t),
           \A k \in 1..Len(ranges) : i \notin ranges[k].from..ranges[k].to
    PROVE  SplicePiece(t, ranges, i) = <<t[i]>>
<1> DEFINE n == Len(ranges)
           seqs == [k \in 1..n |-> IF ranges[k].from = i THEN ranges[k].new ELSE <<>>]
<1>1. \A k \in 1..n : ranges[k].from # i
  <2>1. \A p, q \in 1..Len(t) : p <= q => p \in p..q
    OBVIOUS
  <2>2. QED
    BY <2>1, RangeFacts
<1>2. n \in Nat /\ seqs \in [1..n -> Seq(Char)] /\ \A k \in 1..n : seqs[k] = <<>>
  BY <1>1, RangeFacts
<1>3. FlattenSeq(seqs) = <<>>
  BY <1>2, FlattenNothing
<1>4. Inserted(ranges, i) = <<>>
  BY <1>3, RangeFacts DEF Inserted
<1>5. Kept(t, ranges, i) = <<t[i]>>
  BY RangeFacts DEF Kept
<1>6. <<t[i]>> \in Seq(Char)
  OBVIOUS
<1>7. QED
  BY <1>4, <1>5, <1>6, ConcatEmptySeq DEF SplicePiece

\* A range that shares no character with another becomes its text.
LEMMA SplicePieceInside ==
    ASSUME NEW t \in Seq(Char), NEW ranges \in Seq(Ranges(t)), Disjoint(ranges),
           NEW k \in 1..Len(ranges), NEW i \in ranges[k].from..ranges[k].to
    PROVE  SplicePiece(t, ranges, i) = IF i = ranges[k].from THEN ranges[k].new ELSE <<>>
<1> DEFINE n == Len(ranges)
           seqs == [j \in 1..n |-> IF ranges[j].from = i THEN ranges[j].new ELSE <<>>]
<1>1. n \in Nat /\ seqs \in [1..n -> Seq(Char)]
  BY RangeFacts
<1>2. ASSUME NEW j \in 1..n, j # k PROVE ranges[j].from # i
  BY <1>2, RangeFacts DEF Disjoint
<1>3. Kept(t, ranges, i) = <<>>
  BY RangeFacts DEF Kept
<1>4. \A j \in 1..n : j # k => seqs[j] = <<>>
  BY <1>2
<1>5. FlattenSeq(seqs) = seqs[k]
  <2> HIDE DEF n, seqs
  <2>1. k \in 1..n
    BY DEF n
  <2>2. QED
    BY <1>1, <1>4, <2>1, FlattenAlone
<1>6. Inserted(ranges, i) = seqs[k] /\ seqs[k] \in Seq(Char)
  BY <1>1, <1>5, RangeFacts DEF Inserted
<1>7. SplicePiece(t, ranges, i) = seqs[k]
  BY <1>3, <1>6, ConcatEmptySeq DEF SplicePiece
<1>8. QED
  BY <1>7

\* The replacements of all ranges but those of left have been made: the text now
\* is the original up to b and the result from there on.
SplicedTo(t, ranges, left, now, f, b, rest) ==
    /\ f \in [0..Len(t) -> Seq(Char)] /\ Flattens(Len(t), SplicePieces(t, ranges), f)
    /\ b \in 0..Len(t) /\ rest \in Seq(Char)
    /\ now = SubSeq(t, 1, b) \o rest
    /\ f[Len(t)] = f[b] \o rest
    /\ \A k \in 1..Len(ranges) :
          IF ranges[k] \in left THEN ranges[k].to <= b ELSE ranges[k].from > b

Halfway(t, ranges, left, now) ==
    \E f, b, rest : SplicedTo(t, ranges, left, now, f, b, rest)

\* The pieces of a text.
LEMMA PiecesType ==
    ASSUME NEW t \in Seq(Char), NEW ranges \in Seq(Ranges(t))
    PROVE  /\ Len(t) \in Nat /\ SplicePieces(t, ranges) \in [1..Len(t) -> Seq(Char)]
           /\ \A i \in 1..Len(t) : SplicePieces(t, ranges)[i] = SplicePiece(t, ranges, i)
BY SplicePieceType DEF SplicePieces

\* Before the first replacement,
LEMMA SpliceBegins ==
    ASSUME NEW t \in Seq(Char), NEW ranges \in Seq(Ranges(t))
    PROVE  Halfway(t, ranges, ToSet(ranges), t)
<1> DEFINE n == Len(t)
           seqs == SplicePieces(t, ranges)
<1>1. n \in Nat /\ seqs \in [1..n -> Seq(Char)]
  BY PiecesType
<1>2. PICK f \in [0..n -> Seq(Char)] : Flattens(n, seqs, f)
  <2> HIDE DEF n, seqs
  <2>1. QED
    BY <1>1, FlattenExists
<1>3. t = SubSeq(t, 1, n) \o <<>>
  <2>1. SubSeq(t, 1, n) = t
    BY SubSeqFull
  <2>2. t \o <<>> = t
    BY ConcatEmptySeq
  <2>3. QED
    BY <2>1, <2>2
<1>4. f[n] = f[n] \o <<>>
  <2>1. f[n] \in Seq(Char)
    BY <1>1, <1>2
  <2>2. QED
    BY <2>1, ConcatEmptySeq
<1>5. \A k \in 1..Len(ranges) :
         IF ranges[k] \in ToSet(ranges) THEN ranges[k].to <= n ELSE ranges[k].from > n
  BY <1>1, RangeFacts
<1>6. n \in 0..n /\ <<>> \in Seq(Char)
  BY <1>1
<1>7. SplicedTo(t, ranges, ToSet(ranges), t, f, n, <<>>)
  BY <1>2, <1>3, <1>4, <1>5, <1>6 DEF SplicedTo
<1>8. QED
  BY <1>7 DEF Halfway

\* and after the last.
LEMMA SpliceEnds ==
    ASSUME NEW t \in Seq(Char), NEW ranges \in Seq(Ranges(t)), NEW now,
           Halfway(t, ranges, {}, now)
    PROVE  now = FlattenSeq(SplicePieces(t, ranges))
<1> DEFINE n == Len(t)
           seqs == SplicePieces(t, ranges)
<1>1. PICK f, b, rest : SplicedTo(t, ranges, {}, now, f, b, rest)
  BY DEF Halfway
<1>2. /\ f \in [0..n -> Seq(Char)] /\ Flattens(n, seqs, f)
      /\ b \in 0..n /\ now = SubSeq(t, 1, b) \o rest /\ f[n] = f[b] \o rest
      /\ \A k \in 1..Len(ranges) : ranges[k].from > b
  BY <1>1 DEF SplicedTo
<1>3. n \in Nat /\ seqs \in [1..n -> Seq(Char)]
  BY PiecesType
<1>4. ASSUME NEW i \in 1..b PROVE seqs[i] = <<t[i]>>
  <2>1. \A k \in 1..Len(ranges) : ranges[k].from > b /\ ranges[k].from \in Nat /\ ranges[k].to \in Nat
    BY <1>2, <1>3, RangeFacts
  <2>2. \A u, v \in Nat : u > b => i \notin u..v
    BY <1>2
  <2>3. \A k \in 1..Len(ranges) : i \notin ranges[k].from..ranges[k].to
    BY <2>1, <2>2
  <2>4. i \in 1..n
    BY <1>2, <1>3
  <2>5. QED
    BY <2>3, <2>4, SplicePieceOutside, PiecesType
<1>5. f[0] = <<>> /\ 0 \in 0..n /\ b \in 0..n /\ 0 + 1 = 1
  BY <1>2, <1>3 DEF Flattens
<1>6. f[b] = f[0] \o SubSeq(t, 0 + 1, b)
  <2> HIDE DEF seqs
  <2>1. AreKept(seqs, t, 0, b)
    BY <1>4 DEF AreKept
  <2>2. b \in 0..n /\ 0 \in 0..n
    BY <1>5
  <2>3. f \in [0..n -> Seq(Char)] /\ Flattens(n, seqs, f)
    BY <1>2
  <2>4. QED
    BY <1>3, <2>1, <2>2, <2>3, FlattenKeptRun
<1>7. f[b] = SubSeq(t, 1, b)
  <2>1. SubSeq(t, 1, b) \in Seq(Char)
    BY <1>2
  <2>2. <<>> \o SubSeq(t, 1, b) = SubSeq(t, 1, b)
    BY <2>1, ConcatEmptySeq
  <2>3. QED
    BY <1>5, <1>6, <2>2
<1>8. now = f[n]
  BY <1>2, <1>7
<1>9. FlattenSeq(seqs) = f[n]
  <2> HIDE DEF n, seqs
  <2>1. QED
    BY <1>2, <1>3, FlattenValue
<1>10. QED
  BY <1>8, <1>9

\* A range that is the last of those left ends before the rest, and the others
\* end before it.
LEMMA LastRange ==
    ASSUME NEW t \in Seq(Char), NEW ranges \in Seq(Ranges(t)), Disjoint(ranges),
           NEW left, NEW now, NEW f, NEW b, NEW rest,
           SplicedTo(t, ranges, left, now, f, b, rest),
           NEW k \in 1..Len(ranges), ranges[k] \in left,
           \A m \in left : m.from <= ranges[k].from
    PROVE  /\ ranges[k].to <= b
           /\ \A j \in 1..Len(ranges) : j # k =>
                 IF ranges[j] \in left THEN ranges[j].to < ranges[k].from
                                       ELSE ranges[j].from > b
<1>1. \A j \in 1..Len(ranges) :
         IF ranges[j] \in left THEN ranges[j].to <= b ELSE ranges[j].from > b
  BY DEF SplicedTo
<1>2. \A j \in 1..Len(ranges) : ranges[j].from \in Nat /\ ranges[j].to \in Nat /\ ranges[j].from <= ranges[j].to
  <2>1. \A p \in 1..Len(t) : p \in Nat
    OBVIOUS
  <2>2. QED
    BY <2>1, RangeFacts
<1>3. ASSUME NEW j \in 1..Len(ranges), j # k, ranges[j] \in left
      PROVE  ranges[j].to < ranges[k].from
  <2>1. ranges[j].from <= ranges[k].from
    BY <1>3
  <2>2. ranges[k].from \notin ranges[j].from..ranges[j].to
    BY <1>3, RangeFacts DEF Disjoint
  <2>3. \A u, v, w \in Nat : u <= v /\ v \notin u..w => w < v
    OBVIOUS
  <2>4. QED
    BY <1>2, <2>1, <2>2, <2>3
<1>4. QED
  BY <1>1, <1>3

\* One replacement, of the last range left.
LEMMA SpliceGoesOn ==
    ASSUME NEW t \in Seq(Char), NEW ranges \in Seq(Ranges(t)), Disjoint(ranges),
           NEW left \in SUBSET ToSet(ranges), NEW now, Halfway(t, ranges, left, now),
           NEW m \in left, \A other \in left : other.from <= m.from
    PROVE  Halfway(t, ranges, left \ {m},
                   SubSeq(now, 1, m.from - 1) \o m.new \o SubSeq(now, m.to + 1, Len(now)))
<1> DEFINE n == Len(t)
           seqs == SplicePieces(t, ranges)
<1>1. PICK f, b, rest : SplicedTo(t, ranges, left, now, f, b, rest)
  BY DEF Halfway
<1>2. PICK k \in 1..Len(ranges) : m = ranges[k]
  BY RangeFacts
<1> DEFINE from == ranges[k].from
           to == ranges[k].to
           new == ranges[k].new
           run == SubSeq(t, to + 1, b)
<1>3. /\ f \in [0..n -> Seq(Char)] /\ Flattens(n, seqs, f)
      /\ b \in 0..n /\ rest \in Seq(Char)
      /\ now = SubSeq(t, 1, b) \o rest /\ f[n] = f[b] \o rest
  BY <1>1 DEF SplicedTo
<1>4. n \in Nat /\ seqs \in [1..n -> Seq(Char)] /\ \A i \in 1..n : seqs[i] = SplicePiece(t, ranges, i)
  BY PiecesType
<1>5. from \in 1..n /\ to \in 1..n /\ from <= to /\ new \in Seq(Char)
  BY RangeFacts
<1>6. /\ to <= b
      /\ \A j \in 1..Len(ranges) : j # k =>
            IF ranges[j] \in left THEN ranges[j].to < from ELSE ranges[j].from > b
  <2>1. ranges[k] \in left /\ \A other \in left : other.from <= ranges[k].from
    BY <1>2
  <2>2. QED
    BY <1>1, <2>1, LastRange
<1>7. \A j \in 1..Len(ranges) :
         /\ ranges[j].from \in Nat /\ ranges[j].to \in Nat /\ ranges[j].from <= ranges[j].to
  <2>1. \A p \in 1..n : p \in Nat
    BY <1>4
  <2>2. QED
    BY <2>1, RangeFacts
<1> HIDE DEF from, to, new, n, seqs
\* The result up to b: what stood before, the new text, what stands after.
<1>8. f[from] = f[from - 1] \o new
  <2>1. from \in 1..n
    BY <1>5
  <2>2. from \in from..to
    BY <1>4, <1>5
  <2>3. seqs[from] = new
    BY <1>4, <2>1, <2>2, SplicePieceInside DEF from, to, new
  <2>4. QED
    BY <1>3, <2>1, <2>3 DEF Flattens, Cat
<1>9. f[to] = f[from]
  <2>1. ASSUME NEW i \in (from + 1)..to PROVE seqs[i] = <<>>
    <3>1. i \in 1..n /\ i \in from..to /\ i # from
      BY <1>4, <1>5, <2>1
    <3>2. QED
      BY <1>4, <3>1, SplicePieceInside DEF from, to
  <2>2. AreEmpty(seqs, from, to)
    BY <2>1 DEF AreEmpty
  <2>3. from \in 0..n /\ to \in from..n
    BY <1>4, <1>5
  <2>4. QED
    BY <1>3, <1>4, <2>2, <2>3, FlattenEmptyRun, ZenonT(60)
<1>10. f[b] = f[to] \o run
  <2>1. ASSUME NEW i \in (to + 1)..b PROVE seqs[i] = <<t[i]>>
    <3>1. from \in Nat /\ to \in Nat /\ b \in Nat /\ i \in Nat /\ from < i /\ to < i /\ i <= b
      BY <1>3, <1>4, <1>5, <2>1
    <3>2. \A u, v \in Nat : u > b \/ v < from \/ v <= to => i \notin u..v
      BY <3>1
    <3>3. ASSUME NEW j \in 1..Len(ranges) PROVE i \notin ranges[j].from..ranges[j].to
      <4>1. j = k => ranges[j].to <= to
        BY <1>5, <1>4 DEF to
      <4>2. ranges[j].from > b \/ ranges[j].to < from \/ ranges[j].to <= to
        BY <1>6, <4>1
      <4>3. QED
        BY <1>7, <3>2, <4>2
    <3>4. i \in 1..n
      BY <1>3, <1>4, <1>5, <2>1
    <3>5. SplicePiece(t, ranges, i) = <<t[i]>>
      BY <3>3, <3>4, SplicePieceOutside, Zenon DEF n
    <3>6. QED
      BY <1>4, <3>4, <3>5
  <2>2. AreKept(seqs, t, to, b)
    BY <2>1 DEF AreKept
  <2>3. to \in 0..n /\ b \in to..n
    BY <1>3, <1>4, <1>5, <1>6
  <2>4. QED
    BY <1>3, <1>4, <2>2, <2>3, FlattenKeptRun DEF n
<1>11. run \in Seq(Char)
  <2>1. \A i \in (to + 1)..b : t[i] \in Char
    BY <1>3, <1>4, <1>5 DEF n
  <2>2. to + 1 \in Int /\ b \in Int
    BY <1>3, <1>4, <1>5
  <2>3. QED
    BY <2>1, <2>2, SubSeqProperties
\* The text: the same three parts.
<1> DEFINE p == from - 1
           start == SubSeq(t, 1, p)
           more == Cat(new, Cat(run, rest))
           after == SubSeq(now, 1, m.from - 1) \o m.new \o SubSeq(now, m.to + 1, Len(now))
<1>12. p \in 0..b /\ to \in p..b /\ p \in 0..n /\ b \in 0..Len(t)
  BY <1>3, <1>4, <1>5, <1>6 DEF n
<1>13. SubSeq(now, 1, p) = start /\ SubSeq(now, to + 1, Len(now)) = Cat(run, rest)
  <2> HIDE DEF p
  <2>1. rest \in Seq(Char) /\ b \in 0..Len(t) /\ p \in 0..b /\ to \in p..b
    BY <1>3, <1>12
  <2>2. Cuts(t, b, rest, SubSeq(t, 1, b) \o rest, p, to)
    BY <2>1, CutAround
  <2>3. Cuts(t, b, rest, now, p, to)
    BY <1>3, <2>2
  <2>4. QED
    BY <2>3 DEF Cuts
<1>14. start \in Seq(Char)
  BY <1>12
<1> HIDE DEF start, run
<1>15. after = Cat(Cat(start, new), Cat(run, rest))
  BY <1>2, <1>13 DEF from, to, new, Cat
<1> DEFINE Q == Seq(Char)
<1>16. /\ \A s, u, v \in Q : Cat(Cat(s, u), v) = Cat(s, Cat(u, v))
       /\ \A s, u \in Q : Cat(s, u) \in Q
  <2>1. \A s, u, v \in Seq(Char) : Cat(Cat(s, u), v) = Cat(s, Cat(u, v))
    BY CatLaws
  <2>2. ASSUME NEW s \in Seq(Char), NEW u \in Seq(Char) PROVE s \o u \in Seq(Char)
    OBVIOUS
  <2>3. QED
    BY <2>1, <2>2 DEF Cat
<1>17. start \in Q /\ new \in Q /\ run \in Q /\ rest \in Q /\ f[p] \in Q
  BY <1>3, <1>5, <1>11, <1>12, <1>14
<1>18. f[n] = Cat(Cat(Cat(f[p], new), run), rest)
  BY <1>3, <1>8, <1>9, <1>10 DEF Cat
<1> HIDE DEF p, after, Q
<1>19. after = Cat(start, more) /\ f[n] = Cat(f[p], more) /\ more \in Q
  <2>1. Cat(run, rest) \in Q /\ Cat(f[p], new) \in Q
    BY <1>16, <1>17
  <2>2. Cat(Cat(Cat(f[p], new), run), rest) = Cat(Cat(f[p], new), Cat(run, rest))
    BY <1>16, <1>17, <2>1
  <2>3. Cat(Cat(start, new), Cat(run, rest)) = Cat(start, more)
    BY <1>16, <1>17, <2>1
  <2>4. Cat(Cat(f[p], new), Cat(run, rest)) = Cat(f[p], more)
    BY <1>16, <1>17, <2>1, ZenonT(60)
  <2>5. more \in Q
    BY <1>16, <1>17, <2>1
  <2>6. QED
    BY <1>15, <1>18, <2>2, <2>3, <2>4, <2>5, Zenon
<1>20. ASSUME NEW j \in 1..Len(ranges)
       PROVE  IF ranges[j] \in left \ {m} THEN ranges[j].to <= p ELSE ranges[j].from > p
  <2>1. CASE j = k
    <3>1. ranges[j] \notin left \ {m} /\ ranges[j].from = from
      BY <1>2, <2>1 DEF from
    <3>2. from > p
      BY <1>4, <1>5 DEF p
    <3>3. QED
      BY <3>1, <3>2
  <2>2. CASE j # k
    <3>1. CASE ranges[j] \in left
      <4>1. ranges[j].to < from /\ ranges[j].to \in Nat /\ ranges[j].from \in Nat
        BY <1>6, <1>7, <2>2, <3>1
      <4>2. ranges[j].from # from
        <5>1. \A u, v, w \in Nat : u <= v /\ v < w => u # w
          OBVIOUS
        <5>2. from \in Nat
          BY <1>4, <1>5
        <5>3. QED
          BY <1>7, <4>1, <5>1, <5>2
      <4>3. ranges[j] # m
        BY <1>2, <4>2 DEF from
      <4>4. \A u \in Nat : u < from => u <= p
        BY <1>4, <1>5 DEF p
      <4>5. QED
        BY <3>1, <4>1, <4>3, <4>4
    <3>2. CASE ranges[j] \notin left
      <4>1. ranges[j].from > b /\ ranges[j].from \in Nat
        BY <1>6, <1>7, <2>2, <3>2
      <4>2. \A u \in Nat : u > b => u > p
        BY <1>3, <1>4, <1>12
      <4>3. QED
        BY <3>2, <4>1, <4>2
    <3>3. QED
      BY <3>1, <3>2
  <2>3. QED
    BY <2>1, <2>2
<1>21. SplicedTo(t, ranges, left \ {m}, after, f, p, more)
  <2> HIDE DEF more
  <2>1. /\ p \in 0..Len(t) /\ more \in Seq(Char) /\ after = SubSeq(t, 1, p) \o more
        /\ f[Len(t)] = f[p] \o more
    BY <1>12, <1>19 DEF Q, n, Cat, start
  <2>2. f \in [0..Len(t) -> Seq(Char)] /\ Flattens(Len(t), SplicePieces(t, ranges), f)
    BY <1>3 DEF n, seqs
  <2>3. QED
    BY <1>20, <2>1, <2>2 DEF SplicedTo
<1>22. QED
  BY <1>21 DEF Halfway, after

-----------------------------------------------------------------------------
(* The call                                                                *)

\* The values of the variables: every match is a range of the original.
EditData ==
    /\ editPc \in {"idle", "called", "match", "apply", "ok", "error"}
    /\ refusal \in {"none", "empty", "notFound", "multiple", "overlap", "noChange"}
    /\ file \in Seq(Char) /\ original \in Seq(Char) /\ text \in Seq(Char)
    /\ edits \in Seq([old : Seq(Char), new : Seq(Char)])
    /\ matches \in Seq(Ranges(Content)) /\ Len(matches) <= Len(edits)
    /\ pending \in SUBSET ToSet(matches)

\* What holds at each point of the call: while ranges are applied they share no
\* character, and the text is the original up to the next one and the result
\* from there on.
EditPhase ==
    /\ editPc = "called" => matches = <<>>
    /\ editPc = "match" => pending = {} /\ \A k \in DOMAIN edits : edits[k].old # <<>>
    /\ editPc # "error" => refusal = "none"
    /\ editPc = "apply" => Halfway(Content, matches, pending, text)

\* The check finds just the ranges that share a character.
OverlapFound ==
    /\ editPc \in {"apply", "ok"} => Disjoint(matches)
    /\ refusal = "overlap" => ~Disjoint(matches)

EditInv == EditData /\ EditPhase /\ OverlapFound /\ OldTextIsUnique /\ Spliced

LEMMA OverlapIs == OverlapFound => OverlapIsRefused
BY DEF OverlapFound, OverlapIsRefused, Disjoint

\* What is edited is a text.
LEMMA ContentType ==
    ASSUME original \in Seq(Char) PROVE Content \in Seq(Char)
<1>1. CASE original # <<>>
  BY <1>1, HeadTailProperties DEF Content, StripBom
<1>2. CASE original = <<>>
  BY <1>2 DEF Content, StripBom, HasBom
<1>3. QED
  BY <1>1, <1>2

\* A call begins with the invariant.
LEMMA InitEditInv == EditInit => EditInv
<1> SUFFICES ASSUME EditInit PROVE EditInv
  OBVIOUS
<1>1. /\ editPc = "called" /\ original = <<>> /\ matches = <<>> /\ pending = {} /\ text = <<>>
      /\ refusal = "none"
  BY DEF EditInit
<1>2. file \in Seq(Char) /\ edits \in Seq([old : Seq(Char), new : Seq(Char)])
  <2>1. PICK input \in EditInput : file = input.file /\ edits = input.edits
    BY DEF EditInit
  <2>2. input \in [file : Seq(Char), edits : Seq([old : Seq(Char), new : Seq(Char)])]
    BY EditAssumption
  <2>3. QED
    BY <2>1, <2>2
<1>3. EditData
  <2>1. matches \in Seq(Ranges(Content)) /\ Len(matches) = 0 /\ Len(edits) \in Nat
    BY <1>1, <1>2
  <2>2. original \in Seq(Char) /\ text \in Seq(Char)
    BY <1>1
  <2>3. QED
    BY <1>1, <1>2, <2>1, <2>2 DEF EditData
<1>4. EditPhase /\ OverlapFound /\ Spliced
  BY <1>1 DEF EditPhase, OverlapFound, Spliced
<1>5. OldTextIsUnique
  BY <1>1 DEF OldTextIsUnique
<1>6. QED
  BY <1>3, <1>4, <1>5 DEF EditInv

\* A refusal changes nothing but the outcome; for an overlap there must be one.
LEMMA RefuseStep ==
    ASSUME EditInv, editPc \in {"called", "match", "apply"},
           NEW why \in {"empty", "notFound", "multiple", "overlap", "noChange"},
           why = "overlap" => ~Disjoint(matches), Refuse(why)
    PROVE  EditInv'
<1>1. /\ editPc' = "error" /\ refusal' = why
      /\ file' = file /\ edits' = edits /\ original' = original
      /\ matches' = matches /\ pending' = pending /\ text' = text
  BY DEF Refuse
<1>2. Content' = Content
  BY <1>1 DEF Content
<1>3. EditData'
  BY <1>1, <1>2 DEF EditInv, EditData
<1>4. EditPhase' /\ Spliced'
  BY <1>1 DEF EditPhase, Spliced
<1>5. OldTextIsUnique'
  BY <1>1, <1>2 DEF EditInv, OldTextIsUnique
<1>6. OverlapFound'
  BY <1>1 DEF OverlapFound, Disjoint
<1>7. QED
  BY <1>3, <1>4, <1>5, <1>6 DEF EditInv

\* Each action keeps the invariant.
LEMMA EditStartStep == EditInv /\ EditStart => EditInv'
<1> SUFFICES ASSUME EditInv, EditStart PROVE EditInv'
  OBVIOUS
<1>1. editPc = "called" /\ matches = <<>> /\ pending \in SUBSET ToSet(matches)
  BY DEF EditStart, EditInv, EditPhase, EditData
<1>2. CASE edits = <<>> \/ \E k \in DOMAIN edits : edits[k].old = <<>>
  <2>1. Refuse("empty")
    BY <1>2 DEF EditStart
  <2>2. QED
    BY <1>1, <2>1, RefuseStep
<1>3. CASE ~(edits = <<>> \/ \E k \in DOMAIN edits : edits[k].old = <<>>)
  <2>1. /\ editPc' = "match" /\ original' = file /\ file' = file /\ edits' = edits
        /\ matches' = matches /\ pending' = pending /\ text' = text /\ refusal' = refusal
    BY <1>3 DEF EditStart
  <2>2. pending = {}
    BY <1>1 DEF ToSet
  <2>3. matches' \in Seq(Ranges(Content'))
    BY <1>1, <2>1
  <2>4. EditData'
    BY <2>1, <2>3 DEF EditInv, EditData
  <2>5. EditPhase'
    BY <1>1, <1>3, <2>1, <2>2 DEF EditInv, EditPhase
  <2>6. OverlapFound' /\ OldTextIsUnique' /\ Spliced'
    <3>1. refusal' = "none"
      BY <1>1, <2>1 DEF EditInv, EditPhase
    <3>2. DOMAIN matches' = {}
      BY <1>1, <2>1
    <3>3. OverlapFound' /\ Spliced'
      BY <2>1, <3>1 DEF OverlapFound, Spliced
    <3>4. OldTextIsUnique'
      BY <3>2 DEF OldTextIsUnique
    <3>5. QED
      BY <3>3, <3>4
  <2>7. QED
    BY <2>4, <2>5, <2>6 DEF EditInv
<1>4. QED
  BY <1>2, <1>3

\* A match more is a range of the original, and the only place of its text.
LEMMA MatchNextStep == EditInv /\ MatchNext => EditInv'
<1> SUFFICES ASSUME EditInv, MatchNext PROVE EditInv'
  OBVIOUS
<1> DEFINE n == Len(matches)
           edit == edits[n + 1]
           found == Candidates(Content, edit.old)
<1>1. editPc = "match" /\ n < Len(edits)
  BY DEF MatchNext
<1>2. /\ matches \in Seq(Ranges(Content)) /\ n \in Nat /\ Len(edits) \in Nat
      /\ edits \in Seq([old : Seq(Char), new : Seq(Char)])
      /\ original \in Seq(Char) /\ file \in Seq(Char) /\ text \in Seq(Char)
      /\ pending = {} /\ refusal = "none" /\ \A k \in DOMAIN edits : edits[k].old # <<>>
  BY <1>1 DEF EditInv, EditData, EditPhase
<1>3. n + 1 \in 1..Len(edits) /\ n + 1 \in DOMAIN edits
  <2>1. DOMAIN edits = 1..Len(edits)
    BY <1>2
  <2> HIDE DEF n
  <2>2. n + 1 \in 1..Len(edits)
    BY <1>1, <1>2
  <2>3. QED
    BY <2>1, <2>2
<1>4. edit \in [old : Seq(Char), new : Seq(Char)] /\ edit.old # <<>>
  <2> HIDE DEF n
  <2>1. edits[n + 1] \in [old : Seq(Char), new : Seq(Char)]
    BY <1>2, <1>3, ElementOfSeq
  <2>2. edits[n + 1].old # <<>>
    BY <1>2, <1>3
  <2>3. QED
    BY <2>1, <2>2
<1>5. Content \in Seq(Char)
  BY <1>2, ContentType
<1> HIDE DEF edit, n
<1>6. CASE found = {}
  <2>1. Refuse("notFound") \/ Refuse("multiple")
    BY <1>6 DEF MatchNext, n, edit
  <2>2. QED
    BY <1>1, <2>1, RefuseStep
<1>7. CASE Cardinality(found) > 1
  <2>1. Refuse("notFound") \/ Refuse("multiple")
    BY <1>7 DEF MatchNext, n, edit
  <2>2. QED
    BY <1>1, <2>1, RefuseStep
<1>8. CASE found # {} /\ ~(Cardinality(found) > 1)
  <2>1. PICK c \in found : matches' = Append(matches, Matched(edit, c[2]))
    BY <1>8 DEF MatchNext, n, edit
  <2>2. /\ editPc' = editPc /\ file' = file /\ edits' = edits /\ original' = original
        /\ pending' = pending /\ text' = text /\ refusal' = refusal
    BY <1>8 DEF MatchNext, n, edit
  <2>3. Content' = Content
    BY <2>2 DEF Content
  <2>4. Matched(edit, c[2]) \in Ranges(Content)
    <3>1. c[2] \in RangeOf(Content) /\ c[2].from <= c[2].to
      BY <1>4, <1>5, CandidateRange
    <3>2. IsCrlf(Content) \in BOOLEAN
      BY DEF IsCrlf
    <3>3. AdoptLineEndings(edit.new, IsCrlf(Content)) \in Seq(Char)
      BY <1>4, <3>2, AdoptLineEndingsType
    <3>4. QED
      BY <3>1, <3>3 DEF Matched, Ranges, RangeOf
  <2> DEFINE match == Matched(edit, c[2])
  <2>14. match.from = c[2].from /\ match.to = c[2].to
    BY DEF Matched
  <2> HIDE DEF match
  <2>5. /\ matches' \in Seq(Ranges(Content)) /\ Len(matches') = n + 1 /\ DOMAIN matches' = 1..(n + 1)
    BY <1>2, <2>1, <2>4 DEF n
  <2>6. EditData'
    <3>1. Len(matches') <= Len(edits')
      BY <1>1, <1>2, <2>2, <2>5
    <3>2. pending' \in SUBSET ToSet(matches')
      BY <1>2, <2>2
    <3>3. matches' \in Seq(Ranges(Content'))
      BY <2>3, <2>5
    <3>4. QED
      BY <1>1, <1>2, <2>2, <3>1, <3>2, <3>3 DEF EditData
  <2>7. EditPhase' /\ OverlapFound' /\ Spliced'
    BY <1>1, <1>2, <2>2 DEF EditPhase, OverlapFound, Spliced
  <2>8. OldTextIsUnique'
    <3>1. ASSUME NEW k \in 1..(n + 1),
                 NEW i \in FindAllCharPositions(Content, edits[k].old)
          PROVE  /\ matches'[k].from \in FindAllCharPositions(Content, edits[k].old)
                 /\ i \in matches'[k].from..matches'[k].to
      <4>1. CASE k = n + 1
        <5>1. edits[k].old = edit.old
          BY <4>1 DEF edit
        <5>2. c[2].from \in FindAllCharPositions(Content, edit.old) /\ i \in c[2].from..c[2].to
          BY <1>4, <1>5, <1>8, <5>1, OnlyOnePlace
        <5>3. matches'[k] = match
          BY <1>2, <2>1, <2>4, <4>1 DEF match, n
        <5>4. QED
          BY <2>14, <5>1, <5>2, <5>3
      <4>2. CASE k # n + 1
        <5>1. k \in DOMAIN matches
          BY <1>2, <4>2 DEF n
        <5>2. matches'[k] = matches[k]
          BY <1>2, <2>1, <2>4, <5>1 DEF match, n
        <5>3. QED
          BY <5>1, <5>2 DEF EditInv, OldTextIsUnique
      <4>3. QED
        BY <4>1, <4>2
    <3>2. QED
      BY <2>2, <2>3, <2>5, <3>1 DEF OldTextIsUnique
  <2>9. QED
    BY <2>6, <2>7, <2>8 DEF EditInv
<1>9. QED
  BY <1>6, <1>7, <1>8

\* No replacement is made before all ranges are known to be disjoint.
LEMMA CheckOverlapStep == EditInv /\ CheckOverlap => EditInv'
<1> SUFFICES ASSUME EditInv, CheckOverlap PROVE EditInv'
  OBVIOUS
<1>1. editPc = "match" /\ Len(matches) = Len(edits)
  BY DEF CheckOverlap
<1>2. matches \in Seq(Ranges(Content)) /\ original \in Seq(Char) /\ refusal = "none"
  BY <1>1 DEF EditInv, EditData, EditPhase
<1>3. Content \in Seq(Char)
  BY <1>2, ContentType
<1>4. PICK sorted \in ByStart(matches) :
         IF \E k \in 1..(Len(sorted) - 1) : sorted[k + 1].from <= sorted[k].to
         THEN Refuse("overlap")
         ELSE /\ editPc' = "apply" /\ text' = Content /\ pending' = ToSet(matches)
              /\ UNCHANGED <<file, edits, original, matches, refusal>>
  BY DEF CheckOverlap
<1>5. Disjoint(matches) <=> ~\E k \in 1..(Len(sorted) - 1) : sorted[k + 1].from <= sorted[k].to
  BY <1>2, <1>3, NeighboursSuffice
<1>6. CASE ~Disjoint(matches)
  <2>1. Refuse("overlap")
    BY <1>4, <1>5, <1>6
  <2>2. QED
    BY <1>1, <1>6, <2>1, RefuseStep
<1>7. CASE Disjoint(matches)
  <2>1. /\ editPc' = "apply" /\ text' = Content /\ pending' = ToSet(matches)
        /\ file' = file /\ edits' = edits /\ original' = original
        /\ matches' = matches /\ refusal' = refusal
    BY <1>4, <1>5, <1>7
  <2>2. Content' = Content
    BY <2>1 DEF Content
  <2>3. EditData'
    BY <1>3, <2>1, <2>2 DEF EditInv, EditData
  <2>4. Halfway(Content', matches', pending', text')
    <3>1. Halfway(Content, matches, ToSet(matches), Content)
      BY <1>2, <1>3, SpliceBegins
    <3>2. QED
      BY <2>1, <2>2, <3>1
  <2>5. EditPhase' /\ Spliced'
    BY <1>2, <2>1, <2>4 DEF EditPhase, Spliced
  <2>6. OverlapFound'
    BY <1>2, <1>7, <2>1 DEF OverlapFound, Disjoint
  <2>7. OldTextIsUnique'
    BY <2>1, <2>2 DEF EditInv, OldTextIsUnique
  <2>8. QED
    BY <2>3, <2>5, <2>6, <2>7 DEF EditInv
<1>8. QED
  BY <1>6, <1>7

\* The text goes on from one state of the replacements to the next.
LEMMA ApplyNextStep == EditInv /\ ApplyNext => EditInv'
<1> SUFFICES ASSUME EditInv, ApplyNext PROVE EditInv'
  OBVIOUS
<1>1. /\ editPc = "apply" /\ editPc' = editPc
      /\ file' = file /\ edits' = edits /\ original' = original
      /\ matches' = matches /\ refusal' = refusal
  BY DEF ApplyNext
<1>2. /\ matches \in Seq(Ranges(Content)) /\ original \in Seq(Char) /\ text \in Seq(Char)
      /\ pending \in SUBSET ToSet(matches) /\ refusal = "none"
      /\ Halfway(Content, matches, pending, text)
  BY <1>1 DEF EditInv, EditData, EditPhase
<1>3. Disjoint(matches)
  BY <1>1 DEF EditInv, OverlapFound
<1>4. Content \in Seq(Char) /\ Content' = Content
  BY <1>1, <1>2, ContentType DEF Content
<1>5. PICK m \in pending :
         /\ \A other \in pending : other.from <= m.from
         /\ text' = SubSeq(text, 1, m.from - 1) \o m.new \o SubSeq(text, m.to + 1, Len(text))
         /\ pending' = pending \ {m}
  BY DEF ApplyNext
<1>6. Halfway(Content, matches, pending',
              SubSeq(text, 1, m.from - 1) \o m.new \o SubSeq(text, m.to + 1, Len(text)))
  BY <1>2, <1>3, <1>4, <1>5, SpliceGoesOn
<1>7. Halfway(Content', matches', pending', text')
  BY <1>1, <1>4, <1>5, <1>6
<1>8. text' \in Seq(Char)
  <2>1. PICK f, b, rest : SplicedTo(Content, matches, pending', text', f, b, rest)
    BY <1>1, <1>4, <1>7 DEF Halfway
  <2>2. b \in 0..Len(Content) /\ rest \in Seq(Char) /\ text' = SubSeq(Content, 1, b) \o rest
    BY <2>1 DEF SplicedTo
  <2>3. SubSeq(Content, 1, b) \in Seq(Char)
    BY <1>4, <2>2
  <2>4. QED
    BY <2>2, <2>3, ConcatProperties
<1>9. EditData'
  BY <1>1, <1>2, <1>4, <1>5, <1>8 DEF EditInv, EditData
<1>10. EditPhase' /\ Spliced'
  BY <1>1, <1>2, <1>7 DEF EditPhase, Spliced
<1>11. OverlapFound'
  BY <1>1, <1>2, <1>3 DEF OverlapFound, Disjoint
<1>12. OldTextIsUnique'
  BY <1>1, <1>4 DEF EditInv, OldTextIsUnique
<1>13. QED
  BY <1>9, <1>10, <1>11, <1>12 DEF EditInv

\* What is written is the last of these states.
LEMMA CommitStep == EditInv /\ Commit => EditInv'
<1> SUFFICES ASSUME EditInv, Commit PROVE EditInv'
  OBVIOUS
<1>1. editPc = "apply" /\ pending = {}
  BY DEF Commit
<1>2. CASE text = Content
  BY <1>1, <1>2, RefuseStep DEF Commit
<1>3. CASE text # Content
  <2>1. /\ file' = RestoreBom(HasBom(original), text) /\ editPc' = "ok"
        /\ edits' = edits /\ original' = original /\ matches' = matches
        /\ pending' = pending /\ text' = text /\ refusal' = refusal
    BY <1>3 DEF Commit
  <2>2. /\ matches \in Seq(Ranges(Content)) /\ original \in Seq(Char) /\ text \in Seq(Char)
        /\ refusal = "none" /\ Halfway(Content, matches, {}, text)
    BY <1>1 DEF EditInv, EditData, EditPhase
  <2>3. Content \in Seq(Char) /\ Content' = Content
    BY <2>1, <2>2, ContentType DEF Content
  <2>4. file' \in Seq(Char)
    <3>1. <<Bom>> \in Seq(Char)
      BY EditAssumption
    <3>2. <<Bom>> \o text \in Seq(Char)
      BY <2>2, <3>1, ConcatProperties
    <3>3. QED
      BY <2>1, <2>2, <3>2 DEF RestoreBom
  <2>5. EditData'
    BY <2>1, <2>3, <2>4 DEF EditInv, EditData
  <2>6. text = FlattenSeq(SplicePieces(Content, matches))
    BY <2>2, <2>3, SpliceEnds
  <2>7. Spliced'
    <3>1. DOMAIN Content = 1..Len(Content)
      BY <2>3
    <3>2. file' = RestoreBom(HasBom(original), FlattenSeq(SplicePieces(Content, matches)))
      BY <2>1, <2>6
    <3>3. QED
      BY <2>1, <2>3, <3>1, <3>2, Zenon
         DEF Spliced, SplicePieces, SplicePiece, Inserted, Kept
  <2>8. EditPhase'
    BY <2>1, <2>2 DEF EditPhase
  <2>9. OverlapFound'
    <3>1. Disjoint(matches)
      BY <1>1 DEF EditInv, OverlapFound
    <3>2. QED
      BY <2>1, <2>2, <3>1 DEF OverlapFound, Disjoint
  <2>10. OldTextIsUnique'
    BY <2>1, <2>3 DEF EditInv, OldTextIsUnique
  <2>11. QED
    BY <2>5, <2>7, <2>8, <2>9, <2>10 DEF EditInv
<1>4. QED
  BY <1>2, <1>3

\* The invariant bounds the values of the variables.
LEMMA EditInvType == EditInv => EditTypeOK
<1> SUFFICES ASSUME EditInv PROVE EditTypeOK
  OBVIOUS
<1>1. matches \in Seq(Ranges(Content))
  BY DEF EditInv, EditData
<1>2. original \in Seq(Char)
  BY DEF EditInv, EditData
<1>3. Len(Content) \in Nat
  BY <1>2, ContentType
<1>4. ASSUME NEW m \in ToSet(matches)
      PROVE  m.from \in 1..m.to /\ m.to \in 1..Len(Content) /\ m.new \in Seq(Char)
  <2>1. PICK k \in 1..Len(matches) : m = matches[k]
    BY <1>1, RangeFacts
  <2>2. m.from \in 1..Len(Content) /\ m.to \in 1..Len(Content) /\ m.from <= m.to /\ m.new \in Seq(Char)
    BY <1>1, <2>1, RangeFacts
  <2>3. \A p, q \in 1..Len(Content) : p <= q => p \in 1..q
    BY <1>3
  <2>4. QED
    BY <2>2, <2>3
<1>5. QED
  BY <1>4 DEF EditInv, EditData, EditTypeOK

\* The inductive invariant of an edit: its ranges lie in the original, and while
\* they are applied the text is the original up to the next of them and the
\* result from there on.  edit.rs:38-107.
THEOREM EditInvariance == EditSpec => []EditInv
<1>1. EditInv /\ [EditNext]_editVars => EditInv'
  <2> SUFFICES ASSUME EditInv, [EditNext]_editVars PROVE EditInv'
    OBVIOUS
  <2>1. CASE UNCHANGED editVars
    <3>1. /\ editPc' = editPc /\ file' = file /\ edits' = edits /\ original' = original
          /\ matches' = matches /\ pending' = pending /\ text' = text /\ refusal' = refusal
      BY <2>1 DEF editVars
    <3>2. Content' = Content
      BY <3>1 DEF Content
    <3>3. EditData' /\ EditPhase'
      BY <3>1, <3>2 DEF EditInv, EditData, EditPhase
    <3>4. OverlapFound' /\ OldTextIsUnique'
      BY <3>1, <3>2 DEF EditInv, OverlapFound, OldTextIsUnique
    <3>5. Spliced'
      BY <3>1, <3>2, Zenon DEF EditInv, Spliced
    <3>6. QED
      BY <3>3, <3>4, <3>5 DEF EditInv
  <2>2. CASE EditNext
    BY <2>2, EditStartStep, MatchNextStep, CheckOverlapStep, ApplyNextStep, CommitStep DEF EditNext
  <2>3. QED
    BY <2>1, <2>2
<1>2. QED
  BY <1>1, InitEditInv, PTL DEF EditSpec

\* Every range an edit holds lies in the original and its new text is a text.
\* edit.rs:45-57, 154-182.
THEOREM EditType == EditSpec => []EditTypeOK
BY EditInvariance, EditInvType, PTL

\* The file an edit leaves is the original with each range exchanged for its
\* text and every character outside them in place.  edit.rs:77-84, 107.
THEOREM EditsAreSpliced == EditSpec => []Spliced
<1>1. EditInv => Spliced
  BY DEF EditInv
<1>2. QED
  BY <1>1, EditInvariance, PTL

\* No call goes on with two ranges that share a character, and none is refused
\* for an overlap whose ranges are all apart.  edit.rs:60-75.
THEOREM OverlapsAreRefused == EditSpec => []OverlapIsRefused
<1>1. EditInv => OverlapIsRefused
  BY OverlapIs DEF EditInv
<1>2. QED
  BY <1>1, EditInvariance, PTL

\* Wherever an accepted oldText occurs in the file as it is, it begins inside
\* the range that is exchanged, which is its first place.  edit.rs:154-166.
THEOREM OldTextsAreUnique == EditSpec => []OldTextIsUnique
<1>1. EditInv => OldTextIsUnique
  BY DEF EditInv
<1>2. QED
  BY <1>1, EditInvariance, PTL

\* "mirrors NormalizedText::new": a needle is normalized in one pass to what the
\* same text is in the file, whatever the blanks and breaks in it and whatever
\* NFKC makes of its characters.  edit.rs:196-245, 287-329.
THEOREM NormalizersMirror == EditSpec => []NormalizersAgree
<1>1. EditInv => NormalizersAgree
  <2> SUFFICES ASSUME EditInv, NEW t \in {file} \cup {edits[k].old : k \in DOMAIN edits}
               PROVE  NormalizeChars(t) = Chars(NormalizedText(t))
    BY DEF NormalizersAgree
  <2>1. file \in Seq(Char) /\ edits \in Seq([old : Seq(Char), new : Seq(Char)])
    BY DEF EditInv, EditData
  <2>2. \A k \in DOMAIN edits : edits[k].old \in Seq(Char)
    <3> DEFINE E == [old : Seq(Char), new : Seq(Char)]
    <3>1. \A e \in E : e.old \in Seq(Char)
      OBVIOUS
    <3> HIDE DEF E
    <3>2. edits \in Seq(E)
      BY <2>1 DEF E
    <3>3. \A k \in DOMAIN edits : edits[k] \in E
      BY <3>2
    <3>4. QED
      BY <3>1, <3>3
  <2>3. t \in Seq(Char)
    BY <2>1, <2>2
  <2>4. QED
    BY <2>3, NormalizersMeet
<1>2. QED
  BY <1>1, EditInvariance, PTL

-----------------------------------------------------------------------------
(* Line endings                                                            *)

LfTexts == {s \in Seq(Char) : LfOnly(s)}
CrlfTexts == {s \in Seq(Char) : CrlfOnly(s)}

\* Texts without CR, one after the other, hold none.
LEMMA LfJoin ==
    <<>> \in LfTexts /\ \A a, b \in LfTexts : Cat(a, b) \in LfTexts
<1>1. <<>> \in LfTexts
  BY DEF LfTexts, LfOnly
<1>2. ASSUME NEW a \in LfTexts, NEW b \in LfTexts PROVE Cat(a, b) \in LfTexts
  <2> DEFINE ab == Cat(a, b)
  <2>1. a \in Seq(Char) /\ b \in Seq(Char) /\ Len(a) \in Nat /\ Len(b) \in Nat
        /\ (\A i \in 1..Len(a) : a[i] # CR) /\ (\A i \in 1..Len(b) : b[i] # CR)
    BY DEF LfTexts, LfOnly
  <2>2. Joins(Char, Len(a), a, b, ab)
    BY <2>1, CatJoins
  <2> HIDE DEF ab
  <2>3. ab \in Seq(Char) /\ DOMAIN ab = 1..(Len(a) + Len(b))
    BY <2>1, <2>2 DEF Joins
  <2>4. ASSUME NEW i \in 1..(Len(a) + Len(b)) PROVE ab[i] # CR
    <3>1. CASE i <= Len(a)
      <4>1. ab[i] = a[i] /\ i \in 1..Len(a)
        BY <2>1, <2>2, <3>1 DEF Joins
      <4>2. QED
        BY <2>1, <4>1
    <3>2. CASE ~(i <= Len(a))
      <4>1. ab[i] = b[i - Len(a)] /\ i - Len(a) \in 1..Len(b)
        BY <2>1, <2>2, <3>2 DEF Joins
      <4>2. QED
        BY <2>1, <4>1
    <3>3. QED
      BY <3>1, <3>2
  <2>5. QED
    BY <2>3, <2>4 DEF LfTexts, LfOnly, ab
<1>3. QED
  BY <1>1, <1>2

\* A break at i is a CRLF.
WholeAt(s, n, i) ==
    /\ s[i] = CR => i < n /\ s[i + 1] = LF
    /\ s[i] = LF => i > 1 /\ s[i - 1] = CR

LEMMA CrlfTextIs ==
    ASSUME NEW s \in Seq(Char)
    PROVE  s \in CrlfTexts <=> \A i \in 1..Len(s) : WholeAt(s, Len(s), i)
<1>1. DOMAIN s = 1..Len(s)
  OBVIOUS
<1>2. \A i \in 1..Len(s) :
         WholeAt(s, Len(s), i) <=> ((s[i] = CR => CrlfAt(s, i)) /\ (s[i] = LF => i > 1 /\ s[i - 1] = CR))
  BY DEF WholeAt, CrlfAt
<1>3. QED
  BY <1>1, <1>2 DEF CrlfTexts, CrlfOnly

\* No CRLF is made or cut where two texts with CRLF only meet.
LEMMA CrlfJoin ==
    <<>> \in CrlfTexts /\ \A a, b \in CrlfTexts : Cat(a, b) \in CrlfTexts
<1>1. <<>> \in CrlfTexts
  BY DEF CrlfTexts, CrlfOnly
<1>2. ASSUME NEW a \in CrlfTexts, NEW b \in CrlfTexts PROVE Cat(a, b) \in CrlfTexts
  <2> DEFINE ab == Cat(a, b)
             m == Len(a)
             n == Len(b)
  <2>1. a \in Seq(Char) /\ b \in Seq(Char) /\ m \in Nat /\ n \in Nat
    BY DEF CrlfTexts
  <2>2. (\A i \in 1..m : WholeAt(a, m, i)) /\ (\A i \in 1..n : WholeAt(b, n, i))
    BY <2>1, CrlfTextIs
  <2>3. Joins(Char, m, a, b, ab)
    BY <2>1, CatJoins
  <2> HIDE DEF ab
  <2>4. ab \in Seq(Char) /\ DOMAIN ab = 1..(m + n) /\ Len(ab) = m + n
    BY <2>1, <2>3 DEF Joins
  <2>5. /\ \A i \in 1..m : ab[i] = a[i]
        /\ \A i \in 1..n : ab[m + i] = b[i]
    <3>1. \A i \in 1..(m + n) : ab[i] = IF i <= m THEN a[i] ELSE b[i - m]
      BY <2>3 DEF Joins
    <3> HIDE DEF m, n
    <3>2. \A i \in 1..m : i \in 1..(m + n) /\ i <= m
      BY <2>1
    <3>4. \A i \in 1..m : ab[i] = a[i]
      BY <3>1, <3>2
    <3>5. ASSUME NEW i \in 1..n PROVE ab[m + i] = b[i]
      <4> DEFINE j == m + i
      <4>1. j \in 1..(m + n) /\ ~(j <= m) /\ j - m = i
        BY <2>1
      <4> HIDE DEF j
      <4>2. ab[j] = b[i]
        BY <3>1, <4>1
      <4>3. QED
        BY <4>2 DEF j
    <3>6. QED
      BY <3>4, <3>5
  <2> HIDE DEF m, n
  <2>6. ASSUME NEW i \in 1..m PROVE WholeAt(ab, m + n, i)
    <3>1. i < m => i + 1 \in 1..m
      BY <2>1
    <3>2. i > 1 => i - 1 \in 1..m
      BY <2>1
    <3>3. i < m => i < m + n
      BY <2>1
    <3>4. QED
      BY <2>2, <2>5, <3>1, <3>2, <3>3 DEF WholeAt
  <2>7. ASSUME NEW i \in 1..n PROVE WholeAt(ab, m + n, m + i)
    <3>1. i < n => i + 1 \in 1..n /\ m + (i + 1) = m + i + 1 /\ m + i < m + n
      BY <2>1
    <3>2. i > 1 => i - 1 \in 1..n /\ m + (i - 1) = (m + i) - 1 /\ m + i > 1
      BY <2>1
    <3>3. ab[m + i] = CR => m + i < m + n /\ ab[m + i + 1] = LF
      <4> SUFFICES ASSUME ab[m + i] = CR PROVE m + i < m + n /\ ab[m + i + 1] = LF
        OBVIOUS
      <4>1. i < n /\ b[i + 1] = LF
        BY <2>2, <2>5 DEF WholeAt
      <4>2. ab[m + (i + 1)] = LF
        BY <2>5, <3>1, <4>1
      <4>3. QED
        BY <3>1, <4>1, <4>2
    <3>4. ab[m + i] = LF => m + i > 1 /\ ab[(m + i) - 1] = CR
      <4> SUFFICES ASSUME ab[m + i] = LF PROVE m + i > 1 /\ ab[(m + i) - 1] = CR
        OBVIOUS
      <4>1. i > 1 /\ b[i - 1] = CR
        BY <2>2, <2>5 DEF WholeAt
      <4>2. ab[m + (i - 1)] = CR
        BY <2>5, <3>2, <4>1
      <4>3. QED
        BY <3>2, <4>1, <4>2
    <3>5. QED
      BY <3>3, <3>4 DEF WholeAt
  <2>8. ASSUME NEW i \in 1..(m + n) PROVE WholeAt(ab, m + n, i)
    <3>1. i \in 1..m \/ \E j \in 1..n : i = m + j
      <4>1. i \in 1..m \/ (i - m \in 1..n /\ i = m + (i - m))
        BY <2>1
      <4>2. QED
        BY <4>1
    <3>2. QED
      BY <2>6, <2>7, <3>1
  <2>9. QED
    BY <2>4, <2>8, CrlfTextIs DEF ab
<1>3. QED
  BY <1>1, <1>2

\* Flattened texts of a set that joining does not leave are in it.
LEMMA FlattenStays ==
    ASSUME NEW Q \in SUBSET Seq(Char), <<>> \in Q, \A a, b \in Q : Cat(a, b) \in Q,
           NEW n \in Nat, NEW seqs \in [1..n -> Q]
    PROVE  FlattenSeq(seqs) \in Q
<1>1. PICK f \in [0..n -> Q] : Flattens(n, seqs, f)
  BY FlattensWithin
<1>2. seqs \in [1..n -> Seq(Char)]
  OBVIOUS
<1>3. FlattenSeq(seqs) = f[n]
  BY <1>1, <1>2, FlattenValue
<1>4. QED
  BY <1>1, <1>3

LEMMA ShortTexts ==
    ASSUME NEW c \in Char
    PROVE  /\ c # CR => <<c>> \in LfTexts
           /\ c \notin {CR, LF} => <<c>> \in CrlfTexts
           /\ <<CR, LF>> \in CrlfTexts
<1>1. CR \in Char /\ LF \in Char /\ CR # LF
  BY EditAssumption
<1>2. c # CR => <<c>> \in LfTexts
  BY DEF LfTexts, LfOnly
<1>3. c \notin {CR, LF} => <<c>> \in CrlfTexts
  BY DEF CrlfTexts, CrlfOnly
<1>4. <<CR, LF>> \in CrlfTexts
  <2> DEFINE s == <<CR, LF>>
  <2>1. s \in Seq(Char) /\ Len(s) = 2 /\ DOMAIN s = 1..2 /\ s[1] = CR /\ s[2] = LF
    BY <1>1
  <2> HIDE DEF s
  <2>2. \A i \in 1..2 : i = 1 \/ i = 2
    OBVIOUS
  <2>3. QED
    BY <1>1, <2>1, <2>2, SMTT(30) DEF CrlfTexts, CrlfOnly, CrlfAt, s
<1>5. QED
  BY <1>2, <1>3, <1>4

\* A text whose breaks are whole has, once adopted, the endings of the file.
LEMMA AdoptedEndings ==
    ASSUME NEW t \in Seq(Char), WholeBreaks(t)
    PROVE  AdoptLineEndings(t, FALSE) \in LfTexts /\ AdoptLineEndings(t, TRUE) \in CrlfTexts
<1> DEFINE n == Len(t)
           one == [i \in 1..n |-> IF CrlfAt(t, i) THEN <<>> ELSE <<t[i]>>]
           lf == FlattenSeq(one)
           two == [i \in 1..Len(lf) |-> IF lf[i] = LF THEN <<CR, LF>> ELSE <<lf[i]>>]
<1>1. n \in Nat /\ DOMAIN t = 1..n /\ \A i \in 1..n : t[i] \in Char /\ (t[i] = CR => CrlfAt(t, i))
  BY DEF WholeBreaks
<1>2. one \in [1..n -> LfTexts]
  <2>1. ASSUME NEW i \in 1..n PROVE (IF CrlfAt(t, i) THEN <<>> ELSE <<t[i]>>) \in LfTexts
    BY <1>1, LfJoin, ShortTexts
  <2>2. QED
    BY <2>1
<1>3. LfTexts \in SUBSET Seq(Char) /\ CrlfTexts \in SUBSET Seq(Char)
  BY DEF LfTexts, CrlfTexts
<1> HIDE DEF one
<1>4. lf \in LfTexts
  BY <1>1, <1>2, <1>3, LfJoin, FlattenStays
<1> HIDE DEF lf
<1>5. lf \in Seq(Char) /\ Len(lf) \in Nat /\ DOMAIN lf = 1..Len(lf)
      /\ \A i \in 1..Len(lf) : lf[i] \in Char /\ lf[i] # CR
  BY <1>4 DEF LfTexts, LfOnly
<1>6. two \in [1..Len(lf) -> CrlfTexts]
  <2>1. ASSUME NEW i \in 1..Len(lf)
        PROVE  (IF lf[i] = LF THEN <<CR, LF>> ELSE <<lf[i]>>) \in CrlfTexts
    BY <1>5, ShortTexts
  <2>2. QED
    BY <2>1
<1> HIDE DEF two
<1>7. FlattenSeq(two) \in CrlfTexts
  BY <1>3, <1>5, <1>6, CrlfJoin, FlattenStays
<1>8. AdoptLineEndings(t, FALSE) = lf /\ AdoptLineEndings(t, TRUE) = FlattenSeq(two)
  BY <1>1, <1>5 DEF AdoptLineEndings, lf, one, two
<1>9. QED
  BY <1>4, <1>7, <1>8

\* A range covers the character at i.
Covered(ranges, i) == \E m \in ToSet(ranges) : i \in m.from..m.to

\* No range begins or ends inside a CRLF of t.
NoneSplits(t, ranges) ==
    \A m \in ToSet(ranges) : \A i \in {m.from - 1, m.to} : ~(i \in DOMAIN t /\ CrlfAt(t, i))

\* What the pieces up to k come to: a text with CRLF only, but for the CR of a
\* CRLF that is kept, whose LF follows.
Closes(t, ranges, h, k) ==
    IF k > 0 /\ t[k] = CR /\ ~Covered(ranges, k)
    THEN \E s \in CrlfTexts : h[k] = Cat(s, <<CR>>)
    ELSE h[k] \in CrlfTexts

LEMMA CrlfSplice ==
    ASSUME NEW t \in CrlfTexts, NEW ranges \in Seq(Ranges(t)), NoneSplits(t, ranges),
           \A k \in 1..Len(ranges) : ranges[k].new \in CrlfTexts
    PROVE  FlattenSeq(SplicePieces(t, ranges)) \in CrlfTexts
<1> DEFINE n == Len(t)
           seqs == SplicePieces(t, ranges)
<1>1. t \in Seq(Char) /\ n \in Nat /\ DOMAIN t = 1..n /\ \A i \in 1..n : t[i] \in Char /\ WholeAt(t, n, i)
  <2>1. t \in Seq(Char)
    BY DEF CrlfTexts
  <2>2. QED
    BY <2>1, CrlfTextIs
<1>2. seqs \in [1..n -> Seq(Char)] /\ \A i \in 1..n : seqs[i] = SplicePiece(t, ranges, i)
  BY <1>1, PiecesType
<1>3. PICK h \in [0..n -> Seq(Char)] : Flattens(n, seqs, h)
  BY <1>1, <1>2, FlattenExists
<1>4. FlattenSeq(seqs) = h[n]
  BY <1>1, <1>2, <1>3, FlattenValue
<1>5. CR \in Char /\ LF \in Char /\ CR # LF /\ <<CR, LF>> \in CrlfTexts
  BY EditAssumption, ShortTexts
<1>6. ASSUME NEW i \in 1..n
      PROVE  /\ Inserted(ranges, i) \in CrlfTexts
             /\ (\A k \in 1..Len(ranges) : ranges[k].from # i) => Inserted(ranges, i) = <<>>
  <2> DEFINE ins == [k \in 1..Len(ranges) |-> IF ranges[k].from = i THEN ranges[k].new ELSE <<>>]
  <2>1. Len(ranges) \in Nat /\ DOMAIN ranges = 1..Len(ranges)
    BY RangeFacts
  <2>2. ins \in [1..Len(ranges) -> CrlfTexts]
    BY CrlfJoin
  <2>3. Inserted(ranges, i) = FlattenSeq(ins)
    BY <2>1 DEF Inserted
  <2>4. CrlfTexts \in SUBSET Seq(Char)
    BY DEF CrlfTexts
  <2>5. FlattenSeq(ins) \in CrlfTexts
    <3> HIDE DEF ins
    <3>1. QED
      BY <2>1, <2>2, <2>4, CrlfJoin, FlattenStays
  <2>6. ASSUME \A k \in 1..Len(ranges) : ranges[k].from # i PROVE FlattenSeq(ins) = <<>>
    <3>1. \A k \in 1..Len(ranges) : ins[k] = <<>>
      BY <2>6
    <3>2. ins \in [1..Len(ranges) -> Seq(Char)]
      BY <2>2, <2>4
    <3> HIDE DEF ins
    <3>3. QED
      BY <2>1, <3>1, <3>2, FlattenNothing
  <2>7. QED
    BY <2>3, <2>5, <2>6
<1>7. ASSUME NEW m \in ToSet(ranges)
      PROVE  /\ m.from \in Nat /\ m.to \in Nat /\ m.from <= m.to /\ m.from \in 1..n /\ m.to \in 1..n
             /\ \A i \in 1..n : (i = m.from - 1 \/ i = m.to) => ~CrlfAt(t, i)
  <2>1. PICK k \in 1..Len(ranges) : m = ranges[k]
    BY RangeFacts
  <2>2. m.from \in 1..n /\ m.to \in 1..n /\ m.from <= m.to
    BY <2>1, RangeFacts
  <2>3. \A i \in 1..n : (i = m.from - 1 \/ i = m.to) => ~CrlfAt(t, i)
    BY <1>1 DEF NoneSplits
  <2>4. QED
    BY <1>1, <2>2, <2>3
<1>8. \A i \in 1..n : t[i] = CR => CrlfAt(t, i)
  BY <1>1 DEF WholeAt, CrlfAt
<1> HIDE DEF seqs, n
<1> DEFINE T == {k \in 0..n : Closes(t, ranges, h, k)}
<1>9. 0 \in T
  BY <1>1, <1>3, CrlfJoin DEF Closes, Flattens
<1>10. ASSUME NEW k \in 1..n, k - 1 \in T PROVE k \in T
  <2> DEFINE ins == Inserted(ranges, k)
             kept == Kept(t, ranges, k)
  <2>1. h[k] = Cat(h[k - 1], Cat(ins, kept)) /\ h[k - 1] \in Seq(Char) /\ k \in 0..n /\ k - 1 \in 0..n
    <3>1. k \in 0..n /\ k - 1 \in 0..n
      BY <1>1
    <3>2. h[k] = Cat(h[k - 1], seqs[k]) /\ h[k - 1] \in Seq(Char)
      BY <1>3, <3>1 DEF Flattens
    <3>3. seqs[k] = Cat(ins, kept)
      BY <1>2 DEF SplicePiece, Cat
    <3> HIDE DEF ins, kept
    <3>4. QED
      BY <3>1, <3>2, <3>3
  <2>2. ins \in CrlfTexts /\ t[k] \in Char /\ WholeAt(t, n, k)
    BY <1>1, <1>6
  <2>3. kept = IF Covered(ranges, k) THEN <<>> ELSE <<t[k]>>
    BY DEF Kept, Covered
  <2>4. kept \in Seq(Char) /\ ins \in Seq(Char)
    BY <2>2, <2>3 DEF CrlfTexts
  <2>5. Closes(t, ranges, h, k - 1)
    BY <1>10
  <2> HIDE DEF ins, kept
  <2>6. \A a, b, c \in Seq(Char) : Cat(a, Cat(b, c)) = Cat(Cat(a, b), c)
    BY CatLaws
  <2>7. CASE k > 1 /\ t[k - 1] = CR /\ ~Covered(ranges, k - 1)
    <3>1. k - 1 > 0 /\ k - 1 \in 1..n
      BY <1>1, <2>7
    <3>2. PICK s \in CrlfTexts : h[k - 1] = Cat(s, <<CR>>)
      BY <2>5, <2>7, <3>1 DEF Closes
    <3>3. CrlfAt(t, k - 1)
      BY <1>8, <2>7, <3>1
    <3>4. t[k] = LF
      <4>1. k - 1 + 1 = k
        BY <1>1
      <4>2. QED
        BY <3>3, <4>1 DEF CrlfAt
    <3>5. \A m \in ToSet(ranges) : m.from # k
      BY <1>1, <1>7, <3>1, <3>3
    <3>6. ~Covered(ranges, k)
      <4> SUFFICES ASSUME NEW m \in ToSet(ranges), k \in m.from..m.to PROVE FALSE
        BY DEF Covered
      <4>1. m.from # k
        BY <3>5
      <4>2. k - 1 \in m.from..m.to
        BY <1>1, <1>7, <4>1
      <4>3. QED
        BY <2>7, <4>2 DEF Covered
    <3>7. ins = <<>>
      <4>1. \A j \in 1..Len(ranges) : ranges[j].from # k
        BY <3>5, RangeFacts
      <4>2. QED
        BY <1>6, <4>1 DEF ins
    <3>8. kept = <<LF>>
      BY <2>3, <3>4, <3>6
    <3>9. h[k] = Cat(Cat(s, <<CR>>), <<LF>>)
      <4>1. <<LF>> \in Seq(Char) /\ Cat(<<>>, <<LF>>) = <<LF>>
        BY <1>5, ConcatEmptySeq DEF Cat
      <4>2. QED
        BY <2>1, <3>2, <3>7, <3>8, <4>1
    <3>10. h[k] \in CrlfTexts
      <4>1. s \in Seq(Char) /\ <<CR>> \in Seq(Char) /\ <<LF>> \in Seq(Char)
        BY <1>5 DEF CrlfTexts
      <4>2. Cat(<<CR>>, <<LF>>) = <<CR, LF>>
        BY <1>5, Pair
      <4>3. h[k] = Cat(s, <<CR, LF>>)
        <5> DEFINE cr == <<CR>>
                   lf == <<LF>>
        <5>1. Cat(s, Cat(cr, lf)) = Cat(Cat(s, cr), lf)
          <6>1. s \in Seq(Char) /\ cr \in Seq(Char) /\ lf \in Seq(Char)
            BY <4>1
          <6> HIDE DEF cr, lf
          <6>2. QED
            BY <2>6, <6>1
        <5>2. Cat(cr, lf) = <<CR, LF>> /\ h[k] = Cat(Cat(s, cr), lf)
          BY <3>9, <4>2
        <5> HIDE DEF cr, lf
        <5>3. QED
          BY <5>1, <5>2
      <4>4. QED
        BY <1>5, <4>3, CrlfJoin
    <3>11. QED
      BY <1>5, <2>1, <3>4, <3>10 DEF Closes
  <2>8. CASE ~(k > 1 /\ t[k - 1] = CR /\ ~Covered(ranges, k - 1))
    <3> DEFINE before == Cat(h[k - 1], ins)
    <3>1. h[k - 1] \in CrlfTexts
      <4>1. k - 1 > 0 <=> k > 1
        BY <1>1
      <4>2. QED
        BY <2>5, <2>8, <4>1 DEF Closes
    <3>2. before \in CrlfTexts /\ before \in Seq(Char)
      BY <2>2, <3>1, CrlfJoin DEF CrlfTexts
    <3>3. h[k] = Cat(before, kept)
      BY <2>1, <2>4, <2>6
    <3> HIDE DEF before
    <3>4. CASE Covered(ranges, k)
      <4>1. h[k] = before
        BY <2>3, <3>2, <3>3, <3>4, ConcatEmptySeq DEF Cat
      <4>2. QED
        BY <2>1, <3>2, <3>4, <4>1 DEF Closes
    <3>5. CASE ~Covered(ranges, k) /\ t[k] = CR
      <4>1. h[k] = Cat(before, <<CR>>) /\ k > 0
        BY <1>1, <2>3, <3>3, <3>5
      <4>2. QED
        BY <2>1, <3>2, <3>5, <4>1 DEF Closes
    <3>6. t[k] = LF => Covered(ranges, k)
      <4> SUFFICES ASSUME t[k] = LF, ~Covered(ranges, k) PROVE FALSE
        OBVIOUS
      <4>1. k > 1 /\ t[k - 1] = CR
        BY <2>2 DEF WholeAt
      <4>2. k - 1 \in 1..n
        BY <1>1, <4>1
      <4>3. PICK m \in ToSet(ranges) : k - 1 \in m.from..m.to
        BY <2>8, <4>1 DEF Covered
      <4>4. k \notin m.from..m.to
        BY DEF Covered
      <4>5. k - 1 = m.to
        <5>1. m.from \in Int /\ m.to \in Int /\ k \in Int
          BY <1>1, <1>7
        <5>2. QED
          BY <4>3, <4>4, <5>1
      <4>6. CrlfAt(t, k - 1)
        BY <1>8, <4>1, <4>2
      <4>7. QED
        BY <1>7, <4>2, <4>5, <4>6
    <3>7. CASE ~Covered(ranges, k) /\ t[k] # CR
      <4>1. <<t[k]>> \in CrlfTexts
        BY <2>2, <3>6, <3>7, ShortTexts
      <4>2. h[k] \in CrlfTexts
        BY <2>3, <3>2, <3>3, <3>7, <4>1, CrlfJoin
      <4>3. QED
        BY <2>1, <3>7, <4>2 DEF Closes
    <3>8. QED
      BY <3>4, <3>5, <3>7
  <2>9. QED
    BY <2>7, <2>8
<1>11. Closes(t, ranges, h, n)
  <2> HIDE DEF T
  <2>1. n \in Nat
    BY <1>1
  <2>2. 0..n \subseteq T
    BY <2>1, <1>9, <1>10, Climb
  <2>3. n \in T
    BY <2>1, <2>2
  <2>4. QED
    BY <2>3 DEF T
<1>12. ~(n > 0 /\ t[n] = CR)
  <2> SUFFICES ASSUME n > 0, t[n] = CR PROVE FALSE
    OBVIOUS
  <2>1. n \in 1..n
    BY <1>1
  <2>2. WholeAt(t, n, n)
    BY <1>1, <2>1
  <2>3. n < n
    BY <2>2 DEF WholeAt
  <2>4. QED
    BY <1>1, <2>3
<1>13. QED
  BY <1>4, <1>11, <1>12 DEF Closes, seqs

\* The same for texts without CR, wherever the ranges begin and end.
LEMMA LfSplice ==
    ASSUME NEW t \in LfTexts, NEW ranges \in Seq(Ranges(t)),
           \A k \in 1..Len(ranges) : ranges[k].new \in LfTexts
    PROVE  FlattenSeq(SplicePieces(t, ranges)) \in LfTexts
<1> DEFINE n == Len(t)
<1>1. t \in Seq(Char) /\ n \in Nat /\ \A i \in 1..n : t[i] \in Char /\ t[i] # CR
  BY DEF LfTexts, LfOnly
<1>2. LfTexts \in SUBSET Seq(Char)
  BY DEF LfTexts
<1>3. ASSUME NEW i \in 1..n PROVE SplicePiece(t, ranges, i) \in LfTexts
  <2> DEFINE ins == [k \in 1..Len(ranges) |-> IF ranges[k].from = i THEN ranges[k].new ELSE <<>>]
  <2>1. Len(ranges) \in Nat /\ DOMAIN ranges = 1..Len(ranges)
    BY RangeFacts
  <2>2. ins \in [1..Len(ranges) -> LfTexts]
    BY LfJoin
  <2>3. Inserted(ranges, i) = FlattenSeq(ins)
    BY <2>1 DEF Inserted
  <2> HIDE DEF ins
  <2>4. FlattenSeq(ins) \in LfTexts
    BY <1>2, <2>1, <2>2, LfJoin, FlattenStays
  <2>5. Kept(t, ranges, i) \in LfTexts
    BY <1>1, LfJoin, ShortTexts DEF Kept
  <2>6. QED
    BY <2>3, <2>4, <2>5, LfJoin DEF SplicePiece, Cat
<1>4. SplicePieces(t, ranges) \in [1..n -> LfTexts]
  BY <1>3 DEF SplicePieces
<1>5. QED
  BY <1>1, <1>2, <1>4, LfJoin, FlattenStays

\* Without its BOM a file has the endings it had with it,
LEMMA EndingsOfContent ==
    ASSUME original \in Seq(Char)
    PROVE  /\ LfOnly(original) => Content \in LfTexts /\ IsCrlf(Content) = FALSE
           /\ CrlfOnly(original) => Content \in CrlfTexts
<1> DEFINE c == Content
<1>1. c \in Seq(Char) /\ Len(c) \in Nat /\ DOMAIN c = 1..Len(c)
  BY ContentType
<1>2. Content \in LfTexts => IsCrlf(Content) = FALSE
  <2> SUFFICES ASSUME Content \in LfTexts PROVE ~IsCrlf(Content)
    BY DEF IsCrlf
  <2>1. {i \in DOMAIN c : CrlfAt(c, i)} = {}
    BY DEF LfTexts, LfOnly, CrlfAt
  <2>2. Cardinality({i \in DOMAIN c : CrlfAt(c, i)}) = 0
    BY <2>1, FS_EmptySet
  <2>3. QED
    BY <2>2 DEF IsCrlf
<1>3. CASE HasBom(original)
  <2> DEFINE n == Len(c)
  <2>1. /\ Len(original) = n + 1 /\ DOMAIN original = 1..(n + 1)
        /\ \A i \in 1..n : c[i] = original[i + 1] /\ i + 1 \in 1..(n + 1)
    <3>1. original # <<>> /\ c = Tail(original)
      BY <1>3 DEF Content, StripBom, HasBom
    <3>2. Len(original) \in Nat /\ DOMAIN original = 1..Len(original) /\ Len(original) # 0
      BY <3>1
    <3>3. n = Len(original) - 1 /\ \A i \in 1..n : c[i] = original[i + 1]
      BY <3>1, HeadTailProperties
    <3> HIDE DEF c, n
    <3>4. QED
      BY <3>2, <3>3
  <2>2. original[1] = Bom /\ Bom \notin {CR, LF}
    BY <1>3, EditAssumption DEF HasBom
  <2> HIDE DEF c
  <2>3. LfOnly(original) => LfOnly(c)
    BY <1>1, <2>1 DEF LfOnly
  <2>4. CrlfOnly(original) => \A i \in 1..n : WholeAt(c, n, i)
    <3> SUFFICES ASSUME CrlfOnly(original), NEW i \in 1..n PROVE WholeAt(c, n, i)
      OBVIOUS
    <3>1. WholeAt(original, n + 1, i + 1)
      BY <2>1, CrlfTextIs DEF CrlfTexts
    <3>2. i < n <=> i + 1 < n + 1
      BY <1>1
    <3>3. i < n => i + 1 \in 1..n
      BY <1>1
    <3>4. c[i] = CR => i < n /\ c[i + 1] = LF
      BY <2>1, <3>1, <3>2, <3>3 DEF WholeAt
    <3>5. ASSUME c[i] = LF PROVE i > 1 /\ c[i - 1] = CR
      <4>1. original[(i + 1) - 1] = CR
        BY <2>1, <3>1, <3>5 DEF WholeAt
      <4>2. original[i] = CR
        BY <1>1, <4>1
      <4>3. i # 1
        BY <2>2, <4>2
      <4>4. i > 1 /\ i - 1 \in 1..n /\ (i - 1) + 1 = i
        BY <1>1, <4>3
      <4>5. QED
        BY <2>1, <4>2, <4>4
    <3>6. QED
      BY <3>4, <3>5 DEF WholeAt
  <2>5. (LfOnly(original) => c \in LfTexts) /\ (CrlfOnly(original) => c \in CrlfTexts)
    BY <1>1, <2>3, <2>4, CrlfTextIs DEF LfTexts
  <2>6. QED
    BY <1>2, <2>5 DEF c
<1>4. CASE ~HasBom(original)
  <2>1. Content = original
    BY <1>4 DEF Content, StripBom
  <2>2. QED
    BY <1>2, <2>1 DEF LfTexts, CrlfTexts
<1>5. QED
  BY <1>3, <1>4

\* and with it again no others.
LEMMA EndingsWithBom ==
    ASSUME NEW t \in Seq(Char), NEW had \in BOOLEAN
    PROVE  /\ t \in LfTexts => RestoreBom(had, t) \in LfTexts
           /\ t \in CrlfTexts => RestoreBom(had, t) \in CrlfTexts
<1>1. Bom \in Char /\ Bom \notin {CR, LF}
  BY EditAssumption
<1>2. <<Bom>> \in LfTexts /\ <<Bom>> \in CrlfTexts
  BY <1>1, ShortTexts
<1>3. QED
  BY <1>2, LfJoin, CrlfJoin DEF RestoreBom, Cat

\* Each new text has the endings of the file.
Adopted ==
    \A k \in 1..Len(matches) : matches[k].new = AdoptLineEndings(edits[k].new, IsCrlf(Content))

\* A match more has them too.
LEMMA AdoptedStep == EditInv /\ Adopted /\ [EditNext]_editVars => Adopted'
<1> SUFFICES ASSUME EditInv, Adopted, [EditNext]_editVars PROVE Adopted'
  OBVIOUS
<1>1. CASE UNCHANGED <<matches, edits, original>>
  BY <1>1 DEF Adopted, Content
<1>2. CASE matches = <<>> /\ UNCHANGED matches
  BY <1>2 DEF Adopted
<1>3. CASE MatchNext /\ ~UNCHANGED <<matches, edits, original>>
  <2> DEFINE n == Len(matches)
             edit == edits[n + 1]
             found == Candidates(Content, edit.old)
  <2>1. found # {} /\ ~(Cardinality(found) > 1)
    BY <1>3 DEF MatchNext, Refuse
  <2>2. PICK c \in found : matches' = Append(matches, Matched(edit, c[2]))
    BY <1>3, <2>1 DEF MatchNext
  <2>3. edits' = edits /\ original' = original
    BY <1>3, <2>1 DEF MatchNext
  <2>4. Content' = Content
    BY <2>3 DEF Content
  <2>5. matches \in Seq(Ranges(Content)) /\ n \in Nat
    BY DEF EditInv, EditData
  <2> DEFINE match == Matched(edit, c[2])
  <2>6. match.new = AdoptLineEndings(edit.new, IsCrlf(Content))
    BY DEF Matched
  <2> HIDE DEF match
  <2>7. /\ Len(matches') = n + 1 /\ matches'[n + 1] = match
        /\ \A k \in 1..n : matches'[k] = matches[k]
    BY <2>2, <2>5 DEF match
  <2>8. ASSUME NEW k \in 1..(n + 1)
        PROVE  matches'[k].new = AdoptLineEndings(edits[k].new, IsCrlf(Content))
    <3>1. CASE k = n + 1
      BY <2>6, <2>7, <3>1
    <3>2. CASE k # n + 1
      <4>1. k \in 1..n
        BY <2>5, <3>2
      <4>2. QED
        BY <2>7, <4>1 DEF Adopted
    <3>3. QED
      BY <3>1, <3>2
  <2>9. QED
    BY <2>3, <2>4, <2>7, <2>8 DEF Adopted
<1>4. CASE EditStart
  <2>1. editPc = "called" => matches = <<>>
    BY DEF EditInv, EditPhase
  <2>2. editPc = "called" /\ matches' = matches
    BY <1>4 DEF EditStart, Refuse
  <2>3. QED
    BY <1>2, <2>1, <2>2
<1>5. CASE CheckOverlap
  BY <1>1, <1>5 DEF CheckOverlap, Refuse
<1>6. CASE ApplyNext
  BY <1>1, <1>6 DEF ApplyNext
<1>7. CASE Commit
  BY <1>1, <1>7 DEF Commit, Refuse
<1>8. CASE UNCHANGED editVars
  BY <1>1, <1>8 DEF editVars
<1>9. QED
  BY <1>1, <1>3, <1>4, <1>5, <1>6, <1>7, <1>8 DEF EditNext

\* What is written has the endings of what was read.
LEMMA SplicedEndings ==
    ASSUME EditInv, Adopted, editPc = "ok", \A k \in DOMAIN edits : WholeBreaks(edits[k].new)
    PROVE  /\ LfOnly(original) => LfOnly(file)
           /\ CrlfOnly(original) /\ IsCrlf(Content) /\ ~(\E m \in ToSet(matches) : Splits(m))
                 => CrlfOnly(file)
<1> DEFINE spliced == FlattenSeq(SplicePieces(Content, matches))
<1>1. /\ original \in Seq(Char) /\ edits \in Seq([old : Seq(Char), new : Seq(Char)])
      /\ matches \in Seq(Ranges(Content)) /\ Len(matches) <= Len(edits)
  BY DEF EditInv, EditData
<1>2. Content \in Seq(Char) /\ HasBom(original) \in BOOLEAN
  BY <1>1, ContentType DEF HasBom
<1>3. file = RestoreBom(HasBom(original), spliced)
  <2>1. DOMAIN Content = 1..Len(Content)
    BY <1>2
  <2>2. Spliced
    BY DEF EditInv
  <2>3. QED
    BY <2>1, <2>2, Zenon DEF Spliced, SplicePieces, SplicePiece, Inserted, Kept
<1>4. spliced \in Seq(Char)
  <2>1. Len(Content) \in Nat /\ SplicePieces(Content, matches) \in [1..Len(Content) -> Seq(Char)]
    BY <1>1, <1>2, PiecesType
  <2>2. QED
    BY <2>1, FlattenType
<1> HIDE DEF spliced
<1>5. ASSUME NEW k \in 1..Len(matches)
      PROVE  /\ IsCrlf(Content) = FALSE => matches[k].new \in LfTexts
             /\ IsCrlf(Content) => matches[k].new \in CrlfTexts
  <2>1. k \in 1..Len(edits) /\ DOMAIN edits = 1..Len(edits)
    <3>1. Len(matches) \in Nat /\ Len(edits) \in Nat /\ DOMAIN edits = 1..Len(edits)
      BY <1>1
    <3>2. QED
      BY <1>1, <3>1
  <2>2. edits[k] \in [old : Seq(Char), new : Seq(Char)]
    BY <1>1, <2>1, ElementOfSeq
  <2>3. edits[k].new \in Seq(Char) /\ WholeBreaks(edits[k].new)
    BY <2>1, <2>2
  <2>4. matches[k].new = AdoptLineEndings(edits[k].new, IsCrlf(Content))
    BY DEF Adopted
  <2>5. IsCrlf(Content) => IsCrlf(Content) = TRUE
    BY DEF IsCrlf
  <2>6. QED
    BY <2>3, <2>4, <2>5, AdoptedEndings
<1>6. ASSUME LfOnly(original) PROVE LfOnly(file)
  <2>1. Content \in LfTexts /\ IsCrlf(Content) = FALSE
    BY <1>1, <1>6, EndingsOfContent
  <2>2. spliced \in LfTexts
    BY <1>1, <1>5, <2>1, LfSplice DEF spliced
  <2>3. file \in LfTexts
    BY <1>2, <1>3, <1>4, <2>2, EndingsWithBom
  <2>4. QED
    BY <2>3 DEF LfTexts
<1>7. ASSUME CrlfOnly(original), IsCrlf(Content), ~(\E m \in ToSet(matches) : Splits(m))
      PROVE  CrlfOnly(file)
  <2>1. Content \in CrlfTexts
    BY <1>1, <1>7, EndingsOfContent
  <2>2. NoneSplits(Content, matches)
    BY <1>7 DEF NoneSplits, Splits
  <2>3. spliced \in CrlfTexts
    BY <1>1, <1>5, <1>7, <2>1, <2>2, CrlfSplice DEF spliced
  <2>4. file \in CrlfTexts
    BY <1>2, <1>3, <1>4, <2>3, EndingsWithBom
  <2>5. QED
    BY <2>4 DEF CrlfTexts
<1>8. QED
  BY <1>6, <1>7

\* A file whose lines all end alike stays so whatever is written into it, as long
\* as no range begins or ends inside a CRLF.  text.rs:24-40, edit.rs:45-57.
THEOREM EndingsStay == EditSpec => []EndingsKept
<1>1. EditInit => Adopted
  BY DEF EditInit, Adopted
<1>2. EditInv /\ Adopted => EndingsKept
  BY SplicedEndings DEF EndingsKept
<1>3. QED
  BY <1>1, <1>2, AdoptedStep, EditInvariance, PTL DEF EditSpec

-----------------------------------------------------------------------------
(* What a range holds                                                      *)

\* A normalized text never ends in a blank: blanks are kept only before
\* something else.
EndsInText(s) == s = <<>> \/ Last(s) # Space

\* One character more keeps that.
LEMMA NeedleStepEnds ==
    ASSUME NEW acc \in NeedleState, NEW c \in Char, EndsInText(acc.chars)
    PROVE  EndsInText(NeedleStep(acc, c).chars)
<1> DEFINE next == NeedleStep(acc, c)
           all == acc.chars \o [k \in 1..acc.blanks |-> Space]
           last == Nfkc[AsciiOf[c]]
<1>1. CR # LF /\ LF \in Char /\ LF # Space /\ Space \in Char /\ acc.chars \in Seq(Char) /\ acc.blanks \in Nat
  BY EditAssumption DEF NeedleState
<1>2. EndsInText(Broken(acc))
  BY <1>1, AppendProperties DEF Broken, EndsInText, Last
<1>3. IsBlank(c) => ~IsBreak(c)
  BY EditAssumption DEF IsBlank, IsBreak
<1>4. CASE ~IsBlank(c) /\ ~IsBreak(c)
  <2>1. next = [chars |-> Extended(acc, c), blanks |-> 0, cr |-> FALSE]
    BY <1>4 DEF NeedleStep, IsBreak
  <2>2. next.chars = Cat(all, last)
    <3>1. Extended(acc, c) = Cat(all, last)
      BY DEF Extended, Cat
    <3> HIDE DEF all, last
    <3>2. QED
      BY <2>1, <3>1
  <2>3. last \in Seq(Char) /\ last # <<>> /\ Last(last) # Space
    BY <1>4, EditAssumption DEF IsBlank, IsBreak
  <2>4. all \in Seq(Char)
    BY <1>1
  <2> HIDE DEF all, last, next
  <2>5. Joins(Char, Len(all), all, last, Cat(all, last)) /\ Len(all) \in Nat
    BY <2>3, <2>4, CatJoins
  <2>6. Len(last) \in Nat /\ Len(last) # 0
    BY <2>3
  <2>7. Last(Cat(all, last)) = Last(last)
    BY <2>5, <2>6 DEF Joins, Last
  <2>8. QED
    BY <2>2, <2>3, <2>7 DEF EndsInText, next
<1>5. CASE IsBlank(c)
  <2>1. next.chars = acc.chars
    BY <1>3, <1>5 DEF NeedleStep, IsBreak, NeedleState
  <2>2. QED
    BY <2>1
<1>6. CASE IsBreak(c)
  <2>1. next.chars \in {acc.chars, Broken(acc)}
    BY <1>1, <1>6 DEF NeedleStep, IsBreak, NeedleState
  <2>2. QED
    BY <1>2, <2>1
<1>7. QED
  BY <1>4, <1>5, <1>6

\* It holds of every needle.
LEMMA NeedleEnds ==
    ASSUME NEW t \in Seq(Char)
    PROVE  EndsInText(NormalizeChars(t))
<1> DEFINE n == Len(t)
<1>1. PICK f \in [0..n -> NeedleState] : Needles(t, f) /\ NormalizeChars(t) = f[n].chars
  BY NormalizeCharsIs
<1>2. n \in Nat /\ \A k \in 1..n : t[k] \in Char
  OBVIOUS
<1> DEFINE T == {k \in 0..n : EndsInText(f[k].chars)}
<1>3. 0 \in T
  BY <1>1, <1>2 DEF Needles, EndsInText
<1>4. ASSUME NEW k \in 1..n, k - 1 \in T PROVE k \in T
  <2>1. f[k] = NeedleStep(f[k - 1], t[k]) /\ f[k - 1] \in NeedleState /\ EndsInText(f[k - 1].chars)
    BY <1>1, <1>4 DEF Needles
  <2>2. EndsInText(f[k].chars)
    BY <1>2, <2>1, NeedleStepEnds
  <2>3. QED
    BY <2>2
<1> HIDE DEF T
<1>5. n \in T
  <2>1. 0..n \subseteq T
    BY <1>2, <1>3, <1>4, Climb
  <2>2. QED
    BY <1>2, <2>1
<1>6. QED
  BY <1>1, <1>5 DEF T

\* What the piece p, made of the i-th character, stands for around it.
Around(t, i, p) ==
    /\ p.from \in 1..i /\ p.to \in i..Len(t)
    /\ \A k \in p.from..(i - 1) : Chars(Piece(t, k)) = <<>>
    /\ \A k \in (i + 1)..p.to : Chars(Piece(t, k)) = <<>>
    /\ ~(t[p.from] = LF /\ p.from > 1 /\ t[p.from - 1] = CR)
    /\ IsBlank(t[i]) => p.char = Space
    /\ ~IsBlank(t[i]) => ~IsBlank(t[p.to])
    /\ ~IsBlank(t[i]) /\ ~IsBreak(t[i]) => p.from = i /\ p.to = i

\* A break stands for the blanks before it and, as a CR, for the LF after it.
LEMMA BreakAround ==
    ASSUME NEW t \in Seq(Char), NEW i \in 1..Len(t), IsBreak(t[i]),
           ~(t[i] = LF /\ i > 1 /\ t[i - 1] = CR),
           NEW p, p.from = BlanksBefore(t, i), p.to = IF CrlfAt(t, i) THEN i + 1 ELSE i
    PROVE  Around(t, i, p)
<1> DEFINE b == BlanksBefore(t, i)
           e == IF CrlfAt(t, i) THEN i + 1 ELSE i
<1>1. Len(t) \in Nat /\ i \in Nat /\ i > 0 /\ i \in 1..(Len(t) + 1)
  OBVIOUS
<1>2. b \in 1..i /\ \A k \in b..(i - 1) : IsBlank(t[k])
  BY <1>1, BlanksBeforeIs
<1>3. ~IsBlank(CR) /\ ~IsBlank(LF) /\ CR # LF
  BY EditAssumption DEF IsBlank
<1>4. ~IsBlank(t[i])
  BY <1>3 DEF IsBreak
<1>5. e \in i..Len(t) /\ ~IsBlank(t[e])
  BY <1>1, <1>3, <1>4 DEF CrlfAt
<1>6. \A k \in (i + 1)..e : Chars(Piece(t, k)) = <<>>
  <2> SUFFICES ASSUME NEW k \in (i + 1)..e PROVE Chars(Piece(t, k)) = <<>>
    OBVIOUS
  <2>1. k = i + 1 /\ CrlfAt(t, i)
    BY <1>1
  <2>2. k \in 1..Len(t) /\ k > 1 /\ t[k] = LF /\ t[k - 1] = CR
    BY <1>1, <2>1 DEF CrlfAt
  <2>3. QED
    BY <2>2, PieceChars
<1> HIDE DEF b
<1>7. \A k \in b..(i - 1) : Chars(Piece(t, k)) = <<>>
  <2> SUFFICES ASSUME NEW k \in b..(i - 1) PROVE Chars(Piece(t, k)) = <<>>
    OBVIOUS
  <2>1. k \in 1..(i - 1) /\ \A j \in k..(i - 1) : j \in b..(i - 1)
    BY <1>1, <1>2
  <2>2. \A j \in k..(i - 1) : IsBlank(t[j])
    BY <1>2, <2>1
  <2>3. QED
    BY <1>1, <2>1, <2>2, BlanksDropped
<1>8. ~(t[b] = LF /\ b > 1 /\ t[b - 1] = CR)
  <2>1. CASE b = i
    BY <2>1
  <2>2. CASE b # i
    <3>1. b \in b..(i - 1)
      BY <1>1, <1>2, <2>2
    <3>2. QED
      BY <1>2, <1>3, <3>1
  <2>3. QED
    BY <2>1, <2>2
<1> HIDE DEF e
<1>9. p.from = b /\ p.to = e
  BY DEF b, e
<1>10. QED
  BY <1>2, <1>4, <1>5, <1>6, <1>7, <1>8, <1>9 DEF Around

\* Every piece does: of the characters it stands for only its own becomes any.
LEMMA PieceAround ==
    ASSUME NEW t \in Seq(Char), NEW i \in 1..Len(t), NEW q \in 1..Len(Piece(t, i))
    PROVE  Around(t, i, Piece(t, i)[q])
<1> DEFINE Of(c, from, to) == [char |-> c, from |-> from, to |-> to]
           p == Piece(t, i)[q]
<1>1. Len(t) \in Nat /\ i \in Nat /\ CR # LF /\ ~IsBlank(CR) /\ ~IsBlank(LF)
  <2>1. Len(t) \in Nat /\ i \in Nat
    OBVIOUS
  <2>2. CR # LF /\ ~IsBlank(CR) /\ ~IsBlank(LF)
    BY EditAssumption DEF IsBlank
  <2>3. QED
    BY <2>1, <2>2
<1>2. CASE IsBreak(t[i])
  <2>1. CASE t[i] = LF /\ i > 1 /\ t[i - 1] = CR
    <3>1. Piece(t, i) = <<>>
      BY <1>1, <2>1 DEF Piece
    <3>2. QED
      BY <3>1
  <2>2. CASE ~(t[i] = LF /\ i > 1 /\ t[i - 1] = CR)
    <3> DEFINE e == IF CrlfAt(t, i) THEN i + 1 ELSE i
               b == BlanksBefore(t, i)
    <3>1. t[i] = LF => e = i
      BY <1>1 DEF CrlfAt
    <3>2. Piece(t, i) = <<Of(LF, b, e)>>
      <4>1. t[i] = CR => Piece(t, i) = <<Of(LF, b, e)>>
        BY <1>1 DEF Piece
      <4>2. t[i] = LF => Piece(t, i) = <<Of(LF, b, i)>>
        BY <1>1, <2>2 DEF Piece
      <4>3. QED
        BY <1>2, <3>1, <4>1, <4>2 DEF IsBreak
    <3> HIDE DEF e, b
    <3>3. q = 1 /\ p = Of(LF, b, e)
      BY <3>2
    <3>4. p.from = b /\ p.to = e
      BY <3>3
    <3> HIDE DEF p
    <3>5. Around(t, i, p)
      BY <1>2, <2>2, <3>4, BreakAround DEF b, e
    <3>6. QED
      BY <3>5 DEF p
  <2>3. QED
    BY <2>1, <2>2
<1>3. CASE ~IsBreak(t[i])
  <2>1. p.from = i /\ p.to = i /\ (IsBlank(t[i]) => p.char = Space)
    <3>1. CASE IsBlank(t[i])
      <4>1. Piece(t, i) = IF IsInner(t, i) THEN <<Of(Space, i, i)>> ELSE <<>>
        BY <1>3, <3>1 DEF Piece, IsBreak
      <4>2. Piece(t, i) = <<Of(Space, i, i)>>
        BY <4>1
      <4>3. QED
        BY <4>2
    <3>2. CASE ~IsBlank(t[i])
      <4> DEFINE expanded == Nfkc[AsciiOf[t[i]]]
      <4>1. Piece(t, i) = [k \in DOMAIN expanded |-> Of(expanded[k], i, i)]
        BY <1>3, <3>2 DEF Piece, IsBreak
      <4>2. expanded \in Seq(Char)
        BY EditAssumption
      <4> HIDE DEF expanded
      <4>3. Piece(t, i) = [k \in 1..Len(expanded) |-> Of(expanded[k], i, i)] /\ Len(expanded) \in Nat
        BY <4>1, <4>2
      <4>4. p = Of(expanded[q], i, i)
        BY <4>3
      <4>5. QED
        BY <3>2, <4>4
    <3>3. QED
      BY <3>1, <3>2
  <2> HIDE DEF p
  <2>2. t[i] # LF /\ i \in i..Len(t) /\ i \in 1..i /\ i..(i - 1) = {} /\ (i + 1)..i = {}
    BY <1>1, <1>3 DEF IsBreak
  <2>3. QED
    BY <2>1, <2>2 DEF Around, p
<1>4. QED
  BY <1>2, <1>3

\* A character that is a blank or a break becomes one character at most.
LEMMA PieceLength ==
    ASSUME NEW t \in Seq(Char), NEW i \in 1..Len(t), Len(Piece(t, i)) # 0,
           ~IsBlank(t[i]) /\ ~IsBreak(t[i]) => Len(Nfkc[AsciiOf[t[i]]]) = 1
    PROVE  Len(Piece(t, i)) = 1
<1> DEFINE c == Chars(Piece(t, i))
<1>1. Len(c) = Len(Piece(t, i))
  <2>1. Piece(t, i) \in Seq(PieceOf(t))
    BY PieceRange
  <2> DEFINE x == Piece(t, i)
  <2> HIDE DEF x
  <2>2. x \in Seq(PieceOf(t))
    BY <2>1 DEF x
  <2>3. Len(Chars(x)) = Len(x)
    BY <2>2 DEF Chars
  <2>4. QED
    BY <2>3 DEF x
<1>2. c # <<>>
  BY <1>1
<1>3. c \in {<<LF>>, <<Space>>} \/ (~IsBlank(t[i]) /\ ~IsBreak(t[i]) /\ c = Nfkc[AsciiOf[t[i]]])
  BY <1>2, PieceChars DEF IsBreak
<1>4. Len(c) = 1
  BY <1>3
<1>5. QED
  BY <1>1, <1>4

\* The part of t from a to b.
Holds(held, t, a, b) ==
    /\ held \in Seq(Char) /\ Len(held) = b - a + 1
    /\ \A k \in a..b : held[k - a + 1] = t[k]

\* A part that does not begin inside a CRLF nor end in a blank.
Closed(t, a, b) ==
    ~(t[a] = LF /\ a > 1 /\ t[a - 1] = CR) /\ ~IsBlank(t[b])

\* Such a part is normalized like any other text.
LEMMA HeldPiece ==
    ASSUME NEW t \in Seq(Char), NEW a \in 1..Len(t), NEW b \in a..Len(t), Closed(t, a, b),
           NEW held, Holds(held, t, a, b), NEW k \in a..b
    PROVE  Chars(Piece(held, k - a + 1)) = Chars(Piece(t, k))
<1> DEFINE m == k - a + 1
<1>1. /\ a \in Nat /\ b \in Nat /\ k \in Nat /\ Len(t) \in Nat /\ a <= k /\ k <= b /\ b <= Len(t) /\ 1 <= a
      /\ k \in 1..Len(t)
  OBVIOUS
<1>2. held \in Seq(Char) /\ Len(held) = b - a + 1 /\ m \in 1..Len(held) /\ held[m] = t[k]
  BY <1>1 DEF Holds
<1>3. t[k] = LF => (m > 1 /\ held[m - 1] = CR <=> k > 1 /\ t[k - 1] = CR)
  <2>1. CASE k = a
    <3>1. m = 1
      BY <1>1, <2>1
    <3>2. QED
      BY <2>1, <3>1 DEF Closed
  <2>2. CASE k # a
    <3>1. k - 1 \in a..b /\ m > 1 /\ k > 1 /\ (k - 1) - a + 1 = m - 1
      BY <1>1, <2>2
    <3>2. held[m - 1] = t[k - 1]
      BY <3>1 DEF Holds
    <3>3. QED
      BY <3>1, <3>2
  <2>3. QED
    BY <2>1, <2>2
<1>4. \A j \in m..Len(held) : j + a - 1 \in k..b /\ held[j] = t[j + a - 1]
  <2> SUFFICES ASSUME NEW j \in m..Len(held) PROVE j + a - 1 \in k..b /\ held[j] = t[j + a - 1]
    OBVIOUS
  <2>1. j \in Nat /\ j + a - 1 \in k..b /\ j + a - 1 \in a..b /\ (j + a - 1) - a + 1 = j
    BY <1>1, <1>2
  <2>2. QED
    BY <2>1 DEF Holds
<1>5. \A j \in k..b : j - a + 1 \in m..Len(held) /\ held[j - a + 1] = t[j] /\ j \in k..Len(t)
  <2> SUFFICES ASSUME NEW j \in k..b
               PROVE  j - a + 1 \in m..Len(held) /\ held[j - a + 1] = t[j] /\ j \in k..Len(t)
    OBVIOUS
  <2>1. j \in a..b /\ j - a + 1 \in m..Len(held) /\ j \in k..Len(t)
    BY <1>1, <1>2
  <2>2. QED
    BY <2>1 DEF Holds
<1> HIDE DEF m
<1>6. m \in Nat /\ m = k - a + 1
  BY <1>1 DEF m
<1>7. ASSUME IsInner(held, m) PROVE IsInner(t, k)
  <2>1. PICK j \in m..Len(held) : /\ ~IsBlank(held[j]) /\ ~IsBreak(held[j])
                                  /\ \A l \in m..(j - 1) : IsBlank(held[l])
    BY <1>7 DEF IsInner
  <2> DEFINE z == j + a - 1
  <2>2. z \in k..b /\ held[j] = t[z] /\ z \in k..Len(t)
    BY <1>4, <1>5
  <2>3. ASSUME NEW l \in k..(z - 1) PROVE IsBlank(t[l])
    <3>1. l \in k..b /\ l - a + 1 \in m..(j - 1)
      BY <1>1, <1>2, <1>6, <2>2
    <3>2. IsBlank(held[l - a + 1])
      BY <2>1, <3>1
    <3>3. QED
      BY <1>5, <3>1, <3>2
  <2> HIDE DEF z
  <2>4. QED
    BY <2>1, <2>2, <2>3 DEF IsInner
<1>8. ASSUME IsInner(t, k) PROVE IsInner(held, m)
  <2>1. PICK j \in k..Len(t) : /\ ~IsBlank(t[j]) /\ ~IsBreak(t[j])
                               /\ \A l \in k..(j - 1) : IsBlank(t[l])
    BY <1>8 DEF IsInner
  <2>2. b \notin k..(j - 1)
    BY <2>1 DEF Closed
  <2>3. j \in k..b
    BY <1>1, <2>2
  <2> DEFINE z == j - a + 1
  <2>4. z \in m..Len(held) /\ held[z] = t[j]
    BY <1>5, <2>3
  <2>5. ASSUME NEW l \in m..(z - 1) PROVE IsBlank(held[l])
    <3>1. l \in m..Len(held) /\ l + a - 1 \in k..(j - 1)
      BY <1>1, <1>2, <1>6, <2>3, <2>4
    <3>2. IsBlank(t[l + a - 1])
      BY <2>1, <3>1
    <3>3. QED
      BY <1>4, <3>1, <3>2
  <2> HIDE DEF z
  <2>6. QED
    BY <2>1, <2>4, <2>5 DEF IsInner
<1>9. IsInner(held, m) <=> IsInner(t, k)
  BY <1>7, <1>8
<1> DEFINE x == Chars(Piece(held, m))
           y == Chars(Piece(t, k))
           c == t[k]
<1>10. /\ c = CR => x = <<LF>>
       /\ c = LF => x = IF m > 1 /\ held[m - 1] = CR THEN <<>> ELSE <<LF>>
       /\ IsBlank(c) => x = IF IsInner(held, m) THEN <<Space>> ELSE <<>>
       /\ ~IsBlank(c) /\ ~IsBreak(c) => x = Nfkc[AsciiOf[c]]
  BY <1>2, PieceChars
<1>11. /\ c = CR => y = <<LF>>
       /\ c = LF => y = IF k > 1 /\ t[k - 1] = CR THEN <<>> ELSE <<LF>>
       /\ IsBlank(c) => y = IF IsInner(t, k) THEN <<Space>> ELSE <<>>
       /\ ~IsBlank(c) /\ ~IsBreak(c) => y = Nfkc[AsciiOf[c]]
  BY <1>1, PieceChars
<1> HIDE DEF x, y, c
<1>12. x = y
  BY <1>3, <1>9, <1>10, <1>11 DEF IsBreak, c
<1>13. QED
  BY <1>12 DEF x, y, m

\* The pieces of t up to b end in those of the part from a to b.
LEMMA HeldText ==
    ASSUME NEW t \in Seq(Char), NEW a \in 1..Len(t), NEW b \in a..Len(t), Closed(t, a, b),
           NEW held, Holds(held, t, a, b), NEW h \in [0..Len(t) -> Seq(Char)],
           Flattens(Len(t), [i \in 1..Len(t) |-> Chars(Piece(t, i))], h)
    PROVE  NormalizeChars(held) \in Seq(Char) /\ h[b] = Cat(h[a - 1], NormalizeChars(held))
<1> DEFINE n == Len(t)
           m == b - a + 1
           chars == [i \in 1..n |-> Chars(Piece(t, i))]
           parts == [i \in 1..m |-> Chars(Piece(held, i))]
           Q == Seq(Char)
<1>1. a \in Nat /\ b \in Nat /\ n \in Nat /\ m \in Nat /\ m = b - a + 1 /\ 1 <= a /\ a <= b /\ b <= n
  OBVIOUS
<1>2. held \in Seq(Char) /\ Len(held) = m
  BY DEF Holds
<1>3. PICK g \in [0..Len(held) -> Seq(Char)] :
          /\ Flattens(Len(held), [i \in 1..Len(held) |-> Chars(Piece(held, i))], g)
          /\ Chars(NormalizedText(held)) = g[Len(held)]
  BY <1>2, NormalizedChars
<1>4. g \in [0..m -> Q] /\ Flattens(m, parts, g) /\ NormalizeChars(held) = g[m]
  BY <1>2, <1>3, NormalizersMeet
<1>5. h \in [0..n -> Q] /\ Flattens(n, chars, h)
  OBVIOUS
<1>6. ASSUME NEW k \in 1..m PROVE parts[k] = chars[a - 1 + k] /\ parts[k] \in Q
  <2>1. a - 1 + k \in a..b /\ a - 1 + k \in 1..n /\ (a - 1 + k) - a + 1 = k
    BY <1>1
  <2>2. Chars(Piece(held, k)) = Chars(Piece(t, a - 1 + k))
    BY <2>1, HeldPiece
  <2>3. Chars(Piece(t, a - 1 + k)) \in Seq(Char)
    BY <2>1, PieceChars
  <2>4. QED
    BY <2>1, <2>2, <2>3
<1>7. /\ \A s, u, v \in Q : Cat(Cat(s, u), v) = Cat(s, Cat(u, v))
      /\ \A s \in Q : Cat(s, <<>>) = s
  BY CatLaws DEF Q
<1> HIDE DEF n, m, chars, parts, Q
<1>8. h[a - 1] \in Q
  <2>1. a - 1 \in 0..n
    BY <1>1
  <2>2. QED
    BY <1>5, <2>1
<1> DEFINE T == {k \in 0..m : h[a - 1 + k] = Cat(h[a - 1], g[k])}
<1>9. 0 \in T
  <2>1. a - 1 + 0 = a - 1 /\ 0 \in 0..m
    BY <1>1
  <2>2. QED
    BY <1>4, <1>7, <1>8, <2>1 DEF Flattens
<1>10. ASSUME NEW k \in 1..m, k - 1 \in T PROVE k \in T
  <2> DEFINE z == a - 1 + k
  <2>1. z \in 1..n /\ z - 1 = a - 1 + (k - 1) /\ k \in 0..m /\ k - 1 \in 0..m
    BY <1>1
  <2>2. h[z] = Cat(h[z - 1], chars[z])
    BY <1>5, <2>1 DEF Flattens
  <2>3. h[z - 1] = Cat(h[a - 1], g[k - 1])
    BY <1>10, <2>1
  <2>4. g[k] = Cat(g[k - 1], parts[k]) /\ g[k - 1] \in Q
    BY <1>4, <2>1 DEF Flattens
  <2>5. chars[z] = parts[k] /\ parts[k] \in Q
    BY <1>6
  <2> HIDE DEF z
  <2>6. h[z] = Cat(h[a - 1], g[k])
    BY <1>7, <1>8, <2>2, <2>3, <2>4, <2>5
  <2>7. QED
    BY <2>1, <2>6 DEF z
<1> HIDE DEF T
<1>11. m \in T
  <2>1. 0..m \subseteq T
    BY <1>1, <1>9, <1>10, Climb
  <2>2. QED
    BY <1>1, <2>1
<1>12. a - 1 + m = b /\ g[m] \in Q
  BY <1>1, <1>4
<1>13. QED
  BY <1>4, <1>11, <1>12 DEF T, Q

\* A range of t that holds the text old, as RangeIsOldText says.
HoldsOld(t, range, old) ==
    LET held == SubSeq(t, range.from, range.to)
    IN  (\A c \in {Head(held), Last(held)} : Len(Nfkc[AsciiOf[c]]) = 1)
            => NormalizeChars(held) = NormalizeChars(old)

\* SubSeq gives the part and its ends.
LEMMA SubSeqHolds ==
    ASSUME NEW t \in Seq(Char), NEW a \in 1..Len(t), NEW b \in a..Len(t)
    PROVE  /\ Holds(SubSeq(t, a, b), t, a, b)
           /\ Head(SubSeq(t, a, b)) = t[a] /\ Last(SubSeq(t, a, b)) = t[b]
<1> DEFINE held == SubSeq(t, a, b)
<1>1. a \in Int /\ b \in Int /\ a <= b /\ \A k \in a..b : t[k] \in Char
  OBVIOUS
<1>2. held \in Seq(Char) /\ Len(held) = b - a + 1 /\ \A i \in 1..(b - a + 1) : held[i] = t[a + i - 1]
  BY <1>1, SubSeqProperties
<1> HIDE DEF held
<1>3. ASSUME NEW k \in a..b PROVE held[k - a + 1] = t[k]
  <2>1. k - a + 1 \in 1..(b - a + 1) /\ a + (k - a + 1) - 1 = k
    BY <1>1
  <2>2. held[k - a + 1] = t[a + (k - a + 1) - 1]
    BY <1>2, <2>1
  <2>3. QED
    BY <2>1, <2>2
<1>4. held[1] = t[a] /\ held[Len(held)] = t[b]
  <2>1. a \in a..b /\ b \in a..b /\ a - a + 1 = 1
    BY <1>1
  <2>2. QED
    BY <1>2, <1>3, <2>1
<1>5. Head(held) = held[1]
  <2>1. held # <<>>
    BY <1>1, <1>2
  <2>2. QED
    BY <1>2, <2>1
<1>6. QED
  BY <1>2, <1>3, <1>4, <1>5 DEF Holds, Last, held

\* whole begins with all, which is before and then part, and has needle from i to j.
Meet(before, part, all, whole, needle, i, j) ==
    /\ {before, part, all, whole, needle} \subseteq Seq(Char)
    /\ i \in Nat /\ j \in Nat /\ i <= j /\ Len(before) = i - 1 /\ Len(all) = j
    /\ all = Cat(before, part) /\ Begins(all, whole)
    /\ Len(needle) = j - i + 1 /\ SubSeq(whole, i, j) = needle

\* Then the part is the needle.
LEMMA EndsMeet ==
    ASSUME NEW before, NEW part, NEW all, NEW whole, NEW needle, NEW i, NEW j,
           Meet(before, part, all, whole, needle, i, j)
    PROVE  part = needle
<1>0. /\ before \in Seq(Char) /\ part \in Seq(Char) /\ all \in Seq(Char)
      /\ whole \in Seq(Char) /\ needle \in Seq(Char) /\ i \in Nat /\ j \in Nat /\ i <= j
      /\ Len(before) = i - 1 /\ Len(all) = j /\ all = Cat(before, part) /\ Begins(all, whole)
      /\ Len(needle) = j - i + 1 /\ SubSeq(whole, i, j) = needle
  BY DEF Meet
<1>1. Joins(Char, Len(before), before, part, all) /\ Len(part) \in Nat /\ Len(before) \in Nat
  BY <1>0, CatJoins
<1>2. Len(part) = j - i + 1 /\ Len(whole) \in Nat /\ j <= Len(whole) /\ i >= 1
  BY <1>0, <1>1 DEF Joins, Begins
<1>3. ASSUME NEW q \in 1..Len(part) PROVE part[q] = needle[q]
  <2>1. q \in Nat /\ i - 1 + q \in 1..j /\ (i - 1 + q) - (i - 1) = q /\ ~(i - 1 + q <= i - 1) /\ i + q - 1 = i - 1 + q
    BY <1>0, <1>2
  <2>2. all[i - 1 + q] = part[q]
    BY <1>0, <1>1, <1>2, <2>1 DEF Joins
  <2>3. whole[i - 1 + q] = all[i - 1 + q]
    BY <1>0, <2>1 DEF Begins
  <2>4. needle[q] = whole[i - 1 + q]
    <3>1. \A k \in i..j : whole[k] \in Char
      <4>1. \A k \in i..j : k \in 1..Len(whole)
        BY <1>0, <1>2
      <4>2. QED
        BY <1>0, <4>1, ElementOfSeq
    <3>2. \A k \in 1..(j - i + 1) : SubSeq(whole, i, j)[k] = whole[i + k - 1]
      BY <1>0, <3>1, SubSeqProperties
    <3>3. needle[q] = whole[i + q - 1]
      BY <1>0, <1>2, <3>2
    <3>4. QED
      BY <2>1, <3>3
  <2>5. QED
    BY <2>2, <2>3, <2>4
<1>4. QED
  BY <1>0, <1>2, <1>3, SeqEqual

\* What the normalized text has from i to j is what the characters behind it
\* are normalized to.
LEMMA RangeText ==
    ASSUME NEW t \in Seq(Char), NEW needle \in Seq(Char), needle # <<>>, EndsInText(needle),
           NEW i \in Nat, i > 0, OccursAt(Chars(NormalizedText(t)), needle, i)
    PROVE  LET range == OriginalRange(NormalizedText(t), i, i + Len(needle) - 1)
               held == SubSeq(t, range.from, range.to)
           IN  (\A c \in {Head(held), Last(held)} : Len(Nfkc[AsciiOf[c]]) = 1)
                   => NormalizeChars(held) = needle
<1> DEFINE n == Len(t)
           P == PieceOf(t)
           seqs == [k \in 1..n |-> Piece(t, k)]
           chars == [k \in 1..n |-> Chars(Piece(t, k))]
           pieces == NormalizedText(t)
           j == i + Len(needle) - 1
           range == OriginalRange(pieces, i, j)
           held == SubSeq(t, range.from, range.to)
<1>1. PICK f \in [0..n -> Seq(P)], h \in [0..n -> Seq(Char)] : Normalizes(t, f, h)
  BY NormalizedPieces
<1>2. pieces = f[n] /\ \A k \in 0..n : h[k] = Chars(f[k])
  BY <1>1 DEF Normalizes
<1>3. \A k \in 1..n : seqs[k] = Piece(t, k) /\ chars[k] = Chars(Piece(t, k))
  OBVIOUS
<1>f. n \in Nat /\ seqs \in [1..n -> Seq(P)] /\ Flattens(n, seqs, f) /\ f \in [0..n -> Seq(P)]
  BY <1>1, PieceRange DEF Normalizes
<1>h. n \in Nat /\ chars \in [1..n -> Seq(Char)] /\ Flattens(n, chars, h) /\ h \in [0..n -> Seq(Char)]
  BY <1>1, PieceChars DEF Normalizes
<1>4. Len(needle) \in Nat /\ Len(needle) > 0 /\ j \in Nat /\ i <= j /\ Len(needle) = j - i + 1
  OBVIOUS
<1> HIDE DEF seqs, chars, P, j
<1>5. \A k \in 0..n : Len(h[k]) = Len(f[k]) /\ Len(f[k]) \in Nat
  <2> SUFFICES ASSUME NEW k \in 0..n PROVE Len(h[k]) = Len(f[k]) /\ Len(f[k]) \in Nat
    OBVIOUS
  <2>1. f[k] \in Seq(P) /\ h[k] = Chars(f[k])
    BY <1>2
  <2> DEFINE x == f[k]
  <2> HIDE DEF x
  <2>2. x \in Seq(P) => Len(Chars(x)) = Len(x) /\ Len(x) \in Nat
    BY DEF Chars
  <2>3. QED
    BY <2>1, <2>2 DEF x
<1>6. n \in 0..n /\ h[n] = Chars(pieces) /\ h[n] \in Seq(Char) /\ Len(h[n]) = Len(f[n])
  BY <1>f, <1>2, <1>3, <1>5
<1>7. j <= Len(h[n]) /\ SubSeq(h[n], i, j) = needle
  <2>1. i + Len(needle) <= Len(h[n]) + 1 /\ SubSeq(h[n], i, i + Len(needle) - 1) = needle
    BY <1>6 DEF OccursAt
  <2>2. Len(h[n]) \in Nat
    BY <1>5, <1>6
  <2>3. QED
    BY <1>4, <2>1, <2>2 DEF j
<1>8. i \in 1..Len(f[n]) /\ j \in 1..Len(f[n])
  BY <1>4, <1>5, <1>6, <1>7
<1>9. PICK s \in 1..n : StandsIn(n, seqs, f, i, s)
  BY <1>f, <1>8, FlattenPlace
<1>10. PICK z \in 1..n : StandsIn(n, seqs, f, j, z)
  BY <1>f, <1>8, FlattenPlace
<1>11. s <= z
  BY <1>f, <1>4, <1>9, <1>10, PlacesInOrder
<1> DEFINE a == pieces[i].from
           b == pieces[j].to
<1>12. PICK p \in 1..Len(Piece(t, s)) : pieces[i] = Piece(t, s)[p]
  BY <1>f, <1>2, <1>3, <1>9 DEF StandsIn
<1>13. PICK q \in 1..Len(Piece(t, z)) : pieces[j] = Piece(t, z)[q]
  BY <1>f, <1>2, <1>3, <1>10 DEF StandsIn
<1>14. Around(t, s, pieces[i]) /\ Around(t, z, pieces[j])
  BY <1>12, <1>13, PieceAround
<1>15. a \in 1..s /\ b \in z..n /\ s \in Nat /\ z \in Nat /\ a \in 1..n /\ b \in a..n
  <2>1. a \in 1..s /\ b \in z..n
    BY <1>14 DEF Around
  <2> HIDE DEF a, b, n
  <2>2. QED
    BY <1>f, <1>11, <2>1, SMTT(30)
<1>16. ~IsBlank(t[z])
  <2> SUFFICES ASSUME IsBlank(t[z]) PROVE FALSE
    OBVIOUS
  <2>1. pieces[j].char = Space
    BY <1>14 DEF Around
  <2>2. h[n][j] = Space
    <3>1. j \in DOMAIN pieces
      BY <1>2, <1>6, <1>8
    <3>2. QED
      BY <1>6, <2>1, <3>1 DEF Chars
  <2>3. needle[Len(needle)] = h[n][j]
    <3>1. i \in Int /\ j \in Int /\ \A k \in i..j : h[n][k] \in Char
      BY <1>4, <1>6, <1>7
    <3>2. \A k \in 1..(j - i + 1) : SubSeq(h[n], i, j)[k] = h[n][i + k - 1]
      BY <3>1, SubSeqProperties
    <3>3. Len(needle) \in 1..(j - i + 1) /\ i + Len(needle) - 1 = j
      BY <1>4
    <3>4. QED
      BY <1>7, <3>2, <3>3
  <2>4. QED
    BY <2>2, <2>3 DEF EndsInText, Last
<1>17. Closed(t, a, b)
  BY <1>14, <1>16 DEF Around, Closed
<1>18. range.from = a /\ range.to = b
  BY DEF OriginalRange
<1> HIDE DEF a, b, range
<1>19. /\ Holds(held, t, a, b) /\ Head(held) = t[a] /\ Last(held) = t[b]
  BY <1>15, <1>18, SubSeqHolds
<1> HIDE DEF held
<1>20. SUFFICES ASSUME Len(Nfkc[AsciiOf[t[a]]]) = 1, Len(Nfkc[AsciiOf[t[b]]]) = 1
                PROVE  NormalizeChars(held) = needle
  BY <1>19 DEF held, range, j
<1>21. Len(seqs[s]) = 1 /\ Len(seqs[z]) = 1
  <2>1. Len(Piece(t, s)) # 0 /\ Len(Piece(t, z)) # 0
    <3>1. Piece(t, s) \in Seq(PieceOf(t)) /\ Piece(t, z) \in Seq(PieceOf(t))
      BY PieceRange
    <3>2. QED
      BY <1>12, <1>13, <3>1
  <2>2. ~IsBlank(t[s]) /\ ~IsBreak(t[s]) => a = s
    BY <1>14 DEF Around, a
  <2>3. ~IsBlank(t[z]) /\ ~IsBreak(t[z]) => b = z
    BY <1>14 DEF Around, b
  <2>4. Len(Piece(t, s)) = 1
    BY <1>20, <2>1, <2>2, PieceLength
  <2>5. Len(Piece(t, z)) = 1
    BY <1>20, <2>1, <2>3, PieceLength
  <2>6. QED
    BY <1>f, <1>3, <2>4, <2>5
<1>22. s - 1 \in 0..n /\ a - 1 \in 0..n /\ s - 1 \in (a - 1)..n /\ b \in 0..n /\ b \in z..n /\ z \in 0..n
  BY <1>f, <1>3, <1>15
<1>23. Len(h[s - 1]) = i - 1 /\ Len(h[z]) = j
  <2>1. s - 1 \in 0..n /\ z - 1 \in 0..n /\ z \in 0..n /\ z \in 1..n
    BY <1>f
  <2> HIDE DEF n
  <2> DEFINE u == f[z - 1]
             v == seqs[z]
             w == f[z]
  <2>2. Len(f[s - 1]) \in Nat /\ i - Len(f[s - 1]) \in 1..1
    BY <1>5, <1>9, <1>21, <2>1 DEF StandsIn
  <2>3. w = Cat(u, v) /\ u \in Seq(P) /\ v \in Seq(P) /\ Len(v) = 1 /\ j - Len(u) \in 1..1
    BY <1>f, <1>10, <1>21, <2>1 DEF StandsIn, Flattens
  <2> HIDE DEF u, v, w
  <2>4. Joins(P, Len(u), u, v, Cat(u, v)) /\ Len(u) \in Nat
    BY <2>3, CatJoins
  <2>5. Len(w) = j
    BY <1>4, <2>3, <2>4 DEF Joins
  <2>6. Len(f[s - 1]) = i - 1
    BY <2>2
  <2>7. QED
    BY <1>5, <2>1, <2>5, <2>6 DEF w
<1>24. h[a - 1] = h[s - 1]
  <2>1. AreEmpty(chars, a - 1, s - 1)
    <3>1. (a - 1) + 1 = a
      BY <1>15
    <3>2. \A k \in a..(s - 1) : k \in 1..n /\ Chars(Piece(t, k)) = <<>>
      <4>1. \A k \in a..(s - 1) : k \in 1..n
        BY <1>f, <1>3, <1>15
      <4>2. QED
        BY <1>14, <4>1 DEF Around, a
    <3>3. QED
      BY <1>f, <1>3, <3>1, <3>2 DEF AreEmpty
  <2> DEFINE x == a - 1
             y == s - 1
  <2>2. x \in 0..n /\ y \in x..n /\ AreEmpty(chars, x, y)
    BY <1>22, <2>1
  <2> HIDE DEF x, y, n
  <2>3. h[y] = h[x]
    BY <1>h, <2>2, FlattenEmptyRun, ZenonT(60)
  <2>4. QED
    BY <2>3 DEF x, y
<1>25. h[b] = h[z]
  <2>1. AreEmpty(chars, z, b)
    <3>1. \A k \in (z + 1)..b : k \in 1..n
      BY <1>f, <1>3, <1>15
    <3>2. \A k \in (z + 1)..b : Chars(Piece(t, k)) = <<>>
      BY <1>14 DEF Around, b
    <3>3. QED
      BY <1>f, <1>3, <3>1, <3>2 DEF AreEmpty
  <2> DEFINE x == z
             y == b
  <2>2. x \in 0..n /\ y \in x..n /\ AreEmpty(chars, x, y)
    BY <1>22, <2>1
  <2> HIDE DEF x, y, n
  <2>3. h[y] = h[x]
    BY <1>h, <2>2, FlattenEmptyRun, ZenonT(60)
  <2>4. QED
    BY <2>3 DEF x, y
<1>26. NormalizeChars(held) \in Seq(Char) /\ h[b] = Cat(h[a - 1], NormalizeChars(held))
  BY <1>h, <1>15, <1>17, <1>19, HeldText DEF chars
<1>27. Begins(h[b], h[n])
  <2>1. n \in b..n
    BY <1>f, <1>3, <1>15
  <2>2. QED
    BY <1>h, <1>22, <2>1, FlattenBegins
<1> DEFINE before == h[a - 1]
           all == h[b]
           whole == h[n]
           part == NormalizeChars(held)
<1>28. Meet(before, part, all, whole, needle, i, j)
  <2>1. before \in Seq(Char) /\ all \in Seq(Char) /\ whole \in Seq(Char) /\ part \in Seq(Char)
    BY <1>6, <1>22, <1>26
  <2>2. /\ Len(before) = i - 1 /\ Len(all) = j /\ all = Cat(before, part) /\ Begins(all, whole)
        /\ SubSeq(whole, i, j) = needle
    BY <1>7, <1>23, <1>24, <1>25, <1>26, <1>27
  <2> HIDE DEF before, all, whole, part
  <2>3. QED
    BY <1>4, <2>1, <2>2 DEF Meet
<1> HIDE DEF before, all, whole, part
<1>29. part = needle
  BY <1>28, EndsMeet
<1>30. QED
  BY <1>29 DEF part

\* Whichever way a range was found, it holds the text that was looked for.
LEMMA CandidateText ==
    ASSUME NEW t \in Seq(Char), NEW old \in Seq(Char), old # <<>>, NEW c \in Candidates(t, old)
    PROVE  HoldsOld(t, c[2], old)
<1> DEFINE exact == {<<i, [from |-> i, to |-> i + Len(old) - 1]>> : i \in MatchIndices(t, old)}
           pieces == NormalizedText(t)
           needle == NormalizeChars(old)
           found == FindAllCharPositions(Chars(pieces), needle)
           normal == {<<i, OriginalRange(pieces, i, i + Len(needle) - 1)>> : i \in found}
<1>1. CASE c \in exact
  <2>1. PICK i \in MatchIndices(t, old) : c = <<i, [from |-> i, to |-> i + Len(old) - 1]>>
    BY <1>1
  <2>2. OccursAt(t, old, i)
    BY <2>1, MatchIndicesCover
  <2>3. SubSeq(t, c[2].from, c[2].to) = old
    BY <2>1, <2>2 DEF OccursAt
  <2>4. QED
    BY <2>3 DEF HoldsOld
<1>2. CASE c \in normal
  <2>1. needle \in Seq(Char) /\ EndsInText(needle)
    BY NormalizeCharsType, NeedleEnds
  <2> DEFINE x == Chars(pieces)
  <2>2. x \in Seq(Char)
    BY NormalizersMeet, NormalizeCharsType
  <2> HIDE DEF needle, x
  <2>3. PICK i \in found : c = <<i, OriginalRange(pieces, i, i + Len(needle) - 1)>>
    BY <1>2 DEF needle
  <2>4. i \in DOMAIN x /\ OccursAt(x, needle, i) /\ needle # <<>>
    BY DEF FindAllCharPositions, x, needle
  <2>5. i \in Nat /\ i > 0
    BY <2>2, <2>4
  <2>6. c[2] = OriginalRange(pieces, i, i + Len(needle) - 1)
    BY <2>3
  <2>7. QED
    BY <2>1, <2>4, <2>5, <2>6, RangeText DEF HoldsOld, x, needle
<1>3. QED
  BY <1>1, <1>2 DEF Candidates

\* A match more holds its text, and nothing changes the ones before.
LEMMA RangeStep == EditInv /\ RangeIsOldText /\ [EditNext]_editVars => RangeIsOldText'
<1> SUFFICES ASSUME EditInv, RangeIsOldText, [EditNext]_editVars PROVE RangeIsOldText'
  OBVIOUS
<1> DEFINE n == Len(matches)
<1>1. /\ matches \in Seq(Ranges(Content)) /\ n \in Nat /\ DOMAIN matches = 1..n
      /\ edits \in Seq([old : Seq(Char), new : Seq(Char)]) /\ original \in Seq(Char)
  BY DEF EditInv, EditData
<1>2. \A k \in 1..n : HoldsOld(Content, matches[k], edits[k].old)
  BY <1>1 DEF RangeIsOldText, HoldsOld
<1>3. CASE UNCHANGED <<matches, edits, original>>
  BY <1>3 DEF RangeIsOldText, Content
<1>4. CASE matches = <<>> /\ UNCHANGED matches
  BY <1>4 DEF RangeIsOldText
<1>5. CASE MatchNext /\ ~UNCHANGED <<matches, edits, original>>
  <2> DEFINE edit == edits[n + 1]
             found == Candidates(Content, edit.old)
  <2>1. found # {} /\ ~(Cardinality(found) > 1)
    BY <1>5 DEF MatchNext, Refuse
  <2>2. PICK c \in found : matches' = Append(matches, Matched(edit, c[2]))
    BY <1>5, <2>1 DEF MatchNext
  <2>3. edits' = edits /\ original' = original /\ editPc = "match" /\ n < Len(edits)
    BY <1>5, <2>1 DEF MatchNext
  <2>4. Content' = Content
    BY <2>3 DEF Content
  <2>5. edit \in [old : Seq(Char), new : Seq(Char)] /\ edit.old # <<>>
    <3>1. DOMAIN edits = 1..Len(edits) /\ Len(edits) \in Nat
      BY <1>1
    <3>2. n + 1 \in 1..Len(edits)
      <4> HIDE DEF n
      <4>1. QED
        BY <1>1, <2>3, <3>1
    <3>3. \A k \in DOMAIN edits : edits[k].old # <<>>
      BY <2>3 DEF EditInv, EditPhase
    <3> HIDE DEF n
    <3>4. edits[n + 1] \in [old : Seq(Char), new : Seq(Char)]
      BY <1>1, <3>2, ElementOfSeq
    <3>5. QED
      BY <3>1, <3>2, <3>3, <3>4
  <2> DEFINE match == Matched(edit, c[2])
  <2>6. HoldsOld(Content, match, edit.old)
    <3>1. Content \in Seq(Char)
      BY <1>1, ContentType
    <3>2. HoldsOld(Content, c[2], edit.old)
      BY <2>5, <3>1, CandidateText
    <3>3. match.from = c[2].from /\ match.to = c[2].to
      BY DEF Matched
    <3>4. QED
      BY <3>2, <3>3 DEF HoldsOld
  <2> HIDE DEF match
  <2>7. /\ DOMAIN matches' = 1..(n + 1) /\ matches'[n + 1] = match
        /\ \A k \in 1..n : matches'[k] = matches[k]
    BY <1>1, <2>2 DEF match
  <2>8. ASSUME NEW k \in 1..(n + 1) PROVE HoldsOld(Content, matches'[k], edits[k].old)
    <3>1. CASE k = n + 1
      BY <2>6, <2>7, <3>1
    <3>2. CASE k # n + 1
      <4>1. k \in 1..n
        BY <1>1, <3>2
      <4>2. QED
        BY <1>2, <2>7, <4>1
    <3>3. QED
      BY <3>1, <3>2
  <2>9. QED
    BY <2>3, <2>4, <2>7, <2>8 DEF RangeIsOldText, HoldsOld
<1>6. CASE EditStart
  <2>1. editPc = "called" => matches = <<>>
    BY DEF EditInv, EditPhase
  <2>2. editPc = "called" /\ matches' = matches
    BY <1>6 DEF EditStart, Refuse
  <2>3. QED
    BY <1>4, <2>1, <2>2
<1>7. CASE CheckOverlap
  BY <1>3, <1>7 DEF CheckOverlap, Refuse
<1>8. CASE ApplyNext
  BY <1>3, <1>8 DEF ApplyNext
<1>9. CASE Commit
  BY <1>3, <1>9 DEF Commit, Refuse
<1>10. CASE UNCHANGED editVars
  BY <1>3, <1>10 DEF editVars
<1>11. QED
  BY <1>3, <1>5, <1>6, <1>7, <1>8, <1>9, <1>10 DEF EditNext

\* Whatever an edit replaces is, up to normalization, the oldText it was asked to
\* replace, neither more nor less, unless a character at an end of it expands to
\* several.  edit.rs:170-182, 248-254.
THEOREM RangesHoldOldTexts == EditSpec => []RangeIsOldText
<1>1. EditInit => RangeIsOldText
  BY DEF EditInit, RangeIsOldText
<1>2. QED
  BY <1>1, RangeStep, EditInvariance, PTL DEF EditSpec

-----------------------------------------------------------------------------
(* The file tools side by side                                             *)

\* Each part either runs from its own beginning or never moves.
LEMMA PartsStepAlone ==
    /\ Init => /\ EditInit \/ EditIdle
               /\ ReadInit \/ ReadIdle
               /\ TailInit \/ TailIdle
               /\ PathInit \/ PathIdle
    /\ [Next]_vars => /\ [EditNext]_editVars
                      /\ [ReadNext]_readVars
                      /\ [Collect]_tailVars
                      /\ [PathNext]_pathVars
BY DEF Init, Next, vars

LEMMA EditSide == Spec => EditSpec \/ []EditIdle
<1>1. EditIdle /\ [EditNext]_editVars => EditIdle'
  BY DEF EditIdle, EditNext, EditStart, MatchNext, CheckOverlap, ApplyNext, Commit, editVars
<1>2. QED
  BY <1>1, PartsStepAlone, PTL DEF Spec, EditSpec

LEMMA ReadSide == Spec => ReadSpec \/ []ReadIdle
<1>1. ReadIdle /\ [ReadNext]_readVars => ReadIdle'
  BY DEF ReadIdle, ReadNext, Read, Swap, AttachImage, readVars
<1>2. QED
  BY <1>1, PartsStepAlone, PTL DEF Spec, ReadSpec

LEMMA TailSide == Spec => TailSpec \/ []TailIdle
<1>1. TailIdle /\ [Collect]_tailVars => TailIdle'
  BY DEF TailIdle, Collect, tailVars
<1>2. QED
  BY <1>1, PartsStepAlone, PTL DEF Spec, TailSpec

LEMMA PathSide == Spec => PathSpec \/ []PathIdle
<1>1. PathIdle /\ [PathNext]_pathVars => PathIdle'
  <2> SUFFICES ASSUME PathIdle, [PathNext]_pathVars PROVE UNCHANGED pathVars
    BY DEF PathIdle, pathVars
  <2>1. \A c \in PathCall : pathPc[c] = "idle"
    BY DEF PathIdle
  <2>2. QED
    BY <2>1 DEF PathNext, PathStep, Resolve, ReadTarget, WriteTarget
<1>2. QED
  BY <1>1, PartsStepAlone, PTL DEF Spec, PathSpec

\* Every variable of the file tools keeps its type, for any number of steps of a
\* walk.  edit.rs, read.rs, path.rs.
THEOREM FileToolsType == Spec => []TypeOK
<1>1. EditIdle => EditTypeOK
  BY DEF EditIdle, EditTypeOK, ToSet
<1>2. ReadIdle => ReadTypeOK
  BY DEF ReadIdle, ReadTypeOK, NoPage
<1>3. PathIdle => PathTypeOK
  BY DEF PathIdle, PathTypeOK
<1>4. QED
  BY <1>1, <1>2, <1>3, EditSide, ReadSide, PathSide, EditType, ReadType, PathType, PTL DEF TypeOK

\* So what the theorems say of an edit, of the pages of a read and of the end of
\* an output holds of them side by side.
THEOREM ToolsSideBySide ==
    Spec => []( /\ Spliced /\ OverlapIsRefused /\ OldTextIsUnique
                /\ NormalizersAgree /\ RangeIsOldText /\ EndingsKept
                /\ PagesInOrder /\ PageIsHead /\ TailIsLongest)
<1>1. EditIdle => /\ Spliced /\ OverlapIsRefused /\ OldTextIsUnique
                  /\ NormalizersAgree /\ RangeIsOldText /\ EndingsKept
  BY DEF EditIdle, Spliced, OverlapIsRefused, OldTextIsUnique, NormalizersAgree, RangeIsOldText,
         EndingsKept
<1>2. ReadIdle => PagesInOrder /\ PageIsHead
  BY DEF ReadIdle, PagesInOrder, PageIsHead
<1>3. TailIdle => TailIsLongest
  BY DEF TailIdle, TailIsLongest
<1>4. QED
  BY <1>1, <1>2, <1>3, EditSide, ReadSide, TailSide, EditsAreSpliced, OverlapsAreRefused,
     OldTextsAreUnique, NormalizersMirror, RangesHoldOldTexts, EndingsStay, PagesFollow, PagesAreHeads,
     TailsAreLongest, PTL

\* And what they say of the calls of the file tools on paths.
THEOREM PathsSideBySide == Hop = Nat /\ Spec => LandsWhereResolved /\ ShellAgrees
<1> SUFFICES ASSUME Hop = Nat PROVE Spec => LandsWhereResolved /\ ShellAgrees
  OBVIOUS
<1> DEFINE Unmoved == UNCHANGED pathVars
<1>1. PathIdle /\ PathIdle' => Unmoved
  BY DEF PathIdle, pathVars
<1>2. []PathIdle => LandsWhereResolved
  BY <1>1, PTL DEF LandsWhereResolved
<1>3. []PathIdle => ShellAgrees
  BY <1>1, PTL DEF ShellAgrees
<1>4. (Hop = Nat /\ PathSpec => LandsWhereResolved) /\ (Hop = Nat /\ PathSpec => ShellAgrees)
  BY LandsWithin, AgreesWithShell
<1>5. QED
  BY <1>2, <1>3, <1>4, PathSide, PTL
=============================================================================
