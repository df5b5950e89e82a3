--------------------------- MODULE SequenceLemmas ---------------------------
(***************************************************************************)
(* Lemmas about sequences and the folds of the community modules, for the  *)
(* proofs about texts.  An induction over the length of a sequence needs   *)
(* no induction rule here: a property of numbers is the set of those that  *)
(* have it, and the least number outside that set, which there would be    *)
(* since < is well founded on Nat, cannot exist (Induction, Climb).  A     *)
(* recursive definition is a CHOOSE: a lemma shows that some function      *)
(* satisfies the equation, from which the chosen one follows.              *)
(***************************************************************************)
EXTENDS SequencesExt, SequenceTheorems, WellFoundedInduction, TLAPS

-----------------------------------------------------------------------------
(* Numbers                                                                 *)

\* A set of numbers that is not empty has a least one.
LEMMA LeastNumber ==
    ASSUME NEW T \in SUBSET Nat, T # {}
    PROVE  \E n \in T : \A m \in T : n <= m
<1> DEFINE Below == {ss \in Nat \X Nat : ss[1] < ss[2]}
<1>0. IsWellFoundedOn(Below, Nat)
  BY NatLessThanWellFounded DEF OpToRel
<1> HIDE DEF Below
<1>1. PICK n \in T : \A m \in T : ~(<<m, n>> \in Below)
  BY <1>0, WFMin
<1>2. \A m \in T : ~(m < n)
  BY <1>1 DEF Below
<1>3. QED
  BY <1>2

\* Induction, for the set of the numbers that have a property.
LEMMA Induction ==
    ASSUME NEW T \in SUBSET Nat, 0 \in T, \A n \in T : n + 1 \in T
    PROVE  T = Nat
<1> SUFFICES ASSUME Nat \ T # {} PROVE FALSE
  OBVIOUS
<1>1. PICK n \in Nat \ T : \A m \in Nat \ T : n <= m
  BY LeastNumber
<1>2. n # 0 /\ n - 1 \in Nat
  BY <1>1
<1>3. n - 1 \in T
  BY <1>1, <1>2
<1>4. (n - 1) + 1 \in T
  BY <1>3
<1>5. QED
  BY <1>1, <1>4

\* Induction up to a bound.
LEMMA Climb ==
    ASSUME NEW n \in Nat, NEW T, 0 \in T, \A i \in 1..n : i - 1 \in T => i \in T
    PROVE  0..n \subseteq T
<1> DEFINE R == {i \in Nat : i <= n => i \in T}
<1>1. 0 \in R /\ R \in SUBSET Nat
  OBVIOUS
<1>2. ASSUME NEW i \in R PROVE i + 1 \in R
  OBVIOUS
<1> HIDE DEF R
<1>3. R = Nat
  BY <1>1, <1>2, Induction
<1>4. QED
  BY <1>3 DEF R

\* f is what the step F computes from base.
Recurs(n, base, F, f) == f[0] = base /\ \A i \in 1..n : f[i] = F[<<f[i - 1], i>>]

\* Primitive recursion over 0..n defines a function.
LEMMA Recursion ==
    ASSUME NEW n \in Nat, NEW Q, NEW base \in Q, NEW F \in [Q \X (1..n) -> Q]
    PROVE  \E f \in [0..n -> Q] : Recurs(n, base, F, f)
<1> DEFINE Upto(k) == \E f \in [0..k -> Q] :
                          f[0] = base /\ \A i \in 1..k : f[i] = F[<<f[i - 1], i>>]
           T == {k \in 0..n : Upto(k)}
<1>1. Upto(0)
  <2> DEFINE g == [i \in 0..0 |-> base]
  <2>1. g \in [0..0 -> Q] /\ g[0] = base /\ \A i \in 1..0 : g[i] = F[<<g[i - 1], i>>]
    OBVIOUS
  <2> HIDE DEF g
  <2>2. QED
    BY <2>1
<1>2. ASSUME NEW k \in 1..n, Upto(k - 1) PROVE Upto(k)
  <2>1. PICK f \in [0..(k - 1) -> Q] :
            f[0] = base /\ \A i \in 1..(k - 1) : f[i] = F[<<f[i - 1], i>>]
    BY <1>2
  <2> DEFINE last == F[<<f[k - 1], k>>]
             g == [i \in 0..k |-> IF i = k THEN last ELSE f[i]]
  <2>2. k - 1 \in 0..(k - 1) /\ f[k - 1] \in Q /\ last \in Q
    BY <2>1
  <2> HIDE DEF last
  <2>3. g \in [0..k -> Q] /\ g[0] = base /\ g[k] = last
    BY <2>1, <2>2
  <2>4. \A i \in 0..(k - 1) : g[i] = f[i]
    OBVIOUS
  <2> HIDE DEF g
  <2>5. ASSUME NEW i \in 1..k PROVE g[i] = F[<<g[i - 1], i>>]
    <3>1. i - 1 \in 0..(k - 1) /\ g[i - 1] = f[i - 1]
      BY <2>4
    <3>2. CASE i = k
      BY <2>3, <3>1, <3>2 DEF last
    <3>3. CASE i # k
      <4>1. i \in 1..(k - 1) /\ i \in 0..(k - 1)
        BY <3>3
      <4>2. QED
        BY <2>1, <2>4, <3>1, <4>1
    <3>4. QED
      BY <3>2, <3>3
  <2>6. QED
    BY <2>3, <2>5
<1> HIDE DEF Upto
<1>3. 0..n \subseteq T
  <2>1. 0 \in T
    BY <1>1
  <2>2. ASSUME NEW i \in 1..n, i - 1 \in T PROVE i \in T
    BY <1>2, <2>2
  <2> HIDE DEF T
  <2>3. QED
    BY <2>1, <2>2, Climb
<1>4. QED
  BY <1>3, SMTT(30) DEF Upto, Recurs

\* The same over all numbers, for a step F that does not count.
LEMMA RecursionOnNat ==
    ASSUME NEW Q, NEW base \in Q, NEW F \in [Q -> Q]
    PROVE  \E f \in [Nat -> Q] : f[0] = base /\ \A i \in Nat : f[i + 1] = F[f[i]]
<1> DEFINE Fits(n, f) == f \in [0..n -> Q] /\ f[0] = base /\ \A i \in 1..n : f[i] = F[f[i - 1]]
           upTo == [n \in Nat |-> CHOOSE f : Fits(n, f)]
           g == [n \in Nat |-> upTo[n][n]]
<1>1. ASSUME NEW n \in Nat PROVE Fits(n, upTo[n])
  <2> DEFINE G == [p \in Q \X (1..n) |-> F[p[1]]]
  <2>1. G \in [Q \X (1..n) -> Q] /\ \A q \in Q, i \in 1..n : G[<<q, i>>] = F[q]
    <3>1. \A p \in Q \X (1..n) : p[1] \in Q /\ F[p[1]] \in Q
      OBVIOUS
    <3>2. ASSUME NEW q \in Q, NEW i \in 1..n PROVE G[<<q, i>>] = F[q]
      <4>1. <<q, i>> \in Q \X (1..n) /\ <<q, i>>[1] = q
        OBVIOUS
      <4>2. QED
        BY <4>1
    <3>3. QED
      BY <3>1, <3>2
  <2> HIDE DEF G
  <2>2. PICK f \in [0..n -> Q] : Recurs(n, base, G, f)
    BY <2>1, Recursion
  <2>3. ASSUME NEW i \in 1..n PROVE f[i] = F[f[i - 1]]
    <3>1. i - 1 \in 0..n
      OBVIOUS
    <3>2. f[i - 1] \in Q /\ f[i] = G[<<f[i - 1], i>>]
      BY <2>2, <3>1 DEF Recurs
    <3>3. QED
      BY <2>1, <3>2
  <2>4. Fits(n, f)
    BY <2>2, <2>3 DEF Recurs
  <2> HIDE DEF Fits
  <2>5. Fits(n, CHOOSE h : Fits(n, h))
    BY <2>4, Zenon
  <2>6. QED
    BY <2>5
<1> HIDE DEF upTo
<1>2. ASSUME NEW n \in Nat PROVE upTo[n + 1][n] = upTo[n][n]
  <2> DEFINE T == {i \in 0..n : upTo[n + 1][i] = upTo[n][i]}
  <2>1. 0 \in T
    BY <1>1
  <2>2. ASSUME NEW i \in 1..n, i - 1 \in T PROVE i \in T
    <3>1. i \in 1..(n + 1) /\ n + 1 \in Nat
      OBVIOUS
    <3>2. upTo[n][i] = F[upTo[n][i - 1]]
      BY <1>1
    <3>3. upTo[n + 1][i] = F[upTo[n + 1][i - 1]]
      BY <1>1, <3>1
    <3>4. QED
      BY <2>2, <3>2, <3>3
  <2> HIDE DEF T
  <2>3. 0..n \subseteq T
    BY <2>1, <2>2, Climb
  <2>4. QED
    BY <2>3 DEF T
<1>3. \A n \in Nat : g[n] \in Q
  BY <1>1
<1>4. g[0] = base
  BY <1>1
<1>5. ASSUME NEW n \in Nat PROVE g[n + 1] = F[g[n]]
  <2>1. n + 1 \in 1..(n + 1) /\ (n + 1) - 1 = n /\ n + 1 \in Nat
    OBVIOUS
  <2>2. upTo[n + 1][n + 1] = F[upTo[n + 1][n]]
    BY <1>1, <2>1
  <2>3. QED
    BY <1>2, <2>1, <2>2
<1>6. g \in [Nat -> Q]
  BY <1>3
<1> HIDE DEF g
<1>7. QED
  BY <1>4, <1>5, <1>6

-----------------------------------------------------------------------------
(* Concatenation, under a name of its own: what follows needs nothing of   *)
(* it but that it stays among sequences and that <<>> is neutral.          *)

Cat(s, t) == s \o t

\* Concatenation is associative and <<>> is neutral.
LEMMA CatLaws ==
    ASSUME NEW S
    PROVE  /\ \A s, u, v \in Seq(S) : Cat(Cat(s, u), v) = Cat(s, Cat(u, v))
           /\ \A s \in Seq(S) : Cat(s, <<>>) = s
<1>1. ASSUME NEW s \in Seq(S), NEW u \in Seq(S), NEW v \in Seq(S)
      PROVE  Cat(Cat(s, u), v) = Cat(s, Cat(u, v))
  BY ConcatAssociative, SMTT(30) DEF Cat
<1>2. ASSUME NEW s \in Seq(S) PROVE Cat(s, <<>>) = s
  BY ConcatEmptySeq DEF Cat
<1>3. QED
  BY <1>1, <1>2

\* f gives what FlattenSeq makes of each prefix of seqs.
Flattens(n, seqs, f) ==
    f[0] = <<>> /\ \A i \in 1..n : f[i] = Cat(f[i - 1], seqs[i])

\* What FlattenSeq makes of the prefixes exists, in any set closed under Cat.
LEMMA FlattensWithin ==
    ASSUME NEW n \in Nat, NEW Q, <<>> \in Q, \A s, t \in Q : Cat(s, t) \in Q,
           NEW seqs \in [1..n -> Q]
    PROVE  \E f \in [0..n -> Q] : Flattens(n, seqs, f)
<1> DEFINE F == [p \in Q \X (1..n) |-> Cat(p[1], seqs[p[2]])]
<1>1. F \in [Q \X (1..n) -> Q]
  OBVIOUS
<1>2. \A s \in Q, i \in 1..n : F[<<s, i>>] = Cat(s, seqs[i])
  OBVIOUS
<1> HIDE DEF F
<1>3. PICK f \in [0..n -> Q] : Recurs(n, <<>>, F, f)
  BY <1>1, Recursion
<1>4. ASSUME NEW i \in 1..n PROVE f[i] = Cat(f[i - 1], seqs[i])
  <2>1. f[i - 1] \in Q
    BY <1>3
  <2>2. QED
    BY <1>2, <1>3, <2>1 DEF Recurs
<1>5. QED
  BY <1>3, <1>4 DEF Flattens, Recurs

\* The same in the sequences over S.
LEMMA FlattenExists ==
    ASSUME NEW S, NEW n \in Nat, NEW seqs \in [1..n -> Seq(S)]
    PROVE  \E f \in [0..n -> Seq(S)] : Flattens(n, seqs, f)
<1>1. <<>> \in Seq(S) /\ \A s, t \in Seq(S) : Cat(s, t) \in Seq(S)
  BY ConcatProperties DEF Cat
<1>2. QED
  BY <1>1, FlattensWithin, Zenon

\* FlattenSeq gives what the last of the prefixes does.
LEMMA FlattenValue ==
    ASSUME NEW S, NEW n \in Nat, NEW seqs \in [1..n -> Seq(S)], NEW f, Flattens(n, seqs, f)
    PROVE  FlattenSeq(seqs) = f[n]
<1> DEFINE Q == Seq(S)
           Value(g, i) == IF i = 1 THEN seqs[i] ELSE Cat(g[i - 1], seqs[i])
           chosen == CHOOSE g : g = [i \in 1..n |-> Value(g, i)]
           h == [i \in 1..n |-> f[i]]
<1>1. seqs \in Seq(Seq(S)) /\ Len(seqs) = n
  OBVIOUS
<1>2. \A s \in Q : Cat(<<>>, s) = s
  BY ConcatEmptySeq DEF Cat
<1>3. n = 0 => FlattenSeq(seqs) = <<>>
  <2> SUFFICES ASSUME n = 0 PROVE FlattenSeq(seqs) = <<>>
    OBVIOUS
  <2>1. seqs = <<>>
    BY <1>1, EmptySeq
  <2>2. QED
    BY <1>1, <2>1 DEF FlattenSeq
<1>4. n # 0 => FlattenSeq(seqs) = chosen[n]
  BY <1>1 DEF FlattenSeq, Cat
<1>5. seqs \in [1..n -> Q]
  OBVIOUS
<1> HIDE DEF Q
<1>6. \A i \in 1..n : f[i] = Value(f, i)
  <2> SUFFICES ASSUME NEW i \in 1..n PROVE f[i] = Value(f, i)
    OBVIOUS
  <2>1. f[i] = Cat(f[i - 1], seqs[i])
    BY DEF Flattens
  <2>2. CASE i = 1
    <3>1. seqs[1] \in Q /\ f[i - 1] = <<>>
      BY <1>5, <2>2 DEF Flattens
    <3>2. QED
      BY <1>2, <2>1, <2>2, <3>1
  <2>3. CASE i # 1
    BY <2>1, <2>3
  <2>4. QED
    BY <2>2, <2>3
<1>7. \A i \in 1..n : Value(h, i) = Value(f, i)
  OBVIOUS
<1>8. h = [i \in 1..n |-> Value(h, i)]
  <2>1. \A i \in 1..n : h[i] = Value(h, i)
    BY <1>6, <1>7
  <2> HIDE DEF Value
  <2>2. QED
    BY <2>1
<1>9. chosen = [i \in 1..n |-> Value(chosen, i)]
  <2> HIDE DEF Value, h
  <2>1. \E g : g = [i \in 1..n |-> Value(g, i)]
    BY <1>8
  <2>2. QED
    BY <2>1, Zenon
<1> HIDE DEF chosen
<1>10. \A i \in 1..n : chosen[i] = Value(chosen, i)
  <2> HIDE DEF Value
  <2>1. QED
    BY <1>9
<1> DEFINE T == {i \in 0..n : i # 0 => chosen[i] = f[i]}
<1>11. 0..n \subseteq T
  <2>1. 0 \in T
    OBVIOUS
  <2>2. ASSUME NEW i \in 1..n, i - 1 \in T PROVE i \in T
    <3>1. Value(chosen, i) = Value(f, i)
      BY <2>2
    <3>2. QED
      BY <1>6, <1>10, <3>1
  <2> HIDE DEF T
  <2>3. QED
    BY <2>1, <2>2, Climb
<1>12. QED
  BY <1>3, <1>4, <1>11 DEF Flattens

\* Flattened sequences over S are a sequence over S.
LEMMA FlattenType ==
    ASSUME NEW S, NEW n \in Nat, NEW seqs \in [1..n -> Seq(S)]
    PROVE  FlattenSeq(seqs) \in Seq(S)
<1>1. PICK f \in [0..n -> Seq(S)] : Flattens(n, seqs, f)
  BY FlattenExists
<1>2. FlattenSeq(seqs) = f[n]
  BY <1>1, FlattenValue
<1>3. n \in 0..n
  OBVIOUS
<1>4. QED
  BY <1>1, <1>2, <1>3, Zenon

\* All the pieces are empty, or all but one.
LEMMA FlattenNothing ==
    ASSUME NEW S, NEW n \in Nat, NEW seqs \in [1..n -> Seq(S)],
           \A i \in 1..n : seqs[i] = <<>>
    PROVE  FlattenSeq(seqs) = <<>>
<1> DEFINE f == [i \in 0..n |-> <<>>]
<1>1. Cat(<<>>, <<>>) = <<>>
  BY DEF Cat
<1>2. Flattens(n, seqs, f)
  BY <1>1 DEF Flattens
<1>3. FlattenSeq(seqs) = f[n]
  BY <1>2, FlattenValue
<1>4. QED
  BY <1>3

\* The one piece that is not empty is the result.
LEMMA FlattenAlone ==
    ASSUME NEW S, NEW n \in Nat, NEW seqs \in [1..n -> Seq(S)], NEW j \in 1..n,
           \A i \in 1..n : i # j => seqs[i] = <<>>
    PROVE  FlattenSeq(seqs) = seqs[j]
<1> DEFINE Q == Seq(S)
           f == [i \in 0..n |-> IF i < j THEN <<>> ELSE seqs[j]]
<1>1. <<>> \in Q /\ \A s \in Q : Cat(<<>>, s) = s /\ Cat(s, <<>>) = s
  BY ConcatEmptySeq DEF Cat
<1>2. seqs \in [1..n -> Q]
  OBVIOUS
<1> HIDE DEF Q
<1>3. f[0] = <<>> /\ f[n] = seqs[j]
  OBVIOUS
<1>4. ASSUME NEW i \in 1..n PROVE f[i] = Cat(f[i - 1], seqs[i])
  <2>1. seqs[j] \in Q /\ i \in 0..n /\ i - 1 \in 0..n
    BY <1>2
  <2>2. CASE i < j
    BY <1>1, <2>1, <2>2
  <2>3. CASE i = j
    BY <1>1, <2>1, <2>3
  <2>4. CASE i > j
    <3>1. f[i - 1] = seqs[j] /\ f[i] = seqs[j] /\ seqs[i] = <<>>
      BY <2>1, <2>4
    <3> HIDE DEF f
    <3>2. QED
      BY <1>1, <2>1, <3>1
  <2>5. QED
    BY <2>2, <2>3, <2>4
<1> HIDE DEF f
<1>5. Flattens(n, seqs, f)
  BY <1>3, <1>4 DEF Flattens
<1>6. FlattenSeq(seqs) = f[n]
  BY <1>5, FlattenValue
<1>7. QED
  BY <1>3, <1>6

\* Every element of the result comes from one of the pieces, in their order.
Sources(n, seqs, flat, from) ==
    /\ from \in [1..Len(flat) -> 1..n]
    /\ \A k \in 1..Len(flat) : \E q \in 1..Len(seqs[from[k]]) : flat[k] = seqs[from[k]][q]
    /\ \A k, l \in 1..Len(flat) : k <= l => from[k] <= from[l]

\* There is such a numbering of the elements by their pieces.
LEMMA FlattenSources ==
    ASSUME NEW S, NEW n \in Nat, NEW seqs \in [1..n -> Seq(S)]
    PROVE  \E from : Sources(n, seqs, FlattenSeq(seqs), from)
<1> DEFINE Q == Seq(S)
<1>1. PICK f \in [0..n -> Q] : Flattens(n, seqs, f)
  BY FlattenExists
<1>2. FlattenSeq(seqs) = f[n]
  BY <1>1, FlattenValue
<1>3. \A s, t \in Q : /\ Len(Cat(s, t)) = Len(s) + Len(t)
                      /\ \A k \in 1..(Len(s) + Len(t)) :
                            Cat(s, t)[k] = IF k <= Len(s) THEN s[k] ELSE t[k - Len(s)]
  BY ConcatProperties DEF Cat
<1>4. \A s \in Q : Len(s) \in Nat
  OBVIOUS
<1>5. seqs \in [1..n -> Q] /\ f \in [0..n -> Q] /\ Len(<<>>) = 0
  OBVIOUS
<1> HIDE DEF Q
<1> DEFINE T == {i \in 0..n : \E from : Sources(i, seqs, f[i], from)}
<1>6. 0 \in T
  <2> DEFINE from == [k \in 1..0 |-> 0]
  <2>1. f[0] = <<>>
    BY <1>1 DEF Flattens
  <2>2. Sources(0, seqs, f[0], from)
    BY <1>5, <2>1 DEF Sources
  <2> HIDE DEF from
  <2>3. QED
    BY <2>2
<1>7. ASSUME NEW i \in 1..n, i - 1 \in T PROVE i \in T
  <2>1. PICK before : Sources(i - 1, seqs, f[i - 1], before)
    BY <1>7
  <2>2. f[i] = Cat(f[i - 1], seqs[i])
    BY <1>1 DEF Flattens
  <2> DEFINE had == Len(f[i - 1])
             from == [k \in 1..Len(f[i]) |-> IF k <= had THEN before[k] ELSE i]
  <2>3. /\ f[i - 1] \in Q /\ seqs[i] \in Q /\ i - 1 \in 0..n
        /\ had \in Nat /\ Len(seqs[i]) \in Nat
    BY <1>4, <1>5
  <2>4. /\ Len(f[i]) = had + Len(seqs[i])
        /\ \A k \in 1..Len(f[i]) : f[i][k] = IF k <= had THEN f[i - 1][k] ELSE seqs[i][k - had]
    <3> DEFINE t == seqs[i]
    <3>1. /\ Len(Cat(f[i - 1], t)) = Len(f[i - 1]) + Len(t)
          /\ \A k \in 1..(Len(f[i - 1]) + Len(t)) :
                Cat(f[i - 1], t)[k] = IF k <= Len(f[i - 1]) THEN f[i - 1][k]
                                       ELSE t[k - Len(f[i - 1])]
      BY <1>3, <2>3, Zenon
    <3>2. QED
      BY <2>2, <3>1, Zenon
  <2>5. /\ before \in [1..had -> 1..(i - 1)]
        /\ \A k \in 1..had : \E q \in 1..Len(seqs[before[k]]) : f[i - 1][k] = seqs[before[k]][q]
        /\ \A k, l \in 1..had : k <= l => before[k] <= before[l]
    BY <2>1 DEF Sources
  <2> HIDE DEF had
  <2>6. from \in [1..Len(f[i]) -> 1..i]
    BY <2>3, <2>4, <2>5
  <2>7. \A k \in 1..Len(f[i]) : IF k <= had THEN from[k] = before[k] /\ from[k] < i
                                 ELSE from[k] = i
    BY <2>3, <2>4, <2>5
  <2> HIDE DEF from
  <2>8. ASSUME NEW k \in 1..Len(f[i])
        PROVE  \E q \in 1..Len(seqs[from[k]]) : f[i][k] = seqs[from[k]][q]
    <3>1. CASE k <= had
      <4>1. k \in 1..had
        BY <2>3, <2>4, <3>1
      <4>2. from[k] = before[k] /\ f[i][k] = f[i - 1][k]
        BY <2>4, <2>7, <3>1
      <4>3. QED
        BY <2>5, <4>1, <4>2
    <3>2. CASE ~(k <= had)
      <4>1. k - had \in 1..Len(seqs[i])
        BY <2>3, <2>4, <3>2
      <4>2. from[k] = i /\ f[i][k] = seqs[i][k - had]
        BY <2>4, <2>7, <3>2
      <4>3. QED
        BY <4>1, <4>2
    <3>3. QED
      BY <3>1, <3>2
  <2>9. ASSUME NEW k \in 1..Len(f[i]), NEW l \in 1..Len(f[i]), k <= l
        PROVE  from[k] <= from[l]
    BY <2>3, <2>4, <2>5, <2>6, <2>7, <2>9
  <2>10. Sources(i, seqs, f[i], from)
    BY <2>6, <2>8, <2>9 DEF Sources
  <2>11. QED
    BY <2>10
<1> HIDE DEF T
<1>8. 0..n \subseteq T
  BY <1>6, <1>7, Climb
<1>9. QED
  BY <1>2, <1>8 DEF T

-----------------------------------------------------------------------------
(* Folds: FoldLeft is a recursion over the subsets of the domain, of which *)
(* it uses the intervals 1..k.                                             *)

\* Max gives the greatest number,
LEMMA MaxIs ==
    ASSUME NEW s \in SUBSET Nat, NEW m \in s, \A x \in s : x <= m
    PROVE  Max(s) = m
<1>1. m \in s /\ \A y \in s : m >= y
  OBVIOUS
<1>2. \A x \in s : (\A y \in s : x >= y) => x = m
  OBVIOUS
<1>3. QED
  BY <1>1, <1>2 DEF Max

\* which a bounded set of numbers that is not empty has.
LEMMA GreatestNumber ==
    ASSUME NEW n \in Nat, NEW s \in SUBSET (0..n), s # {}
    PROVE  Max(s) \in s /\ \A x \in s : x <= Max(s)
<1> DEFINE T == {m \in Nat : \A x \in s : x <= m}
<1>1. T \in SUBSET Nat /\ n \in T
  OBVIOUS
<1>2. PICK m \in T : \A k \in T : m <= k
  BY <1>1, LeastNumber
<1>3. m \in s
  <2> SUFFICES ASSUME m \notin s PROVE FALSE
    OBVIOUS
  <2>1. \A x \in s : x <= m - 1
    BY <1>2
  <2>2. m - 1 \in Nat
    <3>1. PICK x \in s : TRUE
      OBVIOUS
    <3>2. x \in Nat /\ x <= m /\ x # m
      BY <3>1
    <3>3. QED
      BY <3>2
  <2>3. m - 1 \in T
    BY <2>1, <2>2
  <2>4. QED
    BY <1>2, <2>3
<1>4. QED
  BY <1>2, <1>3, MaxIs

\* g is what folding the step F makes of each subset of 1..n.
Folds(n, base, F, g) ==
    \A s \in SUBSET (1..n) :
        g[s] = IF s = {} THEN base ELSE F[<<g[s \ {Max(s)}], Max(s)>>]

\* There is one for every step: a set is folded from its greatest number down.
LEMMA FoldExists ==
    ASSUME NEW n \in Nat, NEW Q, NEW base \in Q, NEW F \in [Q \X (1..n) -> Q]
    PROVE  \E g \in [SUBSET (1..n) -> Q] : Folds(n, base, F, g)
<1> DEFINE Upto(k) == \E g \in [SUBSET (1..k) -> Q] : Folds(k, base, F, g)
           T == {k \in 0..n : Upto(k)}
<1>1. Upto(0)
  <2> DEFINE g == [s \in SUBSET (1..0) |-> base]
  <2>1. g \in [SUBSET (1..0) -> Q]
    OBVIOUS
  <2>2. \A s \in SUBSET (1..0) : s = {} /\ g[s] = base
    OBVIOUS
  <2> HIDE DEF g
  <2>3. Folds(0, base, F, g)
    BY <2>2 DEF Folds
  <2>4. QED
    BY <2>1, <2>3
<1>2. ASSUME NEW k \in 1..n, Upto(k - 1) PROVE Upto(k)
  <2>1. PICK g \in [SUBSET (1..(k - 1)) -> Q] : Folds(k - 1, base, F, g)
    BY <1>2
  <2> DEFINE h == [s \in SUBSET (1..k) |-> IF k \in s THEN F[<<g[s \ {k}], k>>] ELSE g[s]]
  <2>2. ASSUME NEW s \in SUBSET (1..k)
        PROVE  h[s] \in Q /\ h[s] = IF s = {} THEN base ELSE F[<<h[s \ {Max(s)}], Max(s)>>]
    <3>1. CASE k \in s
      <4>1. Max(s) = k
        BY <3>1, MaxIs
      <4>2. s \ {k} \in SUBSET (1..(k - 1)) /\ s \ {k} \in SUBSET (1..k) /\ k \notin s \ {k}
        OBVIOUS
      <4>3. h[s \ {k}] = g[s \ {k}] /\ g[s \ {k}] \in Q
        BY <2>1, <4>2
      <4>4. h[s] = F[<<g[s \ {k}], k>>]
        BY <3>1
      <4> HIDE DEF h
      <4>5. QED
        BY <3>1, <4>1, <4>3, <4>4
    <3>2. CASE k \notin s
      <4>1. s \in SUBSET (1..(k - 1)) /\ h[s] = g[s]
        BY <3>2
      <4>2. g[s] = IF s = {} THEN base ELSE F[<<g[s \ {Max(s)}], Max(s)>>]
        BY <2>1, <4>1 DEF Folds
      <4>3. s \ {Max(s)} \in SUBSET (1..k) /\ k \notin s \ {Max(s)}
        BY <3>2
      <4>4. h[s \ {Max(s)}] = g[s \ {Max(s)}]
        BY <4>3
      <4> HIDE DEF h
      <4>5. QED
        BY <2>1, <4>1, <4>2, <4>4
    <3>3. QED
      BY <3>1, <3>2
  <2> HIDE DEF h
  <2>3. h \in [SUBSET (1..k) -> Q]
    <3>1. h = [s \in SUBSET (1..k) |-> h[s]]
      BY DEF h
    <3>2. QED
      BY <2>2, <3>1
  <2>4. Folds(k, base, F, h)
    BY <2>2 DEF Folds
  <2>5. QED
    BY <2>3, <2>4
<1> HIDE DEF Upto
<1>3. 0..n \subseteq T
  <2>1. 0 \in T
    BY <1>1
  <2>2. ASSUME NEW i \in 1..n, i - 1 \in T PROVE i \in T
    BY <1>2, <2>2
  <2> HIDE DEF T
  <2>3. QED
    BY <2>1, <2>2, Climb
<1>4. Upto(n)
  BY <1>3
<1>5. QED
  BY <1>4 DEF Upto

\* The step of an interval.
LEMMA IntervalStep ==
    ASSUME NEW n \in Nat, NEW k \in 1..n
    PROVE  /\ 1..k \in SUBSET (1..n) /\ 1..k # {}
           /\ Max(1..k) = k /\ (1..k) \ {Max(1..k)} = 1..(k - 1)
<1>1. 1..k \in SUBSET Nat /\ k \in 1..k
  OBVIOUS
<1>2. Max(1..k) = k
  BY <1>1, MaxIs
<1>3. QED
  BY <1>2

\* Sums: f gives the sum of each prefix.
Sums(n, t, f) == f[0] = 0 /\ \A k \in 1..n : f[k] = f[k - 1] + t[k]

\* The sum FoldLeft gives is that of the last prefix.
LEMMA SumIs ==
    ASSUME NEW n \in Nat, NEW t \in [1..n -> Nat]
    PROVE  \E f \in [0..n -> Nat] : Sums(n, t, f) /\ f[n] = FoldLeft(+, 0, t)
<1> DEFINE F == [p \in Nat \X (1..n) |-> p[1] + t[p[2]]]
           Fix(g) == g = [s \in SUBSET (1..n) |->
                            IF s = {} THEN 0 ELSE g[s \ {Max(s)}] + t[Max(s)]]
           iter == CHOOSE g : Fix(g)
<1>1. FoldLeft(+, 0, t) = iter[1..n]
  BY DEF FoldLeft, MapThenFoldSet
<1>2. F \in [Nat \X (1..n) -> Nat] /\ \A a \in Nat, i \in 1..n : F[<<a, i>>] = a + t[i]
  <2>1. \A p \in Nat \X (1..n) : p[1] \in Nat /\ p[2] \in 1..n /\ t[p[2]] \in Nat
    OBVIOUS
  <2>2. \A p \in Nat \X (1..n) : p[1] + t[p[2]] \in Nat
    BY <2>1
  <2>3. F \in [Nat \X (1..n) -> Nat]
    BY <2>2
  <2>4. ASSUME NEW a \in Nat, NEW i \in 1..n PROVE F[<<a, i>>] = a + t[i]
    <3>1. <<a, i>> \in Nat \X (1..n) /\ <<a, i>>[1] = a /\ <<a, i>>[2] = i
      OBVIOUS
    <3>2. QED
      BY <3>1
  <2>5. QED
    BY <2>3, <2>4
<1> HIDE DEF F
<1>3. PICK g \in [SUBSET (1..n) -> Nat] : Folds(n, 0, F, g)
  BY <1>2, FoldExists
<1>4. ASSUME NEW s \in SUBSET (1..n)
      PROVE  g[s] = IF s = {} THEN 0 ELSE g[s \ {Max(s)}] + t[Max(s)]
  <2> SUFFICES ASSUME s # {} PROVE g[s] = g[s \ {Max(s)}] + t[Max(s)]
    BY <1>3 DEF Folds
  <2>1. s \in SUBSET (0..n)
    OBVIOUS
  <2>2. Max(s) \in 1..n
    BY <2>1, GreatestNumber
  <2>3. s \ {Max(s)} \in SUBSET (1..n)
    OBVIOUS
  <2>4. g[s] = F[<<g[s \ {Max(s)}], Max(s)>>] /\ g[s \ {Max(s)}] \in Nat
    BY <1>3, <2>3 DEF Folds
  <2>5. QED
    BY <1>2, <2>2, <2>4
<1>5. Fix(iter)
  <2>1. g = [s \in SUBSET (1..n) |-> IF s = {} THEN 0 ELSE g[s \ {Max(s)}] + t[Max(s)]]
    BY <1>4
  <2>2. \E h : Fix(h)
    BY <2>1
  <2> HIDE DEF Fix
  <2>3. QED
    BY <2>2, Zenon
<1> HIDE DEF iter
<1>6. iter[{}] = 0
  BY <1>5
<1>7. ASSUME NEW k \in 1..n PROVE iter[1..k] = iter[1..(k - 1)] + t[k]
  BY <1>5, IntervalStep, ZenonT(60)
<1> DEFINE f == [k \in 0..n |-> iter[1..k]]
<1>8. f[0] = 0
  BY <1>6
<1>9. ASSUME NEW k \in 1..n PROVE f[k] = f[k - 1] + t[k]
  BY <1>7
<1>10. f[n] = iter[1..n] /\ f = [k \in 0..n |-> f[k]]
  OBVIOUS
<1> HIDE DEF f
<1> DEFINE T == {k \in 0..n : f[k] \in Nat}
<1>11. 0..n \subseteq T
  <2>1. 0 \in T
    BY <1>8
  <2>2. ASSUME NEW k \in 1..n, k - 1 \in T PROVE k \in T
    BY <1>9, <2>2
  <2> HIDE DEF T
  <2>3. QED
    BY <2>1, <2>2, Climb
<1>12. f \in [0..n -> Nat]
  BY <1>10, <1>11
<1>13. Sums(n, t, f)
  BY <1>8, <1>9 DEF Sums
<1>14. f[n] = FoldLeft(+, 0, t)
  BY <1>1, <1>10, Zenon
<1>15. QED
  BY <1>12, <1>13, <1>14, Zenon

-----------------------------------------------------------------------------
(* Texts that are cut and joined                                           *)

\* The pieces after i, up to j, are empty; are the elements of t.
AreEmpty(seqs, i, j) == \A k \in (i + 1)..j : seqs[k] = <<>>
AreKept(seqs, t, i, j) == \A k \in (i + 1)..j : seqs[k] = <<t[k]>>

\* Pieces without an element add nothing.
LEMMA FlattenEmptyRun ==
    ASSUME NEW S, NEW n \in Nat, NEW seqs \in [1..n -> Seq(S)],
           NEW f \in [0..n -> Seq(S)], Flattens(n, seqs, f),
           NEW i \in 0..n, NEW j \in i..n, AreEmpty(seqs, i, j)
    PROVE  f[j] = f[i]
<1> DEFINE Q == Seq(S)
           T == {k \in 0..(j - i) : f[i + k] = f[i]}
<1>1. \A s \in Q : Cat(s, <<>>) = s
  BY CatLaws
<1>2. f \in [0..n -> Q]
  OBVIOUS
<1> HIDE DEF Q
<1>3. i \in Nat /\ j \in Nat /\ j - i \in Nat
  OBVIOUS
<1>4. 0 \in T
  BY <1>3
<1>5. ASSUME NEW k \in 1..(j - i), k - 1 \in T PROVE k \in T
  <2>1. i + k \in 1..n /\ i + k \in (i + 1)..j /\ (i + k) - 1 = i + (k - 1) /\ i + (k - 1) \in 0..n
    BY <1>3
  <2>2. f[i + k] = Cat(f[i + (k - 1)], seqs[i + k])
    BY <2>1 DEF Flattens
  <2>3. seqs[i + k] = <<>> /\ f[i + (k - 1)] = f[i] /\ f[i] \in Q
    BY <1>2, <1>5, <2>1 DEF AreEmpty
  <2>4. QED
    BY <1>1, <1>3, <2>2, <2>3
<1> HIDE DEF T
<1>6. 0..(j - i) \subseteq T
  BY <1>3, <1>4, <1>5, Climb
<1>7. j - i \in T /\ i + (j - i) = j
  BY <1>3, <1>6
<1>8. QED
  BY <1>7 DEF T

\* Pieces that are the elements of t, one each, add what t has there.
LEMMA FlattenKeptRun ==
    ASSUME NEW S, NEW t \in Seq(S), NEW seqs \in [1..Len(t) -> Seq(S)],
           NEW f \in [0..Len(t) -> Seq(S)], Flattens(Len(t), seqs, f),
           NEW i \in 0..Len(t), NEW j \in i..Len(t), AreKept(seqs, t, i, j)
    PROVE  f[j] = f[i] \o SubSeq(t, i + 1, j)
<1> DEFINE n == Len(t)
           Q == Seq(S)
           Run(k) == SubSeq(t, i + 1, i + k)
           T == {k \in 0..(j - i) : f[i + k] = Cat(f[i], Run(k))}
<1>1. \A s \in Q : Cat(s, <<>>) = s
  BY CatLaws
<1>2. \A s, u, v \in Q : Cat(Cat(s, u), v) = Cat(s, Cat(u, v))
  BY CatLaws
<1>3. n \in Nat /\ i \in Nat /\ j \in Nat /\ j - i \in Nat /\ j <= n
  OBVIOUS
<1>4. Run(0) = <<>>
  BY <1>3, SubSeqEmpty
<1>5. ASSUME NEW k \in 1..(j - i)
      PROVE  Run(k) = Cat(Run(k - 1), <<t[i + k]>>) /\ Run(k - 1) \in Q /\ <<t[i + k]>> \in Q
  <2>1. i + 1 \in 1..n /\ i + k \in (i + 1)..n /\ (i + k) - 1 = i + (k - 1) /\ i + k \in 1..n
    BY <1>3
  <2>2. Run(k) = SubSeq(t, i + 1, (i + k) - 1) \o <<t[i + k]>>
    BY <2>1, SubSeqRecursiveSecond
  <2>3. SubSeq(t, i + 1, i + (k - 1)) \in Seq(S)
    <3>1. \A w \in (i + 1)..(i + (k - 1)) : t[w] \in S
      BY <1>3, <2>1
    <3>2. i + 1 \in Int /\ i + (k - 1) \in Int
      BY <1>3
    <3>3. QED
      BY <3>1, <3>2, SubSeqProperties
  <2>4. QED
    BY <2>1, <2>2, <2>3 DEF Cat
<1>6. f \in [0..n -> Q]
  OBVIOUS
<1> HIDE DEF Q, Run
<1>7. 0 \in T
  <2>1. f[i] \in Q
    BY <1>6
  <2>2. i + 0 = i /\ 0 \in 0..(j - i)
    BY <1>3
  <2>3. f[i + 0] = Cat(f[i], Run(0))
    BY <1>1, <1>4, <2>1, <2>2
  <2>4. QED
    BY <2>2, <2>3
<1>8. ASSUME NEW k \in 1..(j - i), k - 1 \in T PROVE k \in T
  <2>1. i + k \in 1..n /\ i + k \in (i + 1)..j /\ (i + k) - 1 = i + (k - 1)
    BY <1>3
  <2>2. f[i + k] = Cat(f[i + (k - 1)], <<t[i + k]>>)
    BY <2>1 DEF Flattens, AreKept
  <2>3. f[i + (k - 1)] = Cat(f[i], Run(k - 1)) /\ f[i] \in Q
    BY <1>6, <1>8
  <2>4. f[i + k] = Cat(f[i], Run(k))
    BY <1>2, <1>5, <2>2, <2>3
  <2>5. QED
    BY <2>4
<1> HIDE DEF T
<1>9. 0..(j - i) \subseteq T
  BY <1>3, <1>7, <1>8, Climb
<1>10. j - i \in T /\ i + (j - i) = j
  BY <1>3, <1>9
<1>11. f[i + (j - i)] = Cat(f[i], Run(j - i))
  BY <1>10 DEF T
<1>12. QED
  BY <1>10, <1>11 DEF Run, Cat

\* The elements of the concatenation of s, of which there are n, and t.
Joins(S, n, s, t, joined) ==
    /\ joined \in Seq(S) /\ Len(joined) = n + Len(t)
    /\ \A k \in 1..(n + Len(t)) : joined[k] = IF k <= n THEN s[k] ELSE t[k - n]

\* Concatenation joins.
LEMMA CatJoins ==
    ASSUME NEW S, NEW s \in Seq(S), NEW t \in Seq(S)
    PROVE  Joins(S, Len(s), s, t, Cat(s, t))
BY ConcatProperties DEF Cat, Joins

\* Two texts of one element make one of two.
LEMMA Pair ==
    ASSUME NEW S, NEW a \in S, NEW b \in S
    PROVE  Cat(<<a>>, <<b>>) = <<a, b>>
<1> DEFINE s == <<a>>
           u == <<b>>
           t == <<a, b>>
           c == Cat(s, u)
<1>1. s \in Seq(S) /\ u \in Seq(S) /\ Len(s) = 1 /\ Len(u) = 1 /\ s[1] = a /\ u[1] = b
  OBVIOUS
<1>2. t \in Seq(S) /\ Len(t) = 2 /\ t[1] = a /\ t[2] = b
  OBVIOUS
<1> HIDE DEF s, u, t
<1>3. Joins(S, 1, s, u, c)
  BY <1>1, CatJoins
<1> HIDE DEF c
<1>4. c \in Seq(S) /\ Len(c) = 2 /\ c[1] = a /\ c[2] = b
  BY <1>1, <1>3 DEF Joins
<1>5. \A i \in 1..2 : i = 1 \/ i = 2
  OBVIOUS
<1>6. c = t
  BY <1>2, <1>4, <1>5, SeqEqual
<1>7. QED
  BY <1>6 DEF s, t, u, c

\* A cut of a text of which the first b elements are those of t.
Cuts(t, b, rest, whole, p, q) ==
    /\ SubSeq(whole, 1, p) = SubSeq(t, 1, p)
    /\ SubSeq(whole, q + 1, Len(whole)) = Cat(SubSeq(t, q + 1, b), rest)

\* Of such a text, what lies before p and after q, both of them not after b.
LEMMA CutAround ==
    ASSUME NEW S, NEW t \in Seq(S), NEW rest \in Seq(S),
           NEW b \in 0..Len(t), NEW p \in 0..b, NEW q \in p..b
    PROVE  Cuts(t, b, rest, SubSeq(t, 1, b) \o rest, p, q)
<1> DEFINE front == SubSeq(t, 1, b)
           whole == Cat(front, rest)
           left == SubSeq(whole, 1, p)
           right == SubSeq(whole, q + 1, Len(whole))
           run == SubSeq(t, q + 1, b)
<1>1. Len(t) \in Nat /\ Len(rest) \in Nat /\ b \in Nat /\ p \in Nat /\ q \in Nat
  OBVIOUS
<1>2. front \in Seq(S) /\ Len(front) = b /\ \A k \in 1..b : front[k] = t[k]
  BY <1>1
<1> HIDE DEF front
<1>3. /\ whole \in Seq(S) /\ Len(whole) = b + Len(rest)
      /\ \A k \in 1..(b + Len(rest)) : whole[k] = IF k <= b THEN t[k] ELSE rest[k - b]
  <2>1. Joins(S, Len(front), front, rest, whole)
    BY <1>2, CatJoins
  <2> HIDE DEF whole
  <2>2. QED
    BY <1>1, <1>2, <2>1 DEF Joins
<1> HIDE DEF whole
<1>4. left = SubSeq(t, 1, p)
  <2>1. left \in Seq(S) /\ Len(left) = p /\ \A k \in 1..p : left[k] = t[k]
    BY <1>1, <1>3
  <2>2. SubSeq(t, 1, p) \in Seq(S) /\ Len(SubSeq(t, 1, p)) = p /\ \A k \in 1..p : SubSeq(t, 1, p)[k] = t[k]
    BY <1>1
  <2> HIDE DEF left
  <2>3. QED
    BY <2>1, <2>2, SeqEqual
<1> DEFINE joined == Cat(run, rest)
<1>5. right = joined
  <2>1. run \in Seq(S) /\ Len(run) = b - q /\ b - q \in Nat /\ \A k \in 1..(b - q) : run[k] = t[q + k]
    BY <1>1
  <2> HIDE DEF run
  <2>2. /\ joined \in Seq(S) /\ Len(joined) = (b - q) + Len(rest)
        /\ \A k \in 1..((b - q) + Len(rest)) :
              joined[k] = IF k <= b - q THEN run[k] ELSE rest[k - (b - q)]
    <3>1. Joins(S, Len(run), run, rest, joined)
      BY <2>1, CatJoins
    <3> HIDE DEF joined
    <3>2. QED
      BY <2>1, <3>1 DEF Joins
  <2>3. /\ right \in Seq(S) /\ Len(right) = (b - q) + Len(rest)
        /\ \A k \in 1..((b - q) + Len(rest)) : right[k] = whole[q + k]
    BY <1>1, <1>3
  <2> HIDE DEF right, joined
  <2>4. ASSUME NEW k \in 1..((b - q) + Len(rest)) PROVE right[k] = joined[k]
    <3>1. q + k \in 1..(b + Len(rest)) /\ (q + k <= b <=> k <= b - q) /\ (q + k) - b = k - (b - q)
      BY <1>1
    <3>2. whole[q + k] = IF k <= b - q THEN t[q + k] ELSE rest[k - (b - q)]
      BY <1>3, <3>1
    <3>3. CASE k <= b - q
      BY <1>1, <2>1, <2>2, <2>3, <3>2, <3>3
    <3>4. CASE ~(k <= b - q)
      BY <2>2, <2>3, <3>2, <3>4
    <3>5. QED
      BY <3>3, <3>4
  <2>5. QED
    BY <2>2, <2>3, <2>4, SeqEqual
<1>6. QED
  BY <1>3, <1>4, <1>5 DEF whole, front, Cat, Cuts

\* s is a beginning of t.
Begins(s, t) == Len(s) <= Len(t) /\ \A q \in 1..Len(s) : t[q] = s[q]

\* What the pieces up to i make is a beginning of what those up to j do.
LEMMA FlattenBegins ==
    ASSUME NEW S, NEW n \in Nat, NEW seqs \in [1..n -> Seq(S)],
           NEW f \in [0..n -> Seq(S)], Flattens(n, seqs, f),
           NEW i \in 0..n, NEW j \in i..n
    PROVE  Begins(f[i], f[j])
<1> DEFINE Q == Seq(S)
           T == {k \in 0..(j - i) : Begins(f[i], f[i + k])}
<1>1. \A s, t \in Q : Begins(s, Cat(s, t)) /\ Len(s) \in Nat
  <2> SUFFICES ASSUME NEW s \in Q, NEW t \in Q PROVE Begins(s, Cat(s, t)) /\ Len(s) \in Nat
    OBVIOUS
  <2>1. Joins(S, Len(s), s, t, Cat(s, t)) /\ Len(s) \in Nat /\ Len(t) \in Nat
    BY CatJoins
  <2>2. QED
    BY <2>1 DEF Joins, Begins
<1>2. f \in [0..n -> Q] /\ seqs \in [1..n -> Q]
  OBVIOUS
<1> HIDE DEF Q
<1>3. i \in Nat /\ j \in Nat /\ j - i \in Nat /\ j <= n
  OBVIOUS
<1>4. 0 \in T
  <2>1. f[i] \in Q /\ i + 0 = i /\ 0 \in 0..(j - i)
    BY <1>2, <1>3
  <2>2. Len(f[i]) \in Nat
    BY <1>1, <2>1
  <2>3. Begins(f[i], f[i])
    BY <2>2 DEF Begins
  <2>4. QED
    BY <2>1, <2>3
<1>5. ASSUME NEW k \in 1..(j - i), k - 1 \in T PROVE k \in T
  <2>1. i + k \in 1..n /\ (i + k) - 1 = i + (k - 1) /\ i + (k - 1) \in 0..n /\ k \in 0..(j - i)
    BY <1>3
  <2> DEFINE a == f[i]
             b == f[i + (k - 1)]
             c == f[i + k]
  <2>2. c = Cat(b, seqs[i + k]) /\ Begins(a, b)
    BY <1>5, <2>1 DEF Flattens
  <2>3. a \in Q /\ b \in Q /\ c \in Q /\ seqs[i + k] \in Q
    BY <1>2, <1>3, <2>1
  <2> HIDE DEF a, b, c
  <2>4. Begins(b, c) /\ Len(a) \in Nat /\ Len(b) \in Nat /\ Len(c) \in Nat
    BY <1>1, <2>2, <2>3
  <2>5. Begins(a, c)
    <3>1. Len(a) <= Len(b) /\ Len(b) <= Len(c) /\ \A q \in 1..Len(a) : q \in 1..Len(b)
      BY <2>2, <2>4 DEF Begins
    <3>2. \A q \in 1..Len(a) : c[q] = a[q]
      BY <2>2, <2>4, <3>1 DEF Begins
    <3>3. QED
      BY <2>4, <3>1, <3>2 DEF Begins
  <2>6. QED
    BY <2>1, <2>5 DEF a, c
<1> HIDE DEF T
<1>6. 0..(j - i) \subseteq T
  BY <1>3, <1>4, <1>5, Climb
<1>7. j - i \in T /\ i + (j - i) = j
  BY <1>3, <1>6
<1>8. QED
  BY <1>7 DEF T

\* The k-th element of the result stands in the piece s.
StandsIn(n, seqs, f, k, s) ==
    /\ s \in 1..n /\ Len(f[s - 1]) < k /\ k <= Len(f[s])
    /\ k - Len(f[s - 1]) \in 1..Len(seqs[s])
    /\ f[n][k] = seqs[s][k - Len(f[s - 1])]

\* There is such a piece.
LEMMA FlattenPlace ==
    ASSUME NEW S, NEW n \in Nat, NEW seqs \in [1..n -> Seq(S)],
           NEW f \in [0..n -> Seq(S)], Flattens(n, seqs, f), NEW k \in 1..Len(f[n])
    PROVE  \E s \in 1..n : StandsIn(n, seqs, f, k, s)
<1> DEFINE T == {s \in 0..n : k <= Len(f[s])}
<1>1. \A s \in 0..n : f[s] \in Seq(S) /\ Len(f[s]) \in Nat
  OBVIOUS
<1>2. n \in 0..n /\ 0 \in 0..n /\ k \in Nat /\ k > 0
  <2>1. n \in 0..n
    OBVIOUS
  <2>2. Len(f[n]) \in Nat
    BY <1>1, <2>1
  <2>3. QED
    BY <2>1, <2>2
<1>3. n \in T /\ T \in SUBSET Nat
  BY <1>1, <1>2
<1>4. 0 \notin T
  BY <1>2 DEF Flattens
<1>5. PICK s \in T : \A m \in T : s <= m
  BY <1>3, LeastNumber
<1>6. s \in 1..n /\ s - 1 \in 0..n /\ s \in 0..n /\ s - 1 \notin T /\ n \in s..n
  BY <1>4, <1>5
<1>7. k <= Len(f[s]) /\ Len(f[s - 1]) < k
  BY <1>1, <1>2, <1>5, <1>6
<1> HIDE DEF T
<1> DEFINE a == f[s - 1]
           b == seqs[s]
           c == f[s]
<1>8. a \in Seq(S) /\ b \in Seq(S) /\ c = Cat(a, b) /\ c \in Seq(S)
  BY <1>6 DEF Flattens
<1>9. Begins(c, f[n])
  BY <1>6, FlattenBegins
<1>10. k <= Len(c) /\ Len(a) < k
  BY <1>7
<1> HIDE DEF a, b, c
<1>11. Joins(S, Len(a), a, b, c) /\ Len(a) \in Nat /\ Len(b) \in Nat
  BY <1>8, CatJoins
<1>12. k - Len(a) \in 1..Len(b) /\ c[k] = b[k - Len(a)] /\ f[n][k] = c[k]
  BY <1>2, <1>9, <1>10, <1>11 DEF Joins, Begins
<1>13. QED
  BY <1>6, <1>10, <1>12 DEF StandsIn, a, b, c

\* Elements in their order stand in pieces in their order.
LEMMA PlacesInOrder ==
    ASSUME NEW S, NEW n \in Nat, NEW seqs \in [1..n -> Seq(S)],
           NEW f \in [0..n -> Seq(S)], Flattens(n, seqs, f),
           NEW k \in Nat, NEW l \in Nat, k <= l, NEW p, NEW q,
           StandsIn(n, seqs, f, k, p), StandsIn(n, seqs, f, l, q)
    PROVE  p <= q
<1>1. p \in 1..n /\ q \in 1..n /\ Len(f[p - 1]) < k /\ l <= Len(f[q])
  BY DEF StandsIn
<1>2. p - 1 \in 0..n /\ q \in 0..n
  BY <1>1
<1>3. Len(f[p - 1]) \in Nat /\ Len(f[q]) \in Nat
  BY <1>2
<1>4. SUFFICES ASSUME q < p PROVE FALSE
  BY <1>1
<1>5. p - 1 \in q..n
  BY <1>1, <1>4
<1>6. Begins(f[q], f[p - 1])
  BY <1>2, <1>5, FlattenBegins
<1>7. QED
  BY <1>1, <1>3, <1>6 DEF Begins

-----------------------------------------------------------------------------
(* Searches: a loop that goes on from each place of Go to the next one.    *)

Searches(a, b, Go, f) == f = [e \in a..b |-> IF e \in Go THEN f[e + 1] ELSE e]

\* m is the first place from a on that is not in Go.
FirstStop(a, b, Go, m) == m \in a..b /\ m \notin Go /\ \A e \in a..(m - 1) : e \in Go

\* There is a first place to stop if one cannot go on from the last.
LEMMA StopExists ==
    ASSUME NEW a \in Nat, NEW b \in Nat, a <= b, NEW Go \in SUBSET (a..b), b \notin Go
    PROVE  \E m \in a..b : FirstStop(a, b, Go, m)
<1> DEFINE T == (a..b) \ Go
<1>1. T \in SUBSET Nat /\ T # {}
  OBVIOUS
<1>2. PICK m \in T : \A k \in T : m <= k
  BY <1>1, LeastNumber
<1>3. QED
  BY <1>2 DEF FirstStop

\* A function that satisfies the equation finds it, from any place on.
LEMMA SearchStops ==
    ASSUME NEW a \in Nat, NEW b \in Nat, a <= b, NEW Go \in SUBSET (a..b), b \notin Go,
           NEW f, Searches(a, b, Go, f)
    PROVE  FirstStop(a, b, Go, f[a])
<1>1. PICK m \in a..b : FirstStop(a, b, Go, m)
  BY StopExists
<1>2. \A e \in a..b : f[e] = IF e \in Go THEN f[e + 1] ELSE e
  BY DEF Searches
<1> DEFINE T == {i \in 0..(m - a) : f[a + i] = f[a]}
<1>3. m - a \in Nat
  OBVIOUS
<1>4. 0 \in T
  OBVIOUS
<1>5. ASSUME NEW i \in 1..(m - a), i - 1 \in T PROVE i \in T
  <2>1. a + (i - 1) \in a..(m - 1) /\ a + (i - 1) \in a..b /\ (a + (i - 1)) + 1 = a + i
    OBVIOUS
  <2>2. f[a + (i - 1)] = f[a + i]
    BY <1>1, <1>2, <2>1 DEF FirstStop
  <2>3. QED
    BY <1>5, <2>2
<1> HIDE DEF T
<1>6. 0..(m - a) \subseteq T
  BY <1>3, <1>4, <1>5, Climb
<1>7. f[a + (m - a)] = f[a]
  BY <1>3, <1>6 DEF T
<1>8. a + (m - a) = m /\ f[m] = m
  BY <1>1, <1>2 DEF FirstStop
<1>9. QED
  BY <1>1, <1>7, <1>8

\* There is such a function.
LEMMA SearchExists ==
    ASSUME NEW a \in Nat, NEW b \in Nat, NEW Go \in SUBSET (a..b), b \notin Go
    PROVE  \E f : Searches(a, b, Go, f)
<1> DEFINE f == [e \in a..b |-> CHOOSE m \in e..b : FirstStop(e, b, Go, m)]
<1>1. ASSUME NEW e \in a..b PROVE f[e] \in e..b /\ FirstStop(e, b, Go, f[e])
  <2>1. e \in Nat /\ e <= b
    OBVIOUS
  <2>2. Go \cap (e..b) \in SUBSET (e..b) /\ b \notin Go \cap (e..b)
    OBVIOUS
  <2>3. PICK m \in e..b : FirstStop(e, b, Go \cap (e..b), m)
    BY <2>1, <2>2, StopExists
  <2>4. FirstStop(e, b, Go, m)
    BY <2>3 DEF FirstStop
  <2>5. f[e] = CHOOSE k \in e..b : FirstStop(e, b, Go, k)
    OBVIOUS
  <2> HIDE DEF f
  <2>6. QED
    BY <2>4, <2>5
<1> HIDE DEF f
<1>2. ASSUME NEW e \in a..b PROVE f[e] = IF e \in Go THEN f[e + 1] ELSE e
  <2>0. e \in Nat /\ f[e] \in Nat /\ f[e] >= e
    BY <1>1
  <2>1. CASE e \in Go
    <3>1. e + 1 \in a..b
      BY <2>1
    <3>2. f[e] # e /\ f[e] \in (e + 1)..b
      BY <1>1, <2>0, <2>1 DEF FirstStop
    <3>3. f[e + 1] \in (e + 1)..b /\ f[e + 1] \notin Go /\ \A k \in (e + 1)..(f[e + 1] - 1) : k \in Go
      BY <1>1, <3>1 DEF FirstStop
    <3>4. f[e] \notin Go /\ \A k \in e..(f[e] - 1) : k \in Go
      BY <1>1 DEF FirstStop
    <3>5. ~(f[e] < f[e + 1]) /\ ~(f[e + 1] < f[e])
      BY <3>2, <3>3, <3>4
    <3>6. QED
      BY <2>1, <3>2, <3>3, <3>5
  <2>2. CASE e \notin Go
    <3>1. \A k \in e..(f[e] - 1) : k \in Go
      BY <1>1 DEF FirstStop
    <3>2. QED
      BY <2>0, <2>2, <3>1
  <2>3. QED
    BY <2>1, <2>2
<1>3. f = [e \in a..b |-> f[e]]
  BY DEF f
<1>4. f = [e \in a..b |-> IF e \in Go THEN f[e + 1] ELSE e]
  BY <1>2, <1>3
<1>5. QED
  BY <1>4 DEF Searches
=============================================================================
