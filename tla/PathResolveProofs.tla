-------------------------- MODULE PathResolveProofs --------------------------
(***************************************************************************)
(* What a call of the file tools reads or replaces is in the workspace     *)
(* (LandsWithin), for any tree, links and calls.  Walks have no limit      *)
(* here, Hop = Nat: that of the kernel on chains of links is not modelled. *)
(*                                                                         *)
(* A walk is a function of the number of its steps.  The sections below    *)
(* say where a walk ends and that a longer path goes on from there; that   *)
(* a write leaves every walk where it ended, or leads it into what has     *)
(* been written; what resolve_in_workspace returns; and, from these, that  *)
(* no prefix of a resolved path leads out of the workspace.                *)
(***************************************************************************)
EXTENDS PathResolve, SequenceLemmas

-----------------------------------------------------------------------------
(* Walks                                                                   *)

Path == Seq(Name)
WalkState == [reached : Path \cup {Nowhere}, todo : Path]

Start(path) == [reached |-> <<>>, todo |-> path]

LEMMA StartType ==
    ASSUME NEW p \in Path
    PROVE  Start(p) \in WalkState /\ Start(p).reached = <<>> /\ Start(p).todo = p
BY DEF Start, WalkState, Path

\* What a walk looks up next, and what is left then.
At(w) == Append(w.reached, Head(w.todo))

Going(w) == w \in WalkState /\ w.todo # <<>> /\ w.reached # Nowhere

LEMMA AtType ==
    ASSUME NEW w, Going(w)
    PROVE  /\ w.reached \in Path /\ At(w) \in Path /\ At(w) # <<>> /\ Tail(w.todo) \in Path
           /\ Head(w.todo) \in Name
BY DEF Going, WalkState, Path, At

\* The four things a step may do.
LEMMA StepIs ==
    ASSUME NEW t, NEW w, Going(w)
    PROVE  /\ At(w) \notin DOMAIN t => WalkStep(t, w) = [reached |-> Nowhere, todo |-> <<>>]
           /\ At(w) \in DOMAIN t /\ t[At(w)].kind = "file" /\ Tail(w.todo) # <<>>
                 => WalkStep(t, w) = [reached |-> Nowhere, todo |-> <<>>]
           /\ At(w) \in DOMAIN t /\ t[At(w)].kind = "link"
                 => WalkStep(t, w) = [reached |-> <<>>, todo |-> t[At(w)].to \o Tail(w.todo)]
           /\ At(w) \in DOMAIN t /\ t[At(w)].kind = "file" /\ Tail(w.todo) = <<>>
                 => WalkStep(t, w) = [reached |-> At(w), todo |-> <<>>]
           /\ At(w) \in DOMAIN t /\ t[At(w)].kind = "dir"
                 => WalkStep(t, w) = [reached |-> At(w), todo |-> Tail(w.todo)]
BY DEF WalkStep, Going, At

LEMMA StepHalts ==
    ASSUME NEW t, NEW w \in WalkState, w.todo = <<>> \/ w.reached = Nowhere
    PROVE  WalkStep(t, w) = w
BY DEF WalkStep

LEMMA StepType ==
    ASSUME NEW t, IsTree(t), NEW w \in WalkState
    PROVE  WalkStep(t, w) \in WalkState
<1>1. CASE ~Going(w)
  BY <1>1, StepHalts DEF Going
<1>2. CASE Going(w)
  <2>1. At(w) \in Path /\ Tail(w.todo) \in Path /\ <<>> \in Path
    BY <1>2, AtType DEF Path
  <2>2. At(w) \in DOMAIN t => t[At(w)].to \o Tail(w.todo) \in Path
    BY <2>1 DEF IsTree, Path
  <2>3. At(w) \in DOMAIN t => t[At(w)].kind \in {"dir", "file", "link"}
    BY DEF IsTree
  <2> DEFINE next == WalkStep(t, w)
  <2>4. \/ next = [reached |-> Nowhere, todo |-> <<>>]
        \/ At(w) \in DOMAIN t /\ next = [reached |-> <<>>, todo |-> t[At(w)].to \o Tail(w.todo)]
        \/ next = [reached |-> At(w), todo |-> <<>>]
        \/ next = [reached |-> At(w), todo |-> Tail(w.todo)]
    BY <1>2, <2>3, StepIs
  <2> HIDE DEF next
  <2>5. \A r \in Path \cup {Nowhere}, s \in Path : [reached |-> r, todo |-> s] \in WalkState
    BY DEF WalkState
  <2> DEFINE joined == t[At(w)].to \o Tail(w.todo)
             rest == Tail(w.todo)
  <2>6. \/ next = [reached |-> Nowhere, todo |-> <<>>]
        \/ joined \in Path /\ next = [reached |-> <<>>, todo |-> joined]
        \/ next = [reached |-> At(w), todo |-> <<>>]
        \/ next = [reached |-> At(w), todo |-> rest]
    BY <2>2, <2>4
  <2>7. rest \in Path
    BY <2>1
  <2> HIDE DEF joined, rest
  <2>8. next \in WalkState
    BY <2>1, <2>5, <2>6, <2>7
  <2>9. QED
    BY <2>8 DEF next
<1>3. QED
  BY <1>1, <1>2

\* A walk takes one step after the other, as far as it may go.
LEMMA WalkOn ==
    ASSUME NEW t, IsTree(t), NEW u \in WalkState
    PROVE  /\ Walk(t, u) \in [Hop -> WalkState] /\ Walk(t, u)[0] = u
           /\ \A h \in Hop \ {0} : Walk(t, u)[h] = WalkStep(t, Walk(t, u)[h - 1])
<1> DEFINE F == [w \in WalkState |-> WalkStep(t, w)]
           Fix(f) == f = [h \in Hop |-> IF h = 0 THEN u ELSE WalkStep(t, f[h - 1])]
           walk == CHOOSE f : Fix(f)
<1>1. Walk(t, u) = walk
  BY DEF Walk
<1>2. F \in [WalkState -> WalkState]
  BY StepType
<1>3. \A w \in WalkState : F[w] = WalkStep(t, w)
  OBVIOUS
<1> HIDE DEF F
<1>4. PICK f \in [Nat -> WalkState] : f[0] = u /\ \A i \in Nat : f[i + 1] = F[f[i]]
  <2> DEFINE Q == WalkState
  <2>1. u \in Q /\ F \in [Q -> Q]
    BY <1>2
  <2> HIDE DEF Q
  <2>2. \E f \in [Nat -> Q] : f[0] = u /\ \A i \in Nat : f[i + 1] = F[f[i]]
    BY <2>1, RecursionOnNat
  <2>3. QED
    BY <2>2 DEF Q
<1>5. ASSUME NEW h \in Nat PROVE f[h] = IF h = 0 THEN u ELSE WalkStep(t, f[h - 1])
  <2>1. CASE h = 0
    BY <1>4, <2>1
  <2>2. CASE h # 0
    <3>1. h - 1 \in Nat /\ (h - 1) + 1 = h
      BY <2>2
    <3>2. f[h] = F[f[h - 1]] /\ f[h - 1] \in WalkState
      BY <1>4, <3>1
    <3>3. QED
      BY <1>3, <2>2, <3>2
  <2>3. QED
    BY <2>1, <2>2
<1>6. Hop \subseteq Nat /\ 0 \in Hop /\ \A h \in Hop \ {0} : h - 1 \in Hop
  BY PathAssumption
<1>7. Fix(walk)
  <2> DEFINE g == [h \in Hop |-> f[h]]
  <2>1. \A h \in Hop : h # 0 => g[h - 1] = f[h - 1]
    BY <1>6
  <2>2. \A h \in Hop : f[h] = IF h = 0 THEN u ELSE WalkStep(t, g[h - 1])
    BY <1>5, <1>6, <2>1
  <2>3. Fix(g)
    BY <2>2
  <2> HIDE DEF Fix
  <2>4. QED
    BY <2>3, Zenon
<1> HIDE DEF walk
<1>8. walk[0] = u
  BY <1>6, <1>7
<1>9. ASSUME NEW h \in Hop \ {0} PROVE walk[h] = WalkStep(t, walk[h - 1])
  BY <1>7
<1>10. walk \in [Hop -> WalkState]
  <2> DEFINE T == {h \in Nat : h \in Hop => walk[h] \in WalkState}
  <2>1. 0 \in T
    BY <1>8
  <2>2. ASSUME NEW h \in T PROVE h + 1 \in T
    <3>1. h + 1 \in Nat
      OBVIOUS
    <3>2. ASSUME h + 1 \in Hop PROVE walk[h + 1] \in WalkState
      <4>1. h + 1 \in Hop \ {0} /\ (h + 1) - 1 = h
        BY <3>2
      <4>2. h \in Hop
        BY <1>6, <4>1
      <4>3. walk[h + 1] = WalkStep(t, walk[h])
        BY <1>9, <4>1
      <4>4. QED
        BY <4>2, <4>3, StepType
    <3>3. QED
      BY <3>1, <3>2
  <2> HIDE DEF T
  <2>3. T = Nat
    <3>1. T \in SUBSET Nat
      BY DEF T
    <3>2. QED
      BY <2>1, <2>2, <3>1, Induction
  <2>4. \A h \in Hop : walk[h] \in WalkState
    BY <1>6, <2>3 DEF T
  <2>5. walk = [h \in Hop |-> walk[h]]
    BY <1>7
  <2>6. QED
    BY <2>4, <2>5
<1>11. QED
  BY <1>1, <1>8, <1>9, <1>10

\* It may go on for ever where links may.
LEMMA WalkIs ==
    ASSUME Hop = Nat, NEW t, IsTree(t), NEW u \in WalkState
    PROVE  /\ Walk(t, u) \in [Nat -> WalkState] /\ Walk(t, u)[0] = u
           /\ \A h \in Nat : Walk(t, u)[h + 1] = WalkStep(t, Walk(t, u)[h])
<1>1. ASSUME NEW h \in Nat PROVE Walk(t, u)[h + 1] = WalkStep(t, Walk(t, u)[h])
  <2>1. h + 1 \in Hop \ {0} /\ (h + 1) - 1 = h
    OBVIOUS
  <2>2. QED
    BY <2>1, WalkOn
<1>2. QED
  BY <1>1, WalkOn

\* canonicalize gives a path or none; the root is where it is.
LEMMA CanonType ==
    ASSUME NEW t, IsTree(t)
    PROVE  /\ \A p \in Path : Canonicalize(t, p) \in Path \cup {Nowhere}
           /\ Canonicalize(t, <<>>) = <<>>
<1>1. ASSUME NEW p \in Path
      PROVE  /\ Canonicalize(t, p) \in Path \cup {Nowhere}
             /\ p = <<>> => Canonicalize(t, p) = <<>>
  <2> DEFINE walk == Walk(t, Start(p))
             ends == {i \in Hop : walk[i].todo = <<>>}
             h == CHOOSE i \in ends : TRUE
  <2>1. Start(p) \in WalkState /\ Start(p).reached = <<>> /\ Start(p).todo = p
    BY StartType
  <2>2. /\ \A i \in Hop : walk[i] \in WalkState
        /\ walk[0] = Start(p) /\ \A i \in Hop \ {0} : walk[i] = WalkStep(t, walk[i - 1])
    BY <2>1, WalkOn
  <2>3. Canonicalize(t, p) = IF ends = {} THEN Nowhere ELSE walk[h].reached
    BY Zenon DEF Canonicalize, Start
  <2>4. ends # {} => h \in ends
    OBVIOUS
  <2> HIDE DEF h
  <2>5. ends # {} => h \in Hop /\ walk[h].reached \in Path \cup {Nowhere}
    BY <2>2, <2>4 DEF WalkState
  <2>6. ASSUME p = <<>> PROVE ends # {} /\ \A i \in Hop : walk[i] = Start(p)
    <3>1. Hop \subseteq Nat /\ 0 \in Hop /\ \A i \in Hop \ {0} : i - 1 \in Hop
      BY PathAssumption
    <3>2. 0 \in ends
      BY <2>1, <2>2, <2>6, <3>1
    <3> DEFINE T == {i \in Nat : i \in Hop => walk[i] = Start(p)}
    <3> HIDE DEF walk
    <3>3. 0 \in T
      BY <2>2
    <3>4. ASSUME NEW i \in T PROVE i + 1 \in T
      <4>1. i + 1 \in Nat /\ i \in Nat
        OBVIOUS
      <4>2. ASSUME i + 1 \in Hop PROVE walk[i + 1] = Start(p)
        <5>1. i + 1 \in Hop \ {0} /\ (i + 1) - 1 = i
          BY <4>2
        <5>2. i \in Hop
          BY <3>1, <5>1
        <5>3. walk[i + 1] = WalkStep(t, walk[i]) /\ walk[i] = Start(p)
          BY <2>2, <5>1, <5>2
        <5>4. QED
          BY <2>1, <2>6, <5>3, StepHalts
      <4>3. QED
        BY <4>1, <4>2
    <3> HIDE DEF T
    <3>5. T = Nat
      <4>1. T \in SUBSET Nat
        BY DEF T
      <4>2. QED
        BY <3>3, <3>4, <4>1, Induction
    <3>6. \A i \in Hop : walk[i] = Start(p)
      BY <3>1, <3>5 DEF T
    <3>7. QED
      BY <3>2, <3>6
  <2> HIDE DEF ends, walk
  <2>7. QED
    BY <2>1, <2>3, <2>5, <2>6
<1>2. <<>> \in Path
  BY DEF Path
<1>3. QED
  BY <1>1, <1>2

-----------------------------------------------------------------------------
(* Where a walk ends                                                       *)

Final(r) == [reached |-> r, todo |-> <<>>]

Ends(t, u, r) == \E h \in Nat : Walk(t, u)[h] = Final(r)

\* What surrounds every lemma below.
Walks(t, u) == Hop = Nat /\ IsTree(t) /\ u \in WalkState

LEMMA Shift ==
    ASSUME NEW t, NEW u, Walks(t, u), NEW n \in Nat
    PROVE  Walk(t, u)[n + 1] = Walk(t, WalkStep(t, u))[n]
<1> DEFINE v == WalkStep(t, u)
           T == {i \in Nat : Walk(t, u)[i + 1] = Walk(t, v)[i]}
<1>1. Walks(t, v)
  BY StepType DEF Walks
<1>2. /\ Walk(t, u)[0] = u /\ Walk(t, v)[0] = v
      /\ \A h \in Nat : Walk(t, u)[h + 1] = WalkStep(t, Walk(t, u)[h])
      /\ \A h \in Nat : Walk(t, v)[h + 1] = WalkStep(t, Walk(t, v)[h])
  BY <1>1, WalkIs DEF Walks
<1>3. 0 \in T
  BY <1>2
<1>4. ASSUME NEW i \in T PROVE i + 1 \in T
  <2>1. i \in Nat /\ i + 1 \in Nat
    OBVIOUS
  <2>2. Walk(t, u)[(i + 1) + 1] = WalkStep(t, Walk(t, u)[i + 1])
    BY <1>2, <2>1
  <2>3. Walk(t, v)[i + 1] = WalkStep(t, Walk(t, v)[i])
    BY <1>2, <2>1
  <2>4. QED
    BY <2>1, <2>2, <2>3
<1>5. T \in SUBSET Nat
  OBVIOUS
<1> HIDE DEF T
<1>6. T = Nat
  BY <1>3, <1>4, <1>5, Induction
<1>7. QED
  BY <1>6 DEF T

LEMMA FinalStays ==
    ASSUME NEW t, NEW u, Walks(t, u), NEW h \in Nat, Walk(t, u)[h].todo = <<>>, NEW k \in Nat
    PROVE  Walk(t, u)[h + k] = Walk(t, u)[h]
<1> DEFINE T == {i \in Nat : Walk(t, u)[h + i] = Walk(t, u)[h]}
<1>1. /\ \A i \in Nat : Walk(t, u)[i + 1] = WalkStep(t, Walk(t, u)[i])
      /\ \A i \in Nat : Walk(t, u)[i] \in WalkState
  BY WalkIs DEF Walks
<1>2. 0 \in T
  OBVIOUS
<1>3. ASSUME NEW i \in T PROVE i + 1 \in T
  <2>1. h + i \in Nat /\ h + (i + 1) = (h + i) + 1
    OBVIOUS
  <2>2. Walk(t, u)[(h + i) + 1] = WalkStep(t, Walk(t, u)[h + i])
    BY <1>1, <2>1
  <2>3. WalkStep(t, Walk(t, u)[h]) = Walk(t, u)[h]
    BY <1>1, StepHalts
  <2>4. QED
    BY <2>1, <2>2, <2>3
<1>4. T \in SUBSET Nat
  OBVIOUS
<1> HIDE DEF T
<1>5. T = Nat
  BY <1>2, <1>3, <1>4, Induction
<1>6. QED
  BY <1>5 DEF T

LEMMA EndsOnce ==
    ASSUME NEW t, NEW u, Walks(t, u), NEW r, NEW s, Ends(t, u, r), Ends(t, u, s)
    PROVE  r = s
<1>1. PICK h \in Nat : Walk(t, u)[h] = Final(r)
  BY DEF Ends
<1>2. PICK k \in Nat : Walk(t, u)[k] = Final(s)
  BY DEF Ends
<1>3. Walk(t, u)[h].todo = <<>> /\ Walk(t, u)[k].todo = <<>>
  BY <1>1, <1>2 DEF Final
<1>4. Walk(t, u)[h + k] = Final(r) /\ Walk(t, u)[k + h] = Final(s)
  BY <1>1, <1>2, <1>3, FinalStays, ZenonT(60)
<1>5. Final(r) = Final(s)
  BY <1>4
<1>6. QED
  BY <1>5 DEF Final

\* One step further, a walk ends where it did.
LEMMA EndStep ==
    ASSUME NEW t, NEW u, Walks(t, u), NEW r
    PROVE  Ends(t, u, r) <=> Ends(t, WalkStep(t, u), r)
<1>1. Walks(t, WalkStep(t, u))
  BY StepType DEF Walks
<1>2. ASSUME Ends(t, WalkStep(t, u), r) PROVE Ends(t, u, r)
  <2>1. PICK n \in Nat : Walk(t, WalkStep(t, u))[n] = Final(r)
    BY <1>2 DEF Ends
  <2>2. n + 1 \in Nat /\ Walk(t, u)[n + 1] = Final(r)
    BY <2>1, Shift
  <2>3. QED
    BY <2>2 DEF Ends
<1>3. ASSUME Ends(t, u, r) PROVE Ends(t, WalkStep(t, u), r)
  <2>1. PICK n \in Nat : Walk(t, u)[n] = Final(r)
    BY <1>3 DEF Ends
  <2>2. Walk(t, u)[n + 1] = Final(r)
    <3>1. Walk(t, u)[n].todo = <<>>
      BY <2>1 DEF Final
    <3>2. QED
      BY <2>1, <3>1, FinalStays
  <2>3. Walk(t, WalkStep(t, u))[n] = Final(r)
    BY <2>2, Shift
  <2>4. QED
    BY <2>3 DEF Ends
<1>4. QED
  BY <1>2, <1>3

\* A walk that has nothing left to do is at its end.
LEMMA EndsHere ==
    ASSUME NEW t, NEW r, Walks(t, Final(r))
    PROVE  Ends(t, Final(r), r)
<1>1. Walk(t, Final(r))[0] = Final(r)
  BY WalkIs DEF Walks
<1>2. QED
  BY <1>1 DEF Ends

\* canonicalize is where the walk of a path ends.
LEMMA CanonIs ==
    ASSUME Hop = Nat, NEW t, IsTree(t), NEW p \in Path
    PROVE  /\ Canonicalize(t, p) \in Path \cup {Nowhere}
           /\ Canonicalize(t, p) # Nowhere => Ends(t, Start(p), Canonicalize(t, p))
           /\ \A r : r # Nowhere /\ Ends(t, Start(p), r) => Canonicalize(t, p) = r
<1> DEFINE walk == Walk(t, Start(p))
           ends == {i \in Hop : walk[i].todo = <<>>}
           h == CHOOSE i \in ends : TRUE
<1>1. Walks(t, Start(p))
  BY StartType DEF Walks
<1>2. \A i \in Nat : walk[i] \in WalkState
  BY <1>1, WalkIs DEF Walks
<1>3. Canonicalize(t, p) = IF ends = {} THEN Nowhere ELSE walk[h].reached
  BY Zenon DEF Canonicalize, Start
<1>4. ends # {} => h \in ends
  OBVIOUS
<1>5. ASSUME NEW r, Ends(t, Start(p), r) PROVE ends # {}
  <2>1. PICK i \in Nat : walk[i] = Final(r)
    BY <1>5 DEF Ends
  <2>2. i \in ends
    BY <2>1 DEF Final
  <2>3. QED
    BY <2>2
<1> HIDE DEF h
<1>6. ASSUME ends # {} PROVE Ends(t, Start(p), walk[h].reached) /\ walk[h].reached \in Path \cup {Nowhere}
  <2>1. h \in Nat /\ walk[h].todo = <<>> /\ walk[h] \in WalkState
    BY <1>2, <1>4, <1>6
  <2>2. walk[h] = Final(walk[h].reached)
    BY <2>1 DEF WalkState, Final
  <2>3. QED
    BY <2>1, <2>2 DEF Ends, WalkState
<1> HIDE DEF ends, walk
<1>7. QED
  BY <1>1, <1>3, <1>5, <1>6, EndsOnce

-----------------------------------------------------------------------------
(* Paths cut and joined                                                    *)

LEMMA JoinType ==
    ASSUME NEW p \in Path, NEW q \in Path
    PROVE  /\ p \o q \in Path /\ Len(p \o q) = Len(p) + Len(q) /\ Len(p) \in Nat /\ Len(q) \in Nat
           /\ \A i \in 1..Len(p) : (p \o q)[i] = p[i]
           /\ \A i \in 1..Len(q) : (p \o q)[Len(p) + i] = q[i]
BY DEF Path

LEMMA JoinNothing ==
    ASSUME NEW p \in Path
    PROVE  p \o <<>> = p /\ <<>> \o p = p /\ <<>> \in Path
BY DEF Path

LEMMA JoinThree ==
    ASSUME NEW p \in Path, NEW q \in Path, NEW r \in Path
    PROVE  (p \o q) \o r = p \o (q \o r)
BY ConcatAssociative DEF Path

\* The first name of the rest goes to what has been reached.
LEMMA MoveOne ==
    ASSUME NEW p \in Path, NEW q \in Path, q # <<>>
    PROVE  /\ Append(p, Head(q)) \in Path /\ Tail(q) \in Path /\ Len(Tail(q)) = Len(q) - 1
           /\ Append(p, Head(q)) \o Tail(q) = p \o q
           /\ Len(Append(p, Head(q))) = Len(p) + 1
           /\ Len(q) \in Nat \ {0}
<1> DEFINE a == Append(p, Head(q))
           b == Tail(q)
<1>1. /\ a \in Path /\ b \in Path /\ Len(a) = Len(p) + 1 /\ Len(b) = Len(q) - 1
      /\ Len(q) \in Nat \ {0} /\ Len(p) \in Nat
      /\ a[Len(p) + 1] = q[1]
      /\ \A i \in 1..Len(p) : a[i] = p[i]
      /\ \A i \in 1..(Len(q) - 1) : b[i] = q[i + 1]
  BY DEF Path
<1> HIDE DEF a, b
<1> DEFINE ab == a \o b
           pq == p \o q
<1>2. /\ ab \in Path /\ Len(ab) = Len(a) + Len(b)
      /\ \A i \in 1..Len(a) : ab[i] = a[i]
      /\ \A i \in 1..Len(b) : ab[Len(a) + i] = b[i]
  BY <1>1, JoinType
<1>3. /\ pq \in Path /\ Len(pq) = Len(p) + Len(q)
      /\ \A i \in 1..Len(p) : pq[i] = p[i]
      /\ \A i \in 1..Len(q) : pq[Len(p) + i] = q[i]
  BY JoinType
<1> HIDE DEF ab, pq
<1>4. ASSUME NEW i \in 1..Len(pq) PROVE ab[i] = pq[i]
  <2>1. CASE i <= Len(p)
    <3>1. i \in 1..Len(p) /\ i \in 1..Len(a)
      BY <1>1, <1>3, <2>1
    <3>2. QED
      BY <1>1, <1>2, <1>3, <3>1
  <2>2. CASE i = Len(p) + 1
    <3>1. i \in 1..Len(a) /\ 1 \in 1..Len(q)
      BY <1>1, <2>2
    <3>2. pq[Len(p) + 1] = q[1] /\ ab[i] = a[i]
      BY <1>2, <1>3, <3>1
    <3>3. QED
      BY <1>1, <2>2, <3>2
  <2>3. CASE i > Len(p) + 1
    <3> DEFINE j == i - Len(a)
               k == i - Len(p)
    <3>1. /\ j \in 1..Len(b) /\ j \in 1..(Len(q) - 1) /\ k \in 1..Len(q)
          /\ i = Len(a) + j /\ i = Len(p) + k /\ k = j + 1
      BY <1>1, <1>3, <2>3
    <3> HIDE DEF j, k
    <3>2. ab[i] = b[j] /\ pq[i] = q[k] /\ b[j] = q[k]
      BY <1>1, <1>2, <1>3, <3>1
    <3>3. QED
      BY <3>2
  <2>4. QED
    BY <1>1, <1>3, <2>1, <2>2, <2>3
<1>5. Len(ab) = Len(pq)
  BY <1>1, <1>2, <1>3
<1>6. ab = pq
  <2>1. ab \in Seq(Name) /\ pq \in Seq(Name) /\ \A i \in 1..Len(ab) : ab[i] = pq[i]
    BY <1>2, <1>3, <1>4, <1>5 DEF Path
  <2>2. QED
    BY <1>5, <2>1, SeqEqual
<1>7. QED
  BY <1>1, <1>6 DEF a, b, ab, pq

\* Of two joined, the first name and the others.
LEMMA JoinHead ==
    ASSUME NEW p \in Path, NEW q \in Path, p # <<>>
    PROVE  /\ p \o q # <<>> /\ Head(p \o q) = Head(p) /\ Tail(p \o q) = Tail(p) \o q
<1> DEFINE pq == p \o q
           b == Tail(p)
           d == Tail(pq)
           bq == b \o q
<1>1. /\ b \in Path /\ Len(b) = Len(p) - 1 /\ Len(p) \in Nat \ {0} /\ Len(q) \in Nat
      /\ Head(p) = p[1] /\ \A i \in 1..(Len(p) - 1) : b[i] = p[i + 1]
  BY DEF Path
<1>2. /\ pq \in Path /\ Len(pq) = Len(p) + Len(q)
      /\ \A i \in 1..Len(p) : pq[i] = p[i]
      /\ \A i \in 1..Len(q) : pq[Len(p) + i] = q[i]
  BY JoinType
<1> HIDE DEF b
<1>3. /\ bq \in Path /\ Len(bq) = Len(b) + Len(q)
      /\ \A i \in 1..Len(b) : bq[i] = b[i]
      /\ \A i \in 1..Len(q) : bq[Len(b) + i] = q[i]
  BY <1>1, JoinType
<1> HIDE DEF pq, bq
<1>4. pq # <<>>
  <2>1. Len(pq) # 0
    BY <1>1, <1>2
  <2>2. QED
    BY <2>1
<1>5. /\ d \in Path /\ Len(d) = Len(pq) - 1 /\ Head(pq) = pq[1]
      /\ \A i \in 1..(Len(pq) - 1) : d[i] = pq[i + 1]
  BY <1>2, <1>4 DEF Path
<1> HIDE DEF d
<1>6. Head(pq) = Head(p)
  <2>1. 1 \in 1..Len(p)
    BY <1>1
  <2>2. QED
    BY <1>1, <1>2, <1>5, <2>1
<1>7. ASSUME NEW i \in 1..Len(d) PROVE d[i] = bq[i]
  <2>1. i \in 1..(Len(pq) - 1) /\ d[i] = pq[i + 1]
    BY <1>1, <1>2, <1>5
  <2>2. CASE i <= Len(p) - 1
    <3>1. i \in 1..(Len(p) - 1) /\ i + 1 \in 1..Len(p) /\ i \in 1..Len(b)
      BY <1>1, <2>1, <2>2
    <3>2. QED
      BY <1>1, <1>2, <1>3, <2>1, <3>1
  <2>3. CASE i > Len(p) - 1
    <3> DEFINE j == i - Len(b)
    <3>1. j \in 1..Len(q) /\ i = Len(b) + j /\ i + 1 = Len(p) + j
      BY <1>1, <1>2, <2>1, <2>3
    <3> HIDE DEF j
    <3>2. QED
      BY <1>2, <1>3, <2>1, <3>1
  <2>4. QED
    BY <1>1, <2>1, <2>2, <2>3
<1>8. Len(d) = Len(bq)
  BY <1>1, <1>2, <1>3, <1>5
<1>9. d = bq
  <2>1. d \in Seq(Name) /\ bq \in Seq(Name) /\ \A i \in 1..Len(d) : d[i] = bq[i]
    BY <1>3, <1>5, <1>7 DEF Path
  <2>2. QED
    BY <1>8, <2>1, SeqEqual
<1>10. QED
  BY <1>4, <1>6, <1>9 DEF pq, d, bq, b

\* A prefix of a path, by the rest.
LEMMA PrefixOfJoin ==
    ASSUME NEW p \in Path, NEW q \in Path
    PROVE  SubSeq(p \o q, 1, Len(p)) = p
BY DEF Path

LEMMA PathCut ==
    ASSUME NEW p \in Path, NEW k \in 0..Len(p)
    PROVE  /\ SubSeq(p, 1, k) \in Path /\ Len(SubSeq(p, 1, k)) = k
           /\ SubSeq(p, k + 1, Len(p)) \in Path /\ Len(SubSeq(p, k + 1, Len(p))) = Len(p) - k
           /\ SubSeq(p, 1, k) \o SubSeq(p, k + 1, Len(p)) = p
<1> DEFINE a == SubSeq(p, 1, k)
           b == SubSeq(p, k + 1, Len(p))
<1>1. Len(p) \in Nat /\ k \in Nat /\ k <= Len(p)
  BY DEF Path
<1>2. /\ a \in Path /\ Len(a) = k /\ b \in Path /\ Len(b) = Len(p) - k
      /\ \A i \in 1..k : a[i] = p[i]
      /\ \A i \in 1..(Len(p) - k) : b[i] = p[k + i]
  BY <1>1 DEF Path
<1> HIDE DEF a, b
<1> DEFINE ab == a \o b
<1>3. /\ ab \in Path /\ Len(ab) = Len(a) + Len(b)
      /\ \A i \in 1..Len(a) : ab[i] = a[i]
      /\ \A i \in 1..Len(b) : ab[Len(a) + i] = b[i]
  BY <1>2, JoinType
<1> HIDE DEF ab
<1>4. ASSUME NEW i \in 1..Len(p) PROVE ab[i] = p[i]
  <2>1. CASE i <= k
    <3>1. i \in 1..k
      BY <1>1, <2>1
    <3>2. QED
      BY <1>2, <1>3, <3>1
  <2>2. CASE i > k
    <3> DEFINE j == i - k
    <3>1. j \in 1..(Len(p) - k) /\ k + j = i
      BY <1>1, <2>2
    <3> HIDE DEF j
    <3>2. QED
      BY <1>2, <1>3, <3>1
  <2>3. QED
    BY <1>1, <2>1, <2>2
<1>5. ab = p
  <2>1. ab \in Seq(Name) /\ p \in Seq(Name) /\ Len(ab) = Len(p)
    BY <1>1, <1>2, <1>3 DEF Path
  <2>2. \A i \in 1..Len(ab) : ab[i] = p[i]
    BY <1>4, <2>1
  <2>3. QED
    BY <2>1, <2>2, SeqEqual
<1>6. QED
  BY <1>2, <1>5 DEF a, b, ab

-----------------------------------------------------------------------------
(* Paths without links                                                     *)

\* An entry that is not a link, or the top.
Real(t, q) == q = <<>> \/ (q \in DOMAIN t /\ t[q].kind # "link")

LEMMA AboveIsDir ==
    ASSUME NEW t, IsTree(t), NEW a \in Path, NEW b \in Path, b # <<>>, a \o b \in DOMAIN t
    PROVE  IsDir(t, a)
<1>1. CASE a = <<>>
  BY <1>1 DEF IsDir
<1>2. CASE a # <<>>
  <2> DEFINE p == a \o b
  <2>1. p \in Path /\ Len(p) = Len(a) + Len(b) /\ Len(b) \in Nat /\ Len(a) \in Nat
    BY JoinType
  <2>2. Len(a) # 0 /\ Len(b) # 0
    BY <1>2 DEF Path
  <2>3. SubSeq(p, 1, Len(a)) = a
    BY PrefixOfJoin
  <2>4. p \in DOMAIN t
    OBVIOUS
  <2> HIDE DEF p
  <2>5. Len(a) \in 1..(Len(p) - 1)
    BY <2>1, <2>2
  <2>6. SubSeq(p, 1, Len(a)) \in DOMAIN t /\ t[SubSeq(p, 1, Len(a))].kind = "dir"
    BY <2>4, <2>5 DEF IsTree
  <2>7. a \in DOMAIN t /\ t[a].kind = "dir"
    BY <2>3, <2>6
  <2>8. QED
    BY <2>7 DEF IsDir
<1>3. QED
  BY <1>1, <1>2

\* A walk along an entry that is not a link comes to it, with what is left.
LEMMA Straight ==
    ASSUME Hop = Nat, NEW t, IsTree(t), NEW q \in Path, NEW s \in Path,
           Real(t, q), IsDir(t, q) \/ s = <<>>, NEW r
    PROVE  Ends(t, Start(q \o s), r) <=> Ends(t, [reached |-> q, todo |-> s], r)
<1> DEFINE Goal(a, b) == Ends(t, [reached |-> a, todo |-> b \o s], r)
                            <=> Ends(t, [reached |-> q, todo |-> s], r)
           All(n) == \A a \in Path, b \in Path : a \o b = q /\ Len(b) = n => Goal(a, b)
           T == {n \in Nat : All(n)}
<1>1. All(0)
  <2> SUFFICES ASSUME NEW a \in Path, NEW b \in Path, a \o b = q, Len(b) = 0 PROVE Goal(a, b)
    OBVIOUS
  <2>1. b = <<>>
    BY DEF Path
  <2>2. a = q /\ b \o s = s
    BY <2>1, JoinNothing
  <2>3. QED
    BY <2>2
<1>2. ASSUME NEW n \in Nat, All(n) PROVE All(n + 1)
  <2> HIDE DEF Goal
  <2> SUFFICES ASSUME NEW a \in Path, NEW b \in Path, a \o b = q, Len(b) = n + 1 PROVE Goal(a, b)
    OBVIOUS
  <2>1. b # <<>>
    <3>1. Len(b) # 0
      OBVIOUS
    <3>2. QED
      BY <3>1
  <2> DEFINE u == [reached |-> a, todo |-> b \o s]
             at == Append(a, Head(b))
             rest == Tail(b)
  <2>2. /\ at \in Path /\ rest \in Path /\ Len(rest) = Len(b) - 1 /\ at \o rest = a \o b
        /\ Len(at) = Len(a) + 1 /\ Len(a) \in Nat /\ at # <<>> /\ q # <<>>
    <3>1. /\ at \in Path /\ rest \in Path /\ Len(rest) = Len(b) - 1 /\ at \o rest = a \o b
          /\ Len(at) = Len(a) + 1 /\ Len(b) \in Nat \ {0}
      BY <2>1, MoveOne
    <3>2. Len(a) \in Nat /\ Len(q) = Len(a) + Len(b)
      BY JoinType
    <3> HIDE DEF at, rest
    <3>3. Len(at) # 0 /\ Len(q) # 0
      BY <3>1, <3>2
    <3>4. at # <<>> /\ q # <<>>
      BY <3>3
    <3>5. QED
      BY <3>1, <3>2, <3>4
  <2>3. b \o s \in Path /\ b \o s # <<>> /\ Head(b \o s) = Head(b) /\ Tail(b \o s) = rest \o s
    BY <2>1, JoinHead, JoinType
  <2>4. u \in WalkState /\ Going(u) /\ At(u) = at /\ Tail(u.todo) = rest \o s
    <3>1. a # Nowhere /\ u \in WalkState
      BY <2>3, PathAssumption DEF WalkState, Path
    <3>2. QED
      BY <2>3, <3>1 DEF Going, At
  <2> HIDE DEF at, rest
  <2>5. WalkStep(t, u) = [reached |-> at, todo |-> rest \o s]
    <3>1. CASE rest = <<>>
      <4>1. at = q /\ rest \o s = s
        BY <2>2, <3>1, JoinNothing
      <4>2. q \in DOMAIN t /\ t[q].kind \in {"dir", "file"} /\ (t[q].kind = "file" => s = <<>>)
        BY <2>2 DEF Real, IsTree, IsDir
      <4>3. QED
        BY <2>4, <4>1, <4>2, StepIs
    <3>2. CASE rest # <<>>
      <4>1. at \o rest \in DOMAIN t
        BY <2>2 DEF Real
      <4>2. IsDir(t, at)
        BY <2>2, <3>2, <4>1, AboveIsDir
      <4>3. at \in DOMAIN t /\ t[at].kind = "dir"
        BY <2>2, <4>2 DEF IsDir
      <4>4. QED
        BY <2>4, <4>3, StepIs
    <3>3. QED
      BY <3>1, <3>2
  <2>6. Goal(at, rest)
    <3>1. at \o rest = q /\ Len(rest) = n
      BY <2>2
    <3>2. QED
      BY <1>2, <2>2, <3>1
  <2>7. Walks(t, u)
    BY <2>4 DEF Walks
  <2>8. QED
    BY <2>5, <2>6, <2>7, EndStep DEF Goal
<1> HIDE DEF All
<1>3. T = Nat
  <2>1. 0 \in T /\ \A n \in T : n + 1 \in T
    BY <1>1, <1>2
  <2>2. T \in SUBSET Nat
    OBVIOUS
  <2> HIDE DEF T
  <2>3. QED
    BY <2>1, <2>2, Induction
<1>4. <<>> \in Path /\ <<>> \o q = q /\ Len(q) \in Nat
  BY JoinNothing DEF Path
<1>5. All(Len(q))
  BY <1>3, <1>4
<1>6. Goal(<<>>, q)
  BY <1>4, <1>5 DEF All
<1>7. QED
  BY <1>6 DEF Start

\* So canonicalize leaves it as it is.
LEMMA RealIsCanonical ==
    ASSUME Hop = Nat, NEW t, IsTree(t), NEW q \in Path, Real(t, q)
    PROVE  Canonicalize(t, q) = q
<1>1. <<>> \in Path /\ q \o <<>> = q /\ q # Nowhere
  BY JoinNothing, PathAssumption DEF Path
<1>2. Final(q) \in WalkState
  BY <1>1 DEF Final, WalkState
<1>3. Ends(t, Final(q), q)
  BY <1>2, EndsHere DEF Walks
<1>4. Ends(t, Start(q), q)
  BY <1>1, <1>3, Straight DEF Final
<1>5. QED
  BY <1>1, <1>4, CanonIs

\* No name on the way is a link.
NoLink(t, q) ==
    \A a \in Path, b \in Path :
        a # <<>> /\ a \o b = q /\ a \in DOMAIN t => t[a].kind # "link"

\* Such a path leads to itself or nowhere.
LEMMA NoLinkLeadsOn ==
    ASSUME Hop = Nat, NEW t, IsTree(t), NEW q \in Path, NoLink(t, q)
    PROVE  Canonicalize(t, q) \in {q, Nowhere}
<1> DEFINE Goal(n, u) == \A r : Walk(t, u)[n] = Final(r) => r \in {q, Nowhere}
           On(u) == u \in WalkState /\ (u = Final(Nowhere) \/ (u.reached \in Path /\ u.reached \o u.todo = q))
           All(n) == \A u : On(u) => Goal(n, u)
           T == {n \in Nat : All(n)}
<1>1. All(0)
  <2> SUFFICES ASSUME NEW u, On(u), NEW r, Walk(t, u)[0] = Final(r) PROVE r \in {q, Nowhere}
    OBVIOUS
  <2>1. u = Final(r)
    BY WalkIs
  <2>2. CASE u = Final(Nowhere)
    BY <2>1, <2>2 DEF Final
  <2>3. CASE u.reached \in Path /\ u.reached \o u.todo = q
    <3>1. u.reached = r /\ u.todo = <<>>
      BY <2>1 DEF Final
    <3>2. u.reached \o <<>> = u.reached
      BY <2>3, JoinNothing
    <3>3. QED
      BY <2>3, <3>1, <3>2
  <2>4. QED
    BY <2>2, <2>3
<1>2. ASSUME NEW u, On(u) PROVE On(WalkStep(t, u))
  <2>0. u \in WalkState /\ (u = Final(Nowhere) \/ (u.reached \in Path /\ u.reached \o u.todo = q))
    BY <1>2
  <2>1. WalkStep(t, u) \in WalkState
    <3>1. u \in WalkState
      BY <2>0
    <3> HIDE DEF On
    <3>2. QED
      BY <3>1, StepType
  <2>2. CASE ~Going(u)
    <3>1. u.todo = <<>> \/ u.reached = Nowhere
      BY <2>0, <2>2 DEF Going
    <3>2. u \in WalkState
      BY <2>0
    <3> HIDE DEF On
    <3>3. WalkStep(t, u) = u
      BY <3>1, <3>2, StepHalts
    <3>4. QED
      BY <1>2, <3>3
  <2>3. CASE Going(u)
    <3> DEFINE next == WalkStep(t, u)
               at == At(u)
               rest == Tail(u.todo)
    <3>1. u # Final(Nowhere) /\ u.todo \in Path
      BY <2>0, <2>3 DEF Final, Going, WalkState
    <3>2. at \in Path /\ rest \in Path /\ at \o rest = q
      <4>1. u.reached \in Path /\ u.reached \o u.todo = q /\ u.todo # <<>>
        BY <2>0, <2>3, <3>1 DEF Going
      <4>2. QED
        BY <3>1, <4>1, MoveOne DEF At
    <3>3. at \in DOMAIN t => t[at].kind \in {"dir", "file"}
      <4>1. at # <<>>
        BY <2>3, AtType
      <4>2. QED
        BY <3>2, <4>1 DEF NoLink, IsTree
    <3>4. next = Final(Nowhere) \/ next = [reached |-> at, todo |-> rest]
      BY <2>3, <3>3, StepIs DEF Final
    <3> HIDE DEF at, rest
    <3>5. next = Final(Nowhere) \/ (next.reached = at /\ next.todo = rest)
      BY <3>4
    <3> HIDE DEF next
    <3>6. next = Final(Nowhere) \/ (next.reached \in Path /\ next.reached \o next.todo = q)
      BY <3>2, <3>5
    <3>7. QED
      BY <2>1, <3>6 DEF next
  <2>4. QED
    BY <2>2, <2>3
<1> HIDE DEF On
<1>3. ASSUME NEW n \in Nat, All(n) PROVE All(n + 1)
  <2> SUFFICES ASSUME NEW u, On(u), NEW r, Walk(t, u)[n + 1] = Final(r) PROVE r \in {q, Nowhere}
    OBVIOUS
  <2>1. Walks(t, u)
    BY DEF On, Walks
  <2>2. Walk(t, WalkStep(t, u))[n] = Final(r)
    BY <2>1, Shift
  <2>3. QED
    BY <1>2, <1>3, <2>2
<1> HIDE DEF All
<1>4. T = Nat
  <2>1. 0 \in T /\ \A n \in T : n + 1 \in T
    BY <1>1, <1>3
  <2>2. T \in SUBSET Nat
    OBVIOUS
  <2> HIDE DEF T
  <2>3. QED
    BY <2>1, <2>2, Induction
<1>5. On(Start(q))
  BY StartType, JoinNothing DEF On
<1>6. ASSUME NEW r, Ends(t, Start(q), r) PROVE r \in {q, Nowhere}
  <2>1. PICK n \in Nat : Walk(t, Start(q))[n] = Final(r)
    BY <1>6 DEF Ends
  <2>2. All(n)
    BY <1>4
  <2>3. QED
    BY <1>5, <2>1, <2>2 DEF All
<1>7. QED
  BY <1>6, CanonIs

\* Where a path leads is an entry that is no link, or the top.
LEMMA LeadsToReal ==
    ASSUME Hop = Nat, NEW t, IsTree(t), NEW p \in Path, Canonicalize(t, p) # Nowhere
    PROVE  Real(t, Canonicalize(t, p))
<1> DEFINE Fine(u) == u.reached = Nowhere \/ (Real(t, u.reached) /\ (u.todo # <<>> => IsDir(t, u.reached)))
           walk == Walk(t, Start(p))
           T == {n \in Nat : Fine(walk[n])}
<1>1. /\ walk \in [Nat -> WalkState] /\ walk[0] = Start(p)
      /\ \A h \in Nat : walk[h + 1] = WalkStep(t, walk[h])
  BY StartType, WalkIs
<1>2. ASSUME NEW u \in WalkState, Fine(u) PROVE Fine(WalkStep(t, u))
  <2>1. CASE ~Going(u)
    BY <1>2, <2>1, StepHalts DEF Going
  <2>2. CASE Going(u)
    <3> DEFINE next == WalkStep(t, u)
               at == At(u)
               rest == Tail(u.todo)
               on == t[at].to \o rest
    <3>1. at \in DOMAIN t => t[at].kind \in {"dir", "file", "link"}
      BY DEF IsTree
    <3>a. \/ next = Final(Nowhere)
          \/ next = [reached |-> <<>>, todo |-> on]
          \/ next = [reached |-> at, todo |-> <<>>] /\ at \in DOMAIN t /\ t[at].kind = "file"
          \/ next = [reached |-> at, todo |-> rest] /\ at \in DOMAIN t /\ t[at].kind = "dir"
      BY <2>2, <3>1, StepIs DEF Final
    <3> HIDE DEF next, at, rest, on
    <3>2. \/ next.reached = Nowhere
          \/ next.reached = <<>>
          \/ next.reached = at /\ at \in DOMAIN t /\ t[at].kind = "file" /\ next.todo = <<>>
          \/ next.reached = at /\ at \in DOMAIN t /\ t[at].kind = "dir"
      BY <3>a DEF Final
    <3>3. Fine(next)
      BY <3>2 DEF Real, IsDir
    <3>4. QED
      BY <3>3 DEF next
  <2>3. QED
    BY <2>1, <2>2
<1>3. Fine(walk[0])
  BY <1>1, StartType DEF Real, IsDir
<1> HIDE DEF Fine, walk
<1>4. T = Nat
  <2>1. 0 \in T /\ \A n \in T : n + 1 \in T
    BY <1>1, <1>2, <1>3
  <2>2. T \in SUBSET Nat
    OBVIOUS
  <2> HIDE DEF T
  <2>3. QED
    BY <2>1, <2>2, Induction
<1>5. PICK n \in Nat : walk[n] = Final(Canonicalize(t, p))
  BY CanonIs DEF Ends, walk
<1>6. Fine(walk[n]) /\ walk[n].reached = Canonicalize(t, p)
  BY <1>4, <1>5 DEF Final
<1>7. QED
  BY <1>6 DEF Fine

-----------------------------------------------------------------------------
(* A walk goes on with what comes behind                                   *)

\* The same walk with more to do.
With(u, s) == [reached |-> u.reached, todo |-> u.todo \o s]

LEMMA WithType ==
    ASSUME NEW u \in WalkState, NEW s \in Path
    PROVE  /\ With(u, s) \in WalkState /\ With(u, s).reached = u.reached
           /\ With(u, s).todo = u.todo \o s
<1>1. u.reached \in Path \cup {Nowhere} /\ u.todo \o s \in Path
  BY JoinType DEF WalkState
<1>2. QED
  BY <1>1 DEF With, WalkState

\* One step of both, unless the shorter one ends at a file or nowhere.
LEMMA WithStep ==
    ASSUME NEW t, IsTree(t), NEW u, Going(u), NEW s \in Path
    PROVE  \/ WalkStep(t, u) = Final(Nowhere)
           \/ \E q \in DOMAIN t : q # <<>> /\ t[q].kind = "file" /\ WalkStep(t, u) = Final(q)
           \/ WalkStep(t, With(u, s)) = With(WalkStep(t, u), s)
<1> DEFINE w == With(u, s)
           at == At(u)
           rest == Tail(u.todo)
           next == WalkStep(t, u)
           far == t[at].to
<1>1. u \in WalkState /\ u.todo \in Path /\ u.todo # <<>> /\ u.reached # Nowhere /\ at \in Path /\ rest \in Path
      /\ at # <<>>
  BY AtType DEF Going, WalkState
<1>2. w \in WalkState /\ w.reached = u.reached /\ w.todo = u.todo \o s
  BY <1>1, WithType
<1>3. w.todo # <<>> /\ Head(w.todo) = Head(u.todo) /\ Tail(w.todo) = rest \o s
  BY <1>1, <1>2, JoinHead, ZenonT(60)
<1>4. Going(w) /\ At(w) = at
  BY <1>1, <1>2, <1>3 DEF Going, At
<1> HIDE DEF w
<1>5. CASE at \notin DOMAIN t
  BY <1>5, StepIs DEF Final
<1>6. CASE at \in DOMAIN t /\ t[at].kind = "file"
  <2>1. rest = <<>> => next = [reached |-> at, todo |-> <<>>]
    BY <1>6, StepIs
  <2>2. rest # <<>> => next = [reached |-> Nowhere, todo |-> <<>>]
    BY <1>6, StepIs
  <2>3. QED
    BY <1>1, <1>6, <2>1, <2>2 DEF Final
<1>7. CASE at \in DOMAIN t /\ t[at].kind = "link"
  <2>1. next = [reached |-> <<>>, todo |-> far \o rest]
    BY <1>7, StepIs
  <2>2. WalkStep(t, w) = [reached |-> <<>>, todo |-> far \o (rest \o s)]
    BY <1>3, <1>4, <1>7, StepIs
  <2>3. far \in Path
    BY <1>7 DEF IsTree, Path
  <2> HIDE DEF far, rest, next
  <2>4. (far \o rest) \o s = far \o (rest \o s)
    BY <1>1, <2>3, JoinThree
  <2>5. With(next, s) = [reached |-> <<>>, todo |-> (far \o rest) \o s]
    BY <2>1 DEF With
  <2>6. QED
    BY <2>2, <2>4, <2>5 DEF w, next
<1>8. CASE at \in DOMAIN t /\ t[at].kind = "dir"
  <2>1. next = [reached |-> at, todo |-> rest]
    BY <1>8, StepIs
  <2>2. WalkStep(t, w) = [reached |-> at, todo |-> rest \o s]
    BY <1>3, <1>4, <1>8, StepIs
  <2> HIDE DEF rest, next
  <2>3. With(next, s) = [reached |-> at, todo |-> rest \o s]
    BY <2>1 DEF With
  <2>4. QED
    BY <2>2, <2>3 DEF w, next
<1>9. QED
  BY <1>5, <1>6, <1>7, <1>8 DEF IsTree

\* What lies below where a path leads lies below the path.
LEMMA LeadsOn ==
    ASSUME Hop = Nat, NEW t, IsTree(t), NEW p \in Path, NEW s \in Path, NEW c \in Path,
           Ends(t, Start(p), c), IsDir(t, c), NEW r, Ends(t, [reached |-> c, todo |-> s], r)
    PROVE  Ends(t, Start(p \o s), r)
<1> DEFINE Goal(n, u) == Walk(t, u)[n] = Final(c) => Ends(t, With(u, s), r)
           All(n) == \A u \in WalkState : Goal(n, u)
           T == {n \in Nat : All(n)}
<1>0. c # Nowhere
  BY PathAssumption DEF Path
<1>1. All(0)
  <2> SUFFICES ASSUME NEW u \in WalkState, Walk(t, u)[0] = Final(c) PROVE Ends(t, With(u, s), r)
    OBVIOUS
  <2>1. u = Final(c)
    BY WalkIs
  <2>2. u.reached = c /\ u.todo = <<>>
    BY <2>1 DEF Final
  <2>3. With(u, s) = [reached |-> c, todo |-> s]
    BY <2>2, JoinNothing DEF With
  <2>4. QED
    BY <2>3
<1>2. ASSUME NEW n \in Nat, All(n) PROVE All(n + 1)
  <2> SUFFICES ASSUME NEW u \in WalkState, Walk(t, u)[n + 1] = Final(c) PROVE Ends(t, With(u, s), r)
    OBVIOUS
  <2> DEFINE v == WalkStep(t, u)
  <2>1. Walks(t, u) /\ v \in WalkState /\ Walks(t, v)
    BY StepType DEF Walks
  <2>2. Walk(t, v)[n] = Final(c)
    BY <2>1, Shift
  <2>3. Ends(t, With(v, s), r)
    <3> HIDE DEF v
    <3>1. QED
      BY <1>2, <2>1, <2>2
  <2>4. CASE ~Going(u)
    BY <2>3, <2>4, StepHalts DEF Going
  <2>5. CASE Going(u)
    <3>1. Ends(t, v, c)
      BY <2>2 DEF Ends
    <3>2. ASSUME NEW q, v = Final(q) PROVE q = c
      <4>1. Ends(t, v, q)
        BY <2>1, <3>2, EndsHere
      <4> HIDE DEF v
      <4>2. QED
        BY <2>1, <3>1, <4>1, EndsOnce
    <3>3. v # Final(Nowhere)
      BY <1>0, <3>2
    <3>4. ASSUME NEW q \in DOMAIN t, q # <<>>, t[q].kind = "file", v = Final(q) PROVE FALSE
      <4>1. q = c
        BY <3>2, <3>4
      <4>2. QED
        BY <3>4, <4>1 DEF IsDir
    <3>5. WalkStep(t, With(u, s)) = With(v, s)
      BY <2>5, <3>3, <3>4, WithStep
    <3>6. Walks(t, With(u, s))
      BY WithType DEF Walks
    <3>7. QED
      BY <2>3, <3>5, <3>6, EndStep
  <2>6. QED
    BY <2>4, <2>5
<1> HIDE DEF All
<1>3. T = Nat
  <2>1. 0 \in T /\ \A n \in T : n + 1 \in T
    BY <1>1, <1>2
  <2>2. T \in SUBSET Nat
    OBVIOUS
  <2> HIDE DEF T
  <2>3. QED
    BY <2>1, <2>2, Induction
<1>4. PICK n \in Nat : Walk(t, Start(p))[n] = Final(c)
  BY DEF Ends
<1>5. All(n)
  BY <1>3
<1>6. Ends(t, With(Start(p), s), r)
  BY <1>4, <1>5, StartType DEF All
<1>7. With(Start(p), s) = Start(p \o s)
  BY StartType DEF With, Start
<1>8. QED
  BY <1>6, <1>7

\* Below a file there is nothing.
LEMMA NothingInFile ==
    ASSUME Hop = Nat, NEW t, IsTree(t), NEW c \in Path, NEW s \in Path, s # <<>>,
           c # <<>>, c \in DOMAIN t, t[c].kind = "file"
    PROVE  Canonicalize(t, c \o s) = Nowhere
<1> DEFINE d == SubSeq(c, 1, Len(c) - 1)
           e == SubSeq(c, (Len(c) - 1) + 1, Len(c))
           es == e \o s
           u == [reached |-> d, todo |-> es]
<1>1. d \in Path /\ e \in Path /\ Len(e) = 1 /\ d \o e = c
  <2>1. Len(c) - 1 \in 0..Len(c) /\ Len(c) - (Len(c) - 1) = 1
    BY DEF Path
  <2>2. QED
    BY <2>1, PathCut
<1> HIDE DEF d, e
<1>2. e # <<>>
  BY <1>1
<1>3. Append(d, Head(e)) = c /\ Tail(e) = <<>>
  <2> DEFINE at == Append(d, Head(e))
             rest == Tail(e)
  <2>1. at \in Path /\ rest \in Path /\ Len(rest) = Len(e) - 1 /\ at \o rest = d \o e
    BY <1>1, <1>2, MoveOne
  <2> HIDE DEF at, rest
  <2>2. rest = <<>>
    BY <1>1, <2>1 DEF Path
  <2>3. at \o rest = at
    BY <2>1, <2>2, JoinNothing
  <2>4. QED
    BY <1>1, <2>1, <2>2, <2>3 DEF at, rest
<1>4. IsDir(t, d)
  BY <1>1, <1>2, AboveIsDir
<1>5. es \in Path /\ es # <<>> /\ Head(es) = Head(e) /\ Tail(es) = s
  <2>1. Tail(es) = Tail(e) \o s /\ es # <<>> /\ Head(es) = Head(e) /\ es \in Path
    BY <1>1, <1>2, JoinHead, JoinType
  <2>2. <<>> \o s = s
    BY JoinNothing
  <2> HIDE DEF es
  <2>3. QED
    BY <1>3, <2>1, <2>2
<1> HIDE DEF es
<1>6. u \in WalkState /\ Going(u) /\ At(u) = c /\ Tail(u.todo) = s
  <2>1. d # Nowhere
    BY <1>1, PathAssumption DEF Path
  <2>2. u \in WalkState
    BY <1>1, <1>5 DEF WalkState
  <2>3. QED
    BY <1>3, <1>5, <2>1, <2>2 DEF Going, At
<1>7. WalkStep(t, u) = Final(Nowhere)
  BY <1>6, StepIs DEF Final
<1>8. c \o s = d \o es
  <2>1. (d \o e) \o s = d \o (e \o s)
    BY <1>1, JoinThree
  <2>2. QED
    BY <1>1, <2>1 DEF es
<1>9. ASSUME NEW r, Ends(t, Start(c \o s), r) PROVE r = Nowhere
  <2>1. Ends(t, u, r)
    <3>1. Real(t, d)
      BY <1>4 DEF Real, IsDir
    <3>2. Ends(t, Start(d \o es), r)
      BY <1>8, <1>9
    <3>3. QED
      BY <1>1, <1>4, <1>5, <3>1, <3>2, Straight
  <2>2. Walks(t, u)
    BY <1>6 DEF Walks
  <2> HIDE DEF u
  <2>3. Ends(t, Final(Nowhere), r)
    BY <1>7, <2>1, <2>2, EndStep
  <2>4. Walks(t, Final(Nowhere))
    BY <1>7, <2>2, StepType DEF Walks
  <2>5. QED
    BY <2>3, <2>4, EndsHere, EndsOnce
<1>10. c \o s \in Path
  BY JoinType
<1>11. QED
  BY <1>9, <1>10, CanonIs

\* Behind what a path leads to there is no more than behind the path.
LEMMA NothingBehind ==
    ASSUME Hop = Nat, NEW t, IsTree(t), NEW p \in Path, NEW s \in Path, s # <<>>,
           Canonicalize(t, p) # Nowhere, Canonicalize(t, p \o s) = Nowhere
    PROVE  Canonicalize(t, Canonicalize(t, p) \o s) = Nowhere
<1> DEFINE c == Canonicalize(t, p)
<1>1. c \in Path /\ Ends(t, Start(p), c) /\ Real(t, c)
  BY CanonIs, LeadsToReal
<1> HIDE DEF c
<1>2. c \o s \in Path /\ p \o s \in Path
  BY <1>1, JoinType
<1>3. CASE IsDir(t, c)
  <2> DEFINE r == Canonicalize(t, c \o s)
  <2> SUFFICES ASSUME r # Nowhere PROVE FALSE
    BY DEF c
  <2>1. Ends(t, Start(c \o s), r)
    BY <1>2, CanonIs
  <2> HIDE DEF r
  <2>2. Ends(t, [reached |-> c, todo |-> s], r)
    BY <1>1, <1>3, <2>1, Straight
  <2>3. Ends(t, Start(p \o s), r)
    BY <1>1, <1>3, <2>2, LeadsOn
  <2>4. QED
    BY <1>2, <2>3, CanonIs
<1>4. CASE ~IsDir(t, c)
  <2>1. c # <<>> /\ c \in DOMAIN t /\ t[c].kind = "file"
    BY <1>1, <1>4 DEF Real, IsDir, IsTree
  <2>2. QED
    BY <1>1, <2>1, NothingInFile DEF c
<1>5. QED
  BY <1>3, <1>4

-----------------------------------------------------------------------------
(* Walks after a write                                                     *)

\* A tree with some entries more, or in the place of files and links.
Adds(t, u, new) ==
    /\ DOMAIN u = DOMAIN t \cup new /\ new \subseteq Path
    /\ \A p \in new : p # <<>> /\ ~IsDir(t, p) /\ u[p].kind \in {"file", "dir"}
    /\ \A p \in DOMAIN t \ new : u[p] = t[p]

\* A walk that has come to what is new stays there.
LEMMA StaysInNew ==
    ASSUME Hop = Nat, NEW t, NEW u, IsTree(t), IsTree(u), NEW new, Adds(t, u, new),
           NEW w \in WalkState, w.reached \in new \cup {Nowhere}, NEW r, Ends(u, w, r)
    PROVE  r \in new \cup {Nowhere}
<1> DEFINE walk == Walk(u, w)
           T == {n \in Nat : walk[n].reached \in new \cup {Nowhere}}
<1>1. /\ walk \in [Nat -> WalkState] /\ walk[0] = w
      /\ \A h \in Nat : walk[h + 1] = WalkStep(u, walk[h])
  BY WalkIs
<1>2. ASSUME NEW v \in WalkState, v.reached \in new \cup {Nowhere}
      PROVE  WalkStep(u, v).reached \in new \cup {Nowhere}
  <2>1. CASE ~Going(v)
    BY <1>2, <2>1, StepHalts DEF Going
  <2>2. CASE Going(v)
    <3> DEFINE next == WalkStep(u, v)
               at == At(v)
               rest == Tail(v.todo)
    <3>1. v.reached \in new /\ v.reached \in Path /\ at \in Path
      BY <1>2, <2>2, AtType DEF Going
    <3>2. ~IsDir(t, v.reached)
      BY <3>1 DEF Adds
    <3>3. at \notin DOMAIN t
      <4>1. <<Head(v.todo)>> \in Path /\ <<Head(v.todo)>> # <<>>
        BY <2>2, AtType DEF Path
      <4>2. at = v.reached \o <<Head(v.todo)>>
        BY <2>2, <3>1, AtType, AppendIsConcat DEF At, Path
      <4>3. QED
        BY <3>1, <3>2, <4>1, <4>2, AboveIsDir
    <3>4. at \in DOMAIN u => at \in new /\ u[at].kind \in {"file", "dir"}
      BY <3>3 DEF Adds
    <3>5. next = Final(Nowhere) \/ (at \in new /\ next = [reached |-> at, todo |-> rest])
          \/ (at \in new /\ next = [reached |-> at, todo |-> <<>>])
      BY <2>2, <3>4, StepIs DEF Final
    <3> HIDE DEF next, at, rest
    <3>6. next.reached \in new \cup {Nowhere}
      BY <3>5 DEF Final
    <3>7. QED
      BY <3>6 DEF next
  <2>3. QED
    BY <2>1, <2>2
<1>3. walk[0].reached \in new \cup {Nowhere}
  BY <1>1
<1> HIDE DEF walk
<1>4. T = Nat
  <2>1. 0 \in T /\ \A n \in T : n + 1 \in T
    BY <1>1, <1>2, <1>3
  <2>2. T \in SUBSET Nat
    OBVIOUS
  <2> HIDE DEF T
  <2>3. QED
    BY <2>1, <2>2, Induction
<1>5. PICK n \in Nat : walk[n] = Final(r)
  BY DEF Ends, walk
<1>6. walk[n].reached \in new \cup {Nowhere}
  BY <1>4
<1>7. QED
  BY <1>5, <1>6 DEF Final

\* Any other walk ends where it did.
LEMMA EndsAsBefore ==
    ASSUME Hop = Nat, NEW t, NEW u, IsTree(t), IsTree(u), NEW new, Adds(t, u, new),
           NEW w \in WalkState, NEW r, Ends(u, w, r)
    PROVE  Ends(t, w, r) \/ r \in new \cup {Nowhere}
<1> DEFINE Goal(n, v) == Walk(u, v)[n] = Final(r) => Ends(t, v, r) \/ r \in new \cup {Nowhere}
           All(n) == \A v \in WalkState : Goal(n, v)
           T == {n \in Nat : All(n)}
<1>1. All(0)
  <2> SUFFICES ASSUME NEW v \in WalkState, Walk(u, v)[0] = Final(r) PROVE Ends(t, v, r)
    OBVIOUS
  <2>1. v = Final(r)
    BY WalkIs
  <2>2. QED
    BY <2>1, EndsHere DEF Walks
<1>2. ASSUME NEW n \in Nat, All(n) PROVE All(n + 1)
  <2> SUFFICES ASSUME NEW v \in WalkState, Walk(u, v)[n + 1] = Final(r)
               PROVE  Ends(t, v, r) \/ r \in new \cup {Nowhere}
    OBVIOUS
  <2> DEFINE next == WalkStep(u, v)
  <2>1. Walks(u, v) /\ Walks(t, v) /\ next \in WalkState
    BY StepType DEF Walks
  <2>2. Walk(u, next)[n] = Final(r)
    BY <2>1, Shift
  <2>3. Ends(t, next, r) \/ r \in new \cup {Nowhere}
    <3> HIDE DEF next
    <3>1. QED
      BY <1>2, <2>1, <2>2
  <2>4. CASE ~Going(v)
    BY <2>3, <2>4, StepHalts DEF Going
  <2>5. CASE Going(v) /\ At(v) \in new
    <3>1. At(v) \in DOMAIN u /\ u[At(v)].kind \in {"file", "dir"}
      BY <2>5 DEF Adds
    <3> DEFINE at == At(v)
               rest == Tail(v.todo)
    <3>2. \/ next = Final(Nowhere)
          \/ next = [reached |-> at, todo |-> rest]
          \/ next = [reached |-> at, todo |-> <<>>]
      BY <2>5, <3>1, StepIs DEF Final
    <3>3. Ends(u, next, r)
      BY <2>2 DEF Ends
    <3>4. at \in new
      BY <2>5
    <3> HIDE DEF next, at, rest
    <3>5. next.reached \in new \cup {Nowhere}
      BY <3>2, <3>4 DEF Final
    <3>6. QED
      BY <2>1, <3>3, <3>5, StaysInNew
  <2>6. CASE Going(v) /\ At(v) \notin new
    <3>1. /\ At(v) \in DOMAIN u <=> At(v) \in DOMAIN t
          /\ At(v) \in DOMAIN t => u[At(v)] = t[At(v)]
      BY <2>6 DEF Adds
    <3>2. WalkStep(t, v) = next
      BY <2>6, <3>1 DEF WalkStep, At
    <3> HIDE DEF next
    <3>3. QED
      BY <2>1, <2>3, <3>2, EndStep
  <2>7. QED
    BY <2>4, <2>5, <2>6
<1> HIDE DEF All
<1>3. T = Nat
  <2>1. 0 \in T /\ \A n \in T : n + 1 \in T
    BY <1>1, <1>2
  <2>2. T \in SUBSET Nat
    OBVIOUS
  <2> HIDE DEF T
  <2>3. QED
    BY <2>1, <2>2, Induction
<1>4. PICK n \in Nat : Walk(u, w)[n] = Final(r)
  BY DEF Ends
<1>5. All(n)
  BY <1>3
<1>6. QED
  BY <1>4, <1>5 DEF All

\* So a path leads where it did, or nowhere, or to what is new.
LEMMA LeadsAsBefore ==
    ASSUME Hop = Nat, NEW t, NEW u, IsTree(t), IsTree(u), NEW new, Adds(t, u, new), NEW p \in Path
    PROVE  Canonicalize(u, p) \in {Canonicalize(t, p), Nowhere} \cup new
<1> SUFFICES ASSUME Canonicalize(u, p) # Nowhere
             PROVE  Canonicalize(u, p) \in {Canonicalize(t, p)} \cup new
  OBVIOUS
<1> DEFINE r == Canonicalize(u, p)
<1>1. Ends(u, Start(p), r) /\ r # Nowhere
  BY CanonIs
<1> HIDE DEF r
<1>2. Ends(t, Start(p), r) \/ r \in new
  BY <1>1, StartType, EndsAsBefore
<1>3. Ends(t, Start(p), r) => Canonicalize(t, p) = r
  BY <1>1, CanonIs
<1>4. QED
  BY <1>2, <1>3 DEF r

-----------------------------------------------------------------------------
(* What a write adds                                                       *)

Above(dir) == {SubSeq(dir, 1, k) : k \in 0..Len(dir)}
Missing(t, dir) == {p \in Above(dir) : Canonicalize(t, p) = Nowhere}
Blocked(t, dir) ==
    \E p \in Above(dir) : IF p \in Missing(t, dir) THEN p \in DOMAIN t ELSE ~IsDir(t, p)
Written(t, dir, entry) ==
    [p \in DOMAIN t \cup Missing(t, dir) \cup {entry} |->
        CASE p = entry -> [kind |-> "file", to |-> <<>>]
          [] p \in Missing(t, dir) -> [kind |-> "dir", to |-> <<>>]
          [] OTHER -> t[p]]

LEMMA AboveIs ==
    ASSUME NEW dir \in Path, NEW p \in Above(dir)
    PROVE  p \in Path /\ Len(p) <= Len(dir) /\ Len(p) \in Nat /\ p = SubSeq(dir, 1, Len(p))
<1>1. PICK k \in 0..Len(dir) : p = SubSeq(dir, 1, k)
  BY DEF Above
<1>2. SubSeq(dir, 1, k) \in Path /\ Len(SubSeq(dir, 1, k)) = k
  BY PathCut
<1>3. QED
  BY <1>1, <1>2 DEF Path

\* A prefix of a prefix, and one of a path with a name more.
LEMMA ShorterPrefix ==
    ASSUME NEW p \in Path, NEW j \in 0..Len(p), NEW k \in 0..j
    PROVE  SubSeq(SubSeq(p, 1, j), 1, k) = SubSeq(p, 1, k)
<1>1. Len(p) \in Nat /\ j \in Nat /\ k \in Nat /\ j <= Len(p) /\ k <= j
  BY DEF Path
<1> DEFINE a == SubSeq(p, 1, j)
           b == SubSeq(a, 1, k)
           c == SubSeq(p, 1, k)
<1>2. a \in Path /\ Len(a) = j /\ \A i \in 1..j : a[i] = p[i]
  BY <1>1 DEF Path
<1>3. c \in Path /\ Len(c) = k /\ \A i \in 1..k : c[i] = p[i]
  BY <1>1 DEF Path
<1> HIDE DEF a, c
<1>4. b \in Path /\ Len(b) = k /\ \A i \in 1..k : b[i] = a[i]
  BY <1>1, <1>2 DEF Path
<1> HIDE DEF b
<1>5. \A i \in 1..k : b[i] = c[i]
  BY <1>1, <1>2, <1>3, <1>4
<1>6. b \in Seq(Name) /\ c \in Seq(Name) /\ Len(b) = Len(c) /\ \A i \in 1..Len(b) : b[i] = c[i]
  BY <1>3, <1>4, <1>5 DEF Path
<1>7. b = c
  BY <1>6, SeqEqual
<1>8. QED
  BY <1>7 DEF a, b, c

LEMMA OneNameMore ==
    ASSUME NEW p \in Path, NEW n \in Name
    PROVE  /\ Append(p, n) \in Path /\ Append(p, n) # <<>> /\ Len(Append(p, n)) = Len(p) + 1
           /\ Len(p) \in Nat
           /\ \A k \in 0..Len(p) : SubSeq(Append(p, n), 1, k) = SubSeq(p, 1, k)
<1> DEFINE a == Append(p, n)
<1>1. a \in Path /\ Len(a) = Len(p) + 1 /\ a # <<>> /\ Len(p) \in Nat
      /\ \A i \in 1..Len(p) : a[i] = p[i]
  BY DEF Path
<1>2. SubSeq(a, 1, Len(p)) = p
  <2> DEFINE b == SubSeq(a, 1, Len(p))
  <2>1. b \in Path /\ Len(b) = Len(p) /\ \A i \in 1..Len(p) : b[i] = a[i]
    <3> HIDE DEF a
    <3>1. QED
      BY <1>1 DEF Path
  <2> HIDE DEF b, a
  <2>2. b \in Seq(Name) /\ p \in Seq(Name) /\ Len(b) = Len(p) /\ \A i \in 1..Len(b) : b[i] = p[i]
    BY <1>1, <2>1 DEF Path
  <2>3. b = p
    BY <2>2, SeqEqual
  <2>4. QED
    BY <2>3 DEF b
<1> HIDE DEF a
<1>3. ASSUME NEW k \in 0..Len(p) PROVE SubSeq(a, 1, k) = SubSeq(p, 1, k)
  <2>1. Len(p) \in 0..Len(a)
    BY <1>1
  <2>2. SubSeq(SubSeq(a, 1, Len(p)), 1, k) = SubSeq(a, 1, k)
    BY <1>1, <2>1, ShorterPrefix
  <2>3. QED
    BY <1>2, <2>2
<1>4. QED
  BY <1>1, <1>3 DEF a

LEMMA WriteAdds ==
    ASSUME NEW t, IsTree(t), NEW dir \in Path, NEW n \in Name,
           ~Blocked(t, dir), ~IsDir(t, Append(dir, n))
    PROVE  /\ IsTree(Written(t, dir, Append(dir, n)))
           /\ Adds(t, Written(t, dir, Append(dir, n)), Missing(t, dir) \cup {Append(dir, n)})
<1> DEFINE entry == Append(dir, n)
           missing == Missing(t, dir)
           new == missing \cup {entry}
           u == Written(t, dir, entry)
<1>1. /\ entry \in Path /\ entry # <<>> /\ Len(entry) = Len(dir) + 1 /\ Len(dir) \in Nat
      /\ \A k \in 0..Len(dir) : SubSeq(entry, 1, k) = SubSeq(dir, 1, k)
  BY OneNameMore
<1>2. ~IsDir(t, entry)
  OBVIOUS
<1> HIDE DEF entry
<1>3. \A p \in Above(dir) : p \in Path /\ Len(p) \in Nat /\ Len(p) <= Len(dir) /\ p # entry
  BY <1>1, AboveIs
<1>4. \A p \in missing : p \in Above(dir) /\ p \notin DOMAIN t /\ p # <<>>
  <2>1. <<>> \in Path /\ <<>> # Nowhere
    <3>1. <<>> \in Seq(Name)
      OBVIOUS
    <3>2. Nowhere \notin Seq(Name)
      BY PathAssumption
    <3>3. QED
      BY <3>1, <3>2 DEF Path
  <2>2. Canonicalize(t, <<>>) = <<>>
    BY CanonType
  <2>3. QED
    BY <2>1, <2>2 DEF Missing, Blocked
<1>5. \A p \in Above(dir) \ missing : IsDir(t, p)
  BY DEF Blocked
<1>6. DOMAIN u = DOMAIN t \cup new
  BY DEF Written
<1>7. /\ u[entry] = [kind |-> "file", to |-> <<>>]
      /\ \A p \in missing : u[p] = [kind |-> "dir", to |-> <<>>]
      /\ \A p \in DOMAIN t \ new : u[p] = t[p]
  <2>1. entry \notin missing
    BY <1>3, <1>4
  <2> HIDE DEF missing
  <2>2. u = [p \in DOMAIN t \cup missing \cup {entry} |->
                CASE p = entry -> [kind |-> "file", to |-> <<>>]
                  [] p \in missing -> [kind |-> "dir", to |-> <<>>]
                  [] OTHER -> t[p]]
    BY DEF Written, missing
  <2> HIDE DEF u
  <2>3. QED
    BY <2>1, <2>2
<1> HIDE DEF u
<1>8. Adds(t, u, new)
  <2>1. new \subseteq Path
    BY <1>1, <1>3, <1>4
  <2>2. ASSUME NEW p \in new PROVE p # <<>> /\ ~IsDir(t, p) /\ u[p].kind \in {"file", "dir"}
    <3>1. CASE p = entry
      BY <1>1, <1>2, <1>7, <3>1
    <3>2. CASE p \in missing
      <4>1. u[p].kind = "dir"
        BY <1>7, <3>2
      <4>2. QED
        BY <1>4, <3>2, <4>1 DEF IsDir
    <3>3. QED
      BY <3>1, <3>2
  <2> HIDE DEF new
  <2>3. QED
    BY <1>6, <1>7, <2>1, <2>2 DEF Adds
<1>9. ASSUME NEW q \in Above(dir), q # <<>> PROVE q \in DOMAIN u /\ u[q].kind = "dir"
  <2>1. CASE q \in missing
    <3>1. u[q].kind = "dir"
      BY <1>7, <2>1
    <3>2. QED
      BY <1>6, <2>1, <3>1
  <2>2. CASE q \notin missing
    <3>1. q \in DOMAIN t /\ t[q].kind = "dir"
      BY <1>5, <1>9, <2>2 DEF IsDir
    <3>2. q \in DOMAIN t \ new
      BY <1>3, <2>2, <3>1
    <3>3. QED
      BY <1>6, <1>7, <3>1, <3>2
  <2>3. QED
    BY <2>1, <2>2
<1>10. ASSUME NEW p \in DOMAIN u
       PROVE  /\ p \in Path /\ u[p].kind \in {"dir", "file", "link"} /\ u[p].to \in Seq(Name)
              /\ \A k \in 1..(Len(p) - 1) :
                    SubSeq(p, 1, k) \in DOMAIN u /\ u[SubSeq(p, 1, k)].kind = "dir"
  <2>0. <<>> \in Seq(Name)
    OBVIOUS
  <2>1. CASE p = entry
    <3>1. u[p].kind = "file" /\ u[p].to = <<>>
      BY <1>7, <2>1
    <3>2. ASSUME NEW k \in 1..(Len(p) - 1)
          PROVE  SubSeq(p, 1, k) \in DOMAIN u /\ u[SubSeq(p, 1, k)].kind = "dir"
      <4>1. k \in 0..Len(dir) /\ k # 0
        BY <1>1, <2>1
      <4>2. SubSeq(p, 1, k) = SubSeq(dir, 1, k)
        BY <1>1, <2>1, <4>1
      <4>3. SubSeq(dir, 1, k) \in Above(dir) /\ SubSeq(dir, 1, k) # <<>>
        BY <4>1, PathCut DEF Above
      <4>4. QED
        BY <1>9, <4>2, <4>3
    <3>3. QED
      BY <1>1, <2>0, <2>1, <3>1, <3>2
  <2>2. CASE p \in missing
    <3>1. u[p].kind = "dir" /\ u[p].to = <<>>
      BY <1>7, <2>2
    <3>2. p \in Path /\ Len(p) \in Nat /\ Len(p) <= Len(dir) /\ p = SubSeq(dir, 1, Len(p))
      BY <1>4, <2>2, AboveIs
    <3>3. ASSUME NEW k \in 1..(Len(p) - 1)
          PROVE  SubSeq(p, 1, k) \in DOMAIN u /\ u[SubSeq(p, 1, k)].kind = "dir"
      <4>1. k \in 0..Len(dir) /\ k # 0 /\ k \in 0..Len(p) /\ Len(p) \in 0..Len(dir)
        BY <1>1, <3>2
      <4>2. SubSeq(p, 1, k) = SubSeq(dir, 1, k)
        BY <3>2, <4>1, ShorterPrefix
      <4>3. SubSeq(dir, 1, k) \in Above(dir) /\ SubSeq(dir, 1, k) # <<>>
        BY <4>1, PathCut DEF Above
      <4>4. QED
        BY <1>9, <4>2, <4>3
    <3>4. QED
      BY <2>0, <3>1, <3>2, <3>3
  <2>3. CASE p \in DOMAIN t \ new
    <3>1. u[p] = t[p] /\ p \in DOMAIN t
      BY <1>7, <2>3
    <3>2. p \in Path /\ t[p].kind \in {"dir", "file", "link"} /\ t[p].to \in Seq(Name)
      BY <3>1 DEF IsTree, Path
    <3>3. ASSUME NEW k \in 1..(Len(p) - 1)
          PROVE  SubSeq(p, 1, k) \in DOMAIN u /\ u[SubSeq(p, 1, k)].kind = "dir"
      <4> DEFINE q == SubSeq(p, 1, k)
      <4>1. q \in DOMAIN t /\ t[q].kind = "dir"
        BY <3>1 DEF IsTree
      <4> HIDE DEF q
      <4>2. q \notin missing /\ q # entry
        BY <1>2, <1>4, <4>1 DEF IsDir
      <4>3. q \in DOMAIN t \ new
        BY <4>1, <4>2
      <4>4. q \in DOMAIN u /\ u[q].kind = "dir"
        BY <1>6, <1>7, <4>1, <4>3
      <4>5. QED
        BY <4>4 DEF q
    <3>4. QED
      BY <3>1, <3>2, <3>3
  <2>4. QED
    BY <1>6, <2>1, <2>2, <2>3
<1>11. IsTree(u)
  BY <1>10 DEF IsTree, Path
<1>12. QED
  BY <1>8, <1>11 DEF u, entry

-----------------------------------------------------------------------------
(* resolve_in_workspace                                                    *)

NormalStep(done, name) ==
    CASE name = Here -> done
      [] name = Up /\ done # <<>> -> Front(done)
      [] OTHER -> Append(done, name)

LEMMA NormalStepIs ==
    ASSUME NEW done \in Path, NEW name \in Name
    PROVE  /\ NormalStep(done, name) \in Path
           /\ name = Here => NormalStep(done, name) = done
           /\ name \notin {Here, Up} => NormalStep(done, name) = Append(done, name)
<1>1. Up # Here
  BY PathAssumption
<1>2. Append(done, name) \in Path
  BY DEF Path
<1>3. done # <<>> => Front(done) \in Path
  BY DEF Front, Path
<1>4. CASE name = Here
  BY <1>1, <1>4 DEF NormalStep
<1>5. CASE name = Up /\ done # <<>>
  <2>1. NormalStep(done, name) = Front(done)
    BY <1>1, <1>5 DEF NormalStep
  <2>2. QED
    BY <1>1, <1>3, <1>5, <2>1
<1>6. CASE name # Here /\ ~(name = Up /\ done # <<>>)
  <2>1. NormalStep(done, name) = Append(done, name)
    BY <1>6 DEF NormalStep
  <2>2. QED
    BY <1>2, <1>6, <2>1
<1>7. QED
  BY <1>4, <1>5, <1>6

\* f gives what the first names of a path are normalized to.
Normals(p, f) == f[0] = <<>> /\ \A k \in 1..Len(p) : f[k] = NormalStep(f[k - 1], p[k])

LEMMA NormalizeIs ==
    ASSUME NEW p \in Path
    PROVE  \E f \in [0..Len(p) -> Path] : Normals(p, f) /\ LexicalNormalize(p) = f[Len(p)]
<1> DEFINE n == Len(p)
           F == [x \in Path \X (1..n) |-> NormalStep(x[1], p[x[2]])]
           Fix(g) == g = [s \in SUBSET (1..n) |->
                            IF s = {} THEN <<>> ELSE NormalStep(g[s \ {Max(s)}], p[Max(s)])]
           iter == CHOOSE g : Fix(g)
<1>1. n \in Nat /\ DOMAIN p = 1..n /\ p \in [1..n -> Name] /\ <<>> \in Path
  BY DEF Path
<1>2. LexicalNormalize(p) = iter[1..n]
  BY <1>1 DEF LexicalNormalize, FoldLeft, MapThenFoldSet, NormalStep
<1> HIDE DEF n
<1>3. /\ F \in [Path \X (1..n) -> Path]
      /\ \A done \in Path, i \in 1..n : F[<<done, i>>] = NormalStep(done, p[i])
  <2>1. \A x \in Path \X (1..n) : x[1] \in Path /\ p[x[2]] \in Name
    BY <1>1
  <2>2. F \in [Path \X (1..n) -> Path]
    BY <2>1, NormalStepIs
  <2>3. QED
    BY <2>2
<1> HIDE DEF F
<1>4. PICK g \in [SUBSET (1..n) -> Path] : Folds(n, <<>>, F, g)
  BY <1>1, <1>3, FoldExists
<1>5. ASSUME NEW s \in SUBSET (1..n)
      PROVE  g[s] = IF s = {} THEN <<>> ELSE NormalStep(g[s \ {Max(s)}], p[Max(s)])
  <2> SUFFICES ASSUME s # {} PROVE g[s] = NormalStep(g[s \ {Max(s)}], p[Max(s)])
    BY <1>4 DEF Folds
  <2>1. s \in SUBSET (0..n)
    OBVIOUS
  <2>2. Max(s) \in 1..n
    BY <1>1, <2>1, GreatestNumber
  <2>3. s \ {Max(s)} \in SUBSET (1..n)
    OBVIOUS
  <2>4. g[s] = F[<<g[s \ {Max(s)}], Max(s)>>] /\ g[s \ {Max(s)}] \in Path
    BY <1>4, <2>3 DEF Folds
  <2>5. QED
    BY <1>3, <2>2, <2>4
<1>6. Fix(iter)
  <2>1. g = [s \in SUBSET (1..n) |-> IF s = {} THEN <<>> ELSE NormalStep(g[s \ {Max(s)}], p[Max(s)])]
    BY <1>5
  <2>2. \E h : Fix(h)
    BY <2>1
  <2> HIDE DEF Fix
  <2>3. QED
    BY <2>2, Zenon
<1> HIDE DEF iter
<1>7. iter[{}] = <<>>
  BY <1>6
<1>8. ASSUME NEW k \in 1..n PROVE iter[1..k] = NormalStep(iter[1..(k - 1)], p[k])
  <2> DEFINE s == 1..k
  <2>1. s \in SUBSET (1..n) /\ s # {} /\ Max(s) = k /\ s \ {Max(s)} = 1..(k - 1)
    BY <1>1, IntervalStep
  <2> HIDE DEF s
  <2>2. iter[s] = NormalStep(iter[s \ {Max(s)}], p[Max(s)])
    BY <1>6, <2>1
  <2>3. QED
    BY <2>1, <2>2, Zenon DEF s
<1> DEFINE T == {k \in 0..n : iter[1..k] \in Path}
<1>9. 0..n \subseteq T
  <2>1. 0 \in T
    BY <1>1, <1>7
  <2>2. ASSUME NEW k \in 1..n, k - 1 \in T PROVE k \in T
    BY <1>1, <1>8, <2>2, NormalStepIs
  <2> HIDE DEF T
  <2>3. QED
    BY <1>1, <2>1, <2>2, Climb
<1> DEFINE f == [k \in 0..n |-> iter[1..k]]
<1>10. f \in [0..n -> Path]
  BY <1>9
<1>11. f[0] = <<>> /\ f[n] = iter[1..n] /\ \A k \in 1..n : f[k] = NormalStep(f[k - 1], p[k])
  <2>1. 1..0 = {} /\ 0 \in 0..n /\ n \in 0..n
    BY <1>1
  <2>2. \A k \in 1..n : k \in 0..n /\ k - 1 \in 0..n
    BY <1>1
  <2>3. QED
    BY <1>7, <1>8, <2>1, <2>2
<1> HIDE DEF f
<1>12. QED
  BY <1>2, <1>10, <1>11 DEF Normals, n

\* Prefixes of two joined: of the first one, or all of it and one of the second.
LEMMA PrefixOfFirst ==
    ASSUME NEW a \in Path, NEW b \in Path, NEW k \in 0..Len(a)
    PROVE  SubSeq(a \o b, 1, k) = SubSeq(a, 1, k)
<1> DEFINE ab == a \o b
<1>1. ab \in Path /\ Len(a) \in 0..Len(ab) /\ SubSeq(ab, 1, Len(a)) = a
  BY JoinType, PrefixOfJoin
<1> HIDE DEF ab
<1>2. SubSeq(SubSeq(ab, 1, Len(a)), 1, k) = SubSeq(ab, 1, k)
  BY <1>1, ShorterPrefix
<1>3. QED
  BY <1>1, <1>2 DEF ab

LEMMA PrefixOfSecond ==
    ASSUME NEW a \in Path, NEW b \in Path, NEW m \in 0..Len(b)
    PROVE  SubSeq(a \o b, 1, Len(a) + m) = a \o SubSeq(b, 1, m)
<1> DEFINE b1 == SubSeq(b, 1, m)
           b2 == SubSeq(b, m + 1, Len(b))
           ab1 == a \o b1
<1>1. b1 \in Path /\ b2 \in Path /\ Len(b1) = m /\ b1 \o b2 = b
  BY PathCut
<1> HIDE DEF b1, b2
<1>2. ab1 \in Path /\ Len(ab1) = Len(a) + m /\ ab1 \o b2 = a \o b
  <2>1. ab1 \in Path /\ Len(ab1) = Len(a) + m
    BY <1>1, JoinType
  <2>2. (a \o b1) \o b2 = a \o (b1 \o b2)
    BY <1>1, JoinThree
  <2>3. QED
    BY <1>1, <2>1, <2>2
<1> HIDE DEF ab1
<1>3. SubSeq(ab1 \o b2, 1, Len(ab1)) = ab1
  BY <1>1, <1>2, PrefixOfJoin
<1>4. QED
  BY <1>2, <1>3 DEF ab1, b1

LEMMA WholePrefix ==
    ASSUME NEW p \in Path
    PROVE  SubSeq(p, 1, Len(p)) = p /\ Len(p) \in Nat
<1>1. SubSeq(p \o <<>>, 1, Len(p)) = p /\ p \o <<>> = p
  BY JoinNothing, PrefixOfJoin
<1>2. QED
  BY <1>1 DEF Path

LEMMA PrefixIs ==
    ASSUME NEW p \in Path, NEW q \in Path
    PROVE  IsPrefix(p, q) <=> Len(p) <= Len(q) /\ SubSeq(q, 1, Len(p)) = p
BY WholePrefix DEF IsPrefix

\* Where the names of p are found, up to the last that leads anywhere.
Deepest(t, p, k) ==
    /\ Canonicalize(t, SubSeq(p, 1, k)) \in Path
    /\ Redirected(t, p) = Canonicalize(t, SubSeq(p, 1, k)) \o SubSeq(p, k + 1, Len(p))
    /\ \A j \in (k + 1)..Len(p) : Canonicalize(t, SubSeq(p, 1, j)) = Nowhere

LEMMA RedirectedIs ==
    ASSUME NEW t, IsTree(t), NEW p \in Path
    PROVE  (\E k \in 0..Len(p) : Deepest(t, p, k)) /\ Redirected(t, p) \in Path
<1> DEFINE existing == {k \in 0..Len(p) : Canonicalize(t, SubSeq(p, 1, k)) # Nowhere}
           k == Max(existing)
<1>1. Len(p) \in Nat /\ <<>> \in Path /\ <<>> # Nowhere /\ SubSeq(p, 1, 0) = <<>>
  <2>1. Len(p) \in Nat /\ <<>> \in Path
    BY DEF Path
  <2>2. Nowhere \notin Path
    BY PathAssumption DEF Path
  <2>3. SubSeq(p, 1, 0) \in Path /\ Len(SubSeq(p, 1, 0)) = 0
    <3>1. \A i \in 0..Len(p) : SubSeq(p, 1, i) \in Path /\ Len(SubSeq(p, 1, i)) = i
      BY PathCut
    <3>2. 0 \in 0..Len(p)
      BY <2>1
    <3> HIDE DEF Path
    <3>3. QED
      BY <3>1, <3>2
  <2>4. \A q \in Path : Len(q) = 0 => q = <<>>
    BY DEF Path
  <2>5. QED
    BY <2>1, <2>2, <2>3, <2>4
<1>2. Canonicalize(t, <<>>) = <<>>
  BY CanonType
<1>3. 0 \in existing /\ existing \in SUBSET (0..Len(p))
  <2> DEFINE top == SubSeq(p, 1, 0)
  <2>1. Canonicalize(t, top) # Nowhere
    BY <1>1, <1>2
  <2>2. 0 \in 0..Len(p)
    BY <1>1
  <2>3. QED
    BY <2>1, <2>2
<1>4. Redirected(t, p) = Canonicalize(t, SubSeq(p, 1, k)) \o SubSeq(p, k + 1, Len(p))
  BY DEF Redirected
<1> HIDE DEF k
<1>5. k \in existing /\ \A j \in existing : j <= k
  <2> HIDE DEF existing
  <2>1. QED
    BY <1>1, <1>3, GreatestNumber DEF k
<1>6. k \in 0..Len(p) /\ \A j \in (k + 1)..Len(p) : Canonicalize(t, SubSeq(p, 1, j)) = Nowhere
  <2>1. k \in 0..Len(p)
    BY <1>5
  <2>2. ASSUME NEW j \in (k + 1)..Len(p) PROVE Canonicalize(t, SubSeq(p, 1, j)) = Nowhere
    <3>1. j \in 0..Len(p) /\ ~(j <= k)
      BY <1>1, <2>1
    <3>2. j \notin existing
      BY <1>5, <3>1
    <3>3. QED
      BY <3>1, <3>2
  <2>3. QED
    BY <2>1, <2>2
<1>7. Canonicalize(t, SubSeq(p, 1, k)) \in Path
  <2>1. SubSeq(p, 1, k) \in Path
    BY <1>6, PathCut
  <2>2. Canonicalize(t, SubSeq(p, 1, k)) # Nowhere
    BY <1>5
  <2>3. QED
    BY <2>1, <2>2, CanonType
<1>8. Deepest(t, p, k)
  BY <1>4, <1>6, <1>7 DEF Deepest
<1>9. SubSeq(p, k + 1, Len(p)) \in Path
  BY <1>6, PathCut
<1>10. QED
  BY <1>4, <1>6, <1>7, <1>8, <1>9, JoinType

\* A path that leads to an entry is redirected to it.
LEMMA RedirectedWhole ==
    ASSUME Hop = Nat, NEW t, IsTree(t), NEW p \in Path, Canonicalize(t, p) # Nowhere
    PROVE  Redirected(t, p) = Canonicalize(t, p)
<1>1. PICK k \in 0..Len(p) : Deepest(t, p, k)
  BY RedirectedIs
<1>2. SubSeq(p, 1, Len(p)) = p /\ Len(p) \in Nat
  BY WholePrefix
<1>3. k = Len(p)
  <2> DEFINE n == Len(p)
  <2>1. n \in Nat /\ k \in 0..n
    BY <1>2
  <2>2. \A j \in (k + 1)..n : Canonicalize(t, SubSeq(p, 1, j)) = Nowhere
    BY <1>1 DEF Deepest
  <2>3. Canonicalize(t, SubSeq(p, 1, n)) # Nowhere
    BY <1>2
  <2> HIDE DEF n
  <2>4. n \notin (k + 1)..n
    BY <2>2, <2>3
  <2>5. k = n
    BY <2>1, <2>4
  <2>6. QED
    BY <2>5 DEF n
<1> DEFINE c == Canonicalize(t, p)
           rest == SubSeq(p, Len(p) + 1, Len(p))
<1>4. c \in Path /\ Redirected(t, p) = c \o rest
  BY <1>1, <1>2, <1>3 DEF Deepest
<1>5. rest = <<>>
  BY <1>2 DEF Path
<1> HIDE DEF c, rest
<1>6. c \o <<>> = c
  BY <1>4, JoinNothing
<1>7. QED
  BY <1>4, <1>5, <1>6 DEF c

\* Each prefix of what a path is redirected to leads to itself or nowhere.
LEMMA RedirectedStays ==
    ASSUME Hop = Nat, NEW t, IsTree(t), NEW p \in Path, NEW j \in 0..Len(Redirected(t, p))
    PROVE  Canonicalize(t, SubSeq(Redirected(t, p), 1, j)) \in {SubSeq(Redirected(t, p), 1, j), Nowhere}
<1>1. PICK k \in 0..Len(p) : Deepest(t, p, k)
  BY RedirectedIs
<1> DEFINE a == SubSeq(p, 1, k)
           b == SubSeq(p, k + 1, Len(p))
           c == Canonicalize(t, a)
           q == SubSeq(Redirected(t, p), 1, j)
<1>2. a \in Path /\ b \in Path /\ Len(a) = k /\ Len(b) = Len(p) - k /\ a \o b = p
      /\ Len(p) \in Nat /\ k \in Nat
  BY PathCut, WholePrefix
<1>3. c \in Path /\ Redirected(t, p) = c \o b
  BY <1>1 DEF Deepest
<1>4. c # Nowhere
  BY <1>3, PathAssumption DEF Path
<1>5. Real(t, c)
  BY <1>2, <1>4, LeadsToReal
<1>6. \A m \in 1..Len(b) : Canonicalize(t, SubSeq(p, 1, k + m)) = Nowhere
  BY <1>1, <1>2 DEF Deepest
<1> HIDE DEF a, b, c
<1>7. Len(c) \in Nat /\ Len(b) \in Nat /\ Len(c \o b) = Len(c) + Len(b)
  BY <1>2, <1>3, JoinType
<1>8. CASE j <= Len(c)
  <2>1. j \in 0..Len(c)
    BY <1>3, <1>7, <1>8
  <2>2. q = SubSeq(c, 1, j)
    BY <1>2, <1>3, <2>1, PrefixOfFirst
  <2> DEFINE rest == SubSeq(c, j + 1, Len(c))
  <2>3. q \in Path /\ rest \in Path /\ q \o rest = c
    BY <1>3, <2>1, <2>2, PathCut
  <2> HIDE DEF q, rest
  <2>4. Real(t, q)
    <3>1. CASE rest = <<>>
      <4>1. q \o <<>> = q
        BY <2>3, JoinNothing
      <4>2. QED
        BY <1>5, <2>3, <3>1, <4>1
    <3>2. CASE rest # <<>> /\ c \in DOMAIN t
      <4>1. IsDir(t, q)
        BY <1>3, <2>3, <3>2, AboveIsDir
      <4>2. QED
        BY <4>1 DEF IsDir, Real
    <3>3. CASE rest # <<>> /\ c = <<>>
      <4>1. Len(rest) # 0 /\ Len(q \o rest) = Len(q) + Len(rest) /\ Len(q) \in Nat /\ Len(rest) \in Nat
        BY <2>3, <3>3, JoinType DEF Path
      <4>2. QED
        BY <2>3, <3>3, <4>1
    <3>4. QED
      BY <1>5, <3>1, <3>2, <3>3 DEF Real
  <2>5. Canonicalize(t, q) = q
    BY <2>3, <2>4, RealIsCanonical
  <2>6. QED
    BY <2>5 DEF q
<1>9. CASE j > Len(c)
  <2> DEFINE m == j - Len(c)
             s == SubSeq(b, 1, m)
  <2>1. m \in 1..Len(b) /\ m \in 0..Len(b) /\ j = Len(c) + m
    BY <1>3, <1>7, <1>9
  <2> HIDE DEF m
  <2>2. s \in Path /\ Len(s) = m
    BY <1>2, <2>1, PathCut
  <2>3. q = c \o s
    <3>1. SubSeq(c \o b, 1, Len(c) + m) = c \o SubSeq(b, 1, m)
      BY <1>2, <1>3, <2>1, PrefixOfSecond
    <3>2. QED
      BY <1>3, <2>1, <3>1
  <2>4. SubSeq(a \o b, 1, Len(a) + m) = a \o s
    BY <1>2, <2>1, PrefixOfSecond
  <2> HIDE DEF s, q
  <2>5. Canonicalize(t, a \o s) = Nowhere
    BY <1>2, <1>6, <2>1, <2>4
  <2>6. s # <<>>
    BY <2>1, <2>2
  <2>7. Canonicalize(t, c \o s) = Nowhere
    BY <1>2, <1>4, <2>2, <2>5, <2>6, NothingBehind DEF c
  <2>8. QED
    BY <2>3, <2>7 DEF q
<1>10. QED
  BY <1>3, <1>7, <1>8, <1>9

-----------------------------------------------------------------------------
(* The workspace                                                           *)

Workspace(t) == IsTree(t) /\ Root \in DOMAIN t /\ t[Root].kind = "dir"
Within == {q \in Path : IsPrefix(Root, q)}

LEMMA WithinIs ==
    /\ Root \in Path /\ Len(Root) \in Nat /\ Nowhere \notin Within
    /\ \A q \in Path : q \in Within <=> Len(Root) <= Len(q) /\ SubSeq(q, 1, Len(Root)) = Root
<1>1. Root \in Path /\ Nowhere \notin Path
  BY PathAssumption DEF Path
<1>2. Len(Root) \in Nat
  BY <1>1, WholePrefix
<1>3. QED
  BY <1>1, <1>2, PrefixIs DEF Within

\* What begins with a path within is within.
LEMMA WithinJoin ==
    ASSUME NEW a \in Within, NEW b \in Path
    PROVE  a \o b \in Within
<1> DEFINE n == Len(Root)
           ab == a \o b
<1>1. a \in Path /\ n \in Nat /\ n <= Len(a) /\ SubSeq(a, 1, n) = Root
  BY WithinIs DEF Within
<1>2. ab \in Path /\ Len(ab) = Len(a) + Len(b) /\ Len(a) \in Nat /\ Len(b) \in Nat
  BY <1>1, JoinType
<1>3. n \in 0..Len(a)
  BY <1>1, <1>2
<1> HIDE DEF n
<1>4. SubSeq(ab, 1, n) = SubSeq(a, 1, n)
  BY <1>1, <1>3, PrefixOfFirst
<1> HIDE DEF ab
<1>5. n <= Len(ab) /\ SubSeq(ab, 1, n) = Root
  BY <1>1, <1>2, <1>4
<1>6. ab \in Within
  BY <1>2, <1>5, WithinIs DEF n
<1>7. QED
  BY <1>6 DEF ab

\* A prefix at least as long as the workspace's path is within, too.
LEMMA WithinPrefix ==
    ASSUME NEW q \in Within, NEW j \in Len(Root)..Len(q)
    PROVE  SubSeq(q, 1, j) \in Within
<1> DEFINE n == Len(Root)
           a == SubSeq(q, 1, j)
<1>1. q \in Path /\ n \in Nat /\ SubSeq(q, 1, n) = Root /\ Len(q) \in Nat
  BY WithinIs, WholePrefix DEF Within
<1>2. j \in 0..Len(q) /\ n \in 0..j
  BY <1>1
<1>3. a \in Path /\ Len(a) = j
  BY <1>1, <1>2, PathCut
<1>4. SubSeq(SubSeq(q, 1, j), 1, n) = SubSeq(q, 1, n)
  BY <1>1, <1>2, ShorterPrefix
<1> HIDE DEF n
<1>5. SubSeq(a, 1, n) = Root
  BY <1>1, <1>4
<1> HIDE DEF a
<1>6. a \in Within
  <2>1. n <= Len(a)
    BY <1>2, <1>3
  <2>2. QED
    BY <1>3, <1>5, <2>1, WithinIs DEF n
<1>7. QED
  BY <1>6 DEF a

\* The workspace and what lies above it lead to themselves.
LEMMA RootLeads ==
    ASSUME Hop = Nat, NEW t, Workspace(t), NEW k \in 0..Len(Root)
    PROVE  /\ Canonicalize(t, SubSeq(Root, 1, k)) = SubSeq(Root, 1, k)
           /\ SubSeq(Root, 1, k) \in Path /\ SubSeq(Root, 1, k) # Nowhere
<1> DEFINE a == SubSeq(Root, 1, k)
           b == SubSeq(Root, k + 1, Len(Root))
<1>1. Root \in Path /\ Nowhere \notin Path
  BY PathAssumption DEF Path
<1>2. a \in Path /\ b \in Path /\ a \o b = Root
  BY <1>1, PathCut
<1> HIDE DEF a, b
<1>3. Real(t, a)
  <2>1. CASE b = <<>>
    <3>1. a = Root
      BY <1>2, <2>1, JoinNothing
    <3>2. QED
      BY <3>1 DEF Workspace, Real
  <2>2. CASE b # <<>>
    <3>1. IsDir(t, a)
      BY <1>2, <2>2, AboveIsDir DEF Workspace
    <3>2. QED
      BY <3>1 DEF IsDir, Real
  <2>3. QED
    BY <2>1, <2>2
<1>4. Canonicalize(t, a) = a
  BY <1>2, <1>3, RealIsCanonical DEF Workspace
<1>5. a # Nowhere
  BY <1>1, <1>2
<1>6. QED
  BY <1>2, <1>4, <1>5 DEF a

\* A target of which no prefix leads out of the workspace.
Safe(t, goal) ==
    /\ goal \in Within
    /\ \A j \in Len(Root)..Len(goal) :
          Canonicalize(t, SubSeq(goal, 1, j)) \in Within \cup {Nowhere}

\* What resolve_in_workspace returns is safe.
LEMMA ResolvedIsSafe ==
    ASSUME Hop = Nat, NEW t, Workspace(t), NEW p \in Path, IsPrefix(Root, Redirected(t, p))
    PROVE  Safe(t, Redirected(t, p))
<1> DEFINE goal == Redirected(t, p)
<1>1. goal \in Path /\ goal \in Within
  BY RedirectedIs DEF Within, Workspace
<1>2. \A j \in 0..Len(goal) : Canonicalize(t, SubSeq(goal, 1, j)) \in {SubSeq(goal, 1, j), Nowhere}
  BY RedirectedStays DEF Workspace
<1> HIDE DEF goal
<1>3. ASSUME NEW j \in Len(Root)..Len(goal)
      PROVE  Canonicalize(t, SubSeq(goal, 1, j)) \in Within \cup {Nowhere}
  <2>1. j \in 0..Len(goal)
    BY <1>1, WithinIs, WholePrefix
  <2>2. SubSeq(goal, 1, j) \in Within
    BY <1>1, WithinPrefix
  <2>3. QED
    BY <1>2, <2>1, <2>2
<1>4. QED
  BY <1>1, <1>3 DEF Safe, goal

\* It stays so while other calls write into the workspace.
LEMMA StaysSafe ==
    ASSUME Hop = Nat, NEW t, NEW u, Workspace(t), Workspace(u), NEW new, Adds(t, u, new),
           new \subseteq Within, NEW goal, Safe(t, goal)
    PROVE  Safe(u, goal)
<1>1. goal \in Within /\ goal \in Path
  BY DEF Safe, Within
<1>2. ASSUME NEW j \in Len(Root)..Len(goal)
      PROVE  Canonicalize(u, SubSeq(goal, 1, j)) \in Within \cup {Nowhere}
  <2> DEFINE q == SubSeq(goal, 1, j)
  <2>1. q \in Path
    BY <1>1, WithinPrefix DEF Within
  <2>2. Canonicalize(t, q) \in Within \cup {Nowhere}
    BY DEF Safe
  <2> HIDE DEF q
  <2>3. Canonicalize(u, q) \in {Canonicalize(t, q), Nowhere} \cup new
    BY <2>1, LeadsAsBefore DEF Workspace
  <2>4. QED
    BY <2>2, <2>3 DEF q
<1>3. QED
  BY <1>1, <1>2 DEF Safe

LEMMA StaysWorkspace ==
    ASSUME NEW t, NEW u, Workspace(t), IsTree(u), NEW new, Adds(t, u, new)
    PROVE  Workspace(u)
<1>1. IsDir(t, Root) /\ Root \in DOMAIN t
  BY DEF Workspace, IsDir
<1>2. Root \notin new
  BY <1>1 DEF Adds
<1>3. Root \in DOMAIN u /\ u[Root] = t[Root]
  BY <1>1, <1>2 DEF Adds
<1>4. QED
  BY <1>3 DEF Workspace

\* The directories a write makes are within, if the last of them is.
LEMMA MissingIsWithin ==
    ASSUME Hop = Nat, NEW t, Workspace(t), NEW dir \in Within
    PROVE  Missing(t, dir) \subseteq Within
<1> SUFFICES ASSUME NEW p \in Missing(t, dir) PROVE p \in Within
  OBVIOUS
<1>1. p \in Above(dir) /\ Canonicalize(t, p) = Nowhere
  BY DEF Missing
<1>2. dir \in Path /\ Len(Root) \in Nat /\ Len(Root) <= Len(dir) /\ SubSeq(dir, 1, Len(Root)) = Root
  BY WithinIs DEF Within
<1>3. p \in Path /\ Len(p) <= Len(dir) /\ Len(p) \in Nat /\ p = SubSeq(dir, 1, Len(p))
  BY <1>1, <1>2, AboveIs
<1>4. Len(p) >= Len(Root)
  <2> SUFFICES ASSUME Len(p) < Len(Root) PROVE FALSE
    BY <1>2, <1>3
  <2> DEFINE k == Len(p)
             n == Len(Root)
  <2>1. k \in 0..n /\ n \in 0..Len(dir)
    BY <1>2, <1>3
  <2>2. SubSeq(SubSeq(dir, 1, n), 1, k) = SubSeq(dir, 1, k)
    BY <1>2, <2>1, ShorterPrefix
  <2>3. p = SubSeq(Root, 1, k)
    BY <1>2, <1>3, <2>2
  <2>4. Canonicalize(t, SubSeq(Root, 1, k)) # Nowhere
    BY <2>1, RootLeads
  <2> HIDE DEF k
  <2>5. QED
    BY <1>1, <2>3, <2>4
<1>5. Len(p) \in Len(Root)..Len(dir)
  BY <1>2, <1>3, <1>4
<1>6. SubSeq(dir, 1, Len(p)) \in Within
  BY <1>5, WithinPrefix
<1>7. QED
  BY <1>3, <1>6

-----------------------------------------------------------------------------
(* Where a call lands                                                      *)

LEMMA FrontAndLast ==
    ASSUME NEW goal \in Path, goal # <<>>
    PROVE  /\ Front(goal) \in Path /\ Last(goal) \in Name /\ Append(Front(goal), Last(goal)) = goal
           /\ Len(goal) \in Nat \ {0} /\ Len(Front(goal)) = Len(goal) - 1
           /\ \A j \in 0..(Len(goal) - 1) : SubSeq(Front(goal), 1, j) = SubSeq(goal, 1, j)
<1> DEFINE n == Len(goal)
           f == SubSeq(goal, 1, n - 1)
           x == goal[n]
           a == Append(f, x)
<1>1. n \in Nat \ {0} /\ x \in Name /\ n - 1 \in 0..n
  BY DEF Path
<1>2. Front(goal) = f /\ Last(goal) = x
  BY DEF Front, Last
<1>3. f \in Path /\ Len(f) = n - 1 /\ \A i \in 1..(n - 1) : f[i] = goal[i]
  <2> DEFINE m == n - 1
             g == SubSeq(goal, 1, m)
  <2>1. m \in Nat /\ m <= Len(goal)
    BY <1>1
  <2> HIDE DEF m
  <2>2. g \in Path /\ Len(g) = m /\ \A i \in 1..m : g[i] = goal[i]
    BY <2>1 DEF Path
  <2>3. QED
    BY <2>2 DEF m
<1>4. \A j \in 0..(n - 1) : SubSeq(f, 1, j) = SubSeq(goal, 1, j)
  BY <1>1, ShorterPrefix
<1> HIDE DEF f, x
<1>5. a \in Path /\ Len(a) = n /\ a[n] = x /\ \A i \in 1..(n - 1) : a[i] = f[i]
  BY <1>1, <1>3 DEF Path
<1> HIDE DEF a
<1>6. a = goal
  <2>1. \A i \in 1..n : a[i] = goal[i]
    BY <1>1, <1>3, <1>5 DEF x
  <2>2. a \in Seq(Name) /\ goal \in Seq(Name) /\ Len(a) = Len(goal)
    BY <1>5 DEF Path
  <2> HIDE DEF n
  <2>3. \A i \in 1..Len(a) : a[i] = goal[i]
    BY <1>5, <2>1
  <2>4. QED
    BY <2>2, <2>3, SeqEqual
<1>7. QED
  BY <1>1, <1>2, <1>3, <1>4, <1>6 DEF a

\* A write lands within the workspace.
LEMMA WriteLandsWithin ==
    ASSUME Hop = Nat, NEW t, Workspace(t), NEW goal, Safe(t, goal), goal # <<>>,
           ~IsDir(t, Append(Redirected(t, Front(goal)), Last(goal)))
    PROVE  /\ Redirected(t, Front(goal)) \in Within /\ Last(goal) \in Name
           /\ Append(Redirected(t, Front(goal)), Last(goal)) \in Within
<1> DEFINE f == Front(goal)
           x == Last(goal)
           dir == Redirected(t, f)
           n == Len(Root)
<1>0. n \in Nat /\ n <= Len(goal)
  BY WithinIs DEF Safe, Within
<1>1. goal \in Path /\ n \in Nat /\ n <= Len(goal) /\ SubSeq(goal, 1, n) = Root /\ Root \in Path
  BY WithinIs DEF Safe, Within
<1>2. /\ f \in Path /\ x \in Name /\ Append(f, x) = goal
      /\ Len(goal) \in Nat \ {0} /\ Len(f) = Len(goal) - 1
      /\ \A j \in 0..(Len(goal) - 1) : SubSeq(f, 1, j) = SubSeq(goal, 1, j)
  BY <1>1, FrontAndLast
<1>3. dir \in Path /\ \E k \in 0..Len(f) : Deepest(t, f, k)
  BY <1>2, RedirectedIs DEF Workspace
<1>4. ~IsDir(t, Append(dir, x))
  OBVIOUS
<1>5. Canonicalize(t, Root) = Root /\ Root # Nowhere /\ IsDir(t, Root)
  <2>1. n \in 0..n /\ SubSeq(Root, 1, n) = Root
    BY <1>1, WholePrefix
  <2>2. QED
    BY <2>1, RootLeads DEF Workspace, IsDir
<1> HIDE DEF f, x, dir
<1>6. n # Len(goal)
  <2> SUFFICES ASSUME n = Len(goal) PROVE FALSE
    OBVIOUS
  <2>1. goal = Root
    BY <1>1, WholePrefix
  <2>2. n - 1 \in 0..n /\ SubSeq(f, 1, n - 1) = SubSeq(Root, 1, n - 1) /\ Len(f) = n - 1
    BY <1>1, <1>2, <2>1
  <2>3. f = SubSeq(Root, 1, n - 1)
    BY <1>2, <2>2, WholePrefix
  <2>4. Canonicalize(t, f) = f /\ f # Nowhere
    BY <2>2, <2>3, RootLeads
  <2>5. dir = f
    BY <1>2, <2>4, RedirectedWhole DEF dir, Workspace
  <2>6. QED
    BY <1>2, <1>4, <1>5, <2>1, <2>5
<1>a. n \in Nat /\ Len(f) \in Nat /\ n <= Len(f) /\ n \in 0..(Len(goal) - 1)
  <2> DEFINE lf == Len(f)
             lg == Len(goal)
  <2>1. lg \in Nat \ {0} /\ lf = lg - 1 /\ n \in Nat /\ n <= lg /\ n # lg
    BY <1>0, <1>2, <1>6
  <2> HIDE DEF lf, lg, n
  <2>2. lf \in Nat /\ n <= lf /\ n \in 0..(lg - 1)
    BY <2>1
  <2>3. QED
    BY <2>1, <2>2 DEF lf, lg
<1>7. dir \in Within
  <2>1. PICK k \in 0..Len(f) : Deepest(t, f, k)
    BY <1>3
  <2> DEFINE c == Canonicalize(t, SubSeq(f, 1, k))
             rest == SubSeq(f, k + 1, Len(f))
  <2>2. c \in Path /\ dir = c \o rest /\ rest \in Path
    BY <1>2, <2>1, PathCut DEF Deepest, dir
  <2>3. k >= n
    <3> SUFFICES ASSUME k < n PROVE FALSE
      BY <1>1, <1>2
    <3>1. n \in (k + 1)..Len(f) /\ n \in 0..(Len(goal) - 1)
      <4>1. k \in Nat
        BY <1>a
      <4> HIDE DEF n, c, rest
      <4>2. QED
        BY <1>a, <4>1
    <3>2. SubSeq(f, 1, n) = Root
      BY <1>1, <1>2, <3>1
    <3> HIDE DEF n
    <3>3. Canonicalize(t, SubSeq(f, 1, n)) = Nowhere
      BY <2>1, <3>1 DEF Deepest
    <3>4. QED
      BY <1>5, <3>2, <3>3
  <2>4. k \in n..Len(goal) /\ k \in 0..(Len(goal) - 1)
    BY <1>1, <1>2, <2>3
  <2>5. SubSeq(f, 1, k) = SubSeq(goal, 1, k)
    BY <1>2, <2>4
  <2>6. c \in Within \cup {Nowhere}
    BY <2>4, <2>5 DEF Safe
  <2>7. c \in Within
    BY <2>2, <2>6, PathAssumption DEF Path
  <2> HIDE DEF c, rest
  <2>8. QED
    BY <2>2, <2>7, WithinJoin
<1>8. Append(dir, x) \in Within
  <2>1. <<x>> \in Path /\ Append(dir, x) = dir \o <<x>>
    BY <1>2, <1>3, AppendIsConcat DEF Path
  <2>2. QED
    BY <1>7, <2>1, WithinJoin
<1>9. QED
  BY <1>2, <1>7, <1>8 DEF dir, f, x

\* Without a link on it, a path leads to the entry it names.
LEMMA NoLinkRedirected ==
    ASSUME Hop = Nat, NEW t, IsTree(t), NEW f \in Path, NoLink(t, f)
    PROVE  Redirected(t, f) = f
<1>1. PICK k \in 0..Len(f) : Deepest(t, f, k)
  BY RedirectedIs
<1> DEFINE a == SubSeq(f, 1, k)
           b == SubSeq(f, k + 1, Len(f))
<1>2. a \in Path /\ b \in Path /\ a \o b = f
  BY PathCut
<1>3. Canonicalize(t, a) \in Path /\ Redirected(t, f) = Canonicalize(t, a) \o b
  BY <1>1 DEF Deepest
<1> HIDE DEF a, b
<1>j. \A u, v, w \in Path : Cat(Cat(u, v), w) = Cat(u, Cat(v, w))
  BY JoinThree DEF Cat
<1>4. NoLink(t, a)
  <2> SUFFICES ASSUME NEW c \in Path, NEW d \in Path, c # <<>>, c \o d = a, c \in DOMAIN t
               PROVE  t[c].kind # "link"
    BY DEF NoLink
  <2>1. d \o b \in Path /\ c \o (d \o b) = f
    <3>1. Cat(Cat(c, d), b) = Cat(c, Cat(d, b))
      BY <1>2, <1>j
    <3>2. c \o (d \o b) = a \o b
      BY <3>1 DEF Cat
    <3>3. QED
      BY <1>2, <3>2, JoinType
  <2> DEFINE e == d \o b
  <2>2. e \in Path /\ c \o e = f
    BY <2>1
  <2> HIDE DEF e
  <2>3. QED
    BY <2>2 DEF NoLink
<1>5. Canonicalize(t, a) \in {a, Nowhere} /\ Nowhere \notin Path
  BY <1>2, <1>4, NoLinkLeadsOn, PathAssumption DEF Path
<1>6. QED
  BY <1>2, <1>3, <1>5

-----------------------------------------------------------------------------
(* The invariant of calls, and what it gives                               *)

\* The tree is one, and the calls hold paths: so much for walks of any length.
PathTyped ==
    /\ IsTree(tree) /\ PathTypeOK /\ request \in [PathCall -> Request]
    /\ target \in [PathCall -> Path \cup {Nowhere}]
    /\ landed \in [PathCall -> Path \cup {Nowhere}]

PathInv ==
    /\ PathTyped /\ Workspace(tree)
    /\ \A c \in PathCall : pathPc[c] = "resolved" => Safe(tree, target[c])

LEMMA PathStarts == PathInit => PathInv
<1> SUFFICES ASSUME PathInit PROVE PathInv
  OBVIOUS
<1>1. Workspace(tree)
  BY PathAssumption DEF PathInit, Workspace
<1>2. QED
  BY <1>1 DEF PathInit, PathInv, PathTyped, PathTypeOK, Workspace

\* Where a write puts its file, and what it makes of the tree.
Dir(c) == Redirected(tree, Front(target[c]))
Entry(c) == Append(Dir(c), Last(target[c]))

LEMMA WriteCases ==
    ASSUME NEW c \in PathCall, WriteTarget(c)
    PROVE  /\ pathPc[c] = "resolved" /\ UNCHANGED <<request, writes, target>>
           /\ \/ Fail(c)
              \/ /\ target[c] # <<>> /\ ~Blocked(tree, Dir(c)) /\ ~IsDir(tree, Entry(c))
                 /\ tree' = Written(tree, Dir(c), Entry(c)) /\ Land(c, Entry(c))
<1>1. CASE target[c] = <<>>
  BY <1>1 DEF WriteTarget
<1>2. CASE target[c] # <<>>
  BY <1>2 DEF WriteTarget, Dir, Entry, Blocked, Missing, Above, Written
<1>3. QED
  BY <1>1, <1>2

\* What a call resolves its path to is a path.
LEMMA ResolveCases ==
    ASSUME PathTyped, NEW c \in PathCall, Resolve(c)
    PROVE  \E real \in Path :
              /\ real = Redirected(tree, LexicalNormalize(Joined(request[c])))
              /\ LexicalNormalize(Joined(request[c])) \in Path
              /\ pathPc[c] = "called" /\ UNCHANGED <<tree, request, writes, landed>>
              /\ \/ /\ IsPrefix(Root, real) /\ target' = [target EXCEPT ![c] = real]
                    /\ pathPc' = [pathPc EXCEPT ![c] = "resolved"]
                 \/ pathPc' = [pathPc EXCEPT ![c] = "refused"] /\ UNCHANGED target
<1> DEFINE path == LexicalNormalize(Joined(request[c]))
           real == Redirected(tree, path)
<1>1. path \in Path
  <2>1. request[c].names \in Path /\ Root \in Path
    BY PathAssumption DEF PathTyped, Path
  <2>2. Joined(request[c]) \in Path
    BY <2>1, JoinType DEF Joined
  <2>3. PICK f \in [0..Len(Joined(request[c])) -> Path] : path = f[Len(Joined(request[c]))]
    BY <2>2, NormalizeIs
  <2>4. Len(Joined(request[c])) \in 0..Len(Joined(request[c]))
    BY <2>2, WholePrefix
  <2>5. QED
    BY <2>3, <2>4
<1>2. real \in Path
  BY <1>1, RedirectedIs DEF PathTyped
<1>3. /\ pathPc[c] = "called" /\ UNCHANGED <<tree, request, writes, landed>>
      /\ \/ /\ IsPrefix(Root, real) /\ target' = [target EXCEPT ![c] = real]
            /\ pathPc' = [pathPc EXCEPT ![c] = "resolved"]
         \/ pathPc' = [pathPc EXCEPT ![c] = "refused"] /\ UNCHANGED target
  BY DEF Resolve, Inside
<1> HIDE DEF path
<1>4. QED
  BY <1>1, <1>2, <1>3 DEF path

\* A call that has its path ends on an entry or fails.
LEMMA UseCases ==
    ASSUME PathTyped, NEW c \in PathCall, ReadTarget(c) \/ WriteTarget(c)
    PROVE  /\ pathPc[c] = "resolved" /\ UNCHANGED <<request, writes, target>> /\ IsTree(tree')
           /\ Fail(c) \/ \E entry \in Path : Land(c, entry)
<1>1. CASE ReadTarget(c)
  <2> DEFINE found == Canonicalize(tree, target[c])
  <2>1. /\ pathPc[c] = "resolved" /\ UNCHANGED <<tree, request, writes, target>>
        /\ Fail(c) \/ (found # Nowhere /\ Land(c, found))
    BY <1>1 DEF ReadTarget, Fail
  <2>2. target[c] \in Path
    BY <2>1 DEF PathTyped, PathTypeOK
  <2>3. found \in Path \cup {Nowhere} /\ IsTree(tree')
    BY <2>1, <2>2, CanonType DEF PathTyped
  <2> HIDE DEF found
  <2>4. QED
    BY <2>1, <2>3
<1>2. CASE WriteTarget(c)
  <2>1. /\ pathPc[c] = "resolved" /\ UNCHANGED <<request, writes, target>>
        /\ \/ Fail(c)
           \/ /\ target[c] # <<>> /\ ~Blocked(tree, Dir(c)) /\ ~IsDir(tree, Entry(c))
              /\ tree' = Written(tree, Dir(c), Entry(c)) /\ Land(c, Entry(c))
    BY <1>2, WriteCases
  <2>2. CASE Fail(c)
    BY <2>1, <2>2 DEF Fail, PathTyped
  <2>3. CASE ~Fail(c)
    <3> DEFINE dir == Dir(c)
               name == Last(target[c])
    <3>1. target[c] \in Path /\ target[c] # <<>>
      BY <2>1, <2>3 DEF PathTyped, PathTypeOK
    <3>2. Front(target[c]) \in Path /\ name \in Name
      BY <3>1, FrontAndLast
    <3>3. dir \in Path
      BY <3>2, RedirectedIs DEF PathTyped, Dir
    <3>4. Entry(c) = Append(dir, name)
      BY DEF Entry
    <3>5. ~Blocked(tree, dir) /\ ~IsDir(tree, Append(dir, name)) /\ IsTree(tree)
          /\ tree' = Written(tree, dir, Append(dir, name)) /\ Land(c, Append(dir, name))
      BY <2>1, <2>3, <3>4 DEF PathTyped
    <3> HIDE DEF dir, name
    <3>6. IsTree(tree') /\ Append(dir, name) \in Path
      BY <3>2, <3>3, <3>5, WriteAdds, OneNameMore
    <3>7. QED
      BY <2>1, <3>5, <3>6
  <2>4. QED
    BY <2>2, <2>3
<1>3. QED
  BY <1>1, <1>2

\* No step leaves the types.
LEMMA PathTypedStep ==
    ASSUME PathTyped, [PathNext]_pathVars
    PROVE  PathTyped'
<1>1. Nowhere \notin Path
  BY PathAssumption DEF Path
<1>2. ASSUME NEW c \in PathCall, Resolve(c) PROVE PathTyped'
  <2>1. PICK real \in Path :
           /\ pathPc[c] = "called" /\ UNCHANGED <<tree, request, writes, landed>>
           /\ \/ /\ target' = [target EXCEPT ![c] = real]
                 /\ pathPc' = [pathPc EXCEPT ![c] = "resolved"]
              \/ pathPc' = [pathPc EXCEPT ![c] = "refused"] /\ UNCHANGED target
    BY <1>2, ResolveCases
  <2>2. PathTypeOK'
    BY <1>1, <2>1 DEF PathTyped, PathTypeOK
  <2>3. QED
    BY <2>1, <2>2 DEF PathTyped
<1>3. ASSUME NEW c \in PathCall, ReadTarget(c) \/ WriteTarget(c) PROVE PathTyped'
  <2>1. /\ pathPc[c] = "resolved" /\ UNCHANGED <<request, writes, target>> /\ IsTree(tree')
        /\ Fail(c) \/ \E entry \in Path : Land(c, entry)
    BY <1>3, UseCases
  <2>2. /\ landed' \in [PathCall -> Path \cup {Nowhere}]
        /\ \/ pathPc' = [pathPc EXCEPT ![c] = "failed"] /\ landed' = landed
           \/ pathPc' = [pathPc EXCEPT ![c] = "done"] /\ landed'[c] # Nowhere
              /\ \A d \in PathCall \ {c} : landed'[d] = landed[d]
    BY <1>1, <2>1 DEF Fail, Land, PathTyped
  <2>3. PathTypeOK'
    BY <2>1, <2>2 DEF PathTyped, PathTypeOK
  <2>4. QED
    BY <2>1, <2>2, <2>3 DEF PathTyped
<1>4. CASE PathNext
  BY <1>2, <1>3, <1>4 DEF PathNext, PathStep
<1>5. CASE UNCHANGED pathVars
  BY <1>5 DEF pathVars, PathTyped, PathTypeOK
<1>6. QED
  BY <1>4, <1>5

\* A write changes the workspace, and nothing else.
LEMMA WriteWithin ==
    ASSUME Hop = Nat, PathInv, NEW c \in PathCall, pathPc[c] = "resolved", target[c] # <<>>,
           ~Blocked(tree, Dir(c)), ~IsDir(tree, Entry(c)), tree' = Written(tree, Dir(c), Entry(c))
    PROVE  /\ Workspace(tree') /\ Entry(c) \in Within
           /\ \A goal : Safe(tree, goal) => Safe(tree', goal)
<1> DEFINE dir == Dir(c)
           entry == Entry(c)
           new == Missing(tree, dir) \cup {entry}
<1>1. Workspace(tree) /\ Safe(tree, target[c])
  BY DEF PathInv
<1>2. dir \in Within /\ entry \in Within /\ Last(target[c]) \in Name
  BY <1>1, WriteLandsWithin DEF Dir, Entry
<1>3. dir \in Path
  BY <1>2 DEF Within
<1>4. IsTree(tree') /\ Adds(tree, tree', new)
  <2>1. IsTree(tree) /\ entry = Append(dir, Last(target[c]))
    BY <1>1 DEF Workspace, Entry
  <2>2. ~Blocked(tree, dir) /\ ~IsDir(tree, entry) /\ tree' = Written(tree, dir, entry)
    OBVIOUS
  <2> HIDE DEF dir, entry
  <2>3. QED
    BY <1>2, <1>3, <2>1, <2>2, WriteAdds
<1>5. new \subseteq Within
  <2>1. Missing(tree, dir) \subseteq Within
    BY <1>1, <1>2, MissingIsWithin
  <2>2. QED
    BY <1>2, <2>1
<1> HIDE DEF new
<1>6. Workspace(tree')
  BY <1>1, <1>4, StaysWorkspace
<1>7. QED
  BY <1>1, <1>2, <1>4, <1>5, <1>6, StaysSafe

\* What the resolution of a path adds to the invariant.
LEMMA ResolveStep ==
    ASSUME Hop = Nat, PathInv, NEW c \in PathCall, Resolve(c)
    PROVE  Workspace(tree') /\ \A d \in PathCall : pathPc'[d] = "resolved" => Safe(tree', target'[d])
<1>1. PICK real \in Path :
         /\ real = Redirected(tree, LexicalNormalize(Joined(request[c])))
         /\ LexicalNormalize(Joined(request[c])) \in Path
         /\ pathPc[c] = "called" /\ UNCHANGED <<tree, request, writes, landed>>
         /\ \/ /\ IsPrefix(Root, real) /\ target' = [target EXCEPT ![c] = real]
               /\ pathPc' = [pathPc EXCEPT ![c] = "resolved"]
            \/ pathPc' = [pathPc EXCEPT ![c] = "refused"] /\ UNCHANGED target
  BY ResolveCases DEF PathInv
<1>2. Workspace(tree) /\ (IsPrefix(Root, real) => Safe(tree, real))
  BY <1>1, ResolvedIsSafe DEF PathInv
<1>3. QED
  BY <1>1, <1>2 DEF PathInv, PathTyped, PathTypeOK

\* A call that ends leaves the others their paths.
LEMMA OthersStay ==
    ASSUME PathInv, NEW c \in PathCall, pathPc[c] = "resolved", UNCHANGED target,
           Fail(c) \/ \E entry \in Path : Land(c, entry),
           \A goal : Safe(tree, goal) => Safe(tree', goal)
    PROVE  \A d \in PathCall : pathPc'[d] = "resolved" => Safe(tree', target'[d])
BY DEF Fail, Land, PathInv, PathTyped, PathTypeOK

\* What a read or a write adds to the invariant.
LEMMA UseStep ==
    ASSUME Hop = Nat, PathInv, NEW c \in PathCall, ReadTarget(c) \/ WriteTarget(c)
    PROVE  Workspace(tree') /\ \A d \in PathCall : pathPc'[d] = "resolved" => Safe(tree', target'[d])
<1>1. /\ pathPc[c] = "resolved" /\ UNCHANGED target
      /\ Fail(c) \/ \E entry \in Path : Land(c, entry)
  BY UseCases DEF PathInv
<1>2. CASE UNCHANGED tree
  <2>1. Workspace(tree') /\ \A goal : Safe(tree, goal) => Safe(tree', goal)
    BY <1>2 DEF PathInv
  <2>2. QED
    BY <1>1, <2>1, OthersStay
<1>3. CASE ~UNCHANGED tree
  <2>1. /\ target[c] # <<>> /\ ~Blocked(tree, Dir(c)) /\ ~IsDir(tree, Entry(c))
        /\ tree' = Written(tree, Dir(c), Entry(c))
    BY <1>3, WriteCases DEF ReadTarget, Fail
  <2>2. Workspace(tree') /\ \A goal : Safe(tree, goal) => Safe(tree', goal)
    BY <1>1, <2>1, WriteWithin
  <2>3. QED
    BY <1>1, <2>2, OthersStay
<1>4. QED
  BY <1>2, <1>3

LEMMA PathNextInv ==
    ASSUME Hop = Nat, PathInv, [PathNext]_pathVars
    PROVE  PathInv'
<1>1. PathTyped'
  BY PathTypedStep DEF PathInv
<1>2. CASE PathNext
  <2>1. Workspace(tree') /\ \A d \in PathCall : pathPc'[d] = "resolved" => Safe(tree', target'[d])
    BY <1>2, ResolveStep, UseStep DEF PathNext, PathStep
  <2>2. QED
    BY <1>1, <2>1 DEF PathInv
<1>3. CASE UNCHANGED pathVars
  BY <1>1, <1>3 DEF pathVars, PathInv
<1>4. QED
  BY <1>2, <1>3

\* The calls keep their types whatever a walk may do: those that have a path are
\* those that were not refused, and those that have an entry are done.
THEOREM PathType == PathSpec => []PathTypeOK
<1>1. PathInit => PathTyped
  BY PathStarts DEF PathInv
<1>2. PathTyped => PathTypeOK
  BY DEF PathTyped
<1>3. PathTyped /\ [PathNext]_pathVars => PathTyped'
  BY PathTypedStep
<1>4. QED
  BY <1>1, <1>2, <1>3, PTL DEF PathSpec

\* While the file tools are the only ones to change the tree, the workspace
\* stays a directory, and no prefix of a path resolve_in_workspace returned
\* leads out of it, whatever the other calls write meanwhile.  path.rs:29-55.
THEOREM PathInvariance == Hop = Nat /\ PathSpec => []PathInv
<1> SUFFICES ASSUME Hop = Nat PROVE PathSpec => []PathInv
  OBVIOUS
<1>1. PathInit => PathInv
  BY PathStarts
<1>2. PathInv /\ [PathNext]_pathVars => PathInv'
  BY PathNextInv
<1>3. QED
  BY <1>1, <1>2, PTL DEF PathSpec

-----------------------------------------------------------------------------
(* A call lands where its path was resolved to                             *)

\* One of the names of the path is a link.
Linked(t, goal) ==
    \E k \in DOMAIN goal :
        LET p == SubSeq(goal, 1, k) IN p \in DOMAIN t /\ t[p].kind = "link"

LEMMA NotLinked ==
    ASSUME NEW t, NEW goal \in Path, ~Linked(t, goal)
    PROVE  NoLink(t, goal)
<1> SUFFICES ASSUME NEW a \in Path, NEW b \in Path, a # <<>>, a \o b = goal, a \in DOMAIN t
             PROVE  t[a].kind # "link"
  BY DEF NoLink
<1>1. SubSeq(a \o b, 1, Len(a)) = a
  BY PrefixOfJoin DEF Path
<1>2. Len(a) \in 1..Len(a \o b)
  BY DEF Path
<1>3. SubSeq(goal, 1, Len(a)) = a /\ Len(a) \in 1..Len(goal)
  BY <1>1, <1>2
<1>4. DOMAIN goal = 1..Len(goal)
  BY DEF Path
<1>5. QED
  BY <1>3, <1>4 DEF Linked

LEMMA NoLinkAbove ==
    ASSUME NEW t, NEW f \in Path, NEW x \in Name, NoLink(t, Append(f, x))
    PROVE  NoLink(t, f)
<1> SUFFICES ASSUME NEW a \in Path, NEW b \in Path, a # <<>>, a \o b = f, a \in DOMAIN t
             PROVE  t[a].kind # "link"
  BY DEF NoLink
<1> DEFINE e == b \o <<x>>
<1>1. <<x>> \in Path /\ Append(f, x) = f \o <<x>>
  BY AppendIsConcat DEF Path
<1>2. e \in Path
  BY <1>1, JoinType
<1>3. a \o e = Append(f, x)
  BY <1>1, JoinThree
<1> HIDE DEF e
<1>4. QED
  BY <1>2, <1>3 DEF NoLink

LEMMA ReadLands ==
    ASSUME Hop = Nat, PathInv, NEW c \in PathCall, ReadTarget(c), pathPc'[c] = "done"
    PROVE  landed'[c] \in Within /\ (landed'[c] = target[c] \/ Linked(tree, target[c]))
<1> DEFINE goal == target[c]
           found == Canonicalize(tree, goal)
<1>1. pathPc[c] = "resolved" /\ found # Nowhere /\ landed'[c] = found
  BY DEF ReadTarget, Fail, Land, PathInv, PathTyped, PathTypeOK
<1>2. Workspace(tree) /\ Safe(tree, goal) /\ goal \in Path /\ Len(Root) <= Len(goal)
  BY <1>1, WithinIs DEF PathInv, PathTyped, Safe, Within
<1>3. Len(Root) \in Nat /\ Len(goal) \in Nat /\ SubSeq(goal, 1, Len(goal)) = goal
  BY <1>2, WithinIs, WholePrefix
<1>4. found \in Within
  <2> DEFINE n == Len(Root)
             g == Len(goal)
  <2>1. g \in n..g
    <3> HIDE DEF n, g, goal
    <3>1. n \in Nat /\ g \in Nat /\ n <= g
      BY <1>2, <1>3 DEF n, g
    <3>2. QED
      BY <3>1
  <2>2. Canonicalize(tree, SubSeq(goal, 1, g)) \in Within \cup {Nowhere}
    BY <1>2, <2>1 DEF Safe
  <2>3. QED
    BY <1>1, <1>3, <2>2
<1>5. ~Linked(tree, goal) => found = goal
  BY <1>1, <1>2, NotLinked, NoLinkLeadsOn DEF Workspace
<1>6. QED
  BY <1>1, <1>4, <1>5

LEMMA WriteLands ==
    ASSUME Hop = Nat, PathInv, NEW c \in PathCall, WriteTarget(c), pathPc'[c] = "done"
    PROVE  landed'[c] \in Within /\ (landed'[c] = target[c] \/ Linked(tree, target[c]))
<1> DEFINE goal == target[c]
<1>1. pathPc[c] = "resolved" /\ pathPc \in [PathCall -> {"idle", "called", "resolved", "refused", "done", "failed"}]
  BY WriteCases DEF PathInv, PathTyped, PathTypeOK
<1>2. ~Fail(c)
  BY <1>1 DEF Fail
<1>3. /\ goal # <<>> /\ ~Blocked(tree, Dir(c)) /\ ~IsDir(tree, Entry(c))
      /\ tree' = Written(tree, Dir(c), Entry(c)) /\ Land(c, Entry(c))
  BY <1>2, WriteCases
<1>4. landed'[c] = Entry(c) /\ Entry(c) \in Within
  BY <1>1, <1>3, WriteWithin DEF Land, PathInv, PathTyped
<1>5. Workspace(tree) /\ goal \in Path
  BY <1>1 DEF PathInv, PathTyped, Safe, Within
<1>6. /\ Front(goal) \in Path /\ Last(goal) \in Name /\ Append(Front(goal), Last(goal)) = goal
  BY <1>3, <1>5, FrontAndLast
<1>7. ~Linked(tree, goal) => Entry(c) = goal
  <2> SUFFICES ASSUME ~Linked(tree, goal) PROVE Entry(c) = goal
    OBVIOUS
  <2>1. NoLink(tree, Append(Front(goal), Last(goal)))
    BY <1>5, <1>6, NotLinked
  <2>2. NoLink(tree, Front(goal))
    BY <1>6, <2>1, NoLinkAbove
  <2>3. Redirected(tree, Front(goal)) = Front(goal)
    BY <1>5, <1>6, <2>2, NoLinkRedirected DEF Workspace
  <2>4. QED
    BY <1>6, <2>3 DEF Entry, Dir
<1>8. QED
  BY <1>4, <1>7

\* What a read or a write of the file tools touches is in the workspace, and
\* is the file resolve_in_workspace returned and the lock was taken on, unless
\* a link is on its path: the other calls cannot turn a path that was resolved
\* into one that leads out.  path.rs:29-55, write.rs:13-16.
THEOREM LandsWithin == Hop = Nat /\ PathSpec => LandsWhereResolved
<1> SUFFICES ASSUME Hop = Nat PROVE PathSpec => LandsWhereResolved
  OBVIOUS
<1> DEFINE Lands ==
      \A c \in PathCall :
         pathPc[c] = "resolved" /\ pathPc'[c] = "done" =>
             /\ IsPrefix(Root, landed'[c])
             /\ \/ landed'[c] = target[c]
                \/ \E k \in DOMAIN target[c] :
                      LET p == SubSeq(target[c], 1, k)
                      IN  p \in DOMAIN tree /\ tree[p].kind = "link"
<1>1. PathInv /\ [PathNext]_pathVars => [Lands]_pathVars
  <2> SUFFICES ASSUME PathInv, PathNext, NEW c \in PathCall,
                      pathPc[c] = "resolved", pathPc'[c] = "done"
               PROVE  /\ IsPrefix(Root, landed'[c])
                      /\ landed'[c] = target[c] \/ Linked(tree, target[c])
    BY DEF Linked
  <2>1. PICK d \in PathCall : PathStep(d)
    BY DEF PathNext
  <2>2. d = c /\ ~Resolve(c)
    BY <2>1 DEF PathStep, Resolve, ReadTarget, WriteTarget, Fail, Land, PathInv, PathTyped, PathTypeOK
  <2>3. ReadTarget(c) \/ WriteTarget(c)
    BY <2>1, <2>2 DEF PathStep
  <2>4. landed'[c] \in Within /\ (landed'[c] = target[c] \/ Linked(tree, target[c]))
    BY <2>3, ReadLands, WriteLands
  <2>5. QED
    BY <2>4 DEF Within
<1>2. QED
  BY <1>1, PathInvariance, PTL DEF PathSpec, LandsWhereResolved

-----------------------------------------------------------------------------
(* Without "..", what the shell opens                                      *)

\* Normalizing a path without ".." only drops its ".".
LEMMA NormalizePlain ==
    ASSUME NEW p \in Path, Up \notin ToSet(p)
    PROVE  LexicalNormalize(p) = WithoutHere(p) /\ LexicalNormalize(p) \in Path
<1> DEFINE n == Len(p)
           Plain(done, name) == IF name = Here THEN done ELSE Append(done, name)
           A(g) == g = [s \in SUBSET (1..n) |->
                          IF s = {} THEN <<>> ELSE NormalStep(g[s \ {Max(s)}], p[Max(s)])]
           B(g) == g = [s \in SUBSET (1..n) |->
                          IF s = {} THEN <<>> ELSE Plain(g[s \ {Max(s)}], p[Max(s)])]
<1>1. n \in Nat /\ DOMAIN p = 1..n /\ \A i \in 1..n : p[i] # Up
  BY DEF Path, ToSet
<1>2. LexicalNormalize(p) = (CHOOSE g : A(g))[1..n]
  BY <1>1 DEF LexicalNormalize, FoldLeft, MapThenFoldSet, NormalStep
<1>3. WithoutHere(p) = (CHOOSE g : B(g))[1..n]
  BY <1>1 DEF WithoutHere, FoldLeft, MapThenFoldSet
<1> HIDE DEF n
<1>4. ASSUME NEW g PROVE A(g) <=> B(g)
  <2>1. ASSUME NEW s \in SUBSET (1..n), s # {}
        PROVE  NormalStep(g[s \ {Max(s)}], p[Max(s)]) = Plain(g[s \ {Max(s)}], p[Max(s)])
    <3>1. s \in SUBSET (0..n)
      OBVIOUS
    <3>2. Max(s) \in s
      BY <1>1, <2>1, <3>1, GreatestNumber
    <3>3. p[Max(s)] # Up
      BY <1>1, <3>2
    <3>4. QED
      BY <3>3 DEF NormalStep
  <2>2. QED
    BY <2>1
<1> HIDE DEF A, B
<1>5. (CHOOSE g : A(g)) = (CHOOSE g : B(g))
  BY <1>4
<1>6. LexicalNormalize(p) \in Path
  <2>1. PICK f \in [0..Len(p) -> Path] : LexicalNormalize(p) = f[Len(p)]
    BY NormalizeIs
  <2>2. Len(p) \in 0..Len(p)
    BY WholePrefix
  <2>3. QED
    BY <2>1, <2>2
<1>7. QED
  BY <1>2, <1>3, <1>5, <1>6

LEMMA JoinedPlain ==
    ASSUME NEW r \in Request, Up \notin ToSet(r.names)
    PROVE  Joined(r) \in Path /\ Up \notin ToSet(Joined(r))
<1> DEFINE names == r.names
<1>1. names \in Path /\ Root \in Path /\ Up \notin ToSet(Root) /\ Up \notin ToSet(names)
  BY PathAssumption DEF Path
<1>2. Joined(r) = names \/ Joined(r) = Root \o names
  BY DEF Joined
<1> HIDE DEF names
<1>3. Root \o names \in Path /\ Up \notin ToSet(Root \o names)
  BY <1>1 DEF Path, ToSet
<1>4. QED
  BY <1>1, <1>2, <1>3

\* A path without ".." means the same file to the file tools and to bash, whose
\* working directory is the workspace: an existing file is resolved to the one
\* the shell opens, and is refused only if that is outside the workspace, or if
\* the path is before its links are followed.  path.rs:14-56.
THEOREM AgreesWithShell == Hop = Nat /\ PathSpec => ShellAgrees
<1> SUFFICES ASSUME Hop = Nat PROVE PathSpec => ShellAgrees
  OBVIOUS
<1> DEFINE Agrees ==
      \A c \in PathCall :
         LET r     == request[c]
             plain == WithoutHere(Joined(r))
             opens == Canonicalize(tree, plain)
         IN  (pathPc'[c] # pathPc[c] /\ pathPc[c] = "called" /\ Up \notin ToSet(r.names)) =>
                 /\ opens # Nowhere /\ pathPc'[c] = "resolved" => target'[c] = opens
                 /\ pathPc'[c] = "refused" => ~IsPrefix(Root, Redirected(tree, plain))
                                             \/ ~IsPrefix(Root, plain)
<1>1. PathInv /\ [PathNext]_pathVars => [Agrees]_pathVars
  <2> SUFFICES ASSUME PathInv, PathNext, NEW c \in PathCall, pathPc'[c] # pathPc[c],
                      pathPc[c] = "called", Up \notin ToSet(request[c].names)
               PROVE  LET plain == WithoutHere(Joined(request[c]))
                          opens == Canonicalize(tree, plain)
                      IN  /\ opens # Nowhere /\ pathPc'[c] = "resolved" => target'[c] = opens
                          /\ pathPc'[c] = "refused" =>
                                ~IsPrefix(Root, Redirected(tree, plain)) \/ ~IsPrefix(Root, plain)
    OBVIOUS
  <2> DEFINE plain == WithoutHere(Joined(request[c]))
             real == Redirected(tree, plain)
  <2>1. PICK d \in PathCall : PathStep(d)
    BY DEF PathNext
  <2>2. Resolve(c)
    BY <2>1 DEF PathStep, Resolve, ReadTarget, WriteTarget, Fail, Land, PathInv, PathTyped, PathTypeOK
  <2>3. request[c] \in Request /\ IsTree(tree) /\ target \in [PathCall -> Path \cup {Nowhere}]
        /\ pathPc \in [PathCall -> {"idle", "called", "resolved", "refused", "done", "failed"}]
    BY DEF PathInv, PathTyped, PathTypeOK, Workspace
  <2>4. plain \in Path /\ LexicalNormalize(Joined(request[c])) = plain
    BY <2>3, JoinedPlain, NormalizePlain
  <2>5. \/ Inside(plain, real) /\ target'[c] = real /\ pathPc'[c] = "resolved"
        \/ ~Inside(plain, real) /\ pathPc'[c] = "refused"
    BY <2>2, <2>3, <2>4 DEF Resolve
  <2>6. Canonicalize(tree, plain) # Nowhere => real = Canonicalize(tree, plain)
    BY <2>3, <2>4, RedirectedWhole
  <2>7. QED
    BY <2>5, <2>6 DEF Inside
<1>2. QED
  BY <1>1, PathInvariance, PTL DEF PathSpec, ShellAgrees
=============================================================================
