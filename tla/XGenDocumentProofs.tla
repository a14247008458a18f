------------------------ MODULE XGenDocumentProofs ------------------------
(***************************************************************************)
(* What XGenDocument's runs check, for every set of documents, parameters    *)
(* and targets.                                                              *)
(*                                                                          *)
(* The library's folds and FlattenSeq() are recursive functions.  A function  *)
(* that satisfies such a definition is built from the least number at which   *)
(* a shorter one cannot be continued; from then on a fold is a sequence of    *)
(* steps (Iterates, Folds, Flattened), one for each operator that folds:      *)
(* MovesOneByOne, ProcessOneByOne, PointsBeforeIs, BuildsOneByOne.            *)
(***************************************************************************)
EXTENDS XGenDocument, FiniteSetTheorems, WellFoundedInduction, TLAPS

-----------------------------------------------------------------------------
(* Induction and folds *)

\* A set of naturals that is not empty has a least element.
LEMMA LeastNatural ==
  ASSUME NEW T \in SUBSET Nat, T # {}
  PROVE  \E x \in T : \A y \in T : x <= y
<1>1. PICK R : R = OpToRel(<, Nat)
  OBVIOUS
<1>2. IsWellFoundedOn(R, Nat)
  BY <1>1, NatLessThanWellFounded
<1>3. PICK x \in T : \A y \in T : ~(<<y, x>> \in R)
  BY <1>2, WFMin
<1>4. R = {ss \in Nat \X Nat : ss[1] < ss[2]}
  BY <1>1, Zenon DEF OpToRel
<1>5. \A y \in T : y < x => <<y, x>> \in R
  BY <1>4
<1>6. \A y \in T : y < x => FALSE
  BY <1>3, <1>5
<1>7. x \in Nat /\ \A y \in T : y \in Nat
  BY <1>3
<1> QED
  BY <1>3, <1>6, <1>7

\* A set that has 0, and with each number below n the next one, has n.
LEMMA Induct ==
  ASSUME NEW n \in Nat, NEW T, 0 \in T, \A m \in 1 .. n : m - 1 \in T => m \in T
  PROVE  \A m \in 0 .. n : m \in T
<1> DEFINE Missing == {m \in 0 .. n : m \notin T}
<1> SUFFICES ASSUME Missing # {} PROVE FALSE
  OBVIOUS
<1>1. Missing \in SUBSET Nat
  OBVIOUS
<1>2. PICK x \in Missing : \A y \in Missing : x <= y
  <2> HIDE DEF Missing
  <2> QED
    BY <1>1, LeastNatural
<1>3. x \in 1 .. n /\ x - 1 \in 0 .. n /\ x - 1 \notin Missing /\ x \notin T
  BY <1>2
<1> QED
  BY <1>3

\* What n steps from base are.
IsRun(g, n, S, base, Step) ==
  /\ g \in [0 .. n -> S] /\ g[0] = base
  /\ \A m \in 1 .. n : g[m] = Step[<<g[m - 1], m>>]

\* Steps that stay in a set can be taken one after the other.
LEMMA Iterates ==
  ASSUME NEW n \in Nat, NEW S, NEW base \in S, NEW Step \in [S \X (1 .. n) -> S]
  PROVE  \E g : IsRun(g, n, S, base, Step)
<1> DEFINE Taken(m) == {g \in [0 .. m -> S] : g[0] = base /\ \A k \in 1 .. m : g[k] = Step[<<g[k - 1], k>>]}
           T == {m \in 0 .. n : Taken(m) # {}}
<1>1. 0 \in T
  <2> DEFINE g == [k \in 0 .. 0 |-> base]
  <2>1. g \in Taken(0)
    OBVIOUS
  <2> QED
    BY <2>1
<1>2. ASSUME NEW m \in 1 .. n, m - 1 \in T PROVE m \in T
  <2>1. PICK g : g \in Taken(m - 1)
    BY <1>2
  <2> DEFINE h == [k \in 0 .. m |-> IF k = m THEN Step[<<g[m - 1], m>>] ELSE g[k]]
  <2>2. g[m - 1] \in S /\ Step[<<g[m - 1], m>>] \in S
    BY <2>1
  <2>3. h \in [0 .. m -> S] /\ h[0] = base
    BY <2>1, <2>2
  <2>4. ASSUME NEW k \in 1 .. m PROVE h[k] = Step[<<h[k - 1], k>>]
    <3>1. h[k - 1] = g[k - 1]
      OBVIOUS
    <3>2. CASE k = m
      <4>1. h[k] = Step[<<g[m - 1], m>>] /\ h[k - 1] = g[m - 1]
        BY <3>1, <3>2
      <4> QED
        BY <3>2, <4>1
    <3>3. CASE k # m
      <4>1. k \in 1 .. m - 1 /\ h[k] = g[k]
        BY <3>3
      <4> QED
        BY <2>1, <3>1, <4>1
    <3> QED
      BY <3>2, <3>3
  <2>5. h \in Taken(m)
    <3> HIDE DEF h
    <3> QED
      BY <2>3, <2>4
  <2> QED
    <3> HIDE DEF h, Taken
    <3> QED
      BY <2>5
<1>3. n \in T
  <2> HIDE DEF T
  <2> QED
    BY <1>1, <1>2, Induct
<1>4. PICK g : g \in Taken(n)
  BY <1>3
<1> QED
  BY <1>4 DEF IsRun

LEMMA MaxIsLast ==
  ASSUME NEW n \in Nat, NEW s \in SUBSET (1 .. n), s # {}
  PROVE  Max(s) \in s /\ \A y \in s : Max(s) >= y
<1> DEFINE Rest == {n - y : y \in s}
<1>1. Rest \in SUBSET Nat /\ Rest # {}
  <2>1. \A y \in s : n - y \in Nat
    OBVIOUS
  <2>2. PICK y : y \in s
    OBVIOUS
  <2>3. n - y \in Rest
    BY <2>2
  <2> QED
    BY <2>1, <2>3
<1>2. PICK r \in Rest : \A y \in Rest : r <= y
  <2> HIDE DEF Rest
  <2> QED
    BY <1>1, LeastNatural
<1>3. PICK x \in s : r = n - x
  OBVIOUS
<1>4. \A y \in s : x >= y
  <2> TAKE y \in s
  <2>1. n - x <= n - y
    BY <1>2, <1>3
  <2> QED
    BY <2>1
<1> QED
  BY <1>4 DEF Max

LEMMA UpTo ==
  ASSUME NEW n \in Nat, NEW m \in 1 .. n
  PROVE  1 .. m \in SUBSET (1 .. n) /\ 1 .. m # {} /\ Max(1 .. m) = m /\ (1 .. m) \ {m} = 1 .. m - 1
<1>1. 1 .. m \in SUBSET (1 .. n) /\ m \in 1 .. m
  OBVIOUS
<1>2. Max(1 .. m) \in 1 .. m /\ Max(1 .. m) >= m
  BY <1>1, MaxIsLast
<1>3. Max(1 .. m) = m
  BY <1>2
<1> QED
  BY <1>1, <1>3

\* FoldLeft() folds over the sets of places, from the largest place down.
IsFold(g, n, S, base, Step) ==
  /\ g \in [SUBSET (1 .. n) -> S]
  /\ \A s \in SUBSET (1 .. n) :
       g[s] = IF s = {} THEN base ELSE Step[<<g[s \ {Max(s)}], Max(s)>>]

LEMMA Folds ==
  ASSUME NEW n \in Nat, NEW S, NEW base \in S, NEW Step \in [S \X (1 .. n) -> S]
  PROVE  \E g : IsFold(g, n, S, base, Step)
<1> DEFINE Taken(m) == {g \in [SUBSET (1 .. m) -> S] :
                         \A s \in SUBSET (1 .. m) :
                           g[s] = IF s = {} THEN base ELSE Step[<<g[s \ {Max(s)}], Max(s)>>]}
           T == {m \in 0 .. n : Taken(m) # {}}
<1>1. 0 \in T
  <2> DEFINE g == [s \in SUBSET (1 .. 0) |-> base]
  <2>1. \A s \in SUBSET (1 .. 0) : s = {}
    OBVIOUS
  <2>2. g \in Taken(0)
    BY <2>1
  <2> QED
    <3> HIDE DEF g, Taken
    <3> QED
      BY <2>2
<1>2. ASSUME NEW m \in 1 .. n, m - 1 \in T PROVE m \in T
  <2>1. PICK g : g \in Taken(m - 1)
    BY <1>2
  <2> DEFINE h == [s \in SUBSET (1 .. m) |-> IF m \in s THEN Step[<<g[s \ {m}], m>>] ELSE g[s]]
  <2>2. ASSUME NEW s \in SUBSET (1 .. m), m \in s
        PROVE  /\ s \ {m} \in SUBSET (1 .. m - 1) /\ Max(s) = m /\ s # {}
               /\ h[s] = Step[<<g[s \ {m}], m>>] /\ h[s \ {m}] = g[s \ {m}] /\ h[s] \in S
    <3>1. Max(s) \in 1 .. m /\ Max(s) >= m
      <4>1. m \in Nat /\ s # {}
        BY <2>2
      <4>2. Max(s) \in s /\ \A y \in s : Max(s) >= y
        BY <4>1, MaxIsLast
      <4> QED
        BY <2>2, <4>2
    <3>2. s \ {m} \in SUBSET (1 .. m - 1)
      BY <2>2
    <3>3. g[s \ {m}] \in S
      BY <2>1, <3>2
    <3>4. s \ {m} \in SUBSET (1 .. m) /\ m \notin s \ {m}
      OBVIOUS
    <3> QED
      BY <2>2, <3>1, <3>2, <3>3, <3>4
  <2>3. ASSUME NEW s \in SUBSET (1 .. m), m \notin s
        PROVE  s \in SUBSET (1 .. m - 1) /\ h[s] = g[s] /\ h[s] \in S
    <3>1. s \in SUBSET (1 .. m - 1)
      BY <2>3
    <3> QED
      BY <2>1, <2>3, <3>1
  <2>4. h \in [SUBSET (1 .. m) -> S]
    <3>1. \A s \in SUBSET (1 .. m) : h[s] \in S
      BY <2>2, <2>3
    <3> QED
      BY <3>1
  <2>5. ASSUME NEW s \in SUBSET (1 .. m)
        PROVE  h[s] = IF s = {} THEN base ELSE Step[<<h[s \ {Max(s)}], Max(s)>>]
    <3> HIDE DEF h
    <3>1. CASE m \in s
      BY <2>2, <3>1
    <3>2. CASE s = {}
      BY <2>1, <2>3, <3>2
    <3>3. CASE m \notin s /\ s # {}
      <4>1. s \in SUBSET (1 .. m - 1) /\ h[s] = g[s]
        BY <2>3, <3>3
      <4>2. s \ {Max(s)} \in SUBSET (1 .. m) /\ m \notin s \ {Max(s)}
        BY <3>3
      <4>3. h[s \ {Max(s)}] = g[s \ {Max(s)}]
        BY <2>3, <4>2
      <4> QED
        BY <2>1, <3>3, <4>1, <4>3
    <3> QED
      BY <3>1, <3>2, <3>3
  <2>6. h \in Taken(m)
    <3> HIDE DEF h
    <3> QED
      BY <2>4, <2>5
  <2> QED
    <3> HIDE DEF h, Taken
    <3> QED
      BY <2>6
<1>3. n \in T
  <2> HIDE DEF T
  <2> QED
    BY <1>1, <1>2, Induct
<1>4. PICK g : g \in Taken(n)
  BY <1>3
<1> QED
  BY <1>4 DEF IsFold

-----------------------------------------------------------------------------
(* Sequences one after another *)

\* Where sequence i begins when the n sequences are put behind one another.
IsOffsets(off, n, seqs) ==
  /\ off \in [0 .. n -> Nat]
  /\ off[0] = 0
  /\ \A i \in 1 .. n : off[i] = off[i - 1] + Len(seqs[i])

\* s is the n sequences, one after another.
IsJoined(s, off, n, seqs, X) ==
  /\ s \in Seq(X) /\ Len(s) = off[n]
  /\ \A i \in 1 .. n : \A k \in 1 .. Len(seqs[i]) :
       off[i - 1] + k \in 1 .. off[n] /\ s[off[i - 1] + k] = seqs[i][k]
  /\ \A m \in 1 .. off[n] : \E i \in 1 .. n : \E k \in 1 .. Len(seqs[i]) : m = off[i - 1] + k

LEMMA JoinOne ==
  ASSUME NEW n \in Nat, n # 0, NEW X, NEW seqs \in [1 .. n -> Seq(X)], NEW off, IsOffsets(off, n, seqs),
         NEW s, IsJoined(s, off, n - 1, seqs, X)
  PROVE  IsJoined(s \o seqs[n], off, n, seqs, X)
<1> DEFINE t == s \o seqs[n]
<1>1. /\ s \in Seq(X) /\ seqs[n] \in Seq(X) /\ Len(s) = off[n - 1] /\ n - 1 \in Nat
      /\ off[n] = off[n - 1] + Len(seqs[n]) /\ off[n - 1] \in Nat /\ off[n] \in Nat /\ Len(seqs[n]) \in Nat
  BY DEF IsJoined, IsOffsets
<1>2. /\ t \in Seq(X) /\ Len(t) = off[n]
      /\ \A m \in 1 .. off[n - 1] : t[m] = s[m]
      /\ \A k \in 1 .. Len(seqs[n]) : t[off[n - 1] + k] = seqs[n][k]
  <2>1. PICK q, l : q = seqs[n] /\ l = off[n - 1]
    OBVIOUS
  <2>2. q \in Seq(X) /\ Len(s) = l /\ l \in Nat /\ Len(q) \in Nat /\ off[n] = l + Len(q)
    BY <1>1, <2>1
  <2>3. s \o q \in Seq(X) /\ Len(s \o q) = l + Len(q)
    <3>1. s \in Seq(X) /\ q \in Seq(X)
      BY <1>1, <2>1
    <3>2. s \o q \in Seq(X)
      BY <3>1
    <3>3. Len(s \o q) = Len(s) + Len(q)
      BY <3>1
    <3> QED
      BY <2>2, <3>2, <3>3
  <2>4. \A m \in 1 .. l : (s \o q)[m] = s[m]
    BY <1>1, <2>2
  <2>5. \A k \in 1 .. Len(q) : (s \o q)[l + k] = q[k]
    BY <1>1, <2>2
  <2> QED
    BY <2>1, <2>2, <2>3, <2>4, <2>5
<1> HIDE DEF t
<1>3. ASSUME NEW i \in 1 .. n, NEW k \in 1 .. Len(seqs[i])
      PROVE  off[i - 1] + k \in 1 .. off[n] /\ t[off[i - 1] + k] = seqs[i][k]
  <2>1. CASE i = n
    BY <1>1, <1>2, <2>1
  <2>2. CASE i # n
    <3>1. i \in 1 .. n - 1
      BY <2>2
    <3>2. PICK x : x = off[i - 1] + k
      OBVIOUS
    <3>3. x \in 1 .. off[n - 1] /\ s[x] = seqs[i][k]
      BY <3>1, <3>2 DEF IsJoined
    <3>4. x \in 1 .. off[n] /\ t[x] = s[x]
      BY <1>1, <1>2, <3>3
    <3> QED
      BY <3>2, <3>3, <3>4
  <2> QED
    BY <2>1, <2>2
<1>4. ASSUME NEW m \in 1 .. off[n]
      PROVE  \E i \in 1 .. n : \E k \in 1 .. Len(seqs[i]) : m = off[i - 1] + k
  <2>1. CASE m \in 1 .. off[n - 1]
    <3>1. PICK i \in 1 .. n - 1 : \E k \in 1 .. Len(seqs[i]) : m = off[i - 1] + k
      BY <2>1 DEF IsJoined
    <3>2. i \in 1 .. n
      BY <1>1
    <3> QED
      BY <3>1, <3>2
  <2>2. CASE m \notin 1 .. off[n - 1]
    <3>1. m - off[n - 1] \in 1 .. Len(seqs[n]) /\ m = off[n - 1] + (m - off[n - 1])
      BY <1>1, <2>2
    <3>2. n \in 1 .. n
      OBVIOUS
    <3> QED
      BY <3>1, <3>2
  <2> QED
    BY <2>1, <2>2
<1> QED
  BY <1>2, <1>3, <1>4 DEF IsJoined, t

LEMMA JoinedSame ==
  ASSUME NEW n \in Nat, NEW X, NEW seqs, NEW off, NEW s, IsJoined(s, off, n, seqs, X),
         NEW others, NEW offs, offs[n] = off[n],
         \A i \in 1 .. n : others[i] = seqs[i] /\ offs[i - 1] = off[i - 1]
  PROVE  IsJoined(s, offs, n, others, X)
<1>1. s \in Seq(X) /\ Len(s) = offs[n]
  BY DEF IsJoined
<1>2. ASSUME NEW i \in 1 .. n, NEW k \in 1 .. Len(others[i])
      PROVE  offs[i - 1] + k \in 1 .. offs[n] /\ s[offs[i - 1] + k] = others[i][k]
  BY ZenonT(30) DEF IsJoined
<1>3. ASSUME NEW m \in 1 .. offs[n]
      PROVE  \E i \in 1 .. n : \E k \in 1 .. Len(others[i]) : m = offs[i - 1] + k
  <2>1. PICK i \in 1 .. n : \E k \in 1 .. Len(seqs[i]) : m = off[i - 1] + k
    BY DEF IsJoined
  <2> QED
    BY <2>1
<1> QED
  BY <1>1, <1>2, <1>3 DEF IsJoined

LEMMA OffsetsExist ==
  ASSUME NEW n \in Nat, NEW seqs, \A i \in 1 .. n : Len(seqs[i]) \in Nat
  PROVE  \E off : IsOffsets(off, n, seqs)
<1> DEFINE Step == [x \in Nat \X (1 .. n) |-> x[1] + Len(seqs[x[2]])]
<1>1. Step \in [Nat \X (1 .. n) -> Nat] /\ 0 \in Nat
  OBVIOUS
<1>2. \A a \in Nat, i \in 1 .. n : Step[<<a, i>>] = a + Len(seqs[i])
  OBVIOUS
<1> HIDE DEF Step
<1>3. PICK off : IsRun(off, n, Nat, 0, Step)
  BY <1>1, Iterates, Zenon
<1>4. \A i \in 1 .. n : off[i - 1] \in Nat
  BY <1>3 DEF IsRun
<1> QED
  BY <1>2, <1>3, <1>4, ZenonT(30) DEF IsOffsets, IsRun

\* Offsets depend on the lengths only.
LEMMA OffsetsSame ==
  ASSUME NEW n \in Nat, NEW a, NEW b, \A i \in 1 .. n : Len(a[i]) = Len(b[i]),
         NEW off, NEW other, IsOffsets(off, n, a), IsOffsets(other, n, b)
  PROVE  off = other
<1> DEFINE T == {m \in 0 .. n : off[m] = other[m]}
<1>1. 0 \in T
  BY DEF IsOffsets
<1>2. ASSUME NEW m \in 1 .. n, m - 1 \in T PROVE m \in T
  BY <1>2 DEF IsOffsets
<1>3. \A m \in 0 .. n : m \in T
  <2> HIDE DEF T
  <2> QED
    BY <1>1, <1>2, Induct
<1> QED
  BY <1>3 DEF IsOffsets

\* What FlattenSeq() is.
LEMMA Flattened ==
  ASSUME NEW n \in Nat, NEW X, NEW seqs \in [1 .. n -> Seq(X)], NEW off, IsOffsets(off, n, seqs)
  PROVE  IsJoined(FlattenSeq(seqs), off, n, seqs, X)
<1>1. Len(seqs) = n
  OBVIOUS
<1>2. CASE n = 0
  <2>1. FlattenSeq(seqs) = seqs /\ seqs = <<>> /\ off[n] = 0
    BY <1>1, <1>2 DEF FlattenSeq, IsOffsets
  <2> QED
    BY <1>2, <2>1 DEF IsJoined
<1>3. CASE n # 0
  <2> DEFINE Step == [x \in Seq(X) \X (1 .. n) |-> x[1] \o seqs[x[2]]]
  <2>1. Step \in [Seq(X) \X (1 .. n) -> Seq(X)] /\ <<>> \in Seq(X)
    OBVIOUS
  <2>2. \A a \in Seq(X), i \in 1 .. n : Step[<<a, i>>] = a \o seqs[i]
    OBVIOUS
  <2> HIDE DEF Step
  <2>3. PICK g : IsRun(g, n, Seq(X), <<>>, Step)
    BY <2>1, Iterates, Zenon
  <2>4. g[0] = <<>> /\ \A i \in 1 .. n : g[i - 1] \in Seq(X) /\ g[i] = g[i - 1] \o seqs[i]
    <3>1. \A i \in 1 .. n : i - 1 \in 0 .. n
      OBVIOUS
    <3>2. g[0] = <<>> /\ \A i \in 1 .. n : g[i - 1] \in Seq(X) /\ g[i] = Step[<<g[i - 1], i>>]
      BY <2>3, <3>1 DEF IsRun
    <3> QED
      BY <2>2, <3>2
  <2> DEFINE h == [i \in 1 .. n |-> g[i]]
  <2>5. h = [i \in 1 .. n |-> IF i = 1 THEN seqs[i] ELSE h[i - 1] \o seqs[i]]
    <3>1. ASSUME NEW i \in 1 .. n PROVE h[i] = IF i = 1 THEN seqs[i] ELSE h[i - 1] \o seqs[i]
      <4>1. CASE i = 1
        <5>1. g[1] = g[0] \o seqs[1] /\ g[0] = <<>> /\ seqs[1] \in Seq(X)
          <6>1. 1 \in 1 .. n /\ 1 - 1 = 0
            BY <4>1
          <6>2. g[1] = g[1 - 1] \o seqs[1]
            BY <2>4, <6>1, Zenon
          <6> QED
            BY <2>4, <6>1, <6>2
        <5>2. g[1] = seqs[1]
          BY <5>1
        <5> QED
          BY <4>1, <5>2
      <4>2. CASE i # 1
        <5>1. i - 1 \in 1 .. n
          BY <4>2
        <5> QED
          BY <2>4, <4>2, <5>1
      <4> QED
        BY <4>1, <4>2
    <3> QED
      BY <3>1
  <2>6. PICK f : f = CHOOSE r : r = [i \in 1 .. n |-> IF i = 1 THEN seqs[i] ELSE r[i - 1] \o seqs[i]]
    OBVIOUS
  <2>7. f = [i \in 1 .. n |-> IF i = 1 THEN seqs[i] ELSE f[i - 1] \o seqs[i]]
    <3> HIDE DEF h
    <3> QED
      BY <2>5, <2>6
  <2>8. FlattenSeq(seqs) = f[n]
    BY <1>1, <1>3, <2>6 DEF FlattenSeq
  <2>9. f[1] = seqs[1] /\ \A m \in 2 .. n : f[m] = f[m - 1] \o seqs[m]
    <3>1. \A m \in 1 .. n : f[m] = IF m = 1 THEN seqs[m] ELSE f[m - 1] \o seqs[m]
      BY <2>7, Zenon
    <3>2. 1 \in 1 .. n /\ \A m \in 2 .. n : m \in 1 .. n /\ m # 1
      BY <1>3
    <3> QED
      BY <3>1, <3>2
  <2> DEFINE T == {m \in 0 .. n : m # 0 => IsJoined(f[m], off, m, seqs, X)}
  <2>10. 0 \in T
    OBVIOUS
  <2>11. ASSUME NEW m \in 1 .. n, m - 1 \in T PROVE m \in T
    <3>1. m \in Nat /\ m # 0 /\ seqs[m] \in Seq(X)
      OBVIOUS
    <3> DEFINE some == [i \in 1 .. m |-> seqs[i]]
               offs == [i \in 0 .. m |-> off[i]]
    <3>2. CASE m = 1
      <4>1. off[0] = 0 /\ off[1] = off[0] + Len(seqs[1]) /\ Len(seqs[1]) \in Nat
        BY <1>3 DEF IsOffsets
      <4>2. off[1] = Len(seqs[1]) /\ f[1] = seqs[1]
        BY <2>9, <4>1
      <4>3. IsJoined(f[1], off, 1, seqs, X)
        BY <3>1, <3>2, <4>1, <4>2 DEF IsJoined
      <4> QED
        BY <3>2, <4>3
    <3>3. CASE m # 1
      <4>1. IsJoined(f[m - 1], off, m - 1, seqs, X) /\ f[m] = f[m - 1] \o seqs[m]
        <5>1. m \in 2 .. n /\ m - 1 # 0
          BY <3>3
        <5> QED
          BY <2>9, <2>11, <5>1
      <4>2. some \in [1 .. m -> Seq(X)] /\ IsOffsets(offs, m, some)
        <5>1. \A i \in 1 .. m : i \in 1 .. n /\ i - 1 \in 0 .. m /\ i \in 0 .. m /\ some[i] = seqs[i]
          OBVIOUS
        <5>2. \A i \in 0 .. m : i \in 0 .. n /\ offs[i] = off[i]
          OBVIOUS
        <5>3. some \in [1 .. m -> Seq(X)] /\ offs \in [0 .. m -> Nat]
          BY DEF IsOffsets
        <5> HIDE DEF some, offs
        <5> QED
          BY <5>1, <5>2, <5>3 DEF IsOffsets
      <4>3. IsJoined(f[m - 1], offs, m - 1, some, X)
        <5>0. m - 1 \in Nat
          OBVIOUS
        <5>1. \A i \in 1 .. m - 1 : i \in 1 .. m /\ i - 1 \in 0 .. m /\ some[i] = seqs[i] /\ offs[i - 1] = off[i - 1]
          OBVIOUS
        <5>2. offs[m - 1] = off[m - 1]
          OBVIOUS
        <5> HIDE DEF some, offs
        <5> QED
          BY <4>1, <5>0, <5>1, <5>2, JoinedSame
      <4>4. IsJoined(f[m - 1] \o some[m], offs, m, some, X)
        <5> HIDE DEF some, offs
        <5> QED
          BY <3>1, <4>2, <4>3, JoinOne
      <4>5. IsJoined(f[m], off, m, seqs, X)
        <5>1. \A i \in 1 .. m : i - 1 \in 0 .. m /\ some[i] = seqs[i] /\ offs[i - 1] = off[i - 1]
          OBVIOUS
        <5>2. offs[m] = off[m] /\ some[m] = seqs[m]
          OBVIOUS
        <5> HIDE DEF some, offs
        <5> QED
          BY <3>1, <4>1, <4>4, <5>1, <5>2, JoinedSame
      <4> QED
        BY <4>5
    <3> QED
      BY <3>2, <3>3
  <2>12. n \in T
    <3> HIDE DEF T
    <3>1. \A m \in 0 .. n : m \in T
      BY <2>10, <2>11, Induct
    <3> QED
      BY <3>1
  <2> QED
    BY <1>3, <2>8, <2>12
<1> QED
  BY <1>2, <1>3

\* Two sequences of sequences of the same lengths: the places in them go together.
SameLengths(a, b, n) == \A i \in 1 .. n : Len(a[i]) = Len(b[i])

Together(s, t, a, b, n, X, Y) ==
  /\ s \in Seq(X) /\ t \in Seq(Y) /\ Len(s) = Len(t)
  /\ \A m \in 1 .. Len(s) : \E i \in 1 .. n : \E k \in 1 .. Len(a[i]) :
       s[m] = a[i][k] /\ t[m] = b[i][k]

LEMMA FlattenTogether ==
  ASSUME NEW n \in Nat, NEW X, NEW Y, NEW a \in [1 .. n -> Seq(X)], NEW b \in [1 .. n -> Seq(Y)],
         SameLengths(a, b, n)
  PROVE  Together(FlattenSeq(a), FlattenSeq(b), a, b, n, X, Y)
<1>1. \A i \in 1 .. n : Len(a[i]) \in Nat
  OBVIOUS
<1>2. PICK off : IsOffsets(off, n, a)
  BY <1>1, OffsetsExist
<1>3. IsOffsets(off, n, b)
  BY <1>2 DEF IsOffsets, SameLengths
<1>4. IsJoined(FlattenSeq(a), off, n, a, X) /\ IsJoined(FlattenSeq(b), off, n, b, Y)
  BY <1>2, <1>3, Flattened
<1> DEFINE s == FlattenSeq(a)
           t == FlattenSeq(b)
<1>5. s \in Seq(X) /\ t \in Seq(Y) /\ Len(s) = off[n] /\ Len(t) = off[n]
  BY <1>4 DEF IsJoined
<1>6. ASSUME NEW m \in 1 .. off[n]
      PROVE  \E i \in 1 .. n : \E k \in 1 .. Len(a[i]) : s[m] = a[i][k] /\ t[m] = b[i][k]
  <2>1. PICK i \in 1 .. n : \E k \in 1 .. Len(a[i]) : m = off[i - 1] + k
    BY <1>4 DEF IsJoined
  <2>2. PICK k \in 1 .. Len(a[i]) : m = off[i - 1] + k
    BY <2>1
  <2>3. s[m] = a[i][k]
    BY <1>4, <2>2 DEF IsJoined
  <2>4. t[m] = b[i][k]
    BY <1>4, <2>2 DEF IsJoined, SameLengths
  <2> QED
    BY <2>3, <2>4
<1> HIDE DEF s, t
<1>7. Together(s, t, a, b, n, X, Y)
  BY <1>5, <1>6 DEF Together
<1> QED
  BY <1>7 DEF s, t

-----------------------------------------------------------------------------
(* The readers *)

Orders == {"source", "canonical"}

\* The identities a reader looks at.
Ids(it, order) ==
  {it.infos, it.positions, it.widths}
    \cup IF order = "source" THEN {} ELSE {it.patchUVs, it.faceUVs, it.faceIds}

SameArray(d, e, id) == InBounds(e, id) = InBounds(d, id) /\ Array(e, id) = Array(d, id)

\* The lists of entries, one for each item.
PackedLists(d, order) ==
  [i \in DOMAIN d.items |->
     [k \in 1 .. PackedCount(d, d.items[i], order) |-> PackedCurve(d, d.items[i], order, k - 1)]]

CurveLists(d) ==
  [i \in DOMAIN d.items |->
     [k \in 1 .. Len(Data(d, d.items[i].faceIds)) |-> CurveAt(d, d.items[i], k - 1)]]

LEMMA PackIs ==
  ASSUME NEW d, NEW order
  PROVE  Pack(d, order) =
           IF d.items # <<>> /\ \A i \in DOMAIN d.items : PackedItemFits(d, d.items[i], order)
           THEN OnlyPoints(Arranged(FlattenSeq(PackedLists(d, order)), order)) ELSE Invalid
BY DEF Pack, Gather, PackedLists

LEMMA MaterializeIs ==
  ASSUME NEW d, NEW order
  PROVE  Materialize(d, order) =
           IF d.items # <<>> /\ \A i \in DOMAIN d.items : ItemFits(d, d.items[i])
           THEN Arranged(FlattenSeq(CurveLists(d)), order) ELSE Invalid
BY DEF Materialize, Gather, CurveLists

LEMMA SameReads ==
  ASSUME NEW d, NEW e, NEW it, NEW order \in Orders, \A id \in Ids(it, order) : SameArray(d, e, id)
  PROVE  /\ PackedItemFits(e, it, order) = PackedItemFits(d, it, order)
         /\ PackedCount(e, it, order) = PackedCount(d, it, order)
         /\ \A p : PackedCurve(e, it, order, p) = PackedCurve(d, it, order, p)
<1>1. \A id \in Ids(it, order) : Data(e, id) = Data(d, id) /\ \A tag : Holds(e, id, tag) = Holds(d, id, tag)
  BY DEF SameArray, Data, Holds
<1>2. /\ Data(e, it.infos) = Data(d, it.infos) /\ Data(e, it.positions) = Data(d, it.positions)
      /\ Data(e, it.widths) = Data(d, it.widths)
      /\ \A tag : /\ Holds(e, it.infos, tag) = Holds(d, it.infos, tag)
                  /\ Holds(e, it.positions, tag) = Holds(d, it.positions, tag)
                  /\ Holds(e, it.widths, tag) = Holds(d, it.widths, tag)
  BY <1>1 DEF Ids
<1>3. ShapesFit(e, it) = ShapesFit(d, it)
  BY <1>2 DEF ShapesFit
<1>4. \A s, p : First(e, it, s, p) = First(d, it, s, p) /\ Count(e, it, s, p) = Count(d, it, s, p)
  BY <1>2 DEF First, Count
<1>5. \A s, p : RangeFits(e, it, s, p) = RangeFits(d, it, s, p)
  BY <1>2, <1>4 DEF RangeFits
<1>6. \A s, p : /\ Span(e, it, it.positions, s, p) = Span(d, it, it.positions, s, p)
                /\ Span(e, it, it.widths, s, p) = Span(d, it, it.widths, s, p)
  BY <1>2, <1>4 DEF Span
<1>7. \A s, p : GoodPoints(e, it, s, p) = GoodPoints(d, it, s, p)
  BY <1>6 DEF GoodPoints
<1>8. CASE order = "source"
  <2>1. PackedCount(e, it, order) = PackedCount(d, it, order)
    BY <1>2, <1>8 DEF PackedCount
  <2>2. PackedStride(e, it, order) = 3 /\ PackedStride(d, it, order) = 3
    BY <1>8 DEF PackedStride
  <2>3. PackedShapesFit(e, it, order) = PackedShapesFit(d, it, order)
    BY <1>2, <1>3, <1>8 DEF PackedShapesFit
  <2>4. PackedItemFits(e, it, order) = PackedItemFits(d, it, order)
    BY <1>5, <1>7, <1>8, <2>1, <2>2, <2>3 DEF PackedItemFits
  <2>5. \A p : PackedCurve(e, it, order, p) = PackedCurve(d, it, order, p)
    BY <1>6, <1>8, <2>2 DEF PackedCurve
  <2> QED
    BY <2>1, <2>4, <2>5
<1>9. CASE order = "canonical"
  <2>1. /\ Data(e, it.patchUVs) = Data(d, it.patchUVs) /\ Data(e, it.faceUVs) = Data(d, it.faceUVs)
        /\ Data(e, it.faceIds) = Data(d, it.faceIds)
        /\ \A tag : /\ Holds(e, it.patchUVs, tag) = Holds(d, it.patchUVs, tag)
                    /\ Holds(e, it.faceUVs, tag) = Holds(d, it.faceUVs, tag)
                    /\ Holds(e, it.faceIds, tag) = Holds(d, it.faceIds, tag)
    BY <1>1, <1>9 DEF Ids
  <2>2. Stride(e, it) = Stride(d, it)
    BY <1>2, <2>1 DEF Stride
  <2>3. InfosFit(e, it) = InfosFit(d, it)
    BY <1>2, <2>1, <2>2 DEF InfosFit
  <2>4. ChannelsFit(e, it) = ChannelsFit(d, it)
    BY <1>2, <2>1, <2>3 DEF ChannelsFit
  <2>5. PackedCount(e, it, order) = PackedCount(d, it, order)
    BY <1>9, <2>1 DEF PackedCount
  <2>6. PackedStride(e, it, order) = PackedStride(d, it, order)
    BY <1>9, <2>2 DEF PackedStride
  <2>7. PackedShapesFit(e, it, order) = PackedShapesFit(d, it, order)
    BY <1>3, <1>9, <2>4 DEF PackedShapesFit
  <2>8. \A s, p : Span(e, it, it.patchUVs, s, p) = Span(d, it, it.patchUVs, s, p)
    BY <1>4, <2>1 DEF Span
  <2>9. \A s, p : UVsFit(e, it, s, p) = UVsFit(d, it, s, p)
    BY <2>1, <2>8 DEF UVsFit
  <2>10. PackedItemFits(e, it, order) = PackedItemFits(d, it, order)
    BY <1>5, <1>7, <2>5, <2>6, <2>7, <2>9 DEF PackedItemFits
  <2>11. \A p : CurveAt(e, it, p) = CurveAt(d, it, p)
    BY <1>4, <1>6, <2>1, <2>2 DEF CurveAt
  <2>12. \A p : PackedCurve(e, it, order, p) = PackedCurve(d, it, order, p)
    BY <1>6, <1>9, <2>6, <2>11 DEF PackedCurve
  <2> QED
    BY <2>5, <2>10, <2>12
<1> QED
  BY <1>8, <1>9 DEF Orders

LEMMA SamePack ==
  ASSUME NEW d, NEW e, NEW order \in Orders, e.items = d.items,
         \A i \in DOMAIN d.items : \A id \in Ids(d.items[i], order) : SameArray(d, e, id)
  PROVE  Pack(e, order) = Pack(d, order)
<1>1. \A i \in DOMAIN d.items :
        /\ PackedItemFits(e, d.items[i], order) = PackedItemFits(d, d.items[i], order)
        /\ PackedCount(e, d.items[i], order) = PackedCount(d, d.items[i], order)
        /\ \A p : PackedCurve(e, d.items[i], order, p) = PackedCurve(d, d.items[i], order, p)
  BY SameReads
<1>2. PackedLists(e, order) = PackedLists(d, order)
  BY <1>1 DEF PackedLists
<1> QED
  BY <1>1, <1>2, PackIs

\* An identity is a group and a place in it.
LEMMA IdIs ==
  ASSUME NEW id \in Nat
  PROVE  /\ GroupOf(id) \in Nat /\ IndexOf(id) \in Nat /\ IndexOf(id) \in 0 .. IdBase - 1
         /\ id = GroupOf(id) * IdBase + IndexOf(id)
<1>1. IdBase \in Nat \ {0}
  BY XGenDocumentAssumption
<1>2. id = (id \div IdBase) * IdBase + (id % IdBase) /\ id % IdBase \in 0 .. IdBase - 1 /\ id \div IdBase \in Nat
  BY <1>1, SMTT(60)
<1> QED
  BY <1>2 DEF GroupOf, IndexOf

LEMMA ItemIds ==
  ASSUME NEW d \in DocumentSet, NEW i \in DOMAIN d.items
  PROVE  d.items[i] \in ItemSet
BY DEF DocumentSet

LEMMA FileHasSelection ==
  ASSUME NEW d \in DocumentSet, NEW order \in Orders, NEW i \in DOMAIN d.items,
         NEW id \in Ids(d.items[i], order), InBounds(d, id)
  PROVE  SameArray(d, LoadedFile(d, order), id)
<1> DEFINE file == LoadedFile(d, order)
           ids == {s[1] : s \in Selection(d, order)}
<1>1. d.items[i] \in ItemSet
  BY ItemIds
<1>2. id \in Nat
  BY <1>1 DEF Ids, ItemSet, Orders
<1>3. id \in ids
  <2> DEFINE it == d.items[i]
             Own == {<<it.infos, "uint32">>, <<it.positions, "vec3">>, <<it.widths, "float">>}
                      \cup IF order = "source" THEN {}
                           ELSE {<<it.patchUVs, "vec2">>, <<it.faceUVs, "vec2">>, <<it.faceIds, "uint32">>}
  <2>1. \E tag : <<id, tag>> \in Own
    BY DEF Ids
  <2>2. Own \subseteq Selection(d, order)
    BY DEF Selection
  <2>3. PICK tag : <<id, tag>> \in Selection(d, order)
    BY <2>1, <2>2
  <2>4. <<id, tag>>[1] = id
    OBVIOUS
  <2> QED
    BY <2>3, <2>4
<1>4. /\ file.items = d.items /\ DOMAIN file.groups = DOMAIN d.groups
      /\ \A g \in DOMAIN d.groups : DOMAIN file.groups[g] = DOMAIN d.groups[g]
      /\ \A g \in DOMAIN d.groups : \A a \in DOMAIN d.groups[g] :
           (g - 1) * IdBase + a - 1 \in ids => file.groups[g][a] = d.groups[g][a]
  BY DEF LoadedFile, DocumentSet
<1> HIDE DEF file, ids
<1>5. /\ d.groups \in Seq(Seq(Arrays))
      /\ \A g \in DOMAIN d.groups : d.groups[g] \in Seq(Arrays)
  BY DEF DocumentSet
<1>6. GroupOf(id) \in Nat /\ IndexOf(id) \in Nat /\ id = GroupOf(id) * IdBase + IndexOf(id) /\ IdBase \in Nat
  BY <1>2, IdIs, XGenDocumentAssumption
<1> DEFINE g == GroupOf(id) + 1
           a == IndexOf(id) + 1
<1>7. g \in DOMAIN d.groups /\ a \in DOMAIN d.groups[g]
  <2>1. GroupOf(id) < Len(d.groups) /\ IndexOf(id) < Len(d.groups[g])
    BY DEF InBounds, At
  <2>2. d.groups[g] \in Seq(Arrays)
    BY <1>5, <1>6, <2>1
  <2> QED
    BY <1>5, <1>6, <2>1, <2>2
<1>8. (g - 1) * IdBase + a - 1 = id
  <2>1. g - 1 = GroupOf(id) /\ a = IndexOf(id) + 1 /\ GroupOf(id) * IdBase \in Nat
    BY <1>6
  <2> QED
    BY <1>6, <2>1
<1>9. file.groups[g][a] = d.groups[g][a]
  BY <1>3, <1>4, <1>7, <1>8
<1>10. Len(file.groups) = Len(d.groups) /\ Len(file.groups[g]) = Len(d.groups[g])
  <2>1. d.groups[g] \in Seq(Arrays)
    BY <1>5, <1>7
  <2>2. DOMAIN file.groups = 1 .. Len(d.groups) /\ DOMAIN file.groups[g] = 1 .. Len(d.groups[g])
    BY <1>4, <1>5, <1>7, <2>1
  <2> QED
    BY <1>5, <2>1, <2>2
<1> QED
  BY <1>9, <1>10 DEF SameArray, InBounds, Array, At, file

\* What an item asks for under a tag.
Wanted(it, order) ==
  {<<it.infos, "uint32">>, <<it.positions, "vec3">>, <<it.widths, "float">>}
    \cup IF order = "source" THEN {}
         ELSE {<<it.patchUVs, "vec2">>, <<it.faceUVs, "vec2">>, <<it.faceIds, "uint32">>}

LEMMA SelectionIs ==
  ASSUME NEW d, NEW order
  PROVE  Selection(d, order) = UNION {Wanted(d.items[i], order) : i \in DOMAIN d.items}
BY DEF Selection, Wanted

LEMMA FitsIsSelected ==
  ASSUME NEW d, NEW order \in Orders, \A i \in DOMAIN d.items : PackedItemFits(d, d.items[i], order)
  PROVE  SelectionLoads(d, order)
<1>1. ASSUME NEW s \in Selection(d, order) PROVE InBounds(d, s[1]) /\ Array(d, s[1]).tag = s[2]
  <2>1. PICK i \in DOMAIN d.items : s \in Wanted(d.items[i], order)
    BY SelectionIs
  <2> DEFINE it == d.items[i]
  <2>2. PackedShapesFit(d, it, order)
    BY DEF PackedItemFits
  <2>3. ShapesFit(d, it) /\ (order # "source" => ChannelsFit(d, it))
    BY <2>2 DEF PackedShapesFit
  <2>4. Holds(d, s[1], s[2])
    <3>1. /\ Holds(d, it.infos, "uint32") /\ Holds(d, it.positions, "vec3") /\ Holds(d, it.widths, "float")
          /\ order # "source" => Holds(d, it.patchUVs, "vec2") /\ Holds(d, it.faceUVs, "vec2")
                                   /\ Holds(d, it.faceIds, "uint32")
      BY <2>3 DEF ShapesFit, ChannelsFit
    <3> QED
      BY <2>1, <3>1 DEF Wanted
  <2> QED
    BY <2>4 DEF Holds
<1> QED
  BY <1>1 DEF SelectionLoads

LEMMA FusedIsPack ==
  ASSUME NEW d \in DocumentSet, NEW order \in Orders
  PROVE  Fused(d, order) = Pack(d, order)
<1>1. CASE d.items # <<>> /\ SelectionLoads(d, order)
  <2>1. LoadedFile(d, order).items = d.items
    BY DEF LoadedFile, DocumentSet
  <2>2. ASSUME NEW i \in DOMAIN d.items, NEW id \in Ids(d.items[i], order)
        PROVE  SameArray(d, LoadedFile(d, order), id)
    <3>1. PICK tag : <<id, tag>> \in Wanted(d.items[i], order)
      BY DEF Ids, Wanted
    <3>2. <<id, tag>> \in Selection(d, order)
      BY <3>1, SelectionIs
    <3>3. InBounds(d, <<id, tag>>[1]) /\ <<id, tag>>[1] = id
      BY <1>1, <3>2 DEF SelectionLoads
    <3> QED
      BY <3>3, FileHasSelection
  <2>3. Pack(LoadedFile(d, order), order) = Pack(d, order)
    BY <2>1, <2>2, SamePack
  <2> QED
    BY <1>1, <2>3 DEF Fused
<1>2. CASE ~(d.items # <<>> /\ SelectionLoads(d, order))
  <2>1. ~(d.items # <<>> /\ \A i \in DOMAIN d.items : PackedItemFits(d, d.items[i], order))
    BY <1>2, FitsIsSelected
  <2> QED
    BY <1>2, <2>1, PackIs DEF Fused
<1> QED
  BY <1>1, <1>2

-----------------------------------------------------------------------------
(* Canonical order *)

Keys == Int \X Int \X Int

LEMMA KeyLessIs ==
  ASSUME NEW k \in Keys, NEW m \in Keys
  PROVE  KeyLess(k, m) <=> \/ k[1] < m[1]
                           \/ k[1] = m[1] /\ k[2] < m[2]
                           \/ k[1] = m[1] /\ k[2] = m[2] /\ k[3] < m[3]
<1>1. DOMAIN k = 1 .. 3 /\ 1 .. 3 = {1, 2, 3}
  BY DEF Keys
<1>2. /\ 1 .. 1 - 1 = {} /\ 1 .. 2 - 1 = {1} /\ 1 .. 3 - 1 = {1, 2}
  OBVIOUS
<1>3. /\ (\A i \in 1 .. 1 - 1 : k[i] = m[i]) <=> TRUE
      /\ (\A i \in 1 .. 2 - 1 : k[i] = m[i]) <=> k[1] = m[1]
      /\ (\A i \in 1 .. 3 - 1 : k[i] = m[i]) <=> k[1] = m[1] /\ k[2] = m[2]
  BY <1>2
<1>4. KeyLess(k, m) <=> \E n \in {1, 2, 3} : k[n] < m[n] /\ \A i \in 1 .. n - 1 : k[i] = m[i]
  BY <1>1, Zenon DEF KeyLess
<1> QED
  BY <1>3, <1>4

LEMMA KeysApart ==
  ASSUME NEW k \in Keys, NEW m \in Keys
  PROVE  k = m <=> k[1] = m[1] /\ k[2] = m[2] /\ k[3] = m[3]
BY DEF Keys

\* Which of two curves comes first.
Precedes(s, j, i) == KeyLess(s[j].key, s[i].key) \/ (s[j].key = s[i].key /\ j < i)

Keyed(s, n) == n \in Nat /\ DOMAIN s = 1 .. n /\ \A i \in 1 .. n : s[i].key \in Keys

LEMMA PrecedesOrders ==
  ASSUME NEW s, NEW n, Keyed(s, n), NEW i \in 1 .. n, NEW j \in 1 .. n, NEW k \in 1 .. n
  PROVE  /\ ~Precedes(s, i, i)
         /\ Precedes(s, i, j) /\ Precedes(s, j, k) => Precedes(s, i, k)
         /\ i # j => Precedes(s, i, j) \/ Precedes(s, j, i)
<1>1. PICK a, b, c : a = s[i].key /\ b = s[j].key /\ c = s[k].key
  OBVIOUS
<1>2. a \in Keys /\ b \in Keys /\ c \in Keys
  BY <1>1 DEF Keyed
<1>3. /\ a[1] \in Int /\ a[2] \in Int /\ a[3] \in Int
      /\ b[1] \in Int /\ b[2] \in Int /\ b[3] \in Int
      /\ c[1] \in Int /\ c[2] \in Int /\ c[3] \in Int
  BY <1>2 DEF Keys
<1>4. /\ ~KeyLess(a, a)
      /\ KeyLess(a, b) /\ KeyLess(b, c) => KeyLess(a, c)
      /\ KeyLess(a, b) \/ KeyLess(b, a) \/ a = b
  BY <1>2, <1>3, KeyLessIs, KeysApart
<1>5. i \in Int /\ j \in Int /\ k \in Int
  BY DEF Keyed
<1>6. /\ Precedes(s, i, i) <=> KeyLess(a, a) \/ (a = a /\ i < i)
      /\ Precedes(s, i, j) <=> KeyLess(a, b) \/ (a = b /\ i < j)
      /\ Precedes(s, j, i) <=> KeyLess(b, a) \/ (b = a /\ j < i)
      /\ Precedes(s, j, k) <=> KeyLess(b, c) \/ (b = c /\ j < k)
      /\ Precedes(s, i, k) <=> KeyLess(a, c) \/ (a = c /\ i < k)
  BY <1>1 DEF Precedes
<1> QED
  BY <1>4, <1>5, <1>6

LEMMA BeforeIs ==
  ASSUME NEW s, NEW n, Keyed(s, n), NEW i \in 1 .. n
  PROVE  /\ Before(s, i) = {j \in 1 .. n : Precedes(s, j, i)}
         /\ IsFiniteSet(Before(s, i))
         /\ Cardinality(Before(s, i)) \in 0 .. n - 1
<1>1. Before(s, i) = {j \in 1 .. n : Precedes(s, j, i)}
  BY DEF Before, Precedes, Keyed
<1>2. n \in Nat /\ IsFiniteSet(1 .. n) /\ Cardinality(1 .. n) = n
  BY FS_Interval DEF Keyed
<1>3. i \notin Before(s, i) /\ Before(s, i) \in SUBSET (1 .. n)
  BY <1>1, PrecedesOrders
<1>4. IsFiniteSet(Before(s, i)) /\ Cardinality(Before(s, i)) <= n /\ Cardinality(Before(s, i)) # n
  BY <1>2, <1>3, FS_Subset
<1>5. Cardinality(Before(s, i)) \in Nat
  BY <1>4, FS_CardinalityType
<1> QED
  BY <1>1, <1>2, <1>4, <1>5

LEMMA RankGrows ==
  ASSUME NEW s, NEW n, Keyed(s, n), NEW i \in 1 .. n, NEW j \in 1 .. n, Precedes(s, i, j)
  PROVE  Cardinality(Before(s, i)) < Cardinality(Before(s, j))
<1>1. Before(s, i) \subseteq Before(s, j) /\ i \in Before(s, j) /\ i \notin Before(s, i)
  BY BeforeIs, PrecedesOrders
<1>2. /\ IsFiniteSet(Before(s, j)) /\ Cardinality(Before(s, j)) \in Nat
      /\ Cardinality(Before(s, i)) \in Nat
  <2>1. n \in Nat
    BY DEF Keyed
  <2> QED
    BY <2>1, BeforeIs
<1>3. Cardinality(Before(s, i)) <= Cardinality(Before(s, j))
  BY <1>1, <1>2, FS_Subset
<1>4. Cardinality(Before(s, i)) # Cardinality(Before(s, j))
  BY <1>1, <1>2, FS_Subset
<1> QED
  BY <1>2, <1>3, <1>4

LEMMA RankIsOne ==
  ASSUME NEW s, NEW n, Keyed(s, n), NEW i \in 1 .. n, NEW j \in 1 .. n,
         Cardinality(Before(s, i)) = Cardinality(Before(s, j))
  PROVE  i = j
<1>1. Cardinality(Before(s, i)) \in Int
  BY BeforeIs DEF Keyed
<1>2. ~Precedes(s, i, j) /\ ~Precedes(s, j, i)
  BY <1>1, RankGrows
<1> QED
  BY <1>2, PrecedesOrders

\* There is a curve for each place.
LEMMA RankFound ==
  ASSUME NEW s, NEW n, Keyed(s, n), NEW m \in 1 .. n
  PROVE  \E i \in 1 .. n : Cardinality(Before(s, i)) = m - 1
<1> DEFINE rank == [i \in 1 .. n |-> Cardinality(Before(s, i))]
<1>1. rank \in [1 .. n -> 0 .. n - 1]
  BY BeforeIs
<1>2. \A i, j \in 1 .. n : rank[i] = rank[j] => i = j
  BY RankIsOne
<1>3. n \in Nat
  BY DEF Keyed
<1>4. rank \in Injection(1 .. n, 0 .. n - 1)
  <2> HIDE DEF rank
  <2> QED
    BY <1>1, <1>2 DEF Injection, IsInjective
<1>5. /\ IsFiniteSet(0 .. n - 1) /\ Cardinality(0 .. n - 1) = n /\ Cardinality(1 .. n) = n
  <2>1. n - 1 \in Int /\ n \in Int /\ n - 1 - 0 + 1 = n /\ n - 1 + 1 = n
    BY <1>3
  <2>2. /\ IsFiniteSet(0 .. n - 1) /\ Cardinality(0 .. n - 1) = IF 0 > n - 1 THEN 0 ELSE n - 1 - 0 + 1
        /\ Cardinality(1 .. n) = IF 1 > n THEN 0 ELSE n - 1 + 1
    BY <2>1, FS_Interval
  <2> QED
    BY <1>3, <2>2
<1>6. rank \in Surjection(1 .. n, 0 .. n - 1)
  <2> HIDE DEF rank
  <2> QED
    BY <1>4, <1>5, FS_Injection
<1>7. m - 1 \in 0 .. n - 1
  BY <1>3
<1>8. \E i \in 1 .. n : rank[i] = m - 1
  <2> HIDE DEF rank
  <2> QED
    BY <1>6, <1>7 DEF Surjection
<1> QED
  BY <1>8

-----------------------------------------------------------------------------
(* The curves of an item that fits *)

LEMMA ArrayIsTyped ==
  ASSUME NEW d \in DocumentSet, NEW id \in Nat, InBounds(d, id)
  PROVE  Array(d, id) \in Arrays
<1>1. GroupOf(id) \in Nat /\ IndexOf(id) \in Nat
  BY IdIs, XGenDocumentAssumption
<1>2. d.groups \in Seq(Seq(Arrays))
  BY DEF DocumentSet
<1>3. At(d.groups, GroupOf(id)) \in Seq(Arrays)
  BY <1>1, <1>2 DEF InBounds, At
<1> QED
  BY <1>1, <1>3 DEF InBounds, Array, At

LEMMA HeldIsTyped ==
  ASSUME NEW d \in DocumentSet, NEW id \in Nat, NEW tag, Holds(d, id, tag)
  PROVE  /\ Array(d, id) \in Arrays /\ Data(d, id) \in Seq(Values) /\ Len(Data(d, id)) \in Nat
         /\ tag = "uint32" => Data(d, id) \in Seq(Nat)
<1>1. Array(d, id) \in Arrays
  BY ArrayIsTyped DEF Holds
<1>2. Data(d, id) \in Seq(Values) /\ (tag = "uint32" => Data(d, id) \in Seq(Nat))
  BY <1>1 DEF Holds, Arrays, Data
<1> QED
  BY <1>1, <1>2

\* The words of one curve are within PrimitiveInfos.
LEMMA InfoPlaces ==
  ASSUME NEW n \in Nat \ {0}, NEW len \in Nat, len % n = 0, NEW st, st = len \div n, st >= 2,
         NEW p \in 0 .. n - 1
  PROVE  st \in Nat /\ p * st \in Nat /\ p * st + 2 <= len
<1>1. st \in Nat /\ len = n * st
  BY SMTT(60)
<1>2. PICK k \in Nat : n = p + 1 + k
  <2>1. n - p - 1 \in Nat /\ n = p + 1 + (n - p - 1)
    OBVIOUS
  <2> QED
    BY <2>1
<1>3. n * st = p * st + st + k * st /\ p * st \in Nat /\ k * st \in Nat
  <2>1. p \in Nat
    OBVIOUS
  <2>2. (p + 1 + k) * st = p * st + st + k * st
    BY <1>1, <2>1, SMTT(60)
  <2>3. p * st \in Nat /\ k * st \in Nat
    BY <1>1, <2>1
  <2> QED
    BY <1>2, <2>2, <2>3
<1> QED
  BY <1>1, <1>3

LEMMA InfosTyped ==
  ASSUME NEW d \in DocumentSet, NEW it \in ItemSet,
         Holds(d, it.infos, "uint32"), Holds(d, it.faceIds, "uint32"), InfosFit(d, it)
  PROVE  /\ Len(Data(d, it.faceIds)) \in Nat \ {0} /\ Stride(d, it) \in Nat
         /\ \A p \in Primitives(d, it) :
              First(d, it, Stride(d, it), p) \in Nat /\ Count(d, it, Stride(d, it), p) \in Nat
<1>1. Data(d, it.faceIds) \in Seq(Nat) /\ Data(d, it.infos) \in Seq(Nat)
  <2>1. it.infos \in Nat /\ it.faceIds \in Nat
    BY DEF ItemSet
  <2> QED
    BY <2>1, HeldIsTyped
<1>3. Len(Data(d, it.faceIds)) \in Nat \ {0} /\ Len(Data(d, it.infos)) \in Nat
  BY <1>1 DEF InfosFit
<1>4. /\ Len(Data(d, it.infos)) % Len(Data(d, it.faceIds)) = 0 /\ Stride(d, it) >= 2
      /\ Stride(d, it) = Len(Data(d, it.infos)) \div Len(Data(d, it.faceIds))
  BY DEF InfosFit, Stride
<1>5. ASSUME NEW p \in Primitives(d, it)
      PROVE  /\ Stride(d, it) \in Nat /\ p * Stride(d, it) \in Nat
             /\ p * Stride(d, it) + 2 <= Len(Data(d, it.infos))
  <2>1. p \in 0 .. Len(Data(d, it.faceIds)) - 1
    BY DEF Primitives
  <2> QED
    BY <1>3, <1>4, <2>1, InfoPlaces
<1>6. Stride(d, it) \in Nat
  <2>1. 0 \in Primitives(d, it)
    BY <1>3 DEF Primitives
  <2> QED
    BY <1>5, <2>1
<1>7. ASSUME NEW p \in Primitives(d, it)
      PROVE  First(d, it, Stride(d, it), p) \in Nat /\ Count(d, it, Stride(d, it), p) \in Nat
  <2>1. PICK w : w = p * Stride(d, it)
    OBVIOUS
  <2>2. w \in Nat /\ w + 2 <= Len(Data(d, it.infos))
    BY <1>5, <2>1
  <2>3. w + 1 \in 1 .. Len(Data(d, it.infos)) /\ w + 1 + 1 \in 1 .. Len(Data(d, it.infos))
    BY <1>3, <2>2
  <2>4. Data(d, it.infos)[w + 1] \in Nat /\ Data(d, it.infos)[w + 1 + 1] \in Nat
    BY <1>1, <2>3
  <2> QED
    BY <2>1, <2>4 DEF First, Count, At
<1> QED
  BY <1>3, <1>6, <1>7

LEMMA ShapedItem ==
  ASSUME NEW d \in DocumentSet, NEW it \in ItemSet, ShapesFit(d, it), ChannelsFit(d, it)
  PROVE  /\ Len(Data(d, it.faceIds)) \in Nat \ {0} /\ Stride(d, it) \in Nat
         /\ Data(d, it.positions) \in Seq(Values) /\ Data(d, it.widths) \in Seq(Values)
         /\ Data(d, it.patchUVs) \in Seq(Values) /\ Data(d, it.faceUVs) \in Seq(Values)
         /\ Data(d, it.faceIds) \in Seq(Nat) /\ Data(d, it.infos) \in Seq(Nat)
         /\ Len(Data(d, it.positions)) \in Nat
         /\ Len(Data(d, it.widths)) = Len(Data(d, it.positions))
         /\ Len(Data(d, it.patchUVs)) = Len(Data(d, it.positions))
         /\ Len(Data(d, it.faceUVs)) = Len(Data(d, it.faceIds))
         /\ \A p \in Primitives(d, it) :
              First(d, it, Stride(d, it), p) \in Nat /\ Count(d, it, Stride(d, it), p) \in Nat
<1>1. /\ Data(d, it.positions) \in Seq(Values) /\ Data(d, it.widths) \in Seq(Values)
      /\ Data(d, it.patchUVs) \in Seq(Values) /\ Data(d, it.faceUVs) \in Seq(Values)
      /\ Data(d, it.faceIds) \in Seq(Nat) /\ Data(d, it.infos) \in Seq(Nat)
  <2>1. /\ it.infos \in Nat /\ it.positions \in Nat /\ it.widths \in Nat
        /\ it.patchUVs \in Nat /\ it.faceUVs \in Nat /\ it.faceIds \in Nat
    BY DEF ItemSet
  <2> QED
    BY <2>1, HeldIsTyped DEF ShapesFit, ChannelsFit
<1>2. /\ Len(Data(d, it.widths)) = Len(Data(d, it.positions))
      /\ Len(Data(d, it.patchUVs)) = Len(Data(d, it.positions))
      /\ Len(Data(d, it.faceUVs)) = Len(Data(d, it.faceIds))
  BY DEF ShapesFit, ChannelsFit
<1>3. Holds(d, it.infos, "uint32") /\ Holds(d, it.faceIds, "uint32") /\ InfosFit(d, it)
  BY DEF ShapesFit, ChannelsFit
<1> QED
  BY <1>1, <1>2, <1>3, InfosTyped

\* A part of a sequence, by its places.
LEMMA PartIs ==
  ASSUME NEW X, NEW s \in Seq(X), NEW first \in Nat, NEW count \in Nat, first + count <= Len(s)
  PROVE  LET part == SubSeq(s, first + 1, first + count)
         IN  /\ part \in Seq(X) /\ Len(part) = count /\ DOMAIN part = 1 .. count
             /\ \A k \in 1 .. count : part[k] = s[first + k] /\ first + k \in 1 .. Len(s)
<1> DEFINE part == SubSeq(s, first + 1, first + count)
<1>1. Len(s) \in Nat
  OBVIOUS
<1>2. part = [k \in 1 .. first + count - (first + 1) + 1 |-> s[k + (first + 1) - 1]]
  OBVIOUS
<1>3. first + count - (first + 1) + 1 = count
  OBVIOUS
<1>4. part = [k \in 1 .. count |-> s[k + (first + 1) - 1]]
  BY <1>2, <1>3
<1> HIDE DEF part
<1>5. \A k \in 1 .. count : k + (first + 1) - 1 = first + k /\ first + k \in 1 .. Len(s) /\ s[first + k] \in X
  BY <1>1
<1>6. part \in [1 .. count -> X]
  BY <1>4, <1>5
<1>7. part \in Seq(X) /\ Len(part) = count /\ DOMAIN part = 1 .. count
  BY <1>6
<1>8. \A k \in 1 .. count : part[k] = s[first + k]
  BY <1>4, <1>5
<1> QED
  BY <1>5, <1>7, <1>8 DEF part

LEMMA SpanIs ==
  ASSUME NEW d \in DocumentSet, NEW it \in ItemSet, ShapesFit(d, it), ChannelsFit(d, it),
         NEW p \in Primitives(d, it), RangeFits(d, it, Stride(d, it), p),
         NEW id \in {it.positions, it.widths, it.patchUVs}
  PROVE  LET span == Span(d, it, id, Stride(d, it), p)
             first == First(d, it, Stride(d, it), p)
             count == Count(d, it, Stride(d, it), p)
         IN  /\ span \in Seq(Values) /\ Len(span) = count /\ DOMAIN span = 1 .. count
             /\ count >= 2
             /\ \A k \in 1 .. count : span[k] = Data(d, id)[first + k]
                                        /\ first + k \in 1 .. Len(Data(d, it.positions))
<1> DEFINE first == First(d, it, Stride(d, it), p)
           count == Count(d, it, Stride(d, it), p)
<1>1. /\ first \in Nat /\ count \in Nat /\ count >= 2 /\ first + count <= Len(Data(d, it.positions))
      /\ Data(d, id) \in Seq(Values) /\ Len(Data(d, id)) = Len(Data(d, it.positions))
  BY ShapedItem DEF RangeFits
<1>2. Span(d, it, id, Stride(d, it), p) = SubSeq(Data(d, id), first + 1, first + count)
  BY DEF Span
<1> HIDE DEF first, count
<1>3. LET part == SubSeq(Data(d, id), first + 1, first + count)
      IN  /\ part \in Seq(Values) /\ Len(part) = count /\ DOMAIN part = 1 .. count
          /\ \A k \in 1 .. count : part[k] = Data(d, id)[first + k] /\ first + k \in 1 .. Len(Data(d, id))
  BY <1>1, PartIs
<1> QED
  BY <1>1, <1>2, <1>3 DEF first, count

LEMMA CurveIsTyped ==
  ASSUME NEW d \in DocumentSet, NEW it \in ItemSet, ItemFits(d, it), NEW p \in Primitives(d, it)
  PROVE  CurveAt(d, it, p) \in CurveSet
<1> DEFINE st == Stride(d, it)
           pos == Span(d, it, it.positions, st, p)
           wid == Span(d, it, it.widths, st, p)
           uvs == Span(d, it, it.patchUVs, st, p)
           count == Count(d, it, st, p)
           first == First(d, it, st, p)
<1>1. /\ ShapesFit(d, it) /\ ChannelsFit(d, it) /\ RangeFits(d, it, st, p)
      /\ Finite(At(Data(d, it.faceUVs), p)) /\ GoodPoints(d, it, st, p) /\ AllFinite(uvs)
  BY DEF ItemFits
<1>2. /\ pos \in Seq(Values) /\ wid \in Seq(Values) /\ uvs \in Seq(Values)
      /\ DOMAIN pos = 1 .. count /\ DOMAIN wid = 1 .. count /\ DOMAIN uvs = 1 .. count
      /\ Len(pos) = count /\ Len(wid) = count /\ count \in Nat /\ count >= 2 /\ first \in Nat
      /\ uvs[1] = Data(d, it.patchUVs)[first + 1]
  <2>1. count \in Nat /\ first \in Nat /\ count >= 2
    BY <1>1, ShapedItem DEF RangeFits
  <2>2. /\ pos \in Seq(Values) /\ DOMAIN pos = 1 .. count /\ Len(pos) = count
    BY <1>1, SpanIs
  <2>3. /\ wid \in Seq(Values) /\ DOMAIN wid = 1 .. count /\ Len(wid) = count
    BY <1>1, SpanIs
  <2>4. /\ uvs \in Seq(Values) /\ DOMAIN uvs = 1 .. count
        /\ \A k \in 1 .. count : uvs[k] = Data(d, it.patchUVs)[first + k]
    BY <1>1, SpanIs
  <2>5. 1 \in 1 .. count
    BY <2>1
  <2> QED
    BY <2>1, <2>2, <2>3, <2>4, <2>5
<1>3. /\ \A i \in DOMAIN pos : Finite(pos[i]) 
      /\ \A i \in DOMAIN wid : Finite(wid[i]) /\ wid[i] >= 0
      /\ \A i \in DOMAIN uvs : Finite(uvs[i])
  BY <1>1 DEF GoodPoints, AllFinite, Range
<1>4. Data(d, it.faceIds)[p + 1] \in Nat /\ Data(d, it.faceUVs)[p + 1] \in Int
  <2>1. p + 1 \in 1 .. Len(Data(d, it.faceIds))
    BY <1>1, ShapedItem DEF Primitives
  <2>2. /\ Data(d, it.faceIds) \in Seq(Nat) /\ Data(d, it.faceUVs) \in Seq(Values)
        /\ Len(Data(d, it.faceUVs)) = Len(Data(d, it.faceIds))
    BY <1>1, ShapedItem
  <2>3. Data(d, it.faceIds)[p + 1] \in Nat /\ Data(d, it.faceUVs)[p + 1] \in Values
    BY <2>1, <2>2
  <2> QED
    BY <1>1, <2>3 DEF Finite, Values, At
<1>5. CurveAt(d, it, p) =
        [key |-> <<Data(d, it.faceIds)[p + 1], Data(d, it.faceUVs)[p + 1], uvs[1]>>,
         positions |-> pos, widths |-> wid]
  BY <1>2 DEF CurveAt, At
<1> HIDE DEF pos, wid, uvs, count, st, first
<1>6. /\ \A i \in DOMAIN pos : pos[i] \in Int
      /\ \A i \in DOMAIN wid : wid[i] \in Nat
      /\ \A i \in DOMAIN uvs : uvs[i] \in Int
  <2>1. \A i \in 1 .. count : pos[i] \in Values /\ wid[i] \in Values /\ uvs[i] \in Values
    BY <1>2
  <2> QED
    BY <1>2, <1>3, <2>1 DEF Values, Finite
<1>7. pos \in Seq(Int) /\ wid \in Seq(Nat) /\ uvs[1] \in Int
  <2>1. pos \in Seq(Int)
    BY <1>2, <1>6
  <2>2. wid \in Seq(Nat)
    BY <1>2, <1>6
  <2>3. 1 \in DOMAIN uvs
    BY <1>2
  <2>4. uvs[1] \in Int
    BY <1>6, <2>3
  <2> QED
    BY <2>1, <2>2, <2>4
<1> QED
  BY <1>2, <1>4, <1>5, <1>7 DEF CurveSet

\* So is every list of curves.
LEMMA CurvesAreTyped ==
  ASSUME NEW d \in DocumentSet, \A i \in DOMAIN d.items : ItemFits(d, d.items[i])
  PROVE  /\ DOMAIN d.items = 1 .. Len(d.items) /\ Len(d.items) \in Nat
         /\ CurveLists(d) \in [1 .. Len(d.items) -> Seq(CurveSet)]
<1>1. DOMAIN d.items = 1 .. Len(d.items) /\ Len(d.items) \in Nat
  BY DEF DocumentSet
<1>2. ASSUME NEW i \in DOMAIN d.items
      PROVE  [k \in 1 .. Len(Data(d, d.items[i].faceIds)) |-> CurveAt(d, d.items[i], k - 1)] \in Seq(CurveSet)
  <2> DEFINE it == d.items[i]
             n == Len(Data(d, it.faceIds))
  <2>1. it \in ItemSet /\ ItemFits(d, it)
    BY ItemIds
  <2>2. n \in Nat
    BY <2>1, ShapedItem DEF ItemFits
  <2>3. \A k \in 1 .. n : CurveAt(d, it, k - 1) \in CurveSet
    <3> TAKE k \in 1 .. n
    <3>1. k - 1 \in Primitives(d, it)
      BY <2>2 DEF Primitives
    <3> QED
      BY <2>1, <3>1, CurveIsTyped
  <2> HIDE DEF n, it
  <2>4. [k \in 1 .. n |-> CurveAt(d, it, k - 1)] \in Seq(CurveSet)
    BY <2>2, <2>3
  <2> QED
    BY <2>4 DEF n, it
<1> QED
  BY <1>1, <1>2 DEF CurveLists

-----------------------------------------------------------------------------
(* ReadersAgree *)

\* The renderer's entry for a curve.
PackedOf(c) == [key |-> c.key, points |-> Points(c.positions, c.widths)]
PointsOnly(c) == [key |-> <<>>, points |-> Points(c.positions, c.widths)]

LEMMA CanonicalFits ==
  ASSUME NEW d, NEW it
  PROVE  /\ PackedItemFits(d, it, "canonical") <=> ItemFits(d, it)
         /\ PackedCount(d, it, "canonical") = Len(Data(d, it.faceIds))
         /\ \A p : PackedCurve(d, it, "canonical", p) = PackedOf(CurveAt(d, it, p))
<1>1. /\ PackedStride(d, it, "canonical") = Stride(d, it)
      /\ PackedCount(d, it, "canonical") = Len(Data(d, it.faceIds))
      /\ PackedShapesFit(d, it, "canonical") <=> ShapesFit(d, it) /\ ChannelsFit(d, it)
  BY DEF PackedStride, PackedCount, PackedShapesFit
<1>2. PackedItemFits(d, it, "canonical") <=> ItemFits(d, it)
  BY <1>1 DEF PackedItemFits, ItemFits, UVsFit, Primitives
<1>3. ASSUME NEW p PROVE PackedCurve(d, it, "canonical", p) = PackedOf(CurveAt(d, it, p))
  BY <1>1 DEF PackedCurve, PackedOf, CurveAt
<1> QED
  BY <1>1, <1>2, <1>3

\* In source order with infos of three words: the same curves, without identities.
LEMMA SourceFits ==
  ASSUME NEW d \in DocumentSet, NEW it \in ItemSet, ItemFits(d, it), Stride(d, it) = 3
  PROVE  /\ PackedItemFits(d, it, "source")
         /\ PackedCount(d, it, "source") = Len(Data(d, it.faceIds))
         /\ \A p : PackedCurve(d, it, "source", p) = PointsOnly(CurveAt(d, it, p))
<1>1. ShapesFit(d, it) /\ ChannelsFit(d, it)
  BY DEF ItemFits
<1>2. /\ PackedStride(d, it, "source") = 3 /\ PackedCount(d, it, "source") = Len(Data(d, it.infos)) \div 3
      /\ PackedShapesFit(d, it, "source") <=>
           ShapesFit(d, it) /\ Data(d, it.infos) # <<>> /\ Len(Data(d, it.infos)) % 3 = 0
  BY DEF PackedStride, PackedCount, PackedShapesFit
<1>3. PICK n, len : n = Len(Data(d, it.faceIds)) /\ len = Len(Data(d, it.infos))
  OBVIOUS
<1>4. /\ n \in Nat \ {0} /\ len \in Nat /\ len % n = 0 /\ len \div n = 3
      /\ Data(d, it.infos) \in Seq(Nat)
  BY <1>1, <1>3, ShapedItem DEF ChannelsFit, InfosFit, Stride
<1>5. len = 3 * n /\ len \div 3 = n /\ len % 3 = 0 /\ len # 0
  <2>1. len = 3 * n
    BY <1>4, SMTT(60)
  <2>2. \A k \in Nat \ {0} : (3 * k) \div 3 = k /\ (3 * k) % 3 = 0 /\ 3 * k # 0
    OBVIOUS
  <2> QED
    BY <1>4, <2>1, <2>2
<1>6. PackedShapesFit(d, it, "source") /\ PackedCount(d, it, "source") = n
  <2>1. Data(d, it.infos) # <<>>
    <3>1. Data(d, it.infos) = <<>> => Len(Data(d, it.infos)) = 0
      OBVIOUS
    <3> QED
      BY <1>3, <1>5, <3>1
  <2> QED
    BY <1>1, <1>2, <1>3, <1>5, <2>1
<1>7. PackedItemFits(d, it, "source")
  BY <1>2, <1>3, <1>6 DEF PackedItemFits, ItemFits, Primitives
<1>8. ASSUME NEW p PROVE PackedCurve(d, it, "source", p) = PointsOnly(CurveAt(d, it, p))
  BY <1>2 DEF PackedCurve, PointsOnly, CurveAt
<1> QED
  BY <1>3, <1>6, <1>7, <1>8

LEMMA FittingCurve ==
  ASSUME NEW d \in DocumentSet, NEW i \in DOMAIN d.items, ItemFits(d, d.items[i]),
         NEW k \in 1 .. Len(Data(d, d.items[i].faceIds))
  PROVE  CurveAt(d, d.items[i], k - 1) \in CurveSet
<1>1. d.items[i] \in ItemSet
  BY ItemIds
<1>2. Len(Data(d, d.items[i].faceIds)) \in Nat
  BY <1>1, ShapedItem DEF ItemFits
<1>3. k - 1 \in Primitives(d, d.items[i])
  BY <1>2 DEF Primitives
<1> QED
  BY <1>1, <1>3, CurveIsTyped

\* The packed entries go with the curves, one for one.
LEMMA EntriesTogether ==
  ASSUME NEW d \in DocumentSet, NEW order \in Orders, NEW f,
         \A i \in DOMAIN d.items :
           /\ ItemFits(d, d.items[i])
           /\ PackedCount(d, d.items[i], order) = Len(Data(d, d.items[i].faceIds))
           /\ \A k \in 1 .. Len(Data(d, d.items[i].faceIds)) :
                PackedCurve(d, d.items[i], order, k - 1) = f[CurveAt(d, d.items[i], k - 1)]
  PROVE  LET s == FlattenSeq(CurveLists(d))
             t == FlattenSeq(PackedLists(d, order))
         IN  /\ s \in Seq(CurveSet) /\ Len(t) = Len(s) /\ DOMAIN t = 1 .. Len(s) /\ DOMAIN s = 1 .. Len(s)
             /\ \A m \in 1 .. Len(s) : t[m] = f[s[m]]
<1> DEFINE n == Len(d.items)
           a == CurveLists(d)
           b == PackedLists(d, order)
           Y == {f[c] : c \in CurveSet}
<1>1. DOMAIN d.items = 1 .. n /\ n \in Nat /\ a \in [1 .. n -> Seq(CurveSet)]
  BY CurvesAreTyped
<1>2. ASSUME NEW i \in 1 .. n
      PROVE  Len(b[i]) = Len(a[i]) /\ b[i] \in Seq(Y) /\ \A k \in 1 .. Len(a[i]) : b[i][k] = f[a[i][k]]
  <2>1. PICK c : c = Len(Data(d, d.items[i].faceIds))
    OBVIOUS
  <2>2. /\ a[i] = [k \in 1 .. c |-> CurveAt(d, d.items[i], k - 1)]
        /\ b[i] = [k \in 1 .. c |-> f[CurveAt(d, d.items[i], k - 1)]]
    BY <1>1, <2>1 DEF CurveLists, PackedLists
  <2>3. a[i] \in Seq(CurveSet)
    BY <1>1
  <2>4. c \in Nat
    <3>1. d.items[i] \in ItemSet /\ ItemFits(d, d.items[i])
      BY <1>1, ItemIds
    <3> QED
      BY <2>1, <3>1, ShapedItem DEF ItemFits
  <2>5. Len(a[i]) = c /\ Len(b[i]) = c
    BY <2>2, <2>4
  <2>6. \A k \in 1 .. c : b[i][k] = f[a[i][k]] /\ a[i][k] \in CurveSet
    <3>1. \A k \in 1 .. Len(a[i]) : a[i][k] \in CurveSet
      BY <2>3
    <3> QED
      BY <2>2, <2>5, <3>1
  <2>7. b[i] \in [1 .. c -> Y]
    BY <2>2, <2>6
  <2> QED
    BY <2>4, <2>5, <2>6, <2>7
<1>3. b \in [1 .. n -> Seq(Y)]
  BY <1>1, <1>2 DEF PackedLists
<1>4. \A i \in 1 .. n : Len(b[i]) = Len(a[i]) /\ \A k \in 1 .. Len(a[i]) : b[i][k] = f[a[i][k]]
  BY <1>2
<1> HIDE DEF a, b, n, Y
<1> DEFINE s == FlattenSeq(a)
           t == FlattenSeq(b)
<1>5. /\ s \in Seq(CurveSet) /\ t \in Seq(Y) /\ Len(s) = Len(t)
      /\ \A m \in 1 .. Len(s) : \E i \in 1 .. n : \E k \in 1 .. Len(a[i]) : s[m] = a[i][k] /\ t[m] = b[i][k]
  <2>1. SameLengths(a, b, n)
    BY <1>4 DEF SameLengths
  <2>2. Together(FlattenSeq(a), FlattenSeq(b), a, b, n, CurveSet, Y)
    BY <1>1, <1>3, <2>1, FlattenTogether
  <2> QED
    BY <2>2 DEF Together
<1> HIDE DEF s, t
<1>6. \A m \in 1 .. Len(s) : t[m] = f[s[m]]
  BY <1>4, <1>5, SMTT(30)
<1>7. DOMAIN t = 1 .. Len(s) /\ DOMAIN s = 1 .. Len(s)
  BY <1>5
<1> QED
  BY <1>5, <1>6, <1>7 DEF s, t, a, b

\* Sequences with the same keys are arranged the same way.
SameKeys(s, t, n) ==
  Keyed(s, n) /\ DOMAIN t = 1 .. n /\ \A m \in 1 .. n : t[m].key = s[m].key

SameArrangement(s, t, n) ==
  /\ Duplicates(t) = Duplicates(s)
  /\ DOMAIN Canonical(s) = 1 .. n /\ DOMAIN Canonical(t) = 1 .. n
  /\ \A m \in 1 .. n : \E i \in 1 .. n : Canonical(s)[m] = s[i] /\ Canonical(t)[m] = t[i]

LEMMA ArrangedTogether ==
  ASSUME NEW s, NEW t, NEW n, SameKeys(s, t, n)
  PROVE  SameArrangement(s, t, n)
<1>0. Keyed(s, n) /\ DOMAIN t = 1 .. n /\ \A m \in 1 .. n : t[m].key = s[m].key
  BY DEF SameKeys
<1>1. DOMAIN s = 1 .. n /\ n \in Nat
  BY <1>0 DEF Keyed
<1>2. Duplicates(t) = Duplicates(s)
  BY <1>0, <1>1 DEF Duplicates, SameIdentity
<1>3. \A i \in 1 .. n : Before(t, i) = Before(s, i)
  BY <1>0, <1>1 DEF Before
<1>4. DOMAIN Canonical(s) = 1 .. n /\ DOMAIN Canonical(t) = 1 .. n
  BY <1>0, <1>1 DEF Canonical
<1>5. ASSUME NEW m \in 1 .. n
      PROVE  \E i \in 1 .. n : Canonical(s)[m] = s[i] /\ Canonical(t)[m] = t[i]
  <2>1. \E i \in 1 .. n : Cardinality(Before(s, i)) = m - 1
    BY <1>0, RankFound
  <2>2. PICK i : i = CHOOSE j \in 1 .. n : Cardinality(Before(s, j)) = m - 1
    OBVIOUS
  <2>3. i \in 1 .. n
    BY <2>1, <2>2
  <2>4. (CHOOSE j \in 1 .. n : Cardinality(Before(t, j)) = m - 1) =
        (CHOOSE j \in 1 .. n : Cardinality(Before(s, j)) = m - 1)
    BY <1>3
  <2>5. Canonical(s)[m] = s[i]
    BY <1>1, <2>2 DEF Canonical
  <2>6. Canonical(t)[m] = t[i]
    BY <1>0, <1>1, <2>2, <2>4 DEF Canonical
  <2> QED
    BY <2>3, <2>5, <2>6
<1> QED
  BY <1>2, <1>4, <1>5 DEF SameArrangement

LEMMA CurvesAreKeyed ==
  ASSUME NEW s \in Seq(CurveSet)
  PROVE  Keyed(s, Len(s))
<1>1. Len(s) \in Nat /\ DOMAIN s = 1 .. Len(s) /\ \A i \in 1 .. Len(s) : s[i] \in CurveSet
  OBVIOUS
<1> QED
  BY <1>1 DEF Keyed, CurveSet, Keys

LEMMA PackedIsPoints ==
  ASSUME NEW d \in DocumentSet
  PROVE  Pack(d, "canonical") = PointsOf(Materialize(d, "canonical"))
<1>0. Invalid = PointsOf(Invalid) /\ Invalid = OnlyPoints(Invalid)
  BY DEF Invalid, PointsOf, OnlyPoints
<1>1. CASE ~(d.items # <<>> /\ \A i \in DOMAIN d.items : ItemFits(d, d.items[i]))
  <2>1. Materialize(d, "canonical") = Invalid
    BY <1>1, MaterializeIs
  <2>2. Pack(d, "canonical") = Invalid
    BY <1>1, PackIs, CanonicalFits
  <2> QED
    BY <1>0, <2>1, <2>2
<1>2. CASE d.items # <<>> /\ \A i \in DOMAIN d.items : ItemFits(d, d.items[i])
  <2> DEFINE s == FlattenSeq(CurveLists(d))
             t == FlattenSeq(PackedLists(d, "canonical"))
             n == Len(s)
             f == [c \in CurveSet |-> PackedOf(c)]
  <2>1. Materialize(d, "canonical") = IF Duplicates(s) THEN Invalid ELSE Canonical(s)
    BY <1>2, MaterializeIs DEF Arranged
  <2>2. Pack(d, "canonical") = OnlyPoints(IF Duplicates(t) THEN Invalid ELSE Canonical(t))
    BY <1>2, PackIs, CanonicalFits DEF Arranged
  <2>3. /\ s \in Seq(CurveSet) /\ Len(t) = n /\ DOMAIN t = 1 .. n /\ DOMAIN s = 1 .. n
        /\ \A m \in 1 .. n : t[m] = PackedOf(s[m])
    <3>1. \A i \in DOMAIN d.items :
            /\ ItemFits(d, d.items[i])
            /\ PackedCount(d, d.items[i], "canonical") = Len(Data(d, d.items[i].faceIds))
            /\ \A k \in 1 .. Len(Data(d, d.items[i].faceIds)) :
                 PackedCurve(d, d.items[i], "canonical", k - 1) = f[CurveAt(d, d.items[i], k - 1)]
      BY <1>2, CanonicalFits, FittingCurve
    <3> HIDE DEF f
    <3>2. /\ s \in Seq(CurveSet) /\ Len(t) = n /\ DOMAIN t = 1 .. n /\ DOMAIN s = 1 .. n
          /\ \A m \in 1 .. n : t[m] = f[s[m]]
      BY <3>1, EntriesTogether DEF Orders
    <3>3. \A m \in 1 .. n : s[m] \in CurveSet
      BY <3>2
    <3> QED
      BY <3>2, <3>3 DEF f
  <2> HIDE DEF s, t
  <2>4. Keyed(s, n) /\ \A m \in 1 .. n : t[m].key = s[m].key /\ t[m].points = Points(s[m].positions, s[m].widths)
    BY <2>3, CurvesAreKeyed DEF PackedOf
  <2> HIDE DEF n
  <2>5. SameArrangement(s, t, n)
    <3>1. SameKeys(s, t, n)
      BY <2>3, <2>4 DEF SameKeys
    <3> QED
      BY <3>1, ArrangedTogether
  <2>6. OnlyPoints(Canonical(t)) = PointsOf(Canonical(s))
    BY <2>4, <2>5 DEF OnlyPoints, PointsOf, SameArrangement
  <2> QED
    BY <1>0, <2>1, <2>2, <2>5, <2>6 DEF SameArrangement
<1> QED
  BY <1>1, <1>2

LEMMA SourceIsPoints ==
  ASSUME NEW d \in DocumentSet, Materialize(d, "source") # Invalid, ThreeWords(d)
  PROVE  Pack(d, "source") = PointsOf(Materialize(d, "source"))
<1>1. d.items # <<>> /\ \A i \in DOMAIN d.items : ItemFits(d, d.items[i])
  BY MaterializeIs
<1> DEFINE s == FlattenSeq(CurveLists(d))
           t == FlattenSeq(PackedLists(d, "source"))
           n == Len(s)
           f == [c \in CurveSet |-> PointsOnly(c)]
<1>2. \A i \in DOMAIN d.items :
        /\ d.items[i] \in ItemSet
        /\ ItemFits(d, d.items[i]) /\ Stride(d, d.items[i]) = 3
  BY <1>1, ItemIds DEF ThreeWords
<1>3. \A i \in DOMAIN d.items :
        /\ PackedItemFits(d, d.items[i], "source")
        /\ PackedCount(d, d.items[i], "source") = Len(Data(d, d.items[i].faceIds))
        /\ \A p : PackedCurve(d, d.items[i], "source", p) = PointsOnly(CurveAt(d, d.items[i], p))
  BY <1>2, SourceFits
<1>4. Materialize(d, "source") = s
  BY <1>1, MaterializeIs DEF Arranged
<1>5. Pack(d, "source") = OnlyPoints(t)
  BY <1>1, <1>3, PackIs DEF Arranged
<1>6. /\ s \in Seq(CurveSet) /\ Len(t) = n /\ DOMAIN t = 1 .. n /\ DOMAIN s = 1 .. n
      /\ \A m \in 1 .. n : t[m] = PointsOnly(s[m])
  <2>1. \A i \in DOMAIN d.items :
          /\ ItemFits(d, d.items[i])
          /\ PackedCount(d, d.items[i], "source") = Len(Data(d, d.items[i].faceIds))
          /\ \A k \in 1 .. Len(Data(d, d.items[i].faceIds)) :
               PackedCurve(d, d.items[i], "source", k - 1) = f[CurveAt(d, d.items[i], k - 1)]
    BY <1>2, <1>3, FittingCurve
  <2> HIDE DEF f
  <2>2. /\ s \in Seq(CurveSet) /\ Len(t) = n /\ DOMAIN t = 1 .. n /\ DOMAIN s = 1 .. n
        /\ \A m \in 1 .. n : t[m] = f[s[m]]
    BY <2>1, EntriesTogether DEF Orders
  <2>3. \A m \in 1 .. n : s[m] \in CurveSet
    BY <2>2
  <2> QED
    BY <2>2, <2>3 DEF f
<1> HIDE DEF s, t
<1> QED
  BY <1>4, <1>5, <1>6 DEF OnlyPoints, PointsOf, PointsOnly

-----------------------------------------------------------------------------
(* Writing an array *)

\* Group and place make an identity.
LEMMA IdParts ==
  ASSUME NEW g \in Nat, NEW a \in 0 .. IdBase - 1
  PROVE  GroupOf(g * IdBase + a) = g /\ IndexOf(g * IdBase + a) = a /\ g * IdBase + a \in Nat
<1>1. PICK b \in Nat \ {0} : b = IdBase
  BY XGenDocumentAssumption
<1>2. a \in 0 .. b - 1
  BY <1>1
<1>3. (g * b + a) \div b = g /\ (g * b + a) % b = a /\ g * b + a \in Nat
  BY <1>1, <1>2, SMTT(60)
<1> QED
  BY <1>1, <1>3 DEF GroupOf, IndexOf

\* Two identities are one if group and place are.
LEMMA IdsApart ==
  ASSUME NEW x \in Nat, NEW y \in Nat, x # y
  PROVE  GroupOf(x) # GroupOf(y) \/ IndexOf(x) # IndexOf(y)
<1>1. x = GroupOf(x) * IdBase + IndexOf(x) /\ y = GroupOf(y) * IdBase + IndexOf(y)
  BY IdIs
<1> QED
  BY <1>1

LEMMA WriteIs ==
  ASSUME NEW d \in DocumentSet, NEW id \in Nat, InBounds(d, id), Array(d, id).tag # "uint32",
         NEW data \in Seq(Values)
  PROVE  /\ Write(d, id, data) \in DocumentSet /\ Write(d, id, data).items = d.items
         /\ \A x \in Nat : InBounds(Write(d, id, data), x) = InBounds(d, x)
         /\ \A x \in Nat : x # id /\ InBounds(d, x) => Array(Write(d, id, data), x) = Array(d, x)
         /\ Array(Write(d, id, data), id) = [Array(d, id) EXCEPT !.data = data]
<1> DEFINE e == Write(d, id, data)
           g == GroupOf(id) + 1
           a == IndexOf(id) + 1
           grown == [Array(d, id) EXCEPT !.data = data]
<1>1. /\ d.groups \in Seq(Seq(Arrays)) /\ d.items \in Seq(ItemSet)
      /\ GroupOf(id) \in Nat /\ IndexOf(id) \in Nat
  BY IdIs DEF DocumentSet
<1>2. /\ g \in DOMAIN d.groups /\ d.groups[g] \in Seq(Arrays) /\ a \in DOMAIN d.groups[g]
      /\ Array(d, id) = d.groups[g][a] /\ Array(d, id) \in Arrays
  <2>1. GroupOf(id) < Len(d.groups) /\ IndexOf(id) < Len(d.groups[g]) /\ Array(d, id) = d.groups[g][a]
    BY DEF InBounds, Array, At
  <2>2. g \in DOMAIN d.groups /\ d.groups[g] \in Seq(Arrays)
    BY <1>1, <2>1
  <2>3. a \in DOMAIN d.groups[g]
    BY <1>1, <2>1, <2>2
  <2> QED
    BY <2>1, <2>2, <2>3
<1>3. grown \in Arrays
  BY <1>2 DEF Arrays
<1>4. e = [d EXCEPT !.groups = [d.groups EXCEPT ![g] = [d.groups[g] EXCEPT ![a] = grown]]]
  BY <1>2 DEF Write
<1>5. [d.groups[g] EXCEPT ![a] = grown] \in Seq(Arrays)
  BY <1>2, <1>3
<1>6. [d.groups EXCEPT ![g] = [d.groups[g] EXCEPT ![a] = grown]] \in Seq(Seq(Arrays))
  BY <1>1, <1>2, <1>5
<1>7. e \in DocumentSet /\ e.items = d.items
  BY <1>4, <1>6 DEF DocumentSet
<1>8. /\ Len(e.groups) = Len(d.groups)
      /\ e.groups[g] = [d.groups[g] EXCEPT ![a] = grown]
      /\ \A h \in DOMAIN d.groups : h # g => e.groups[h] = d.groups[h]
      /\ e.groups[g][a] = grown
      /\ \A b \in DOMAIN d.groups[g] : b # a => e.groups[g][b] = d.groups[g][b]
  <2>1. e.groups = [d.groups EXCEPT ![g] = [d.groups[g] EXCEPT ![a] = grown]]
    BY <1>4 DEF DocumentSet
  <2>2. e.groups[g] = [d.groups[g] EXCEPT ![a] = grown]
    BY <1>2, <2>1
  <2> QED
    BY <1>1, <1>2, <2>1, <2>2
<1> HIDE DEF e, grown
<1>9. \A h \in DOMAIN d.groups : Len(e.groups[h]) = Len(d.groups[h])
  <2> TAKE h \in DOMAIN d.groups
  <2>1. CASE h = g
    BY <1>2, <1>5, <1>8, <2>1
  <2>2. CASE h # g
    BY <1>8, <2>2
  <2> QED
    BY <2>1, <2>2
<1>10. ASSUME NEW x \in Nat
       PROVE  /\ InBounds(e, x) = InBounds(d, x)
              /\ x # id /\ InBounds(d, x) => Array(e, x) = Array(d, x)
  <2>1. GroupOf(x) \in Nat /\ IndexOf(x) \in Nat
    BY IdIs, XGenDocumentAssumption
  <2>2. GroupOf(x) < Len(d.groups) => GroupOf(x) + 1 \in DOMAIN d.groups
    BY <1>1, <2>1
  <2>3. InBounds(e, x) = InBounds(d, x)
    BY <1>8, <1>9, <2>2 DEF InBounds, At
  <2>4. ASSUME x # id, InBounds(d, x) PROVE Array(e, x) = Array(d, x)
    <3>1. GroupOf(x) + 1 \in DOMAIN d.groups /\ IndexOf(x) < Len(d.groups[GroupOf(x) + 1])
      BY <2>2, <2>4 DEF InBounds, At
    <3>2. d.groups[GroupOf(x) + 1] \in Seq(Arrays)
      BY <1>1, <3>1
    <3>3. IndexOf(x) + 1 \in DOMAIN d.groups[GroupOf(x) + 1]
      BY <2>1, <3>1, <3>2
    <3>4. GroupOf(x) + 1 # g \/ IndexOf(x) + 1 # a
      BY <1>1, <2>1, <2>4, IdsApart
    <3>5. e.groups[GroupOf(x) + 1][IndexOf(x) + 1] = d.groups[GroupOf(x) + 1][IndexOf(x) + 1]
      BY <1>8, <3>1, <3>3, <3>4
    <3> QED
      BY <3>5 DEF Array, At
  <2> QED
    BY <2>3, <2>4
<1>11. Array(e, id) = grown
  BY <1>8 DEF Array, At
<1> QED
  BY <1>7, <1>10, <1>11 DEF e, grown

-----------------------------------------------------------------------------
(* Folds over the places of a sequence *)

\* A fold that exists, with what its steps are taken from.
LEMMA FoldsWithin ==
  ASSUME NEW n \in Nat, NEW S, NEW base \in S, NEW Step \in [S \X (1 .. n) -> S]
  PROVE  \E g : /\ IsFold(g, n, S, base, Step)
                /\ \A s \in SUBSET (1 .. n) : s # {} => Max(s) \in 1 .. n /\ g[s \ {Max(s)}] \in S
<1>1. PICK g : IsFold(g, n, S, base, Step)
  BY Folds, Zenon
<1>2. ASSUME NEW s \in SUBSET (1 .. n), s # {}
      PROVE  Max(s) \in 1 .. n /\ g[s \ {Max(s)}] \in S
  <2>1. Max(s) \in s
    BY <1>2, MaxIsLast
  <2>2. s \ {Max(s)} \in SUBSET (1 .. n)
    OBVIOUS
  <2> QED
    BY <1>1, <2>1, <2>2 DEF IsFold
<1> QED
  BY <1>1, <1>2

\* A sequence of steps that starts in a set stays in it.
LEMMA RunStays ==
  ASSUME NEW n \in Nat, NEW S, NEW base \in S, NEW Step \in [S \X (1 .. n) -> S], NEW h,
         h = [m \in 0 .. n |-> h[m]], h[0] = base,
         \A m \in 1 .. n : h[m - 1] \in S => h[m] = Step[<<h[m - 1], m>>]
  PROVE  IsRun(h, n, S, base, Step)
<1> DEFINE T == {m \in 0 .. n : h[m] \in S}
<1>1. 0 \in T
  OBVIOUS
<1>2. ASSUME NEW m \in 1 .. n, m - 1 \in T PROVE m \in T
  <2>1. h[m - 1] \in S /\ m \in 0 .. n
    BY <1>2
  <2>2. h[m] = Step[<<h[m - 1], m>>] /\ <<h[m - 1], m>> \in S \X (1 .. n)
    BY <2>1
  <2> QED
    BY <2>1, <2>2
<1>3. \A m \in 0 .. n : m \in T
  <2> HIDE DEF T
  <2> QED
    BY <1>1, <1>2, Induct
<1>4. \A m \in 1 .. n : m - 1 \in 0 .. n
  OBVIOUS
<1> QED
  BY <1>3, <1>4 DEF IsRun

-----------------------------------------------------------------------------
(* Moving the points of an item *)

Paths(d, it) == [1 .. Len(Data(d, it.positions)) -> Values]

\* The points before the first primitive, and after each of them.
MovesOne(h, d, it, q) ==
  LET n == Len(Data(d, it.faceIds))
      st == Stride(d, it)
  IN  /\ h \in [0 .. n -> Paths(d, it)]
      /\ h[0] = Data(d, it.positions) /\ h[n] = MovedPositions(d, it, q)
      /\ \A m \in 1 .. n :
           h[m] = MovePrimitive(h[m - 1], First(d, it, st, m - 1), Count(d, it, st, m - 1), q)

\* What process_xgen_document() asks of an item whose points move.
ItemMoves(d, it) ==
  /\ ShapesFit(d, it) /\ Holds(d, it.faceIds, "uint32") /\ InfosFit(d, it)
  /\ \A p \in Primitives(d, it) : RangeFits(d, it, Stride(d, it), p)

LEMMA MovedIsValue ==
  ASSUME NEW v \in Values, NEW root \in Values, NEW q \in ParameterSet, ParametersFit(q)
  PROVE  /\ Moved(v, root, q) \in Values
         /\ v \in Int /\ root \in Int => Moved(v, root, q) \in Int
<1>1. q.length \in Int /\ q.move \in Int
  BY DEF ParameterSet, ParametersFit, Finite, Values
<1>2. CASE Finite(v) /\ Finite(root)
  <2>1. v \in Int /\ root \in Int
    BY <1>2 DEF Finite, Values
  <2>2. (v - root) * q.length \in Int
    BY <1>1, <2>1
  <2> QED
    BY <1>1, <1>2, <2>1, <2>2 DEF Moved, Values
<1>3. CASE ~(Finite(v) /\ Finite(root))
  BY <1>3, XGenDocumentAssumption DEF Moved, Values, Finite
<1> QED
  BY <1>2, <1>3

LEMMA MoveStays ==
  ASSUME NEW L \in Nat, NEW s \in [1 .. L -> Values], NEW first \in Nat, NEW count \in Nat,
         count >= 2, first + count <= L, NEW q \in ParameterSet, ParametersFit(q)
  PROVE  MovePrimitive(s, first, count, q) \in [1 .. L -> Values]
<1>1. At(s, first) \in Values
  BY DEF At
<1>2. \A n \in 1 .. L : Moved(s[n], At(s, first), q) \in Values
  BY <1>1, MovedIsValue
<1> QED
  BY <1>2 DEF MovePrimitive

LEMMA MovesOneByOne ==
  ASSUME NEW d \in DocumentSet, NEW it \in ItemSet, ItemMoves(d, it),
         NEW q \in ParameterSet, ParametersFit(q)
  PROVE  \E h : MovesOne(h, d, it, q)
<1> DEFINE n == Len(Data(d, it.faceIds))
           L == Len(Data(d, it.positions))
           st == Stride(d, it)
           S == Paths(d, it)
           base == Data(d, it.positions)
           place == [k \in 1 .. n |-> k - 1]
           Once(s, m) == MovePrimitive(s, First(d, it, st, place[m]), Count(d, it, st, place[m]), q)
           Step == [x \in S \X (1 .. n) |-> Once(x[1], x[2])]
<1>1. /\ n \in Nat /\ L \in Nat /\ base \in S
  <2>1. it.positions \in Nat
    BY DEF ItemSet
  <2>2. Data(d, it.positions) \in Seq(Values)
    BY <2>1, HeldIsTyped DEF ItemMoves, ShapesFit
  <2> QED
    BY <2>2, InfosTyped DEF ItemMoves, ShapesFit, Paths
<1>2. ASSUME NEW s \in S, NEW m \in 1 .. n PROVE Once(s, m) \in S
  <2>1. m - 1 \in Primitives(d, it) /\ place[m] = m - 1
    BY <1>1 DEF Primitives
  <2>2. /\ First(d, it, st, m - 1) \in Nat /\ Count(d, it, st, m - 1) \in Nat
        /\ Count(d, it, st, m - 1) >= 2 /\ First(d, it, st, m - 1) + Count(d, it, st, m - 1) <= L
    BY <2>1, InfosTyped DEF ItemMoves, ShapesFit, RangeFits
  <2> HIDE DEF st, L, place
  <2>3. s \in [1 .. L -> Values]
    BY DEF Paths, L
  <2>4. Once(s, m) \in [1 .. L -> Values]
    BY <1>1, <2>1, <2>2, <2>3, MoveStays
  <2> QED
    BY <2>4 DEF Paths, L
<1>3. Step \in [S \X (1 .. n) -> S] /\ \A s \in S, m \in 1 .. n : Step[<<s, m>>] = Once(s, m)
  BY <1>2
<1>4. PICK g : /\ IsFold(g, n, S, base, Step)
               /\ \A s \in SUBSET (1 .. n) : s # {} => Max(s) \in 1 .. n /\ g[s \ {Max(s)}] \in S
  <2> HIDE DEF S, Step, n, base
  <2> QED
    BY <1>1, <1>3, FoldsWithin
<1>5. g = [s \in SUBSET (1 .. n) |-> IF s = {} THEN base ELSE Once(g[s \ {Max(s)}], Max(s))]
  <2>1. \A s \in SUBSET (1 .. n) : g[s] = IF s = {} THEN base ELSE Once(g[s \ {Max(s)}], Max(s))
    <3> HIDE DEF S, Step, n, base, Once
    <3> QED
      BY <1>3, <1>4 DEF IsFold
  <2>2. g = [s \in SUBSET (1 .. n) |-> g[s]]
    BY <1>4 DEF IsFold
  <2> QED
    BY <2>1, <2>2
<1>6. PICK f : f = CHOOSE r : r = [s \in SUBSET (1 .. n) |-> IF s = {} THEN base ELSE Once(r[s \ {Max(s)}], Max(s))]
  OBVIOUS
<1>7. f = [s \in SUBSET (1 .. n) |-> IF s = {} THEN base ELSE Once(f[s \ {Max(s)}], Max(s))]
  <2> HIDE DEF Once, base, n
  <2> QED
    BY <1>5, <1>6
<1>8. MovedPositions(d, it, q) = f[1 .. n]
  <2>1. DOMAIN place = 1 .. n
    OBVIOUS
  <2> QED
    BY <1>6, <2>1 DEF MovedPositions, FoldLeft, MapThenFoldSet
<1> DEFINE h == [m \in 0 .. n |-> f[1 .. m]]
<1>9. h[0] = base /\ \A m \in 1 .. n : h[m] = Once(h[m - 1], m)
  <2>1. f[1 .. 0] = base
    BY <1>7
  <2>2. ASSUME NEW m \in 1 .. n PROVE f[1 .. m] = Once(f[1 .. m - 1], m)
    <3>1. /\ 1 .. m \in SUBSET (1 .. n) /\ 1 .. m # {} /\ Max(1 .. m) = m
          /\ (1 .. m) \ {m} = 1 .. m - 1
      BY <1>1, UpTo
    <3> HIDE DEF Once, base, n
    <3>2. f[1 .. m] = Once(f[(1 .. m) \ {Max(1 .. m)}], Max(1 .. m))
      BY <1>7, <3>1
    <3> QED
      BY <3>1, <3>2
  <2> QED
    BY <1>1, <2>1, <2>2
<1>10. IsRun(h, n, S, base, Step)
  <2>1. h = [m \in 0 .. n |-> h[m]]
    OBVIOUS
  <2>2. \A m \in 1 .. n : h[m - 1] \in S => h[m] = Step[<<h[m - 1], m>>]
    BY <1>3, <1>9
  <2> HIDE DEF h, Step, S, n, base
  <2> QED
    BY <1>1, <1>3, <1>9, <2>1, <2>2, RunStays
<1>11. h[n] = f[1 .. n]
  BY <1>1
<1>12. \A m \in 1 .. n : h[m] = MovePrimitive(h[m - 1], First(d, it, st, m - 1), Count(d, it, st, m - 1), q)
  <2>1. \A m \in 1 .. n : place[m] = m - 1
    OBVIOUS
  <2> HIDE DEF h, place, n, st
  <2> QED
    BY <1>9, <2>1
<1> HIDE DEF h
<1>13. MovesOne(h, d, it, q)
  BY <1>8, <1>9, <1>10, <1>11, <1>12 DEF MovesOne, IsRun
<1> QED
  BY <1>13

LEMMA MovedIsTyped ==
  ASSUME NEW d \in DocumentSet, NEW it \in ItemSet, ItemMoves(d, it),
         NEW q \in ParameterSet, ParametersFit(q)
  PROVE  /\ MovedPositions(d, it, q) \in Seq(Values)
         /\ Len(MovedPositions(d, it, q)) = Len(Data(d, it.positions))
<1>1. PICK h : MovesOne(h, d, it, q)
  BY MovesOneByOne
<1>2. Len(Data(d, it.faceIds)) \in Nat /\ Len(Data(d, it.positions)) \in Nat
  <2>1. it.positions \in Nat
    BY DEF ItemSet
  <2> QED
    BY <2>1, HeldIsTyped, InfosTyped DEF ItemMoves, ShapesFit
<1>3. MovedPositions(d, it, q) \in [1 .. Len(Data(d, it.positions)) -> Values]
  BY <1>1, <1>2 DEF MovesOne, Paths
<1> QED
  BY <1>2, <1>3

\* No other curve of the item has a point of curve p.
IsApart(d, it, p) == \A o \in Primitives(d, it) : o # p => Disjoint(d, it, p, o)

\* A curve that shares no points is moved about its own root, and by itself.
LEMMA MovedApart ==
  ASSUME NEW d \in DocumentSet, NEW it \in ItemSet, ItemMoves(d, it),
         NEW q \in ParameterSet, ParametersFit(q),
         NEW p \in Primitives(d, it), IsApart(d, it, p), NEW k \in 1 .. Count(d, it, Stride(d, it), p)
  PROVE  MovedPositions(d, it, q)[First(d, it, Stride(d, it), p) + k] =
           Moved(Data(d, it.positions)[First(d, it, Stride(d, it), p) + k],
                 Data(d, it.positions)[First(d, it, Stride(d, it), p) + 1], q)
<1>1. PICK h : MovesOne(h, d, it, q)
  BY MovesOneByOne
<1>2. PICK n, L, D, F, C :
        /\ n = Len(Data(d, it.faceIds)) /\ L = Len(Data(d, it.positions)) /\ D = Data(d, it.positions)
        /\ F = [r \in Primitives(d, it) |-> First(d, it, Stride(d, it), r)]
        /\ C = [r \in Primitives(d, it) |-> Count(d, it, Stride(d, it), r)]
  OBVIOUS
<1>3. /\ n \in Nat /\ L \in Nat /\ Primitives(d, it) = 0 .. n - 1
      /\ F \in [0 .. n - 1 -> Nat] /\ C \in [0 .. n - 1 -> Nat]
      /\ \A r \in 0 .. n - 1 : C[r] >= 2 /\ F[r] + C[r] <= L
  <2>1. it.positions \in Nat
    BY DEF ItemSet
  <2>2. n \in Nat /\ L \in Nat
    BY <1>2, <2>1, HeldIsTyped, InfosTyped DEF ItemMoves, ShapesFit
  <2>3. Primitives(d, it) = 0 .. n - 1
    BY <1>2 DEF Primitives
  <2>4. \A r \in Primitives(d, it) :
          /\ First(d, it, Stride(d, it), r) \in Nat /\ Count(d, it, Stride(d, it), r) \in Nat
          /\ Count(d, it, Stride(d, it), r) >= 2
          /\ First(d, it, Stride(d, it), r) + Count(d, it, Stride(d, it), r) <= L
    BY <1>2, InfosTyped DEF ItemMoves, ShapesFit, RangeFits
  <2> QED
    BY <1>2, <2>2, <2>3, <2>4
<1>4. p \in 0 .. n - 1 /\ \A r \in 0 .. n - 1 : r # p => F[p] + C[p] <= F[r] \/ F[r] + C[r] <= F[p]
  BY <1>2, <1>3 DEF IsApart, Disjoint
<1>5. /\ h \in [0 .. n -> [1 .. L -> Values]] /\ h[0] = D /\ h[n] = MovedPositions(d, it, q)
      /\ \A m \in 1 .. n : h[m] = MovePrimitive(h[m - 1], F[m - 1], C[m - 1], q)
  <2>1. \A m \in 1 .. n : m - 1 \in 0 .. n - 1
    BY <1>3
  <2> QED
    BY <1>1, <1>2, <1>3, <2>1 DEF MovesOne, Paths
<1> DEFINE T == {m \in 0 .. n : \A j \in 1 .. C[p] :
                   h[m][F[p] + j] = IF p < m THEN Moved(D[F[p] + j], D[F[p] + 1], q) ELSE D[F[p] + j]}
<1>6. 0 \in T
  BY <1>3, <1>4, <1>5
<1>7. ASSUME NEW m \in 1 .. n, m - 1 \in T PROVE m \in T
  <2> SUFFICES ASSUME NEW j \in 1 .. C[p]
               PROVE  h[m][F[p] + j] = IF p < m THEN Moved(D[F[p] + j], D[F[p] + 1], q) ELSE D[F[p] + j]
    BY <1>3, <1>4
  <2>1. PICK b : b = m - 1
    OBVIOUS
  <2>2. b \in 0 .. n /\ b \in 0 .. n - 1 /\ h[b] \in [1 .. L -> Values] /\ h[m] = MovePrimitive(h[b], F[b], C[b], q)
    BY <1>3, <1>5, <2>1
  <2>3. PICK x : x = F[p] + j
    OBVIOUS
  <2>4. /\ F[p] \in Nat /\ C[p] \in Nat /\ F[b] \in Nat /\ C[b] \in Nat /\ C[b] >= 2 /\ F[p] + C[p] <= L
        /\ x \in 1 .. L /\ 1 \in 1 .. C[b] /\ x - 1 \in F[p] .. F[p] + C[p] - 1
    <3>1. F[p] \in Nat /\ C[p] \in Nat /\ F[b] \in Nat /\ C[b] \in Nat /\ C[b] >= 2 /\ F[p] + C[p] <= L
      BY <1>3, <1>4, <2>2
    <3>2. j \in 1 .. C[p]
      OBVIOUS
    <3> QED
      <4>1. \A f, c \in Nat : \A i \in 1 .. c : f + c <= L => f + i \in 1 .. L /\ f + i - 1 \in f .. f + c - 1
        BY <1>3
      <4>2. F[p] + j \in 1 .. L /\ F[p] + j - 1 \in F[p] .. F[p] + C[p] - 1
        BY <3>1, <3>2, <4>1
      <4>3. 1 \in 1 .. C[b]
        BY <3>1
      <4> QED
        BY <2>3, <3>1, <4>2, <4>3
  <2>5. h[m][x] = IF x - 1 \in F[b] .. F[b] + C[b] - 1 THEN Moved(h[b][x], h[b][F[b] + 1], q) ELSE h[b][x]
    <3>1. DOMAIN h[b] = 1 .. L
      BY <2>2
    <3> QED
      BY <2>2, <2>4, <3>1 DEF MovePrimitive, At
  <2>6. \A i \in 1 .. C[p] :
          h[b][F[p] + i] = IF p < b THEN Moved(D[F[p] + i], D[F[p] + 1], q) ELSE D[F[p] + i]
    BY <1>7, <2>1
  <2>7. h[b][x] = IF p < b THEN Moved(D[x], D[F[p] + 1], q) ELSE D[x]
    BY <2>3, <2>6
  <2>8. CASE p = b
    <3>1. h[b][x] = D[x] /\ h[b][F[b] + 1] = D[F[p] + 1]
      <4>1. ~(p < b) /\ 1 \in 1 .. C[p]
        BY <1>3, <1>4, <2>4, <2>8
      <4> QED
        BY <2>6, <2>7, <2>8, <4>1
    <3>2. p < m
      BY <1>3, <1>4, <2>1, <2>8
    <3> QED
      BY <2>3, <2>4, <2>5, <2>8, <3>1, <3>2
  <2>9. CASE p # b
    <3>1. x - 1 \notin F[b] .. F[b] + C[b] - 1
      <4>1. F[p] + C[p] <= F[b] \/ F[b] + C[b] <= F[p]
        BY <1>4, <2>2, <2>9
      <4> QED
        BY <2>4, <4>1
    <3>2. p < m <=> p < b
      BY <1>3, <1>4, <2>1, <2>9
    <3> QED
      BY <2>3, <2>5, <2>7, <3>1, <3>2
  <2> QED
    BY <2>8, <2>9
<1>8. n \in T
  <2> HIDE DEF T
  <2>1. \A m \in 0 .. n : m \in T
    BY <1>3, <1>6, <1>7, Induct
  <2> QED
    BY <1>3, <2>1
<1>9. p \in 0 .. n - 1 /\ F[p] = First(d, it, Stride(d, it), p) /\ C[p] = Count(d, it, Stride(d, it), p) /\ p < n
  BY <1>2, <1>3
<1>10. h[n][F[p] + k] = Moved(D[F[p] + k], D[F[p] + 1], q)
  BY <1>8, <1>9
<1> QED
  BY <1>2, <1>5, <1>9, <1>10

LEMMA MoveKeepsFinite ==
  ASSUME NEW L \in Nat, NEW s \in [1 .. L -> Values], NEW first \in Nat, NEW count \in Nat,
         count >= 2, first + count <= L, NEW q \in ParameterSet, ParametersFit(q),
         s[first + 1] \in Int, NEW x \in 1 .. L, s[x] \in Int
  PROVE  MovePrimitive(s, first, count, q)[x] \in Int
<1>1. Moved(s[x], At(s, first), q) \in Int
  BY MovedIsValue DEF At, Values
<1> QED
  BY <1>1 DEF MovePrimitive

\* What was finite still is when the item's curves are moved, whatever points they
\* share: their roots are finite.
LEMMA MovedIsFinite ==
  ASSUME NEW d \in DocumentSet, NEW it \in ItemSet, ItemMoves(d, it), ItemFits(d, it),
         NEW q \in ParameterSet, ParametersFit(q),
         NEW x \in 1 .. Len(Data(d, it.positions)), Data(d, it.positions)[x] \in Int
  PROVE  MovedPositions(d, it, q)[x] \in Int
<1>1. PICK h : MovesOne(h, d, it, q)
  BY MovesOneByOne
<1>2. PICK n, L, D, st : /\ n = Len(Data(d, it.faceIds)) /\ L = Len(Data(d, it.positions))
                         /\ D = Data(d, it.positions) /\ st = Stride(d, it)
  OBVIOUS
<1>3. n \in Nat /\ L \in Nat /\ Primitives(d, it) = 0 .. n - 1
  <2>1. it.positions \in Nat
    BY DEF ItemSet
  <2>2. n \in Nat /\ L \in Nat
    BY <1>2, <2>1, HeldIsTyped, InfosTyped DEF ItemMoves, ShapesFit
  <2> QED
    BY <1>2, <2>2 DEF Primitives
<1>4. /\ h \in [0 .. n -> [1 .. L -> Values]] /\ h[0] = D /\ h[n] = MovedPositions(d, it, q)
      /\ \A m \in 1 .. n : h[m] = MovePrimitive(h[m - 1], First(d, it, st, m - 1), Count(d, it, st, m - 1), q)
  BY <1>1, <1>2 DEF MovesOne, Paths
<1> DEFINE T == {m \in 0 .. n : \A y \in 1 .. L : D[y] \in Int => h[m][y] \in Int}
<1>5. 0 \in T
  BY <1>3, <1>4
<1>6. ASSUME NEW m \in 1 .. n, m - 1 \in T PROVE m \in T
  <2>1. PICK b, first, count : b = m - 1 /\ first = First(d, it, st, b) /\ count = Count(d, it, st, b)
    OBVIOUS
  <2>2. /\ b \in 0 .. n /\ b \in Primitives(d, it) /\ h[b] \in [1 .. L -> Values]
        /\ h[m] = MovePrimitive(h[b], first, count, q)
        /\ \A y \in 1 .. L : D[y] \in Int => h[b][y] \in Int
    BY <1>3, <1>4, <1>6, <2>1
  <2>3. /\ ShapesFit(d, it) /\ ChannelsFit(d, it) /\ RangeFits(d, it, st, b) /\ GoodPoints(d, it, st, b)
    BY <1>2, <2>2 DEF ItemFits
  <2>4. first \in Nat /\ count \in Nat /\ count >= 2 /\ first + count <= L
    BY <1>2, <2>1, <2>2, <2>3, ShapedItem DEF RangeFits
  <2>5. PICK span : span = Span(d, it, it.positions, st, b)
    OBVIOUS
  <2>6. /\ span \in Seq(Values) /\ DOMAIN span = 1 .. count /\ span[1] = D[first + 1]
        /\ first + 1 \in 1 .. L
    <3>1. 1 \in 1 .. count
      BY <2>4
    <3> QED
      BY <1>2, <2>1, <2>2, <2>3, <2>5, <3>1, SpanIs
  <2>7. D[first + 1] \in Int
    <3>1. 1 \in DOMAIN span
      BY <2>4, <2>6
    <3>2. Finite(span[1]) /\ span[1] \in Values
      <4>1. AllFinite(span)
        BY <1>2, <2>3, <2>5 DEF GoodPoints
      <4>2. Finite(span[1])
        BY <3>1, <4>1 DEF AllFinite
      <4>3. \A t \in Seq(Values) : \A k \in DOMAIN t : t[k] \in Values
        OBVIOUS
      <4> QED
        BY <2>6, <3>1, <4>2, <4>3, Zenon
    <3> QED
      BY <2>6, <3>2 DEF Finite, Values
  <2>8. h[b][first + 1] \in Int
    BY <2>2, <2>6, <2>7
  <2>9. ASSUME NEW y \in 1 .. L, D[y] \in Int PROVE h[m][y] \in Int
    BY <1>3, <2>2, <2>4, <2>8, <2>9, MoveKeepsFinite
  <2> QED
    BY <2>9
<1>7. n \in T
  <2> HIDE DEF T
  <2>1. \A m \in 0 .. n : m \in T
    BY <1>3, <1>5, <1>6, Induct
  <2> QED
    BY <1>3, <2>1
<1> QED
  BY <1>2, <1>4, <1>7

\* The points depend on the infos, the number of curves and the points before.
Moves(points, infos, number, q) ==
  LET stride == Len(infos) \div number
      Move(s, p) == MovePrimitive(s, At(infos, p * stride), At(infos, p * stride + 1), q)
  IN  FoldLeft(Move, points, [n \in 1 .. number |-> n - 1])

LEMMA MovedIs ==
  ASSUME NEW d, NEW it, NEW q
  PROVE  MovedPositions(d, it, q) = Moves(Data(d, it.positions), Data(d, it.infos), Len(Data(d, it.faceIds)), q)
BY DEF MovedPositions, Moves, First, Count, Stride

-----------------------------------------------------------------------------
(* One item of process_xgen_document() *)

\* The call so far; one whose parameters do not fit has thrown.
Runs(q) ==
  {r \in [document : DocumentSet, positions : SUBSET Nat, widths : SUBSET Nat, threw : BOOLEAN] :
     r.threw \/ ParametersFit(q)}

Scaled(s, q) == [n \in DOMAIN s |-> Times(s[n], q.width)]

ItemIsShaped(d, it) == ShapesFit(d, it) /\ Holds(d, it.faceIds, "uint32") /\ InfosFit(d, it)

MovesIt(run, it, q) == MovesPositions(q) /\ NotYet(run.positions, it.positions)
ScalesIt(run, it, q) == q.width # 1 /\ NotYet(run.widths, it.widths)

AfterMove(run, it, q) ==
  IF MovesIt(run, it, q)
  THEN Write(run.document, it.positions, MovedPositions(run.document, it, q)) ELSE run.document

AfterItem(run, it, q) ==
  IF ScalesIt(run, it, q)
  THEN Write(AfterMove(run, it, q), it.widths, Scaled(Data(run.document, it.widths), q))
  ELSE AfterMove(run, it, q)

LEMMA ProcessItemIs ==
  ASSUME NEW run, NEW it, NEW q
  PROVE  ProcessItem(run, it, q) =
           IF run.threw THEN run
           ELSE IF \/ ~ItemIsShaped(run.document, it)
                   \/ /\ MovesIt(run, it, q)
                      /\ \E p \in Primitives(run.document, it) :
                           ~RangeFits(run.document, it, Stride(run.document, it), p)
           THEN [run EXCEPT !.threw = TRUE]
           ELSE [threw     |-> FALSE,
                 positions |-> IF MovesIt(run, it, q) THEN run.positions \cup {it.positions} ELSE run.positions,
                 widths    |-> IF ScalesIt(run, it, q) THEN run.widths \cup {it.widths} ELSE run.widths,
                 document  |-> AfterItem(run, it, q)]
BY DEF ProcessItem, ItemIsShaped, MovesIt, ScalesIt, AfterMove, AfterItem, Scaled

LEMMA ScaledIsTyped ==
  ASSUME NEW s \in Seq(Values), NEW q \in ParameterSet, ParametersFit(q)
  PROVE  Scaled(s, q) \in Seq(Values) /\ Len(Scaled(s, q)) = Len(s)
<1>1. q.width \in Int
  BY DEF ParameterSet, ParametersFit, Finite, Values
<1>2. \A v \in Values : Times(v, q.width) \in Values
  BY <1>1 DEF Times, Values, Finite
<1>3. Len(s) \in Nat /\ DOMAIN s = 1 .. Len(s) /\ \A n \in 1 .. Len(s) : s[n] \in Values
  OBVIOUS
<1>4. Scaled(s, q) \in [1 .. Len(s) -> Values]
  BY <1>2, <1>3 DEF Scaled
<1> QED
  BY <1>3, <1>4

\* What one item does to the document.
IsAfterItem(e, run, it, q) ==
  LET d == run.document
  IN  /\ e \in DocumentSet /\ e.items = d.items
      /\ \A x \in Nat : InBounds(e, x) = InBounds(d, x)
      /\ \A x \in Nat : InBounds(d, x) =>
           Array(e, x) =
             IF MovesIt(run, it, q) /\ x = it.positions
             THEN [Array(d, x) EXCEPT !.data = MovedPositions(d, it, q)]
             ELSE IF ScalesIt(run, it, q) /\ x = it.widths
                  THEN [Array(d, x) EXCEPT !.data = Scaled(Data(d, x), q)]
                  ELSE Array(d, x)

LEMMA AfterItemIs ==
  ASSUME NEW q \in ParameterSet, ParametersFit(q), NEW run \in Runs(q), NEW it \in ItemSet,
         ItemIsShaped(run.document, it), MovesIt(run, it, q) => ItemMoves(run.document, it)
  PROVE  IsAfterItem(AfterItem(run, it, q), run, it, q)
<1>1. PICK d, e, f : d = run.document /\ e = AfterMove(run, it, q) /\ f = AfterItem(run, it, q)
  OBVIOUS
<1>2. PICK pos, wid : pos = it.positions /\ wid = it.widths
  OBVIOUS
<1>3. d \in DocumentSet /\ pos \in Nat /\ wid \in Nat
  BY <1>1, <1>2 DEF Runs, ItemSet
<1>4. /\ InBounds(d, pos) /\ Array(d, pos).tag = "vec3" /\ InBounds(d, wid) /\ Array(d, wid).tag = "float"
      /\ Data(d, wid) \in Seq(Values)
  <2>1. Holds(d, pos, "vec3") /\ Holds(d, wid, "float")
    BY <1>1, <1>2 DEF ItemIsShaped, ShapesFit
  <2> QED
    BY <1>3, <2>1, HeldIsTyped DEF Holds
<1>5. pos # wid
  BY <1>4
<1>6. /\ e \in DocumentSet /\ e.items = d.items
      /\ \A x \in Nat : InBounds(e, x) = InBounds(d, x)
      /\ \A x \in Nat : InBounds(d, x) =>
           Array(e, x) = IF MovesIt(run, it, q) /\ x = pos
                         THEN [Array(d, x) EXCEPT !.data = MovedPositions(d, it, q)] ELSE Array(d, x)
  <2>1. CASE MovesIt(run, it, q)
    <3>1. MovedPositions(d, it, q) \in Seq(Values)
      BY <1>1, <1>3, <2>1, MovedIsTyped
    <3>2. e = Write(d, pos, MovedPositions(d, it, q))
      BY <1>1, <1>2, <2>1 DEF AfterMove
    <3> QED
      BY <1>3, <1>4, <2>1, <3>1, <3>2, WriteIs
  <2>2. CASE ~MovesIt(run, it, q)
    BY <1>1, <1>3, <2>2 DEF AfterMove
  <2> QED
    BY <2>1, <2>2
<1>7. /\ f \in DocumentSet /\ f.items = e.items
      /\ \A x \in Nat : InBounds(f, x) = InBounds(e, x)
      /\ \A x \in Nat : InBounds(e, x) =>
           Array(f, x) = IF ScalesIt(run, it, q) /\ x = wid
                         THEN [Array(e, x) EXCEPT !.data = Scaled(Data(d, wid), q)] ELSE Array(e, x)
  <2>1. CASE ScalesIt(run, it, q)
    <3>1. Scaled(Data(d, wid), q) \in Seq(Values)
      BY <1>4, ScaledIsTyped
    <3>2. f = Write(e, wid, Scaled(Data(d, wid), q))
      BY <1>1, <1>2, <2>1 DEF AfterItem
    <3>3. InBounds(e, wid) /\ Array(e, wid).tag # "uint32"
      BY <1>3, <1>4, <1>5, <1>6
    <3> QED
      BY <1>3, <1>6, <2>1, <3>1, <3>2, <3>3, WriteIs
  <2>2. CASE ~ScalesIt(run, it, q)
    BY <1>1, <1>6, <2>2 DEF AfterItem
  <2> QED
    BY <2>1, <2>2
<1>8. ASSUME NEW x \in Nat, InBounds(d, x)
      PROVE  Array(f, x) =
               IF MovesIt(run, it, q) /\ x = pos
               THEN [Array(d, x) EXCEPT !.data = MovedPositions(d, it, q)]
               ELSE IF ScalesIt(run, it, q) /\ x = wid
                    THEN [Array(d, x) EXCEPT !.data = Scaled(Data(d, x), q)]
                    ELSE Array(d, x)
  BY <1>5, <1>6, <1>7, <1>8, Zenon
<1>9. IsAfterItem(f, run, it, q)
  BY <1>1, <1>2, <1>6, <1>7, <1>8 DEF IsAfterItem
<1> QED
  BY <1>1, <1>9

LEMMA ProcessItemTyped ==
  ASSUME NEW q \in ParameterSet, NEW run \in Runs(q), NEW it \in ItemSet
  PROVE  ProcessItem(run, it, q) \in Runs(q)
<1>1. CASE run.threw
  BY <1>1, ProcessItemIs
<1>2. CASE /\ ~run.threw
           /\ \/ ~ItemIsShaped(run.document, it)
              \/ /\ MovesIt(run, it, q)
                 /\ \E p \in Primitives(run.document, it) :
                      ~RangeFits(run.document, it, Stride(run.document, it), p)
  <2>1. ProcessItem(run, it, q) = [run EXCEPT !.threw = TRUE]
    BY <1>2, ProcessItemIs
  <2> QED
    BY <2>1 DEF Runs
<1>3. CASE /\ ~run.threw /\ ItemIsShaped(run.document, it)
           /\ MovesIt(run, it, q) =>
                \A p \in Primitives(run.document, it) :
                  RangeFits(run.document, it, Stride(run.document, it), p)
  <2>1. ProcessItem(run, it, q) =
          [threw     |-> FALSE,
           positions |-> IF MovesIt(run, it, q) THEN run.positions \cup {it.positions} ELSE run.positions,
           widths    |-> IF ScalesIt(run, it, q) THEN run.widths \cup {it.widths} ELSE run.widths,
           document  |-> AfterItem(run, it, q)]
    BY <1>3, ProcessItemIs
  <2>2. ParametersFit(q)
    BY <1>3 DEF Runs
  <2>3. MovesIt(run, it, q) => ItemMoves(run.document, it)
    BY <1>3 DEF ItemMoves, ItemIsShaped
  <2>4. AfterItem(run, it, q) \in DocumentSet
    BY <1>3, <2>2, <2>3, AfterItemIs DEF IsAfterItem
  <2> QED
    BY <2>1, <2>2, <2>4 DEF Runs, ItemSet
<1> QED
  BY <1>1, <1>2, <1>3

-----------------------------------------------------------------------------
(* process_xgen_document() *)

StartOf(d, q) == [document |-> d, positions |-> {}, widths |-> {}, threw |-> ~ParametersFit(q)]

\* The call before the first item, and after each of them.
IsProcess(h, d, q) ==
  LET n == Len(d.items)
  IN  /\ h \in [0 .. n -> Runs(q)]
      /\ h[0] = StartOf(d, q) /\ h[n] = ProcessDocument(d, q)
      /\ \A m \in 1 .. n : h[m] = ProcessItem(h[m - 1], d.items[m], q)

LEMMA ProcessOneByOne ==
  ASSUME NEW d \in DocumentSet, NEW q \in ParameterSet
  PROVE  \E h : IsProcess(h, d, q)
<1> DEFINE n == Len(d.items)
           S == Runs(q)
           base == StartOf(d, q)
           Once(r, m) == ProcessItem(r, d.items[m], q)
           Step == [x \in S \X (1 .. n) |-> Once(x[1], x[2])]
<1>1. n \in Nat /\ DOMAIN d.items = 1 .. n /\ base \in S
  <2>1. n \in Nat /\ DOMAIN d.items = 1 .. n
    BY DEF DocumentSet
  <2>2. ParametersFit(q) \in BOOLEAN
    BY DEF ParametersFit
  <2>3. base \in S
    BY <2>2 DEF StartOf, Runs
  <2> QED
    BY <2>1, <2>3
<1>2. ASSUME NEW r \in S, NEW m \in 1 .. n PROVE Once(r, m) \in S
  BY <1>1, ItemIds, ProcessItemTyped
<1>3. Step \in [S \X (1 .. n) -> S] /\ \A r \in S, m \in 1 .. n : Step[<<r, m>>] = Once(r, m)
  <2> HIDE DEF S, Once, n
  <2> QED
    BY <1>2
<1>4. PICK g : /\ IsFold(g, n, S, base, Step)
               /\ \A s \in SUBSET (1 .. n) : s # {} => Max(s) \in 1 .. n /\ g[s \ {Max(s)}] \in S
  <2> HIDE DEF S, Step, n, base
  <2> QED
    BY <1>1, <1>3, FoldsWithin
<1>5. g = [s \in SUBSET (1 .. n) |-> IF s = {} THEN base ELSE Once(g[s \ {Max(s)}], Max(s))]
  <2>1. \A s \in SUBSET (1 .. n) : g[s] = IF s = {} THEN base ELSE Once(g[s \ {Max(s)}], Max(s))
    <3> HIDE DEF S, Step, n, base, Once
    <3> QED
      BY <1>3, <1>4 DEF IsFold
  <2>2. g = [s \in SUBSET (1 .. n) |-> g[s]]
    BY <1>4 DEF IsFold
  <2> QED
    BY <2>1, <2>2
<1>6. PICK f : f = CHOOSE r : r = [s \in SUBSET (1 .. n) |-> IF s = {} THEN base ELSE Once(r[s \ {Max(s)}], Max(s))]
  OBVIOUS
<1>7. f = [s \in SUBSET (1 .. n) |-> IF s = {} THEN base ELSE Once(f[s \ {Max(s)}], Max(s))]
  <2> HIDE DEF Once, base, n
  <2> QED
    BY <1>5, <1>6
<1>8. ProcessDocument(d, q) = f[1 .. n]
  BY <1>1, <1>6 DEF ProcessDocument, FoldLeft, MapThenFoldSet, StartOf
<1> DEFINE h == [m \in 0 .. n |-> f[1 .. m]]
<1>9. h[0] = base /\ \A m \in 1 .. n : h[m] = Once(h[m - 1], m)
  <2>1. f[1 .. 0] = base
    BY <1>7
  <2>2. ASSUME NEW m \in 1 .. n PROVE f[1 .. m] = Once(f[1 .. m - 1], m)
    <3>1. /\ 1 .. m \in SUBSET (1 .. n) /\ 1 .. m # {} /\ Max(1 .. m) = m
          /\ (1 .. m) \ {m} = 1 .. m - 1
      BY <1>1, UpTo
    <3> HIDE DEF Once, base, n
    <3>2. f[1 .. m] = Once(f[(1 .. m) \ {Max(1 .. m)}], Max(1 .. m))
      BY <1>7, <3>1
    <3> QED
      BY <3>1, <3>2
  <2> HIDE DEF Once, base
  <2> QED
    BY <1>1, <2>1, <2>2
<1>10. IsRun(h, n, S, base, Step)
  <2>1. h = [m \in 0 .. n |-> h[m]]
    OBVIOUS
  <2>2. \A m \in 1 .. n : h[m - 1] \in S => h[m] = Step[<<h[m - 1], m>>]
    <3> HIDE DEF h, Step, S, n, base, Once
    <3> QED
      BY <1>3, <1>9
  <2> HIDE DEF h, Step, S, n, base
  <2> QED
    BY <1>1, <1>3, <1>9, <2>1, <2>2, RunStays
<1>11. h[n] = f[1 .. n]
  BY <1>1
<1> HIDE DEF h
<1>12. IsProcess(h, d, q)
  BY <1>8, <1>9, <1>10, <1>11 DEF IsProcess, IsRun
<1> QED
  BY <1>12

LEMMA ProcessIsTyped ==
  ASSUME NEW d \in DocumentSet, NEW q \in ParameterSet
  PROVE  /\ ProcessDocument(d, q).document \in DocumentSet
         /\ ~ParametersFit(q) => ProcessDocument(d, q).document = d
<1>1. PICK h : IsProcess(h, d, q)
  BY ProcessOneByOne
<1>2. Len(d.items) \in Nat
  BY DEF DocumentSet
<1>3. ProcessDocument(d, q) \in Runs(q)
  BY <1>1, <1>2 DEF IsProcess
<1>4. ASSUME ~ParametersFit(q) PROVE ProcessDocument(d, q).document = d
  <2> DEFINE T == {m \in 0 .. Len(d.items) : h[m] = StartOf(d, q)}
  <2>1. 0 \in T
    BY <1>1, <1>2 DEF IsProcess
  <2>2. ASSUME NEW m \in 1 .. Len(d.items), m - 1 \in T PROVE m \in T
    <3>1. h[m] = ProcessItem(StartOf(d, q), d.items[m], q)
      BY <1>1, <2>2 DEF IsProcess
    <3>2. StartOf(d, q).threw
      BY <1>4 DEF StartOf
    <3> QED
      BY <3>1, <3>2, ProcessItemIs
  <2>3. Len(d.items) \in T
    <3> HIDE DEF T
    <3>1. \A m \in 0 .. Len(d.items) : m \in T
      BY <1>2, <2>1, <2>2, Induct
    <3> QED
      BY <1>2, <3>1
  <2> QED
    BY <1>1, <2>3 DEF IsProcess, StartOf
<1> QED
  BY <1>3, <1>4 DEF Runs

\* The call after m items of a document whose items fit.
DoneTo(run, d, q, m) ==
  /\ run \in Runs(q) /\ ~run.threw
  /\ run.document.items = d.items
  /\ run.positions = {x \in Nat : MovesPositions(q) /\ \E i \in 1 .. m : x = d.items[i].positions}
  /\ run.widths = {x \in Nat : q.width # 1 /\ \E i \in 1 .. m : x = d.items[i].widths}
  /\ \A x \in Nat : InBounds(run.document, x) = InBounds(d, x)
  /\ \A x \in Nat : InBounds(d, x) /\ x \notin run.positions /\ x \notin run.widths =>
       Array(run.document, x) = Array(d, x)
  /\ \A x \in run.positions : \E i \in 1 .. m :
       /\ x = d.items[i].positions
       /\ Array(run.document, x) = [Array(d, x) EXCEPT !.data = MovedPositions(d, d.items[i], q)]
  /\ \A x \in run.widths :
       Array(run.document, x) = [Array(d, x) EXCEPT !.data = Scaled(Data(d, x), q)]

LEMMA ShapedIs ==
  ASSUME NEW d \in DocumentSet, Shaped(d), NEW i \in 1 .. Len(d.items)
  PROVE  /\ d.items[i] \in ItemSet /\ ShapesFit(d, d.items[i]) /\ ChannelsFit(d, d.items[i])
         /\ ItemMoves(d, d.items[i])
         /\ InBounds(d, d.items[i].infos) /\ Array(d, d.items[i].infos).tag = "uint32"
         /\ InBounds(d, d.items[i].faceIds) /\ Array(d, d.items[i].faceIds).tag = "uint32"
         /\ InBounds(d, d.items[i].faceUVs) /\ Array(d, d.items[i].faceUVs).tag = "vec2"
         /\ InBounds(d, d.items[i].patchUVs) /\ Array(d, d.items[i].patchUVs).tag = "vec2"
         /\ InBounds(d, d.items[i].positions) /\ Array(d, d.items[i].positions).tag = "vec3"
         /\ InBounds(d, d.items[i].widths) /\ Array(d, d.items[i].widths).tag = "float"
<1>1. i \in DOMAIN d.items
  BY DEF DocumentSet
<1>2. /\ d.items[i] \in ItemSet /\ ShapesFit(d, d.items[i]) /\ ChannelsFit(d, d.items[i])
      /\ \A p \in Primitives(d, d.items[i]) : RangeFits(d, d.items[i], Stride(d, d.items[i]), p)
  BY <1>1, ItemIds DEF Shaped
<1>3. ItemMoves(d, d.items[i])
  BY <1>2 DEF ItemMoves, ChannelsFit
<1> QED
  BY <1>2, <1>3 DEF ShapesFit, ChannelsFit, Holds

\* What an item of e reads is what it reads of d, but for points and widths.
SameItem(d, e, it) ==
  /\ \A x \in {it.infos, it.faceIds, it.faceUVs, it.patchUVs} : Array(e, x) = Array(d, x)
  /\ \A x \in {it.infos, it.faceIds, it.faceUVs, it.patchUVs, it.positions, it.widths} :
       /\ InBounds(e, x) = InBounds(d, x)
       /\ Array(e, x).tag = Array(d, x).tag /\ Array(e, x).partial = Array(d, x).partial
       /\ Len(Array(e, x).data) = Len(Array(d, x).data)

LEMMA DoneIsSame ==
  ASSUME NEW d \in DocumentSet, Shaped(d), NEW q \in ParameterSet, ParametersFit(q),
         NEW m \in 0 .. Len(d.items), NEW run, DoneTo(run, d, q, m), NEW i \in 1 .. Len(d.items)
  PROVE  SameItem(d, run.document, d.items[i])
<1>1. PICK it, e : it = d.items[i] /\ e = run.document
  OBVIOUS
<1>2. Len(d.items) \in Nat /\ \A j \in 1 .. m : j \in 1 .. Len(d.items)
  BY DEF DocumentSet
<1>3. /\ \A x \in run.positions : Array(d, x).tag = "vec3"
      /\ \A x \in run.widths : Array(d, x).tag = "float"
  BY <1>2, ShapedIs DEF DoneTo
<1>4. /\ it \in ItemSet /\ \A x \in {it.infos, it.faceIds, it.faceUVs, it.patchUVs} :
                             x \in Nat /\ InBounds(d, x) /\ Array(d, x).tag \in {"uint32", "vec2"}
  BY <1>1, ShapedIs DEF ItemSet
<1>5. \A x \in {it.infos, it.faceIds, it.faceUVs, it.patchUVs} : Array(e, x) = Array(d, x)
  BY <1>1, <1>3, <1>4 DEF DoneTo
<1>6. ASSUME NEW x \in Nat, InBounds(d, x)
      PROVE  /\ Array(e, x).tag = Array(d, x).tag /\ Array(e, x).partial = Array(d, x).partial
             /\ Len(Array(e, x).data) = Len(Array(d, x).data)
  <2>1. Array(d, x) \in Arrays
    BY <1>6, ArrayIsTyped
  <2>2. CASE x \notin run.positions /\ x \notin run.widths
    BY <1>1, <1>6, <2>2 DEF DoneTo
  <2>3. CASE x \in run.positions
    <3>1. PICK j \in 1 .. m :
            /\ x = d.items[j].positions
            /\ Array(e, x) = [Array(d, x) EXCEPT !.data = MovedPositions(d, d.items[j], q)]
      BY <1>1, <2>3 DEF DoneTo
    <3>2. Len(MovedPositions(d, d.items[j], q)) = Len(Data(d, d.items[j].positions))
      BY <1>2, ShapedIs, MovedIsTyped
    <3> QED
      BY <2>1, <3>1, <3>2 DEF Arrays, Data
  <2>4. CASE x \in run.widths
    <3>1. Array(e, x) = [Array(d, x) EXCEPT !.data = Scaled(Data(d, x), q)]
      BY <1>1, <2>4 DEF DoneTo
    <3>2. Data(d, x) \in Seq(Values)
      BY <2>1 DEF Arrays, Data
    <3>3. Len(Scaled(Data(d, x), q)) = Len(Data(d, x))
      BY <3>2, ScaledIsTyped
    <3> QED
      BY <2>1, <3>1, <3>3 DEF Arrays, Data
  <2> QED
    BY <2>2, <2>3, <2>4
<1>7. \A x \in {it.infos, it.faceIds, it.faceUVs, it.patchUVs, it.positions, it.widths} :
        x \in Nat /\ InBounds(d, x) /\ InBounds(e, x) = InBounds(d, x)
  BY <1>1, ShapedIs DEF ItemSet, DoneTo
<1> QED
  BY <1>1, <1>5, <1>6, <1>7 DEF SameItem

LEMMA SameItemFits ==
  ASSUME NEW d, NEW e, NEW it, SameItem(d, e, it)
  PROVE  /\ ShapesFit(e, it) <=> ShapesFit(d, it)
         /\ ChannelsFit(e, it) <=> ChannelsFit(d, it)
         /\ Primitives(e, it) = Primitives(d, it) /\ Stride(e, it) = Stride(d, it)
         /\ \A st, p : /\ First(e, it, st, p) = First(d, it, st, p) /\ Count(e, it, st, p) = Count(d, it, st, p)
                       /\ RangeFits(e, it, st, p) <=> RangeFits(d, it, st, p)
<1>1. /\ Data(e, it.infos) = Data(d, it.infos) /\ Data(e, it.faceIds) = Data(d, it.faceIds)
      /\ Data(e, it.faceUVs) = Data(d, it.faceUVs) /\ Data(e, it.patchUVs) = Data(d, it.patchUVs)
      /\ Len(Data(e, it.positions)) = Len(Data(d, it.positions))
      /\ Len(Data(e, it.widths)) = Len(Data(d, it.widths))
  BY DEF SameItem, Data
<1>2. \A tag : /\ Holds(e, it.infos, tag) <=> Holds(d, it.infos, tag)
               /\ Holds(e, it.faceIds, tag) <=> Holds(d, it.faceIds, tag)
               /\ Holds(e, it.faceUVs, tag) <=> Holds(d, it.faceUVs, tag)
               /\ Holds(e, it.patchUVs, tag) <=> Holds(d, it.patchUVs, tag)
               /\ Holds(e, it.positions, tag) <=> Holds(d, it.positions, tag)
               /\ Holds(e, it.widths, tag) <=> Holds(d, it.widths, tag)
  BY DEF SameItem, Holds
<1>3. ShapesFit(e, it) <=> ShapesFit(d, it)
  BY <1>1, <1>2 DEF ShapesFit
<1>4. Primitives(e, it) = Primitives(d, it) /\ Stride(e, it) = Stride(d, it)
  BY <1>1 DEF Primitives, Stride
<1>5. InfosFit(e, it) <=> InfosFit(d, it)
  BY <1>1, <1>4 DEF InfosFit
<1>6. ChannelsFit(e, it) <=> ChannelsFit(d, it)
  BY <1>1, <1>2, <1>5 DEF ChannelsFit
<1>7. \A st, p : First(e, it, st, p) = First(d, it, st, p) /\ Count(e, it, st, p) = Count(d, it, st, p)
  BY <1>1 DEF First, Count
<1>8. \A st, p : RangeFits(e, it, st, p) <=> RangeFits(d, it, st, p)
  BY <1>1, <1>7 DEF RangeFits
<1> QED
  BY <1>3, <1>4, <1>6, <1>7, <1>8

LEMMA DoneStep ==
  ASSUME NEW d \in DocumentSet, Shaped(d), NEW q \in ParameterSet, ParametersFit(q),
         NEW m \in 1 .. Len(d.items), NEW run, DoneTo(run, d, q, m - 1)
  PROVE  DoneTo(ProcessItem(run, d.items[m], q), d, q, m)
<1>1. PICK it, e, grown : it = d.items[m] /\ e = run.document /\ grown = ProcessItem(run, d.items[m], q)
  OBVIOUS
<1>2. PICK pos, wid : pos = it.positions /\ wid = it.widths
  OBVIOUS
<1>3. /\ Len(d.items) \in Nat /\ m - 1 \in 0 .. Len(d.items) /\ m \in Nat
      /\ \A j \in 1 .. m : j \in 1 .. Len(d.items)
  BY DEF DocumentSet
<1>4. SameItem(d, e, it)
  BY <1>1, <1>3, DoneIsSame
<1>5. /\ it \in ItemSet /\ ShapesFit(d, it) /\ ChannelsFit(d, it) /\ ItemMoves(d, it)
      /\ pos \in Nat /\ wid \in Nat
      /\ InBounds(d, pos) /\ Array(d, pos).tag = "vec3" /\ InBounds(d, wid) /\ Array(d, wid).tag = "float"
  BY <1>1, <1>2, ShapedIs DEF ItemSet
<1>6. ItemIsShaped(e, it) /\ ItemMoves(e, it)
  <2>1. /\ ShapesFit(e, it) /\ ChannelsFit(e, it)
        /\ \A p \in Primitives(e, it) : RangeFits(e, it, Stride(e, it), p)
    BY <1>4, <1>5, SameItemFits DEF ItemMoves
  <2> QED
    BY <2>1 DEF ItemIsShaped, ItemMoves, ChannelsFit
<1>7. grown = [threw     |-> FALSE,
             positions |-> IF MovesIt(run, it, q) THEN run.positions \cup {pos} ELSE run.positions,
             widths    |-> IF ScalesIt(run, it, q) THEN run.widths \cup {wid} ELSE run.widths,
             document  |-> AfterItem(run, it, q)]
  <2>1. ~run.threw
    BY DEF DoneTo
  <2> QED
    BY <1>1, <1>2, <1>6, <2>1, ProcessItemIs DEF ItemMoves
<1>8. IsAfterItem(AfterItem(run, it, q), run, it, q)
  <2>1. run \in Runs(q)
    BY DEF DoneTo
  <2> QED
    BY <1>1, <1>5, <1>6, <2>1, AfterItemIs
<1>9. PICK f : f = grown.document
  OBVIOUS
<1>10. /\ f = AfterItem(run, it, q) /\ ~grown.threw
       /\ grown.positions = IF MovesIt(run, it, q) THEN run.positions \cup {pos} ELSE run.positions
       /\ grown.widths = IF ScalesIt(run, it, q) THEN run.widths \cup {wid} ELSE run.widths
  BY <1>7, <1>9
<1>11. /\ f.items = d.items /\ \A x \in Nat : InBounds(f, x) = InBounds(d, x)
  BY <1>1, <1>8, <1>10 DEF IsAfterItem, DoneTo
<1>12. grown \in Runs(q)
  <2>1. run \in Runs(q)
    BY DEF DoneTo
  <2> QED
    BY <1>1, <1>5, <2>1, ProcessItemTyped
<1>13. /\ \A x \in run.positions : x \in Nat /\ InBounds(d, x) /\ Array(d, x).tag = "vec3"
       /\ \A x \in run.widths : x \in Nat /\ InBounds(d, x) /\ Array(d, x).tag = "float"
  <2>1. \A j \in 1 .. m - 1 : j \in 1 .. Len(d.items)
    BY <1>3
  <2> QED
    BY <2>1, ShapedIs DEF DoneTo
\* The arrays that are written had not been written.
<1>14. MovesIt(run, it, q) => /\ Array(e, pos) = Array(d, pos)
                              /\ MovedPositions(e, it, q) = MovedPositions(d, it, q)
  <2> SUFFICES ASSUME MovesIt(run, it, q)
               PROVE  /\ Array(e, pos) = Array(d, pos)
                      /\ MovedPositions(e, it, q) = MovedPositions(d, it, q)
    OBVIOUS
  <2>1. pos \notin run.positions /\ pos \notin run.widths
    BY <1>2, <1>5, <1>13 DEF MovesIt, NotYet
  <2>2. Array(e, pos) = Array(d, pos)
    BY <1>1, <1>5, <2>1 DEF DoneTo
  <2>3. /\ Data(e, it.positions) = Data(d, it.positions) /\ Data(e, it.infos) = Data(d, it.infos)
        /\ Data(e, it.faceIds) = Data(d, it.faceIds)
    BY <1>2, <1>4, <2>2 DEF SameItem, Data
  <2> QED
    BY <2>2, <2>3, MovedIs
<1>15. ScalesIt(run, it, q) => Array(e, wid) = Array(d, wid)
  <2> SUFFICES ASSUME ScalesIt(run, it, q) PROVE Array(e, wid) = Array(d, wid)
    OBVIOUS
  <2>1. wid \notin run.positions /\ wid \notin run.widths
    BY <1>2, <1>5, <1>13 DEF ScalesIt, NotYet
  <2> QED
    BY <1>1, <1>5, <2>1 DEF DoneTo
<1>16. \A x \in Nat : InBounds(d, x) =>
         Array(f, x) = IF MovesIt(run, it, q) /\ x = pos
                       THEN [Array(d, x) EXCEPT !.data = MovedPositions(d, it, q)]
                       ELSE IF ScalesIt(run, it, q) /\ x = wid
                            THEN [Array(d, x) EXCEPT !.data = Scaled(Data(d, x), q)]
                            ELSE Array(e, x)
  <2> TAKE x \in Nat
  <2> SUFFICES ASSUME InBounds(d, x)
               PROVE  Array(f, x) = IF MovesIt(run, it, q) /\ x = pos
                                    THEN [Array(d, x) EXCEPT !.data = MovedPositions(d, it, q)]
                                    ELSE IF ScalesIt(run, it, q) /\ x = wid
                                         THEN [Array(d, x) EXCEPT !.data = Scaled(Data(d, x), q)]
                                         ELSE Array(e, x)
    OBVIOUS
  <2>1. Array(f, x) = IF MovesIt(run, it, q) /\ x = pos
                      THEN [Array(e, x) EXCEPT !.data = MovedPositions(e, it, q)]
                      ELSE IF ScalesIt(run, it, q) /\ x = wid
                           THEN [Array(e, x) EXCEPT !.data = Scaled(Data(e, x), q)]
                           ELSE Array(e, x)
    BY <1>1, <1>2, <1>8, <1>10 DEF IsAfterItem, DoneTo
  <2>2. CASE MovesIt(run, it, q) /\ x = pos
    BY <1>14, <2>1, <2>2
  <2>3. CASE ~(MovesIt(run, it, q) /\ x = pos) /\ ScalesIt(run, it, q) /\ x = wid
    BY <1>15, <2>1, <2>3 DEF Data
  <2>4. CASE ~(MovesIt(run, it, q) /\ x = pos) /\ ~(ScalesIt(run, it, q) /\ x = wid)
    BY <2>1, <2>4
  <2> QED
    BY <2>2, <2>3, <2>4
<1>17. grown.positions = {x \in Nat : MovesPositions(q) /\ \E i \in 1 .. m : x = d.items[i].positions}
  <2>1. run.positions = {x \in Nat : MovesPositions(q) /\ \E i \in 1 .. m - 1 : x = d.items[i].positions}
    BY DEF DoneTo
  <2>2. \A i : i \in 1 .. m <=> i \in 1 .. m - 1 \/ i = m
    BY <1>3
  <2>3. MovesIt(run, it, q) <=> MovesPositions(q) /\ pos \notin run.positions
    BY <1>2 DEF MovesIt, NotYet
  <2>4. grown.positions = IF MovesIt(run, it, q) THEN run.positions \cup {pos} ELSE run.positions
    BY <1>10
  <2>5. pos \in Nat /\ pos = d.items[m].positions
    BY <1>1, <1>2, <1>5
  <2>6. ASSUME NEW x
        PROVE  x \in grown.positions <=>
                 x \in Nat /\ MovesPositions(q) /\ \E i \in 1 .. m : x = d.items[i].positions
    <3>1. x \in run.positions <=>
            x \in Nat /\ MovesPositions(q) /\ \E i \in 1 .. m - 1 : x = d.items[i].positions
      BY <2>1
    <3>2. (\E i \in 1 .. m : x = d.items[i].positions) <=>
            (\E i \in 1 .. m - 1 : x = d.items[i].positions) \/ x = pos
      BY <2>2, <2>5, Zenon
    <3>3. CASE MovesIt(run, it, q)
      BY <2>3, <2>4, <2>5, <3>1, <3>2, <3>3, Zenon
    <3>4. CASE ~MovesIt(run, it, q)
      BY <2>3, <2>4, <2>5, <3>1, <3>2, <3>4, Zenon
    <3> QED
      BY <3>3, <3>4
  <2> QED
    BY <2>6, Zenon
<1>18. grown.widths = {x \in Nat : q.width # 1 /\ \E i \in 1 .. m : x = d.items[i].widths}
  <2>1. run.widths = {x \in Nat : q.width # 1 /\ \E i \in 1 .. m - 1 : x = d.items[i].widths}
    BY DEF DoneTo
  <2>2. \A i : i \in 1 .. m <=> i \in 1 .. m - 1 \/ i = m
    BY <1>3
  <2>3. ScalesIt(run, it, q) <=> q.width # 1 /\ wid \notin run.widths
    BY <1>2 DEF ScalesIt, NotYet
  <2>4. grown.widths = IF ScalesIt(run, it, q) THEN run.widths \cup {wid} ELSE run.widths
    BY <1>10
  <2>5. wid \in Nat /\ wid = d.items[m].widths
    BY <1>1, <1>2, <1>5
  <2>6. ASSUME NEW x
        PROVE  x \in grown.widths <=>
                 x \in Nat /\ q.width # 1 /\ \E i \in 1 .. m : x = d.items[i].widths
    <3>1. x \in run.widths <=>
            x \in Nat /\ q.width # 1 /\ \E i \in 1 .. m - 1 : x = d.items[i].widths
      BY <2>1
    <3>2. (\E i \in 1 .. m : x = d.items[i].widths) <=>
            (\E i \in 1 .. m - 1 : x = d.items[i].widths) \/ x = wid
      BY <2>2, <2>5, Zenon
    <3>3. CASE ScalesIt(run, it, q)
      BY <2>3, <2>4, <2>5, <3>1, <3>2, <3>3, Zenon
    <3>4. CASE ~ScalesIt(run, it, q)
      BY <2>3, <2>4, <2>5, <3>1, <3>2, <3>4, Zenon
    <3> QED
      BY <3>3, <3>4
  <2> QED
    BY <2>6, Zenon
<1>19. pos # wid /\ pos \notin run.widths /\ wid \notin run.positions
  BY <1>5, <1>13
<1>20. ASSUME NEW x \in Nat, InBounds(d, x), x \notin grown.positions, x \notin grown.widths
       PROVE  Array(f, x) = Array(d, x)
  <2>1. /\ x \notin run.positions /\ x \notin run.widths
        /\ ~(MovesIt(run, it, q) /\ x = pos) /\ ~(ScalesIt(run, it, q) /\ x = wid)
    BY <1>10, <1>20
  <2>2. Array(e, x) = Array(d, x)
    BY <1>1, <1>20, <2>1 DEF DoneTo
  <2> QED
    BY <1>16, <1>20, <2>1, <2>2
<1>21. ASSUME NEW x \in grown.positions
       PROVE  \E i \in 1 .. m : /\ x = d.items[i].positions
                                /\ Array(f, x) = [Array(d, x) EXCEPT !.data = MovedPositions(d, d.items[i], q)]
  <2>1. CASE MovesIt(run, it, q) /\ x = pos
    <3>1. Array(f, x) = [Array(d, x) EXCEPT !.data = MovedPositions(d, it, q)]
      BY <1>5, <1>16, <2>1
    <3>2. m \in 1 .. m
      BY <1>3
    <3> QED
      BY <1>1, <1>2, <2>1, <3>1, <3>2
  <2>2. CASE ~(MovesIt(run, it, q) /\ x = pos)
    <3>1. x \in run.positions /\ x # wid
      BY <1>10, <1>19, <2>2
    <3>2. Array(f, x) = Array(e, x)
      BY <1>13, <1>16, <2>2, <3>1
    <3>3. PICK i \in 1 .. m - 1 :
            /\ x = d.items[i].positions
            /\ Array(e, x) = [Array(d, x) EXCEPT !.data = MovedPositions(d, d.items[i], q)]
      BY <1>1, <3>1 DEF DoneTo
    <3>4. i \in 1 .. m
      BY <1>3
    <3> QED
      BY <3>2, <3>3, <3>4
  <2> QED
    BY <2>1, <2>2
<1>22. ASSUME NEW x \in grown.widths
       PROVE  Array(f, x) = [Array(d, x) EXCEPT !.data = Scaled(Data(d, x), q)]
  <2>1. CASE ScalesIt(run, it, q) /\ x = wid
    BY <1>5, <1>16, <1>19, <2>1
  <2>2. CASE ~(ScalesIt(run, it, q) /\ x = wid)
    <3>1. x \in run.widths /\ x # pos
      BY <1>10, <1>19, <2>2
    <3>2. Array(f, x) = Array(e, x)
      BY <1>13, <1>16, <2>2, <3>1
    <3> QED
      BY <1>1, <3>1, <3>2 DEF DoneTo
  <2> QED
    BY <2>1, <2>2
<1>23. DoneTo(grown, d, q, m)
  <2>1. \A x \in Nat : InBounds(d, x) /\ x \notin grown.positions /\ x \notin grown.widths =>
          Array(f, x) = Array(d, x)
    BY <1>20
  <2>2. \A x \in grown.positions : \E i \in 1 .. m :
          /\ x = d.items[i].positions
          /\ Array(f, x) = [Array(d, x) EXCEPT !.data = MovedPositions(d, d.items[i], q)]
    BY <1>21
  <2>3. \A x \in grown.widths : Array(f, x) = [Array(d, x) EXCEPT !.data = Scaled(Data(d, x), q)]
    BY <1>22
  <2> QED
    <3>1. grown \in Runs(q) /\ ~grown.threw /\ grown.document.items = d.items
      BY <1>9, <1>10, <1>11, <1>12
    <3>2. \A x \in Nat : InBounds(grown.document, x) = InBounds(d, x)
      BY <1>9, <1>11
    <3>3. \A x \in Nat : InBounds(d, x) /\ x \notin grown.positions /\ x \notin grown.widths =>
            Array(grown.document, x) = Array(d, x)
      BY <1>9, <2>1
    <3>4. \A x \in grown.positions : \E i \in 1 .. m :
            /\ x = d.items[i].positions
            /\ Array(grown.document, x) = [Array(d, x) EXCEPT !.data = MovedPositions(d, d.items[i], q)]
      BY <1>9, <2>2
    <3>5. \A x \in grown.widths : Array(grown.document, x) = [Array(d, x) EXCEPT !.data = Scaled(Data(d, x), q)]
      BY <1>9, <2>3
    <3> QED
      BY <1>17, <1>18, <3>1, <3>2, <3>3, <3>4, <3>5 DEF DoneTo
<1> QED
  BY <1>1, <1>23

LEMMA ProcessIsDone ==
  ASSUME NEW d \in DocumentSet, Shaped(d), NEW q \in ParameterSet, ParametersFit(q)
  PROVE  DoneTo(ProcessDocument(d, q), d, q, Len(d.items))
<1>1. PICK h : IsProcess(h, d, q)
  BY ProcessOneByOne
<1>2. Len(d.items) \in Nat
  BY DEF DocumentSet
<1> DEFINE T == {m \in 0 .. Len(d.items) : DoneTo(h[m], d, q, m)}
<1>3. 0 \in T
  <2>1. h[0] = StartOf(d, q) /\ h[0] \in Runs(q)
    BY <1>1, <1>2 DEF IsProcess
  <2>2. /\ ~h[0].threw /\ h[0].document = d /\ h[0].positions = {} /\ h[0].widths = {}
    <3>1. h[0].threw = ~ParametersFit(q) /\ h[0].document = d /\ h[0].positions = {} /\ h[0].widths = {}
      <4>1. /\ StartOf(d, q).threw = ~ParametersFit(q) /\ StartOf(d, q).document = d
            /\ StartOf(d, q).positions = {} /\ StartOf(d, q).widths = {}
        BY DEF StartOf
      <4> QED
        BY <2>1, <4>1, Zenon
    <3> QED
      BY <3>1
  <2>3. DoneTo(h[0], d, q, 0)
    BY <2>1, <2>2 DEF DoneTo
  <2> QED
    BY <1>2, <2>3
<1>4. ASSUME NEW m \in 1 .. Len(d.items), m - 1 \in T PROVE m \in T
  <2>1. h[m] = ProcessItem(h[m - 1], d.items[m], q) /\ DoneTo(h[m - 1], d, q, m - 1)
    BY <1>1, <1>4 DEF IsProcess
  <2>2. DoneTo(h[m], d, q, m)
    BY <2>1, DoneStep
  <2> QED
    BY <1>2, <2>2
<1>5. Len(d.items) \in T
  <2> HIDE DEF T
  <2>1. \A m \in 0 .. Len(d.items) : m \in T
    BY <1>2, <1>3, <1>4, Induct
  <2> QED
    BY <1>2, <2>1
<1> QED
  BY <1>1, <1>5 DEF IsProcess

\* What has become of an item's points and widths.
LEMMA PointsProcessed ==
  ASSUME NEW d \in DocumentSet, Shaped(d), NEW q \in ParameterSet, ParametersFit(q),
         \A i \in 1 .. Len(d.items) : ItemFits(d, d.items[i]), NEW i \in 1 .. Len(d.items),
         NEW p \in Primitives(d, d.items[i]),
         NEW k \in 1 .. Count(d, d.items[i], Stride(d, d.items[i]), p)
  PROVE  LET it == d.items[i]
             e == ProcessDocument(d, q).document
             first == First(d, it, Stride(d, it), p)
         IN  /\ Data(e, it.positions)[first + k] \in Int
             /\ StandsAlone(d, it, p) =>
                  Data(e, it.positions)[first + k] =
                    Moved(Data(d, it.positions)[first + k], Data(d, it.positions)[first + 1], q)
<1>1. PICK it, run, e, n : /\ it = d.items[i] /\ run = ProcessDocument(d, q) /\ e = run.document
                           /\ n = Len(d.items)
  OBVIOUS
<1>2. PICK pos, first, count : /\ pos = it.positions /\ first = First(d, it, Stride(d, it), p)
                               /\ count = Count(d, it, Stride(d, it), p)
  OBVIOUS
<1>3. DoneTo(run, d, q, n)
  BY <1>1, ProcessIsDone
<1>4. /\ it \in ItemSet /\ ItemMoves(d, it) /\ ShapesFit(d, it) /\ ChannelsFit(d, it)
      /\ pos \in Nat /\ InBounds(d, pos) /\ Array(d, pos).tag = "vec3" /\ Array(d, pos) \in Arrays
  BY <1>1, <1>2, ShapedIs, ArrayIsTyped DEF ItemSet
<1>5. DOMAIN d.items = 1 .. n /\ n \in Nat
  BY <1>1 DEF DocumentSet
<1>6. /\ first + k \in 1 .. Len(Data(d, pos))
      /\ Data(d, pos)[first + k] \in Int /\ Data(d, pos)[first + 1] \in Int
  <2>1. RangeFits(d, it, Stride(d, it), p) /\ GoodPoints(d, it, Stride(d, it), p)
    BY <1>1 DEF ItemFits
  <2>2. PICK span : span = Span(d, it, pos, Stride(d, it), p)
    OBVIOUS
  <2>3. /\ span \in Seq(Values) /\ DOMAIN span = 1 .. count /\ count >= 2 /\ count \in Nat
        /\ \A m \in 1 .. count : span[m] = Data(d, pos)[first + m] /\ first + m \in 1 .. Len(Data(d, pos))
    <3>1. p \in Primitives(d, it) /\ pos \in {it.positions, it.widths, it.patchUVs}
      BY <1>1, <1>2
    <3>2. LET part == Span(d, it, pos, Stride(d, it), p)
              from == First(d, it, Stride(d, it), p)
              size == Count(d, it, Stride(d, it), p)
          IN  /\ part \in Seq(Values) /\ Len(part) = size /\ DOMAIN part = 1 .. size
              /\ size >= 2
              /\ \A m \in 1 .. size : part[m] = Data(d, pos)[from + m]
                                       /\ from + m \in 1 .. Len(Data(d, it.positions))
      BY <1>4, <2>1, <3>1, SpanIs
    <3>3. count \in Nat
      BY <1>2, <1>4, <3>1, ShapedItem
    <3> QED
      BY <1>2, <2>2, <3>2, <3>3
  <2>4. \A m \in 1 .. count : Finite(span[m]) /\ span[m] \in Values
    <3>1. AllFinite(span)
      BY <1>2, <2>1, <2>2 DEF GoodPoints
    <3>2. \A t \in Seq(Values) : \A m \in DOMAIN t : t[m] \in Values
      OBVIOUS
    <3>3. \A m \in 1 .. count : span[m] \in Values
      BY <2>3, <3>2, Zenon
    <3> QED
      BY <2>3, <3>1, <3>3 DEF AllFinite
  <2>5. 1 \in 1 .. count /\ k \in 1 .. count
    BY <1>1, <1>2, <2>3
  <2> QED
    BY <2>3, <2>4, <2>5 DEF Finite, Values
<1>7. CASE MovesPositions(q)
  <2>1. pos \in run.positions
    BY <1>1, <1>2, <1>3, <1>4, <1>7 DEF DoneTo
  <2>2. PICK j \in 1 .. n : /\ pos = d.items[j].positions
                            /\ Array(e, pos) = [Array(d, pos) EXCEPT !.data = MovedPositions(d, d.items[j], q)]
    BY <1>1, <1>3, <2>1 DEF DoneTo
  <2>3. PICK owner : owner = d.items[j]
    OBVIOUS
  <2>4. owner \in ItemSet /\ ItemMoves(d, owner) /\ ItemFits(d, owner) /\ owner.positions = pos
    BY <1>1, <2>2, <2>3, ShapedIs
  <2>5. Data(e, pos) = MovedPositions(d, owner, q)
    BY <1>4, <2>2, <2>3 DEF Data, Arrays
  <2>6. MovedPositions(d, owner, q)[first + k] \in Int
    BY <1>6, <2>4, MovedIsFinite
  <2>7. ASSUME StandsAlone(d, it, p)
        PROVE  MovedPositions(d, owner, q)[first + k] = Moved(Data(d, pos)[first + k], Data(d, pos)[first + 1], q)
    <3>1. PICK r \in Primitives(d, owner) :
            /\ SamePoints(d, it, p, owner, r)
            /\ \A o \in Primitives(d, owner) : o # r => Disjoint(d, owner, r, o)
      BY <1>2, <1>5, <2>2, <2>3, <2>7 DEF StandsAlone
    <3>2. IsApart(d, owner, r)
      BY <3>1 DEF IsApart
    <3>3. First(d, owner, Stride(d, owner), r) = first /\ Count(d, owner, Stride(d, owner), r) = count
      BY <1>2, <3>1 DEF SamePoints
    <3>4. k \in 1 .. Count(d, owner, Stride(d, owner), r)
      BY <1>1, <1>2, <3>3
    <3> QED
      BY <2>4, <3>2, <3>3, <3>4, MovedApart
  <2> QED
    BY <1>1, <1>2, <2>5, <2>6, <2>7
<1>8. CASE ~MovesPositions(q)
  <2>1. run.positions = {} /\ pos \notin run.widths
    <3>1. \A j \in 1 .. n : Array(d, d.items[j].widths).tag = "float"
      BY <1>1, ShapedIs
    <3> QED
      BY <1>1, <1>3, <1>4, <1>8, <3>1 DEF DoneTo
  <2>2. Array(e, pos) = Array(d, pos)
    BY <1>1, <1>3, <1>4, <2>1 DEF DoneTo
  <2>3. q.length = 1 /\ q.move = 0
    BY <1>8 DEF MovesPositions
  <2>4. \A v, root \in Int : Moved(v, root, q) = v
    BY <2>3, XGenDocumentAssumption DEF Moved, Finite
  <2> QED
    BY <1>1, <1>2, <1>6, <2>2, <2>4 DEF Data
<1> QED
  BY <1>7, <1>8

LEMMA WidthsProcessed ==
  ASSUME NEW d \in DocumentSet, Shaped(d), NEW q \in ParameterSet, ParametersFit(q),
         NEW i \in 1 .. Len(d.items)
  PROVE  LET it == d.items[i]
             e == ProcessDocument(d, q).document
         IN  \A m \in 1 .. Len(Data(d, it.widths)) :
               Data(e, it.widths)[m] = Times(Data(d, it.widths)[m], q.width)
<1>1. PICK it, run, e, n : /\ it = d.items[i] /\ run = ProcessDocument(d, q) /\ e = run.document
                           /\ n = Len(d.items)
  OBVIOUS
<1>2. PICK wid : wid = it.widths
  OBVIOUS
<1>3. DoneTo(run, d, q, n)
  BY <1>1, ProcessIsDone
<1>4. /\ wid \in Nat /\ InBounds(d, wid) /\ Array(d, wid).tag = "float" /\ Array(d, wid) \in Arrays
  BY <1>1, <1>2, ShapedIs, ArrayIsTyped DEF ItemSet
<1>5. Data(d, wid) \in Seq(Values) /\ DOMAIN Data(d, wid) = 1 .. Len(Data(d, wid))
  BY <1>4 DEF Data, Arrays
<1>6. CASE q.width # 1
  <2>1. wid \in run.widths
    BY <1>1, <1>2, <1>3, <1>4, <1>6 DEF DoneTo
  <2>2. Array(e, wid) = [Array(d, wid) EXCEPT !.data = Scaled(Data(d, wid), q)]
    BY <1>1, <1>3, <2>1 DEF DoneTo
  <2>3. Data(e, wid) = Scaled(Data(d, wid), q)
    BY <1>4, <2>2 DEF Data, Arrays
  <2> QED
    BY <1>1, <1>2, <1>5, <2>3 DEF Scaled
<1>7. CASE q.width = 1
  <2>1. run.widths = {} /\ wid \notin run.positions
    <3>1. \A j \in 1 .. n : Array(d, d.items[j].positions).tag = "vec3"
      BY <1>1, ShapedIs
    <3> QED
      BY <1>1, <1>3, <1>4, <1>7, <3>1 DEF DoneTo
  <2>2. Array(e, wid) = Array(d, wid)
    BY <1>1, <1>3, <1>4, <2>1 DEF DoneTo
  <2>3. \A v \in Values : Times(v, q.width) = v
    BY <1>7 DEF Times, Values, Finite
  <2>4. \A m \in 1 .. Len(Data(d, wid)) : Data(d, wid)[m] \in Values
    BY <1>5
  <2> QED
    BY <1>1, <1>2, <2>2, <2>3, <2>4 DEF Data
<1> QED
  BY <1>6, <1>7

LEMMA ProcessKeepsShape ==
  ASSUME NEW d \in DocumentSet, Shaped(d), NEW q \in ParameterSet, ParametersFit(q)
  PROVE  LET e == ProcessDocument(d, q).document
         IN  /\ e \in DocumentSet /\ e.items = d.items /\ Shaped(e)
             /\ \A i \in 1 .. Len(d.items) : \A p \in Primitives(d, d.items[i]) :
                  StandsAlone(e, d.items[i], p) <=> StandsAlone(d, d.items[i], p)
             /\ \A i \in 1 .. Len(d.items) : SameItem(d, e, d.items[i])
<1>1. PICK run, e : run = ProcessDocument(d, q) /\ e = run.document
  OBVIOUS
<1>2. DOMAIN d.items = 1 .. Len(d.items) /\ Len(d.items) \in Nat
  BY DEF DocumentSet
<1>3. DoneTo(run, d, q, Len(d.items)) /\ e \in DocumentSet /\ e.items = d.items
  BY <1>1, ProcessIsDone, ProcessIsTyped DEF DoneTo
<1>4. \A i \in 1 .. Len(d.items) : SameItem(d, e, d.items[i])
  BY <1>1, <1>2, <1>3, DoneIsSame
<1>5. \A i \in 1 .. Len(d.items) :
        LET it == d.items[i]
        IN  /\ ShapesFit(e, it) <=> ShapesFit(d, it)
            /\ ChannelsFit(e, it) <=> ChannelsFit(d, it)
            /\ Primitives(e, it) = Primitives(d, it) /\ Stride(e, it) = Stride(d, it)
            /\ \A st, p : /\ First(e, it, st, p) = First(d, it, st, p) /\ Count(e, it, st, p) = Count(d, it, st, p)
                          /\ RangeFits(e, it, st, p) <=> RangeFits(d, it, st, p)
  BY <1>4, SameItemFits
<1>6. Shaped(e)
  BY <1>2, <1>3, <1>5 DEF Shaped
<1>7. \A i, j \in 1 .. Len(d.items) : \A p, r :
        /\ Disjoint(e, d.items[i], p, r) <=> Disjoint(d, d.items[i], p, r)
        /\ SamePoints(e, d.items[i], p, d.items[j], r) <=> SamePoints(d, d.items[i], p, d.items[j], r)
  <2> TAKE i, j \in 1 .. Len(d.items)
  <2> TAKE p, r
  <2>1. PICK it, other : it = d.items[i] /\ other = d.items[j]
    OBVIOUS
  <2>2. /\ Stride(e, it) = Stride(d, it) /\ Stride(e, other) = Stride(d, other)
        /\ \A st, x : /\ First(e, it, st, x) = First(d, it, st, x) /\ Count(e, it, st, x) = Count(d, it, st, x)
                      /\ First(e, other, st, x) = First(d, other, st, x)
                      /\ Count(e, other, st, x) = Count(d, other, st, x)
    BY <1>5, <2>1
  <2>3. Disjoint(e, it, p, r) <=> Disjoint(d, it, p, r)
    BY <2>2 DEF Disjoint
  <2>4. SamePoints(e, it, p, other, r) <=> SamePoints(d, it, p, other, r)
    BY <2>2 DEF SamePoints
  <2> QED
    BY <2>1, <2>3, <2>4
<1>8. ASSUME NEW i \in 1 .. Len(d.items), NEW p \in Primitives(d, d.items[i])
      PROVE  StandsAlone(e, d.items[i], p) <=> StandsAlone(d, d.items[i], p)
  <2>1. \A j \in 1 .. Len(d.items) : Primitives(e, d.items[j]) = Primitives(d, d.items[j])
    BY <1>5
  <2>2. \A j \in 1 .. Len(d.items) :
          (\E r \in Primitives(e, d.items[j]) :
             /\ SamePoints(e, d.items[i], p, d.items[j], r)
             /\ \A o \in Primitives(e, d.items[j]) : o # r => Disjoint(e, d.items[j], r, o))
          <=>
          (\E r \in Primitives(d, d.items[j]) :
             /\ SamePoints(d, d.items[i], p, d.items[j], r)
             /\ \A o \in Primitives(d, d.items[j]) : o # r => Disjoint(d, d.items[j], r, o))
    BY <1>7, <2>1
  <2> QED
    BY <1>2, <1>3, <2>2 DEF StandsAlone
<1> QED
  BY <1>1, <1>3, <1>4, <1>6, <1>8

LEMMA ProcessedCurveIs ==
  ASSUME NEW c \in CurveSet, NEW q
  PROVE  ProcessedCurve(c, q) =
           [key |-> c.key,
            positions |-> [n \in DOMAIN c.positions |-> Moved(c.positions[n], c.positions[1], q)],
            widths |-> [n \in DOMAIN c.widths |-> Times(c.widths[n], q.width)]]
<1>1. PICK key, s, w : key = c.key /\ s = c.positions /\ w = c.widths
  OBVIOUS
<1>2. c = [key |-> key, positions |-> s, widths |-> w]
  BY <1>1 DEF CurveSet
<1>3. PICK u, v : /\ u = [n \in DOMAIN c.positions |-> Moved(c.positions[n], c.positions[1], q)]
                  /\ v = [n \in DOMAIN c.widths |-> Times(c.widths[n], q.width)]
  OBVIOUS
<1>4. ProcessedCurve(c, q) = [c EXCEPT !.positions = u, !.widths = v]
  BY <1>3 DEF ProcessedCurve
<1>5. [c EXCEPT !.positions = u] = [key |-> key, positions |-> u, widths |-> w]
  BY <1>2
<1>6. PICK a : a = [c EXCEPT !.positions = u]
  OBVIOUS
<1>7. a = [key |-> key, positions |-> u, widths |-> w]
  BY <1>5, <1>6
<1>8. [a EXCEPT !.widths = v] = [key |-> key, positions |-> u, widths |-> v]
  BY <1>7
<1>9. [c EXCEPT !.positions = u, !.widths = v] = [a EXCEPT !.widths = v]
  BY <1>6
<1> QED
  BY <1>1, <1>3, <1>4, <1>8, <1>9

\* Processed curves are curves.
LEMMA ProcessedIsTyped ==
  ASSUME NEW s \in Seq(CurveSet), NEW q \in ParameterSet, ParametersFit(q)
  PROVE  ProcessedCurves(s, q) \in Seq(CurveSet) /\ (ProcessedCurves(s, q) = Invalid <=> s = Invalid)
<1>1. q.width \in Nat
  BY DEF ParameterSet, ParametersFit, Finite, Values
<1>2. ASSUME NEW c \in CurveSet PROVE ProcessedCurve(c, q) \in CurveSet
  <2>1. /\ c.key \in Nat \X Int \X Int /\ c.positions \in Seq(Int) /\ c.widths \in Seq(Nat)
        /\ Len(c.positions) >= 2 /\ Len(c.widths) = Len(c.positions)
    BY DEF CurveSet
  <2>2. PICK s1, w, n : s1 = c.positions /\ w = c.widths /\ n = Len(c.positions)
    OBVIOUS
  <2>3. /\ n \in Nat /\ n >= 2 /\ DOMAIN s1 = 1 .. n /\ DOMAIN w = 1 .. n /\ 1 \in 1 .. n
        /\ \A m \in 1 .. n : s1[m] \in Int
        /\ \A m \in 1 .. n : w[m] \in Nat
    <3>1. s1 \in Seq(Int) /\ w \in Seq(Nat) /\ Len(s1) = n /\ Len(w) = n /\ n \in Nat /\ n >= 2
      BY <2>1, <2>2
    <3>2. DOMAIN s1 = 1 .. n /\ DOMAIN w = 1 .. n /\ 1 \in 1 .. n
      BY <3>1
    <3>3. \A t \in Seq(Int) : \A k \in DOMAIN t : t[k] \in Int
      OBVIOUS
    <3>4. \A t \in Seq(Nat) : \A k \in DOMAIN t : t[k] \in Nat
      OBVIOUS
    <3> QED
      BY <3>1, <3>2, <3>3, <3>4, Zenon
  <2>4. PICK u, v : /\ u = [m \in 1 .. n |-> Moved(s1[m], s1[1], q)]
                    /\ v = [m \in 1 .. n |-> Times(w[m], q.width)]
    OBVIOUS
  <2>5. \A m \in 1 .. n : Moved(s1[m], s1[1], q) \in Int
    BY <2>3, MovedIsValue DEF Values
  <2>6. \A x \in Nat : Times(x, q.width) \in Nat
    <3> TAKE x \in Nat
    <3>1. Finite(x) /\ x * q.width \in Nat
      BY <1>1, XGenDocumentAssumption DEF Finite
    <3> QED
      BY <3>1 DEF Times
  <2>7. u \in [1 .. n -> Int] /\ v \in [1 .. n -> Nat]
    BY <2>3, <2>4, <2>5, <2>6
  <2>8. u \in Seq(Int) /\ v \in Seq(Nat) /\ Len(u) = n /\ Len(v) = n
    <3>1. n \in Nat
      BY <2>3
    <3>2. \A f \in [1 .. n -> Int] : f \in Seq(Int) /\ Len(f) = n
      BY <3>1
    <3>3. \A f \in [1 .. n -> Nat] : f \in Seq(Nat) /\ Len(f) = n
      BY <3>1
    <3> QED
      BY <2>7, <3>2, <3>3, Zenon
  <2>9. ProcessedCurve(c, q) = [key |-> c.key, positions |-> u, widths |-> v]
    BY <2>2, <2>3, <2>4, ProcessedCurveIs
  <2>10. PICK key : key = c.key
    OBVIOUS
  <2>11. /\ [key |-> key, positions |-> u, widths |-> v]
              \in [key : Nat \X Int \X Int, positions : Seq(Int), widths : Seq(Nat)]
    BY <2>1, <2>8, <2>10
  <2>12. [key |-> key, positions |-> u, widths |-> v] \in CurveSet
    BY <2>3, <2>8, <2>11 DEF CurveSet
  <2> QED
    BY <2>9, <2>10, <2>12
<1>3. /\ Len(s) \in Nat /\ DOMAIN s = 1 .. Len(s) /\ \A n \in 1 .. Len(s) : s[n] \in CurveSet
  OBVIOUS
<1>4. PICK t : t = ProcessedCurves(s, q)
  OBVIOUS
<1>5. t \in [1 .. Len(s) -> CurveSet]
  BY <1>2, <1>3, <1>4 DEF ProcessedCurves
<1>6. t \in Seq(CurveSet) /\ Len(t) = Len(s)
  BY <1>3, <1>5
<1>7. t = <<>> <=> s = <<>>
  BY <1>6
<1> QED
  BY <1>4, <1>6, <1>7 DEF Invalid

\* Two curves that agree, in their positions only if they must.
Matches(x, y, alone) ==
  x.key = y.key /\ x.widths = y.widths /\ (alone => x.positions = y.positions)

LEMMA ItemProcessed ==
  ASSUME NEW d \in DocumentSet, Shaped(d), NEW q \in ParameterSet, ParametersFit(q),
         \A i \in 1 .. Len(d.items) : ItemFits(d, d.items[i]),
         NEW i \in 1 .. Len(d.items), NEW p \in Primitives(d, d.items[i])
  PROVE  LET it == d.items[i]
             e == ProcessDocument(d, q).document
         IN  /\ Matches(CurveAt(e, it, p), ProcessedCurve(CurveAt(d, it, p), q), StandsAlone(d, it, p))
             /\ Finite(At(Data(e, it.faceUVs), p))
             /\ GoodPoints(e, it, Stride(e, it), p)
             /\ AllFinite(Span(e, it, it.patchUVs, Stride(e, it), p))
<1>1. PICK it, e : it = d.items[i] /\ e = ProcessDocument(d, q).document
  OBVIOUS
<1>2. PICK st, first, count, D, W :
        /\ st = Stride(d, it) /\ first = First(d, it, st, p) /\ count = Count(d, it, st, p)
        /\ D = Data(d, it.positions) /\ W = Data(d, it.widths)
  OBVIOUS
<1>3. /\ e \in DocumentSet /\ Shaped(e) /\ e.items = d.items /\ SameItem(d, e, it)
  BY <1>1, ProcessKeepsShape
<1>4. /\ it \in ItemSet /\ ShapesFit(d, it) /\ ChannelsFit(d, it) /\ ShapesFit(e, it) /\ ChannelsFit(e, it)
      /\ p \in Primitives(d, it) /\ p \in Primitives(e, it)
      /\ RangeFits(d, it, st, p) /\ RangeFits(e, it, st, p)
      /\ Stride(e, it) = st /\ First(e, it, st, p) = first /\ Count(e, it, st, p) = count
  <2>1. /\ it \in ItemSet /\ ShapesFit(d, it) /\ ChannelsFit(d, it) /\ RangeFits(d, it, st, p)
    BY <1>1, <1>2, ShapedIs DEF ItemFits
  <2> QED
    BY <1>1, <1>2, <1>3, <2>1, SameItemFits
<1>5. count \in Nat /\ count >= 2
  BY <1>2, <1>4, ShapedItem DEF RangeFits
<1>6. \A id \in {it.positions, it.widths, it.patchUVs} :
        /\ Span(d, it, id, st, p) \in Seq(Values) /\ DOMAIN Span(d, it, id, st, p) = 1 .. count
        /\ \A k \in 1 .. count : Span(d, it, id, st, p)[k] = Data(d, id)[first + k]
                                   /\ first + k \in 1 .. Len(D)
  BY <1>2, <1>4, SpanIs
<1>7. \A id \in {it.positions, it.widths, it.patchUVs} :
        /\ Span(e, it, id, st, p) \in Seq(Values) /\ DOMAIN Span(e, it, id, st, p) = 1 .. count
        /\ \A k \in 1 .. count : Span(e, it, id, st, p)[k] = Data(e, id)[first + k]
  BY <1>3, <1>4, SpanIs
<1>8. PICK c, posd, pose, widd, wide :
        /\ c = CurveAt(d, it, p)
        /\ posd = Span(d, it, it.positions, st, p) /\ pose = Span(e, it, it.positions, st, p)
        /\ widd = Span(d, it, it.widths, st, p) /\ wide = Span(e, it, it.widths, st, p)
  OBVIOUS
<1>9. c \in CurveSet /\ c.positions = posd /\ c.widths = widd
  <2>1. c \in CurveSet
    BY <1>1, <1>4, <1>8, CurveIsTyped
  <2> QED
    BY <1>2, <1>8, <2>1 DEF CurveAt
<1>10. /\ posd \in Seq(Int) /\ widd \in Seq(Nat) /\ DOMAIN posd = 1 .. count /\ DOMAIN widd = 1 .. count
       /\ DOMAIN pose = 1 .. count /\ DOMAIN wide = 1 .. count
       /\ \A k \in 1 .. count : posd[k] \in Int /\ widd[k] \in Nat
  <2>1. posd \in Seq(Int) /\ widd \in Seq(Nat)
    BY <1>9 DEF CurveSet
  <2>2. /\ DOMAIN posd = 1 .. count /\ DOMAIN widd = 1 .. count
        /\ DOMAIN pose = 1 .. count /\ DOMAIN wide = 1 .. count
    BY <1>6, <1>7, <1>8
  <2>3. \A s \in Seq(Int) : \A k \in DOMAIN s : s[k] \in Int
    OBVIOUS
  <2>4. \A s \in Seq(Nat) : \A k \in DOMAIN s : s[k] \in Nat
    OBVIOUS
  <2> QED
    BY <2>1, <2>2, <2>3, <2>4, Zenon
<1>11. \A k \in 1 .. count : /\ pose[k] \in Int
                             /\ StandsAlone(d, it, p) => pose[k] = Moved(posd[k], posd[1], q)
  <2> TAKE k \in 1 .. count
  <2>1. /\ Data(e, it.positions)[first + k] \in Int
        /\ StandsAlone(d, it, p) => Data(e, it.positions)[first + k] = Moved(D[first + k], D[first + 1], q)
    BY <1>1, <1>2, PointsProcessed
  <2>2. pose[k] = Data(e, it.positions)[first + k] /\ posd[k] = D[first + k]
    BY <1>2, <1>6, <1>7, <1>8
  <2>3. posd[1] = D[first + 1]
    <3>1. 1 \in 1 .. count
      BY <1>5
    <3> QED
      BY <1>2, <1>6, <1>8, <3>1
  <2> QED
    BY <2>1, <2>2, <2>3
<1>12. \A k \in 1 .. count : wide[k] = Times(widd[k], q.width)
  <2> TAKE k \in 1 .. count
  <2>1. first + k \in 1 .. Len(W)
    BY <1>2, <1>4, <1>6 DEF ShapesFit
  <2>2. Data(e, it.widths)[first + k] = Times(W[first + k], q.width)
    BY <1>1, <1>2, <2>1, WidthsProcessed
  <2>3. wide[k] = Data(e, it.widths)[first + k] /\ widd[k] = W[first + k]
    BY <1>2, <1>6, <1>7, <1>8
  <2> QED
    BY <2>2, <2>3
<1>13. /\ Data(e, it.faceIds) = Data(d, it.faceIds) /\ Data(e, it.faceUVs) = Data(d, it.faceUVs)
       /\ Data(e, it.patchUVs) = Data(d, it.patchUVs)
  BY <1>3 DEF SameItem, Data
<1>14. Matches(CurveAt(e, it, p), ProcessedCurve(c, q), StandsAlone(d, it, p))
  <2>1. StandsAlone(d, it, p) => pose = [k \in DOMAIN posd |-> Moved(posd[k], posd[1], q)]
    <3>1. pose \in Seq(Values)
      BY <1>7, <1>8
    <3> QED
      BY <1>10, <1>11, <3>1
  <2>2. wide = [k \in DOMAIN widd |-> Times(widd[k], q.width)]
    <3>1. wide \in Seq(Values)
      BY <1>7, <1>8
    <3> QED
      BY <1>10, <1>12, <3>1
  <2>3. CurveAt(e, it, p) = [key |-> c.key, positions |-> pose, widths |-> wide]
    BY <1>2, <1>4, <1>8, <1>13 DEF CurveAt
  <2>4. ProcessedCurve(c, q) = [key |-> c.key, positions |-> [k \in DOMAIN posd |-> Moved(posd[k], posd[1], q)],
                                widths |-> [k \in DOMAIN widd |-> Times(widd[k], q.width)]]
    BY <1>9, ProcessedCurveIs
  <2> QED
    BY <2>1, <2>2, <2>3, <2>4 DEF Matches
<1>15. GoodPoints(e, it, st, p)
  <2>1. q.width \in Nat
    BY DEF ParameterSet, ParametersFit, Finite, Values
  <2>2. \A k \in 1 .. count : pose[k] \in Int
    BY <1>11
  <2>3. \A w \in Nat : Times(w, q.width) \in Nat
    <3> TAKE w \in Nat
    <3>1. Finite(w)
      BY XGenDocumentAssumption DEF Finite
    <3>2. w * q.width \in Nat
      BY <2>1
    <3> QED
      BY <3>1, <3>2 DEF Times
  <2>4. \A k \in 1 .. count : wide[k] \in Nat
    BY <1>10, <1>12, <2>3
  <2>5. \A v \in Int : Finite(v)
    BY XGenDocumentAssumption DEF Finite
  <2>6. \A w \in Range(wide) : w \in Nat
    BY <1>10, <2>4 DEF Range
  <2> QED
    BY <1>8, <1>10, <2>2, <2>4, <2>5, <2>6 DEF GoodPoints, AllFinite
<1>16. AllFinite(Span(e, it, it.patchUVs, st, p)) /\ Finite(At(Data(e, it.faceUVs), p))
  <2>1. Span(e, it, it.patchUVs, st, p) = Span(d, it, it.patchUVs, st, p)
    BY <1>2, <1>4, <1>13 DEF Span
  <2>2. AllFinite(Span(d, it, it.patchUVs, st, p)) /\ Finite(At(Data(d, it.faceUVs), p))
    BY <1>1, <1>2 DEF ItemFits
  <2> QED
    BY <1>13, <2>1, <2>2
<1> QED
  BY <1>1, <1>4, <1>8, <1>14, <1>15, <1>16

\* Of each curve of the document whether it stands alone, item by item.
AloneLists(d) ==
  [i \in DOMAIN d.items |->
     [k \in 1 .. Len(Data(d, d.items[i].faceIds)) |-> StandsAlone(d, d.items[i], k - 1)]]

LEMMA AloneIs == ASSUME NEW d PROVE Alone(d) = FlattenSeq(AloneLists(d))
BY DEF Alone, Gather, AloneLists

LEMMA AloneTyped ==
  ASSUME NEW d \in DocumentSet, Shaped(d)
  PROVE  /\ AloneLists(d) \in [1 .. Len(d.items) -> Seq(BOOLEAN)]
         /\ \A i \in 1 .. Len(d.items) :
              /\ Len(Data(d, d.items[i].faceIds)) \in Nat
              /\ Len(AloneLists(d)[i]) = Len(Data(d, d.items[i].faceIds))
              /\ \A k \in 1 .. Len(Data(d, d.items[i].faceIds)) :
                   /\ k - 1 \in Primitives(d, d.items[i])
                   /\ AloneLists(d)[i][k] = StandsAlone(d, d.items[i], k - 1)
<1>1. DOMAIN d.items = 1 .. Len(d.items) /\ Len(d.items) \in Nat
  BY DEF DocumentSet
<1>2. ASSUME NEW i \in 1 .. Len(d.items)
      PROVE  /\ AloneLists(d)[i] \in Seq(BOOLEAN)
             /\ Len(Data(d, d.items[i].faceIds)) \in Nat
             /\ Len(AloneLists(d)[i]) = Len(Data(d, d.items[i].faceIds))
             /\ \A k \in 1 .. Len(Data(d, d.items[i].faceIds)) :
                  /\ k - 1 \in Primitives(d, d.items[i])
                  /\ AloneLists(d)[i][k] = StandsAlone(d, d.items[i], k - 1)
  <2>1. PICK it, c, list : it = d.items[i] /\ c = Len(Data(d, it.faceIds)) /\ list = AloneLists(d)[i]
    OBVIOUS
  <2>2. c \in Nat
    <3>1. it \in ItemSet /\ ShapesFit(d, it) /\ ChannelsFit(d, it)
      BY <2>1, ShapedIs
    <3> QED
      BY <2>1, <3>1, ShapedItem
  <2>3. list = [k \in 1 .. c |-> StandsAlone(d, it, k - 1)]
    BY <1>1, <2>1 DEF AloneLists
  <2>4. \A k \in 1 .. c : StandsAlone(d, it, k - 1) \in BOOLEAN
    BY DEF StandsAlone
  <2>5. list \in [1 .. c -> BOOLEAN]
    BY <2>3, <2>4
  <2>6. list \in Seq(BOOLEAN) /\ Len(list) = c
    BY <2>2, <2>5
  <2>7. \A k \in 1 .. c : k - 1 \in Primitives(d, it)
    BY <2>1, <2>2 DEF Primitives
  <2>8. \A k \in 1 .. c : list[k] = StandsAlone(d, it, k - 1)
    BY <2>3
  <2> QED
    BY <2>1, <2>2, <2>6, <2>7, <2>8
<1>3. AloneLists(d) = [i \in 1 .. Len(d.items) |-> AloneLists(d)[i]]
  BY <1>1 DEF AloneLists
<1> QED
  BY <1>2, <1>3

\* The curves c stand beside document d, and agree with what it says.
Agree(d, c) ==
  LET now == Materialize(d, "source")
  IN /\ Len(now) = Len(c)
     /\ \A n \in DOMAIN c : /\ now[n].key = c[n].key /\ now[n].widths = c[n].widths
                            /\ Alone(d)[n] => now[n].positions = c[n].positions

LEMMA ProcessedMatches ==
  ASSUME NEW x \in CurveSet, NEW y \in CurveSet, NEW alone, Matches(x, y, alone), NEW q
  PROVE  Matches(ProcessedCurve(x, q), ProcessedCurve(y, q), alone)
<1> DEFINE P(c) == [n \in DOMAIN c.positions |-> Moved(c.positions[n], c.positions[1], q)]
           W(c) == [n \in DOMAIN c.widths |-> Times(c.widths[n], q.width)]
           R(c) == [key |-> c.key, positions |-> P(c), widths |-> W(c)]
<1>1. PICK v, w : v = ProcessedCurve(x, q) /\ w = ProcessedCurve(y, q)
  OBVIOUS
<1>2. /\ v.key = x.key /\ v.positions = P(x) /\ v.widths = W(x)
      /\ w.key = y.key /\ w.positions = P(y) /\ w.widths = W(y)
  <2>1. v = R(x) /\ w = R(y)
    BY <1>1, ProcessedCurveIs
  <2> HIDE DEF P, W
  <2> QED
    BY <2>1
<1>3. x.key = y.key /\ x.widths = y.widths /\ (alone => x.positions = y.positions)
  BY DEF Matches
<1>4. v.key = w.key /\ v.widths = w.widths
  BY <1>2, <1>3
<1>5. ASSUME alone PROVE v.positions = w.positions
  BY <1>2, <1>3, <1>5
<1> QED
  BY <1>1, <1>4, <1>5 DEF Matches

\* What is processed in place goes on to agree with what is processed beside it.
LEMMA ProcessKeepsCurves ==
  ASSUME NEW d \in DocumentSet, Shaped(d), NEW q \in ParameterSet, ParametersFit(q),
         NEW c \in Seq(CurveSet), c # Invalid, Agree(d, c)
  PROVE  Agree(ProcessDocument(d, q).document, ProcessedCurves(c, q))
<1>1. PICK e, n : e = ProcessDocument(d, q).document /\ n = Len(d.items)
  OBVIOUS
<1>2. /\ d.items # <<>> /\ \A i \in DOMAIN d.items : ItemFits(d, d.items[i])
      /\ Materialize(d, "source") = FlattenSeq(CurveLists(d))
  <2>1. Materialize(d, "source") # Invalid
    <3>1. Len(Materialize(d, "source")) = Len(c)
      BY DEF Agree
    <3>2. Len(c) # 0 /\ Len(<<>>) = 0
      BY DEF Invalid
    <3> QED
      BY <3>1, <3>2 DEF Invalid
  <2> QED
    BY <2>1, MaterializeIs DEF Arranged
<1>3. /\ e \in DocumentSet /\ e.items = d.items /\ Shaped(e)
      /\ \A i \in 1 .. n : SameItem(d, e, d.items[i])
      /\ \A i \in 1 .. n : \A p \in Primitives(d, d.items[i]) :
           StandsAlone(e, d.items[i], p) <=> StandsAlone(d, d.items[i], p)
  BY <1>1, ProcessKeepsShape
<1>4. DOMAIN d.items = 1 .. n /\ n \in Nat /\ Len(e.items) = n
  BY <1>1, <1>3 DEF DocumentSet
<1>5. \A i \in 1 .. n : ItemFits(e, d.items[i])
  <2> TAKE i \in 1 .. n
  <2>1. ShapesFit(e, d.items[i]) /\ ChannelsFit(e, d.items[i])
        /\ \A p \in Primitives(e, d.items[i]) : RangeFits(e, d.items[i], Stride(e, d.items[i]), p)
    BY <1>3, <1>4 DEF Shaped
  <2>2. Primitives(e, d.items[i]) = Primitives(d, d.items[i])
    BY <1>3, SameItemFits
  <2>3. \A p \in Primitives(d, d.items[i]) :
          /\ Finite(At(Data(e, d.items[i].faceUVs), p))
          /\ GoodPoints(e, d.items[i], Stride(e, d.items[i]), p)
          /\ AllFinite(Span(e, d.items[i], d.items[i].patchUVs, Stride(e, d.items[i]), p))
    BY <1>1, <1>2, <1>4, ItemProcessed
  <2> QED
    BY <2>1, <2>2, <2>3 DEF ItemFits
<1>6. Materialize(e, "source") = FlattenSeq(CurveLists(e))
  BY <1>2, <1>3, <1>4, <1>5, MaterializeIs DEF Arranged
<1>7. PICK a, b, f, g : a = CurveLists(d) /\ b = CurveLists(e) /\ f = AloneLists(d) /\ g = AloneLists(e)
  OBVIOUS
<1>8. /\ a \in [1 .. n -> Seq(CurveSet)] /\ b \in [1 .. n -> Seq(CurveSet)]
      /\ f \in [1 .. n -> Seq(BOOLEAN)] /\ g \in [1 .. n -> Seq(BOOLEAN)]
  <2>1. a \in [1 .. n -> Seq(CurveSet)] /\ b \in [1 .. n -> Seq(CurveSet)]
    BY <1>1, <1>2, <1>3, <1>4, <1>5, <1>7, CurvesAreTyped
  <2>2. f \in [1 .. n -> Seq(BOOLEAN)] /\ g \in [1 .. n -> Seq(BOOLEAN)]
    BY <1>1, <1>3, <1>4, <1>7, AloneTyped
  <2> QED
    BY <2>1, <2>2
<1>9. ASSUME NEW i \in 1 .. n
      PROVE  /\ Len(a[i]) \in Nat
             /\ Len(b[i]) = Len(a[i]) /\ Len(f[i]) = Len(a[i]) /\ Len(g[i]) = Len(a[i])
             /\ \A k \in 1 .. Len(a[i]) :
                  /\ Matches(b[i][k], ProcessedCurve(a[i][k], q), f[i][k])
                  /\ g[i][k] <=> f[i][k]
  <2>1. PICK it, size : it = d.items[i] /\ size = Len(Data(d, it.faceIds))
    OBVIOUS
  <2>2. /\ size \in Nat /\ Len(f[i]) = size
        /\ \A k \in 1 .. size : k - 1 \in Primitives(d, it) /\ f[i][k] = StandsAlone(d, it, k - 1)
    BY <1>1, <1>7, <2>1, AloneTyped
  <2>3. Len(Data(e, it.faceIds)) = size
    BY <1>3, <2>1 DEF SameItem, Data
  <2>4. Len(g[i]) = size /\ \A k \in 1 .. size : g[i][k] = StandsAlone(e, it, k - 1)
    <3>1. i \in 1 .. Len(e.items) /\ e.items[i] = it
      BY <1>3, <1>4, <2>1
    <3>2. /\ Len(AloneLists(e)[i]) = Len(Data(e, e.items[i].faceIds))
          /\ \A k \in 1 .. Len(Data(e, e.items[i].faceIds)) :
               AloneLists(e)[i][k] = StandsAlone(e, e.items[i], k - 1)
      BY <1>3, <3>1, AloneTyped
    <3> QED
      BY <1>7, <2>3, <3>1, <3>2, Zenon
  <2>5. /\ a[i] = [k \in 1 .. size |-> CurveAt(d, it, k - 1)]
        /\ b[i] = [k \in 1 .. size |-> CurveAt(e, it, k - 1)]
    BY <1>3, <1>4, <1>7, <2>1, <2>3 DEF CurveLists
  <2>6. Len(a[i]) = size /\ Len(b[i]) = size
    BY <2>2, <2>5
  <2>7. ASSUME NEW k \in 1 .. size
        PROVE  /\ Matches(b[i][k], ProcessedCurve(a[i][k], q), f[i][k])
               /\ g[i][k] <=> f[i][k]
    <3>1. k - 1 \in Primitives(d, it)
      BY <2>2
    <3>2. Matches(CurveAt(e, it, k - 1), ProcessedCurve(CurveAt(d, it, k - 1), q), StandsAlone(d, it, k - 1))
      BY <1>1, <1>2, <1>4, <2>1, <3>1, ItemProcessed
    <3>3. a[i][k] = CurveAt(d, it, k - 1) /\ b[i][k] = CurveAt(e, it, k - 1)
      BY <2>5
    <3>4. f[i][k] = StandsAlone(d, it, k - 1) /\ g[i][k] = StandsAlone(e, it, k - 1)
      BY <2>2, <2>4
    <3>5. StandsAlone(e, it, k - 1) <=> StandsAlone(d, it, k - 1)
      BY <1>3, <2>1, <3>1
    <3>6. Matches(b[i][k], ProcessedCurve(a[i][k], q), f[i][k])
      BY <3>2, <3>3, <3>4 DEF Matches
    <3> QED
      BY <3>4, <3>5, <3>6
  <2> QED
    BY <2>2, <2>4, <2>6, <2>7
<1>10. PICK off : IsOffsets(off, n, a)
  BY <1>4, <1>9, OffsetsExist
<1>11. IsOffsets(off, n, b) /\ IsOffsets(off, n, f) /\ IsOffsets(off, n, g)
  BY <1>9, <1>10 DEF IsOffsets
<1>12. PICK s, t, u, v : s = FlattenSeq(a) /\ t = FlattenSeq(b) /\ u = FlattenSeq(f) /\ v = FlattenSeq(g)
  OBVIOUS
<1>13. /\ IsJoined(s, off, n, a, CurveSet) /\ IsJoined(t, off, n, b, CurveSet)
       /\ IsJoined(u, off, n, f, BOOLEAN) /\ IsJoined(v, off, n, g, BOOLEAN)
  BY <1>4, <1>8, <1>10, <1>11, <1>12, Flattened
<1>14. /\ Len(s) = off[n] /\ Len(t) = off[n] /\ s \in Seq(CurveSet) /\ t \in Seq(CurveSet)
  BY <1>13 DEF IsJoined
<1>15. ASSUME NEW m \in 1 .. off[n]
       PROVE  Matches(t[m], ProcessedCurve(s[m], q), u[m]) /\ (v[m] <=> u[m])
  <2>1. PICK i \in 1 .. n : \E k \in 1 .. Len(a[i]) : m = off[i - 1] + k
    BY <1>13 DEF IsJoined
  <2>2. PICK k \in 1 .. Len(a[i]) : m = off[i - 1] + k
    BY <2>1
  <2>3. k \in 1 .. Len(b[i]) /\ k \in 1 .. Len(f[i]) /\ k \in 1 .. Len(g[i])
    BY <1>9
  <2>4. s[m] = a[i][k] /\ t[m] = b[i][k]
    BY <1>13, <2>2, <2>3 DEF IsJoined
  <2>5. u[m] = f[i][k] /\ v[m] = g[i][k]
    BY <1>13, <2>2, <2>3 DEF IsJoined
  <2>6. Matches(b[i][k], ProcessedCurve(a[i][k], q), f[i][k]) /\ (g[i][k] <=> f[i][k])
    BY <1>9
  <2> QED
    BY <2>4, <2>5, <2>6
<1>16. Materialize(d, "source") = s /\ Materialize(e, "source") = t /\ Alone(d) = u /\ Alone(e) = v
  BY <1>2, <1>6, <1>7, <1>12, AloneIs
<1>17. /\ Len(s) = Len(c) /\ Len(c) \in Nat /\ DOMAIN c = 1 .. Len(c) /\ off[n] = Len(c)
       /\ \A m \in 1 .. Len(c) : Matches(s[m], c[m], u[m])
  <2>1. Len(s) = Len(c) /\ Len(c) \in Nat /\ DOMAIN c = 1 .. Len(c)
    BY <1>16 DEF Agree
  <2>2. \A m \in DOMAIN c : /\ s[m].key = c[m].key /\ s[m].widths = c[m].widths
                            /\ u[m] => s[m].positions = c[m].positions
    BY <1>16 DEF Agree
  <2> QED
    BY <1>14, <2>1, <2>2 DEF Matches
<1>18. PICK r : r = ProcessedCurves(c, q)
  OBVIOUS
<1>19. /\ r = [m \in 1 .. Len(c) |-> ProcessedCurve(c[m], q)] /\ DOMAIN r = 1 .. Len(c) /\ Len(r) = Len(c)
  BY <1>17, <1>18 DEF ProcessedCurves
<1>20. ASSUME NEW m \in 1 .. Len(c)
       PROVE  Matches(t[m], r[m], v[m])
  <2>1. Matches(t[m], ProcessedCurve(s[m], q), u[m]) /\ (v[m] <=> u[m])
    BY <1>15, <1>17
  <2>2. s[m] \in CurveSet /\ c[m] \in CurveSet
    <3>1. \A w \in Seq(CurveSet) : \A k \in 1 .. Len(w) : w[k] \in CurveSet
      OBVIOUS
    <3> QED
      BY <1>14, <1>17, <3>1
  <2>3. Matches(ProcessedCurve(s[m], q), ProcessedCurve(c[m], q), u[m])
    BY <1>17, <2>2, ProcessedMatches
  <2>4. r[m] = ProcessedCurve(c[m], q)
    BY <1>19
  <2> QED
    BY <2>1, <2>3, <2>4 DEF Matches
<1>21. Agree(e, r)
  <2>1. \A m \in DOMAIN r : /\ t[m].key = r[m].key /\ t[m].widths = r[m].widths
                            /\ v[m] => t[m].positions = r[m].positions
    BY <1>19, <1>20 DEF Matches
  <2>2. Len(t) = Len(r)
    BY <1>14, <1>17, <1>19
  <2> QED
    BY <1>16, <2>1, <2>2 DEF Agree
<1> QED
  BY <1>1, <1>18, <1>21

\* Where all curves stand alone, the curves that agree are the same.
LEMMA AllAlone ==
  ASSUME NEW d \in DocumentSet, Shaped(d), NEW c \in Seq(CurveSet), Agree(d, c),
         Materialize(d, "source") \in Seq(CurveSet),
         Materialize(d, "source") # Invalid,
         \A i \in 1 .. Len(d.items) : \A p \in Primitives(d, d.items[i]) : StandsAlone(d, d.items[i], p)
  PROVE  Materialize(d, "source") = c
<1>1. PICK n, s, u, a, f : /\ n = Len(d.items) /\ s = Materialize(d, "source") /\ u = Alone(d)
                           /\ a = CurveLists(d) /\ f = AloneLists(d)
  OBVIOUS
<1>2. s = FlattenSeq(a) /\ \A i \in DOMAIN d.items : ItemFits(d, d.items[i])
  BY <1>1, MaterializeIs DEF Arranged
<1>3. DOMAIN d.items = 1 .. n /\ n \in Nat /\ a \in [1 .. n -> Seq(CurveSet)] /\ f \in [1 .. n -> Seq(BOOLEAN)]
  BY <1>1, <1>2, CurvesAreTyped, AloneTyped
<1>4. ASSUME NEW i \in 1 .. n
      PROVE  Len(a[i]) \in Nat /\ Len(f[i]) = Len(a[i]) /\ \A k \in 1 .. Len(a[i]) : f[i][k]
  <2>1. PICK it, size : it = d.items[i] /\ size = Len(Data(d, it.faceIds))
    OBVIOUS
  <2>2. /\ size \in Nat /\ Len(f[i]) = size
        /\ \A k \in 1 .. size : k - 1 \in Primitives(d, it) /\ f[i][k] = StandsAlone(d, it, k - 1)
    BY <1>1, <2>1, AloneTyped
  <2>3. a[i] = [k \in 1 .. size |-> CurveAt(d, it, k - 1)]
    BY <1>1, <1>3, <2>1 DEF CurveLists
  <2>4. Len(a[i]) = size
    BY <2>2, <2>3
  <2>5. \A k \in 1 .. size : StandsAlone(d, it, k - 1)
    BY <1>1, <2>1, <2>2
  <2>6. \A k \in 1 .. size : f[i][k]
    BY <2>2, <2>5
  <2> QED
    BY <2>2, <2>4, <2>6
<1>5. PICK off : IsOffsets(off, n, a)
  BY <1>3, <1>4, OffsetsExist
<1>6. IsOffsets(off, n, f)
  BY <1>4, <1>5 DEF IsOffsets
<1>7. IsJoined(s, off, n, a, CurveSet) /\ IsJoined(u, off, n, f, BOOLEAN)
  <2>1. u = FlattenSeq(f)
    BY <1>1, AloneIs
  <2>2. s = FlattenSeq(a)
    BY <1>2
  <2>3. IsJoined(FlattenSeq(a), off, n, a, CurveSet) /\ IsJoined(FlattenSeq(f), off, n, f, BOOLEAN)
    BY <1>3, <1>5, <1>6, Flattened
  <2> QED
    BY <2>1, <2>2, <2>3
<1>8. Len(s) = off[n]
  BY <1>7 DEF IsJoined
<1>9. ASSUME NEW m \in 1 .. off[n] PROVE u[m]
  <2>1. PICK i \in 1 .. n : \E k \in 1 .. Len(a[i]) : m = off[i - 1] + k
    BY <1>7 DEF IsJoined
  <2>2. PICK k \in 1 .. Len(a[i]) : m = off[i - 1] + k
    BY <2>1
  <2>3. k \in 1 .. Len(f[i]) /\ f[i][k]
    BY <1>4
  <2>4. u[m] = f[i][k]
    BY <1>7, <2>2, <2>3 DEF IsJoined
  <2> QED
    BY <2>3, <2>4
<1>10. /\ Len(s) = Len(c) /\ DOMAIN c = 1 .. Len(c) /\ Len(c) \in Nat /\ DOMAIN s = 1 .. Len(c)
       /\ \A m \in DOMAIN c : /\ s[m].key = c[m].key /\ s[m].widths = c[m].widths
                              /\ u[m] => s[m].positions = c[m].positions
  BY <1>1 DEF Agree
<1>11. \A m \in 1 .. Len(c) : s[m] = c[m]
  <2> TAKE m \in 1 .. Len(c)
  <2>1. s[m].key = c[m].key /\ s[m].widths = c[m].widths /\ s[m].positions = c[m].positions
    BY <1>8, <1>9, <1>10
  <2>2. s[m] \in CurveSet /\ c[m] \in CurveSet
    <3>1. \A w \in Seq(CurveSet) : \A k \in DOMAIN w : w[k] \in CurveSet
      OBVIOUS
    <3> QED
      BY <1>1, <1>10, <3>1
  <2> QED
    <3>1. \A x \in CurveSet : x = [key |-> x.key, positions |-> x.positions, widths |-> x.widths]
      BY DEF CurveSet
    <3>2. /\ s[m] = [key |-> s[m].key, positions |-> s[m].positions, widths |-> s[m].widths]
          /\ c[m] = [key |-> c[m].key, positions |-> c[m].positions, widths |-> c[m].widths]
      BY <2>2, <3>1
    <3> QED
      BY <2>1, <3>2, Zenon
<1>12. \A w, x \in Seq(CurveSet) : Len(w) = Len(x) /\ (\A k \in 1 .. Len(x) : w[k] = x[k]) => w = x
  OBVIOUS
<1> QED
  BY <1>1, <1>10, <1>11, <1>12

-----------------------------------------------------------------------------
(* build_xgen_document() *)

\* The points of each curve.
Chains(s) == [n \in DOMAIN s |-> s[n].positions]

IsPointFold(f, part) ==
  f = CHOOSE r : r = [t \in SUBSET (DOMAIN part) |->
                        IF t = {} THEN 0 ELSE r[t \ {Max(t)}] + Len(part[Max(t)].positions)]

LEMMA PointsFold ==
  ASSUME NEW list, NEW n, NEW f, IsPointFold(f, SubSeq(list, 1, n - 1))
  PROVE  PointsBefore(list, n) = f[DOMAIN SubSeq(list, 1, n - 1)]
  BY DEF IsPointFold, PointsBefore, FoldLeft, MapThenFoldSet

\* Where the points of a curve begin is what the lengths of those before it make.
LEMMA PointsBeforeIs ==
  ASSUME NEW list \in Seq(CurveSet), NEW off, IsOffsets(off, Len(list), Chains(list)), NEW n \in 0 .. Len(list)
  PROVE  PointsBefore(list, n + 1) = off[n]
<1> DEFINE part == SubSeq(list, 1, n + 1 - 1)
           Once(x, m) == x + Len(part[m].positions)
           Step == [x \in Nat \X (1 .. n) |-> Once(x[1], x[2])]
<1>1. n \in Nat /\ Len(list) \in Nat /\ n + 1 - 1 = n
  OBVIOUS
<1>2. DOMAIN part = 1 .. n /\ Len(part) = n /\ \A m \in 1 .. n : part[m] = list[m] /\ m \in 1 .. Len(list)
  OBVIOUS
<1>3. \A m \in 1 .. n : Len(part[m].positions) \in Nat
  <2>1. \A m \in 1 .. Len(list) : list[m] \in CurveSet
    OBVIOUS
  <2>2. \A c \in CurveSet : Len(c.positions) \in Nat
    BY DEF CurveSet
  <2> QED
    BY <1>2, <2>1, <2>2
<1>4. Step \in [Nat \X (1 .. n) -> Nat] /\ \A x \in Nat, m \in 1 .. n : Step[<<x, m>>] = Once(x, m)
  <2>1. ASSUME NEW x \in Nat, NEW m \in 1 .. n PROVE Once(x, m) \in Nat
    BY <1>3
  <2> HIDE DEF Once
  <2> QED
    BY <2>1
<1>5. PICK g : /\ IsFold(g, n, Nat, 0, Step)
               /\ \A r \in SUBSET (1 .. n) : r # {} => Max(r) \in 1 .. n /\ g[r \ {Max(r)}] \in Nat
  <2> HIDE DEF Step
  <2> QED
    BY <1>1, <1>4, FoldsWithin
<1>6. g = [r \in SUBSET (1 .. n) |-> IF r = {} THEN 0 ELSE Once(g[r \ {Max(r)}], Max(r))]
  <2>1. \A r \in SUBSET (1 .. n) : g[r] = IF r = {} THEN 0 ELSE Once(g[r \ {Max(r)}], Max(r))
    <3> HIDE DEF Step, Once
    <3> QED
      BY <1>4, <1>5 DEF IsFold
  <2>2. g = [r \in SUBSET (1 .. n) |-> g[r]]
    BY <1>5 DEF IsFold
  <2> QED
    BY <2>1, <2>2
<1>7. PICK f : f = CHOOSE r : r = [t \in SUBSET (DOMAIN part) |-> IF t = {} THEN 0 ELSE Once(r[t \ {Max(t)}], Max(t))]
  OBVIOUS
<1>8. f = [t \in SUBSET (1 .. n) |-> IF t = {} THEN 0 ELSE Once(f[t \ {Max(t)}], Max(t))]
  <2>1. f = CHOOSE r : r = [t \in SUBSET (1 .. n) |-> IF t = {} THEN 0 ELSE Once(r[t \ {Max(t)}], Max(t))]
    <3> HIDE DEF Once, part
    <3> QED
      BY <1>2, <1>7
  <2> HIDE DEF Once
  <2> QED
    BY <1>6, <2>1
<1>9. PointsBefore(list, n + 1) = f[1 .. n]
  <2>1. PointsBefore(list, n + 1) = f[DOMAIN part]
    <3>1. IsPointFold(f, part)
      BY <1>7 DEF IsPointFold
    <3>2. PICK k : k = n + 1
      OBVIOUS
    <3>3. IsPointFold(f, SubSeq(list, 1, k - 1))
      <4>1. part = SubSeq(list, 1, k - 1)
        BY <1>1, <3>2
      <4> HIDE DEF part
      <4> QED
        BY <3>1, <4>1
    <3>4. PointsBefore(list, k) = f[DOMAIN SubSeq(list, 1, k - 1)]
      BY <3>3, PointsFold
    <3> QED
      BY <1>1, <3>2, <3>4
  <2> QED
    BY <1>2, <2>1
<1> DEFINE h == [m \in 0 .. n |-> f[1 .. m]]
<1>10. h[0] = 0 /\ \A m \in 1 .. n : h[m] = Once(h[m - 1], m)
  <2>1. f[1 .. 0] = 0
    BY <1>8
  <2>2. ASSUME NEW m \in 1 .. n PROVE f[1 .. m] = Once(f[1 .. m - 1], m)
    <3>1. /\ 1 .. m \in SUBSET (1 .. n) /\ 1 .. m # {} /\ Max(1 .. m) = m
          /\ (1 .. m) \ {m} = 1 .. m - 1
      BY <1>1, UpTo
    <3> HIDE DEF Once
    <3>2. f[1 .. m] = Once(f[(1 .. m) \ {Max(1 .. m)}], Max(1 .. m))
      BY <1>8, <3>1
    <3> QED
      BY <3>1, <3>2
  <2> HIDE DEF Once
  <2> QED
    BY <1>1, <2>1, <2>2
<1>11. h[n] = f[1 .. n]
  BY <1>1
<1> HIDE DEF h
<1> DEFINE T == {m \in 0 .. n : h[m] = off[m]}
<1>12. 0 \in T
  BY <1>1, <1>10 DEF IsOffsets
<1>13. ASSUME NEW m \in 1 .. n, m - 1 \in T PROVE m \in T
  <2>1. h[m] = off[m - 1] + Len(list[m].positions)
    BY <1>2, <1>10, <1>13
  <2>2. off[m] = off[m - 1] + Len(Chains(list)[m]) /\ Chains(list)[m] = list[m].positions
    <3>1. m \in 1 .. Len(list) /\ DOMAIN list = 1 .. Len(list)
      BY <1>1, <1>2
    <3>2. Chains(list)[m] = list[m].positions
      BY <3>1 DEF Chains
    <3>3. off[m] = off[m - 1] + Len(Chains(list)[m])
      BY <3>1 DEF IsOffsets
    <3> QED
      BY <3>2, <3>3
  <2> QED
    BY <1>1, <2>1, <2>2
<1>14. n \in T
  <2> HIDE DEF T
  <2>1. \A m \in 0 .. n : m \in T
    BY <1>1, <1>12, <1>13, Induct
  <2> QED
    BY <1>1, <2>1
<1> QED
  BY <1>9, <1>11, <1>14

\* Later offsets are not smaller.
LEMMA OffsetsGrow ==
  ASSUME NEW n \in Nat, NEW seqs, NEW off, IsOffsets(off, n, seqs),
         \A i \in 1 .. n : Len(seqs[i]) \in Nat, NEW i \in 0 .. n, NEW j \in i .. n
  PROVE  off[i] <= off[j]
<1> DEFINE T == {m \in 0 .. n : m >= i => off[i] <= off[m]}
<1>1. i \in Nat /\ j \in 0 .. n /\ j >= i
  OBVIOUS
<1>2. 0 \in T
  BY DEF IsOffsets
<1>3. ASSUME NEW m \in 1 .. n, m - 1 \in T PROVE m \in T
  <2>1. /\ off[m] = off[m - 1] + Len(seqs[m]) /\ Len(seqs[m]) \in Nat
        /\ off[m] \in Nat /\ off[m - 1] \in Nat /\ off[i] \in Nat
    BY DEF IsOffsets
  <2>2. CASE m > i
    BY <1>3, <2>1, <2>2
  <2>3. CASE ~(m > i)
    <3>1. m >= i => m = i
      BY <2>3
    <3> QED
      BY <2>1, <3>1
  <2> QED
    BY <2>2, <2>3
<1>4. j \in T
  <2> HIDE DEF T
  <2>1. \A m \in 0 .. n : m \in T
    BY <1>2, <1>3, Induct
  <2> QED
    BY <1>1, <2>1
<1> QED
  BY <1>1, <1>4

Builds == [ids : Seq(Nat), bytes : Nat, groups : Seq(Seq(Arrays))]
NoBuild == [ids |-> <<>>, bytes |-> 0, groups |-> <<>>]

\* The groups an array is added to: the last of them takes it.
Opened(b, a, limit) ==
  IF StartsGroup(b.groups, b.bytes, RecordBytes(a), limit) THEN Append(b.groups, <<>>) ELSE b.groups

LEMMA RecordIsCounted ==
  ASSUME NEW a \in Arrays
  PROVE  RecordBytes(a) \in Nat
<1>1. Len(a.data) \in Nat /\ a.tag \in {"uint32", "float", "vec2", "vec3"}
  BY DEF Arrays
<1>2. ElementBytes(a.tag) \in Nat
  BY <1>1 DEF ElementBytes
<1>3. PICK n \in Nat, m \in Nat : n = Len(a.data) /\ m = ElementBytes(a.tag)
  BY <1>1, <1>2
<1>4. 16 + n * m \in Nat
  OBVIOUS
<1> QED
  BY <1>3, <1>4 DEF RecordBytes

LEMMA OpenedIs ==
  ASSUME NEW b \in Builds, NEW a \in Arrays, NEW limit
  PROVE  LET groups == Opened(b, a, limit)
             g == Len(groups)
         IN  /\ groups \in Seq(Seq(Arrays)) /\ g \in Nat \ {0} /\ Last(groups) = groups[g]
             /\ Len(b.groups) <= g /\ \A x \in 1 .. Len(b.groups) : groups[x] = b.groups[x]
             /\ \A x \in 1 .. g : x \notin 1 .. Len(b.groups) => groups[x] = <<>>
<1>0. PICK old \in Seq(Seq(Arrays)) : old = b.groups
  BY DEF Builds
<1>1. PICK grown : old = b.groups /\ grown = Opened(b, a, limit)
  BY <1>0
<1>2. CASE StartsGroup(b.groups, b.bytes, RecordBytes(a), limit)
  <2>1. grown = Append(old, <<>>)
    BY <1>1, <1>2 DEF Opened
  <2>2. <<>> \in Seq(Arrays)
    OBVIOUS
  <2>3. /\ grown \in Seq(Seq(Arrays)) /\ Len(grown) = Len(old) + 1 /\ Len(old) \in Nat
        /\ \A x \in 1 .. Len(old) : grown[x] = old[x]
        /\ grown[Len(old) + 1] = <<>>
    BY <2>1, <2>2
  <2>4. \A x \in 1 .. Len(grown) : x \notin 1 .. Len(old) => grown[x] = <<>>
    BY <2>3
  <2> QED
    BY <1>1, <2>3, <2>4, SMTT(30) DEF Last
<1>3. CASE ~StartsGroup(b.groups, b.bytes, RecordBytes(a), limit)
  <2>1. grown = old /\ old # <<>>
    BY <1>1, <1>3 DEF Opened, StartsGroup
  <2>2. Len(old) \in Nat \ {0}
    BY <2>1
  <2> QED
    BY <1>1, <2>1, <2>2 DEF Last
<1> QED
  BY <1>2, <1>3

LEMMA AddArrayIs ==
  ASSUME NEW b \in Builds, NEW a \in Arrays, NEW limit
  PROVE  LET groups == Opened(b, a, limit)
             g == Len(groups)
             grown == AddArray(b, a, limit)
         IN  /\ grown \in Builds
             /\ grown.ids = Append(b.ids, (g - 1) * IdBase + Len(groups[g]))
             /\ grown.groups = [groups EXCEPT ![g] = Append(groups[g], a)]
<1>1. PICK groups, g : groups = Opened(b, a, limit) /\ g = Len(groups)
  OBVIOUS
<1>2. groups \in Seq(Seq(Arrays)) /\ g \in Nat \ {0} /\ Last(groups) = groups[g] /\ g \in 1 .. Len(groups)
  BY <1>1, OpenedIs
<1>3. PICK last \in Seq(Arrays) : last = groups[g]
  BY <1>2
<1>4. PICK grown : grown = AddArray(b, a, limit)
  OBVIOUS
<1>5. /\ grown.ids = Append(b.ids, (g - 1) * IdBase + Len(last))
      /\ grown.groups = [groups EXCEPT ![g] = Append(last, a)]
      /\ grown.bytes = (IF StartsGroup(b.groups, b.bytes, RecordBytes(a), limit) THEN 0 ELSE b.bytes) + RecordBytes(a)
      /\ grown = [ids |-> grown.ids, bytes |-> grown.bytes, groups |-> grown.groups]
  BY <1>1, <1>2, <1>3, <1>4 DEF AddArray, Opened
<1>6. (g - 1) * IdBase + Len(last) \in Nat
  <2>1. PICK m \in Nat, base \in Nat : m = g - 1 /\ base = IdBase
    BY <1>2, XGenDocumentAssumption
  <2>2. m * base + Len(last) \in Nat
    OBVIOUS
  <2> QED
    BY <2>1, <2>2
<1>7. grown.ids \in Seq(Nat)
  BY <1>5, <1>6 DEF Builds
<1>8. grown.bytes \in Nat
  BY <1>5, RecordIsCounted DEF Builds
<1>9. grown.groups \in Seq(Seq(Arrays))
  BY <1>2, <1>5
<1>10. grown \in Builds
  BY <1>5, <1>7, <1>8, <1>9 DEF Builds
<1> QED
  BY <1>1, <1>3, <1>4, <1>5, <1>10

\* The build before the first array, and after each of them.
IsBuild(h, arrays, limit) ==
  LET n == Len(arrays)
  IN  /\ h \in [0 .. n -> Builds]
      /\ h[0] = NoBuild /\ h[n] = Grouped(arrays, limit)
      /\ \A m \in 1 .. n : h[m] = AddArray(h[m - 1], arrays[m], limit)

LEMMA BuildsOneByOne ==
  ASSUME NEW arrays \in Seq(Arrays), NEW limit
  PROVE  \E h : IsBuild(h, arrays, limit)
<1> DEFINE n == Len(arrays)
           S == Builds
           base == NoBuild
           Once(r, m) == AddArray(r, arrays[m], limit)
           Step == [x \in S \X (1 .. n) |-> Once(x[1], x[2])]
<1>1. n \in Nat /\ DOMAIN arrays = 1 .. n /\ base \in S
  BY DEF NoBuild, Builds
<1>2. ASSUME NEW r \in S, NEW m \in 1 .. n PROVE Once(r, m) \in S
  <2>1. r \in Builds /\ arrays[m] \in Arrays
    OBVIOUS
  <2>2. AddArray(r, arrays[m], limit) \in Builds
    BY <2>1, AddArrayIs
  <2> QED
    BY <2>2
<1>3. Step \in [S \X (1 .. n) -> S] /\ \A r \in S, m \in 1 .. n : Step[<<r, m>>] = Once(r, m)
  <2> HIDE DEF S, Once, n
  <2> QED
    BY <1>2
<1>4. PICK g : /\ IsFold(g, n, S, base, Step)
               /\ \A s \in SUBSET (1 .. n) : s # {} => Max(s) \in 1 .. n /\ g[s \ {Max(s)}] \in S
  <2> HIDE DEF S, Step, n, base
  <2> QED
    BY <1>1, <1>3, FoldsWithin
<1>5. g = [s \in SUBSET (1 .. n) |-> IF s = {} THEN base ELSE Once(g[s \ {Max(s)}], Max(s))]
  <2>1. \A s \in SUBSET (1 .. n) : g[s] = IF s = {} THEN base ELSE Once(g[s \ {Max(s)}], Max(s))
    <3> HIDE DEF S, Step, n, base, Once
    <3> QED
      BY <1>3, <1>4 DEF IsFold
  <2>2. g = [s \in SUBSET (1 .. n) |-> g[s]]
    BY <1>4 DEF IsFold
  <2> QED
    BY <2>1, <2>2
<1>6. PICK f : f = CHOOSE r : r = [s \in SUBSET (1 .. n) |-> IF s = {} THEN base ELSE Once(r[s \ {Max(s)}], Max(s))]
  OBVIOUS
<1>7. f = [s \in SUBSET (1 .. n) |-> IF s = {} THEN base ELSE Once(f[s \ {Max(s)}], Max(s))]
  <2> HIDE DEF Once, base, n
  <2> QED
    BY <1>5, <1>6
<1>8. Grouped(arrays, limit) = f[1 .. n]
  BY <1>1, <1>6 DEF Grouped, FoldLeft, MapThenFoldSet, NoBuild
<1> DEFINE h == [m \in 0 .. n |-> f[1 .. m]]
<1>9. h[0] = base /\ \A m \in 1 .. n : h[m] = Once(h[m - 1], m)
  <2>1. f[1 .. 0] = base
    BY <1>7
  <2>2. ASSUME NEW m \in 1 .. n PROVE f[1 .. m] = Once(f[1 .. m - 1], m)
    <3>1. /\ 1 .. m \in SUBSET (1 .. n) /\ 1 .. m # {} /\ Max(1 .. m) = m
          /\ (1 .. m) \ {m} = 1 .. m - 1
      BY <1>1, UpTo
    <3> HIDE DEF Once, base, n
    <3>2. f[1 .. m] = Once(f[(1 .. m) \ {Max(1 .. m)}], Max(1 .. m))
      BY <1>7, <3>1
    <3> QED
      BY <3>1, <3>2
  <2> HIDE DEF Once, base
  <2> QED
    BY <1>1, <2>1, <2>2
<1>10. IsRun(h, n, S, base, Step)
  <2>1. h = [m \in 0 .. n |-> h[m]]
    OBVIOUS
  <2>2. \A m \in 1 .. n : h[m - 1] \in S => h[m] = Step[<<h[m - 1], m>>]
    <3> HIDE DEF h, Step, S, n, base, Once
    <3> QED
      BY <1>3, <1>9
  <2> HIDE DEF h, Step, S, n, base
  <2> QED
    BY <1>1, <1>3, <1>9, <2>1, <2>2, RunStays
<1>11. h[n] = f[1 .. n]
  BY <1>1
<1> HIDE DEF h
<1>12. IsBuild(h, arrays, limit)
  BY <1>8, <1>9, <1>10, <1>11 DEF IsBuild, IsRun
<1> QED
  BY <1>12

\* The first m arrays are in the groups, under their identities.
Placed(b, arrays, m) ==
  /\ b \in Builds /\ Len(b.ids) = m
  /\ \A g \in 1 .. Len(b.groups) : Len(b.groups[g]) <= m
  /\ \A k \in 1 .. m : \E g \in 1 .. Len(b.groups) : \E a \in 1 .. Len(b.groups[g]) :
       b.ids[k] = (g - 1) * IdBase + (a - 1) /\ b.groups[g][a] = arrays[k]

LEMMA PlacedStep ==
  ASSUME NEW arrays \in Seq(Arrays), NEW limit, NEW m \in 1 .. Len(arrays), NEW b, Placed(b, arrays, m - 1)
  PROVE  Placed(AddArray(b, arrays[m], limit), arrays, m)
<1>1. PICK a, groups, g, grown : /\ a = arrays[m] /\ groups = Opened(b, a, limit) /\ g = Len(groups)
                               /\ grown = AddArray(b, a, limit)
  OBVIOUS
<1>2. a \in Arrays /\ b \in Builds /\ m \in Nat /\ m - 1 \in Nat
  BY <1>1 DEF Placed
<1>3. /\ groups \in Seq(Seq(Arrays)) /\ g \in Nat \ {0} /\ g = Len(groups)
      /\ Len(b.groups) <= g /\ \A x \in 1 .. Len(b.groups) : groups[x] = b.groups[x]
      /\ \A x \in 1 .. g : x \notin 1 .. Len(b.groups) => groups[x] = <<>>
  BY <1>1, <1>2, OpenedIs
<1>4. /\ grown \in Builds /\ grown.ids = Append(b.ids, (g - 1) * IdBase + Len(groups[g]))
      /\ grown.groups = [groups EXCEPT ![g] = Append(groups[g], a)]
  BY <1>1, <1>2, AddArrayIs, ZenonT(30)
<1>5. Len(grown.ids) = m
  BY <1>2, <1>4 DEF Placed, Builds
<1>6. PICK last : last = groups[g]
  OBVIOUS
<1>7. /\ last \in Seq(Arrays) /\ Len(last) \in Nat /\ g \in 1 .. Len(groups)
      /\ Len(grown.groups) = g /\ grown.groups[g] = Append(last, a)
      /\ \A x \in 1 .. g : x # g => grown.groups[x] = groups[x]
  BY <1>3, <1>4, <1>6
<1>8. \A x \in 1 .. g : Len(groups[x]) <= m - 1
  <2> TAKE x \in 1 .. g
  <2>1. CASE x \in 1 .. Len(b.groups)
    BY <1>3, <2>1 DEF Placed
  <2>2. CASE x \notin 1 .. Len(b.groups)
    <3>1. groups[x] = <<>>
      BY <1>3, <2>2
    <3> QED
      BY <1>2, <3>1
  <2> QED
    BY <2>1, <2>2
<1>9. \A x \in 1 .. Len(grown.groups) : Len(grown.groups[x]) <= m
  <2> TAKE x \in 1 .. Len(grown.groups)
  <2>1. CASE x = g
    <3>1. Len(grown.groups[g]) = Len(last) + 1
      BY <1>7
    <3>2. Len(last) <= m - 1
      BY <1>6, <1>7, <1>8, <1>3
    <3> QED
      BY <1>2, <1>7, <2>1, <3>1, <3>2
  <2>2. CASE x # g
    <3>1. grown.groups[x] = groups[x] /\ x \in 1 .. g
      BY <1>7, <2>2
    <3>2. groups[x] \in Seq(Arrays)
      BY <1>3, <3>1
    <3>3. Len(groups[x]) \in Nat /\ Len(groups[x]) <= m - 1
      BY <1>8, <3>1, <3>2
    <3> QED
      BY <1>2, <3>1, <3>3
  <2> QED
    BY <2>1, <2>2
<1>10. ASSUME NEW k \in 1 .. m
       PROVE  \E x \in 1 .. Len(grown.groups) : \E c \in 1 .. Len(grown.groups[x]) :
                grown.ids[k] = (x - 1) * IdBase + (c - 1) /\ grown.groups[x][c] = arrays[k]
  <2>1. CASE k = m
    <3>1. grown.ids[m] = (g - 1) * IdBase + Len(last)
      BY <1>2, <1>4, <1>6 DEF Placed, Builds
    <3>2. PICK c : c = Len(last) + 1
      OBVIOUS
    <3>3. c \in 1 .. Len(grown.groups[g]) /\ grown.groups[g][c] = a /\ c - 1 = Len(last)
      BY <1>2, <1>7, <3>2
    <3>4. grown.ids[k] = (g - 1) * IdBase + (c - 1) /\ grown.groups[g][c] = arrays[k]
      BY <1>1, <2>1, <3>1, <3>3
    <3>5. g \in 1 .. Len(grown.groups)
      BY <1>7
    <3> QED
      BY <3>3, <3>4, <3>5
  <2>2. CASE k # m
    <3>1. k \in 1 .. m - 1
      BY <2>2
    <3>2. PICK x \in 1 .. Len(b.groups) : \E c \in 1 .. Len(b.groups[x]) :
            b.ids[k] = (x - 1) * IdBase + (c - 1) /\ b.groups[x][c] = arrays[k]
      BY <3>1 DEF Placed
    <3>3. PICK c \in 1 .. Len(b.groups[x]) :
            b.ids[k] = (x - 1) * IdBase + (c - 1) /\ b.groups[x][c] = arrays[k]
      BY <3>2
    <3>4. grown.ids[k] = b.ids[k]
      BY <1>2, <1>4, <3>1 DEF Placed, Builds
    <3>5. x \in 1 .. g /\ groups[x] = b.groups[x] /\ b.groups[x] \in Seq(Arrays)
      BY <1>2, <1>3 DEF Builds
    <3>6. c \in 1 .. Len(grown.groups[x]) /\ grown.groups[x][c] = b.groups[x][c]
      <4>1. CASE x = g
        <5>1. last = b.groups[x] /\ grown.groups[x] = Append(last, a)
          BY <1>6, <1>7, <3>5, <4>1
        <5>2. c \in 1 .. Len(last)
          BY <3>3, <5>1
        <5>3. c \in 1 .. Len(Append(last, a)) /\ Append(last, a)[c] = last[c]
          BY <1>2, <1>7, <5>2
        <5> QED
          BY <5>1, <5>3
      <4>2. CASE x # g
        BY <1>7, <3>3, <3>5, <4>2
      <4> QED
        BY <4>1, <4>2
    <3>7. x \in 1 .. Len(grown.groups)
      BY <1>7, <3>5
    <3> QED
      BY <3>3, <3>4, <3>6, <3>7
  <2> QED
    BY <2>1, <2>2
<1>11. Placed(grown, arrays, m)
  BY <1>4, <1>5, <1>9, <1>10 DEF Placed
<1> QED
  BY <1>1, <1>11

LEMMA GroupedIs ==
  ASSUME NEW arrays \in Seq(Arrays), NEW limit
  PROVE  Placed(Grouped(arrays, limit), arrays, Len(arrays))
<1>1. PICK n \in Nat : n = Len(arrays)
  OBVIOUS
<1>2. PICK h : IsBuild(h, arrays, limit)
  BY BuildsOneByOne
<1> DEFINE T == {m \in 0 .. n : Placed(h[m], arrays, m)}
<1>3. 0 \in T
  <2>1. NoBuild \in Builds /\ Len(NoBuild.ids) = 0 /\ Len(NoBuild.groups) = 0
    BY DEF NoBuild, Builds
  <2>2. Placed(NoBuild, arrays, 0)
    BY <2>1 DEF Placed
  <2> QED
    BY <1>2, <2>2 DEF IsBuild
<1>4. ASSUME NEW m \in 1 .. n, m - 1 \in T PROVE m \in T
  <2>1. Placed(h[m - 1], arrays, m - 1) /\ h[m] = AddArray(h[m - 1], arrays[m], limit)
    BY <1>1, <1>2, <1>4 DEF IsBuild
  <2>2. Placed(h[m], arrays, m)
    BY <1>1, <2>1, PlacedStep
  <2> QED
    BY <2>2
<1>5. n \in T
  <2> HIDE DEF T
  <2>1. \A m \in 0 .. n : m \in T
    BY <1>3, <1>4, Induct
  <2> QED
    BY <2>1
<1> QED
  BY <1>1, <1>2, <1>5 DEF IsBuild

\* What the arrays of a built document are made of, a sequence for each curve.
Triples(s) == [n \in DOMAIN s |-> <<PointsBefore(s, n), Len(s[n].positions), 0>>]
Roots(s) == [n \in DOMAIN s |-> [m \in DOMAIN s[n].positions |-> s[n].key[3]]]
Girths(s) == [n \in DOMAIN s |-> s[n].widths]

Zeros(n) == [k \in 1 .. n |-> 0]

LEMMA ItemArraysIs ==
  ASSUME NEW list
  PROVE  ItemArrays(list) =
           << Whole("uint32", FlattenSeq(Triples(list))), Whole("vec3", FlattenSeq(Chains(list))),
              Whole("vec2", FlattenSeq(Roots(list))),
              Whole("vec3", Zeros(Len(list))), Whole("vec3", Zeros(Len(list))), Whole("vec3", Zeros(Len(list))),
              Whole("vec2", [n \in DOMAIN list |-> list[n].key[2]]),
              Whole("uint32", [n \in DOMAIN list |-> list[n].key[1]]),
              Whole("float", Zeros(PointsBefore(list, Len(list) + 1))),
              Whole("float", FlattenSeq(Girths(list))),
              Whole("vec3", Zeros(PointsBefore(list, Len(list) + 1))) >>
BY DEF ItemArrays, Triples, Chains, Roots, Girths, Zeros

LEMMA CurveIs ==
  ASSUME NEW s \in Seq(CurveSet), NEW n \in 1 .. Len(s)
  PROVE  /\ s[n] \in CurveSet /\ s[n].positions \in Seq(Int) /\ s[n].widths \in Seq(Nat)
         /\ s[n].key[1] \in Nat /\ s[n].key[2] \in Int /\ s[n].key[3] \in Int
         /\ s[n].key = <<s[n].key[1], s[n].key[2], s[n].key[3]>>
         /\ Len(s[n].positions) \in Nat /\ Len(s[n].positions) >= 2
         /\ Len(s[n].widths) = Len(s[n].positions)
         /\ DOMAIN s[n].positions = 1 .. Len(s[n].positions)
         /\ DOMAIN s[n].widths = 1 .. Len(s[n].positions)
         /\ \A k \in 1 .. Len(s[n].positions) : s[n].positions[k] \in Int /\ s[n].widths[k] \in Nat
<1>1. PICK c \in CurveSet : c = s[n]
  OBVIOUS
<1>2. /\ c.positions \in Seq(Int) /\ c.widths \in Seq(Nat) /\ c.key \in Nat \X Int \X Int
      /\ Len(c.positions) >= 2 /\ Len(c.widths) = Len(c.positions)
  BY DEF CurveSet
<1>3. PICK key \in Nat \X Int \X Int, p \in Seq(Int), w \in Seq(Nat) :
        key = c.key /\ p = c.positions /\ w = c.widths
  BY <1>2
<1>4. key[1] \in Nat /\ key[2] \in Int /\ key[3] \in Int /\ key = <<key[1], key[2], key[3]>>
  OBVIOUS
<1>5. Len(p) \in Nat /\ DOMAIN p = 1 .. Len(p) /\ DOMAIN w = 1 .. Len(p) /\ Len(p) >= 2 /\ Len(w) = Len(p)
  BY <1>2, <1>3
<1>6. \A k \in 1 .. Len(p) : p[k] \in Int
  OBVIOUS
<1>7. \A k \in 1 .. Len(w) : w[k] \in Nat
  OBVIOUS
<1> QED
  BY <1>1, <1>3, <1>4, <1>5, <1>6, <1>7

LEMMA ListsAreTyped ==
  ASSUME NEW s \in Seq(CurveSet), NEW off, IsOffsets(off, Len(s), Chains(s))
  PROVE  /\ Triples(s) \in [1 .. Len(s) -> Seq(Nat)] /\ Chains(s) \in [1 .. Len(s) -> Seq(Values)]
         /\ Roots(s) \in [1 .. Len(s) -> Seq(Values)] /\ Girths(s) \in [1 .. Len(s) -> Seq(Values)]
         /\ IsOffsets(off, Len(s), Roots(s)) /\ IsOffsets(off, Len(s), Girths(s))
         /\ \A i \in 1 .. Len(s) : PointsBefore(s, i) = off[i - 1] /\ off[i - 1] \in Nat
         /\ IsOffsets([i \in 0 .. Len(s) |-> 3 * i], Len(s), Triples(s))
<1>1. Len(s) \in Nat /\ DOMAIN s = 1 .. Len(s)
  OBVIOUS
<1>2. \A i \in 1 .. Len(s) : PointsBefore(s, i) = off[i - 1] /\ off[i - 1] \in Nat
  <2> TAKE i \in 1 .. Len(s)
  <2>1. PICK m \in 0 .. Len(s) : m = i - 1 /\ m + 1 = i
    OBVIOUS
  <2>2. PointsBefore(s, m + 1) = off[m] /\ off[m] \in Nat
    BY PointsBeforeIs DEF IsOffsets
  <2> QED
    BY <2>1, <2>2
<1>3. ASSUME NEW i \in 1 .. Len(s)
      PROVE  /\ Chains(s)[i] \in Seq(Values) /\ Roots(s)[i] \in Seq(Values) /\ Girths(s)[i] \in Seq(Values)
             /\ Len(Roots(s)[i]) = Len(Chains(s)[i]) /\ Len(Girths(s)[i]) = Len(Chains(s)[i])
             /\ Triples(s)[i] \in Seq(Nat) /\ Len(Triples(s)[i]) = 3
  <2>1. PICK p, w, key, n : p = s[i].positions /\ w = s[i].widths /\ key = s[i].key /\ n = Len(p)
    OBVIOUS
  <2>2. /\ p \in Seq(Int) /\ w \in Seq(Nat) /\ key[3] \in Int /\ n \in Nat /\ Len(w) = n
        /\ DOMAIN p = 1 .. n
    BY <2>1, CurveIs
  <2>3. p \in Seq(Values) /\ w \in Seq(Values) /\ key[3] \in Values
    BY <2>2 DEF Values
  <2>4. PICK r : r = [m \in 1 .. n |-> key[3]]
    OBVIOUS
  <2>5. r \in Seq(Values) /\ Len(r) = n
    BY <2>2, <2>3, <2>4
  <2>6. Chains(s)[i] = p /\ Roots(s)[i] = r /\ Girths(s)[i] = w
    BY <1>1, <2>1, <2>2, <2>4 DEF Chains, Roots, Girths
  <2>7. PICK a \in Nat : a = PointsBefore(s, i)
    BY <1>2
  <2>8. Triples(s)[i] = <<a, n, 0>>
    BY <1>1, <2>1, <2>7 DEF Triples
  <2>9. <<a, n, 0>> \in Seq(Nat) /\ Len(<<a, n, 0>>) = 3
    BY <2>2
  <2> QED
    BY <2>1, <2>2, <2>3, <2>5, <2>6, <2>8, <2>9
<1>4. /\ Triples(s) \in [1 .. Len(s) -> Seq(Nat)] /\ Chains(s) \in [1 .. Len(s) -> Seq(Values)]
      /\ Roots(s) \in [1 .. Len(s) -> Seq(Values)] /\ Girths(s) \in [1 .. Len(s) -> Seq(Values)]
  <2>1. PICK t, c, r, w : t = Triples(s) /\ c = Chains(s) /\ r = Roots(s) /\ w = Girths(s)
    OBVIOUS
  <2>2. /\ t = [i \in 1 .. Len(s) |-> t[i]] /\ c = [i \in 1 .. Len(s) |-> c[i]]
        /\ r = [i \in 1 .. Len(s) |-> r[i]] /\ w = [i \in 1 .. Len(s) |-> w[i]]
    BY <1>1, <2>1 DEF Triples, Chains, Roots, Girths
  <2>3. \A i \in 1 .. Len(s) : t[i] \in Seq(Nat) /\ c[i] \in Seq(Values) /\ r[i] \in Seq(Values) /\ w[i] \in Seq(Values)
    BY <1>3, <2>1
  <2> QED
    BY <2>1, <2>2, <2>3
<1>5. IsOffsets(off, Len(s), Roots(s)) /\ IsOffsets(off, Len(s), Girths(s))
  BY <1>3 DEF IsOffsets
<1>6. IsOffsets([i \in 0 .. Len(s) |-> 3 * i], Len(s), Triples(s))
  <2>1. PICK o : o = [i \in 0 .. Len(s) |-> 3 * i]
    OBVIOUS
  <2>2. o \in [0 .. Len(s) -> Nat] /\ o[0] = 0
    BY <1>1, <2>1
  <2>3. \A i \in 1 .. Len(s) : o[i] = o[i - 1] + 3
    BY <1>1, <2>1
  <2>4. IsOffsets(o, Len(s), Triples(s))
    BY <1>3, <2>2, <2>3 DEF IsOffsets
  <2> QED
    BY <2>1, <2>4
<1> QED
  BY <1>2, <1>4, <1>5, <1>6

IsArray(a, tag, len) ==
  a \in Arrays /\ a.tag = tag /\ a.partial = FALSE /\ Len(a.data) = len

\* The arrays have the curves, one after another.
HaveCurves(arrays, s, off) ==
  LET n == Len(s)
  IN  /\ arrays \in Seq(Arrays) /\ Len(arrays) = 11
      /\ IsArray(arrays[1], "uint32", 3 * n) /\ IsArray(arrays[2], "vec3", off[n])
      /\ IsArray(arrays[3], "vec2", off[n]) /\ IsArray(arrays[7], "vec2", n)
      /\ IsArray(arrays[8], "uint32", n) /\ IsArray(arrays[10], "float", off[n])
      /\ \A i \in 1 .. n :
           /\ arrays[1].data[3 * (i - 1) + 1] = off[i - 1]
           /\ arrays[1].data[3 * (i - 1) + 2] = Len(s[i].positions)
           /\ arrays[7].data[i] = s[i].key[2] /\ arrays[8].data[i] = s[i].key[1]
      /\ \A i \in 1 .. n : \A k \in 1 .. Len(s[i].positions) :
           /\ arrays[2].data[off[i - 1] + k] = s[i].positions[k]
           /\ arrays[3].data[off[i - 1] + k] = s[i].key[3]
           /\ arrays[10].data[off[i - 1] + k] = s[i].widths[k]

LEMMA WholeIsArray ==
  ASSUME NEW tag \in {"float", "vec2", "vec3"}, NEW data \in Seq(Values)
  PROVE  Whole(tag, data) \in Arrays /\ IsArray(Whole(tag, data), tag, Len(data)) /\ Whole(tag, data).data = data
<1>1. Whole(tag, data) = [tag |-> tag, data |-> data, partial |-> FALSE]
  BY DEF Whole
<1>2. Whole(tag, data) \in Arrays
  BY <1>1 DEF Arrays
<1> QED
  BY <1>1, <1>2 DEF IsArray

LEMMA WordsAreArray ==
  ASSUME NEW data \in Seq(Nat)
  PROVE  /\ Whole("uint32", data) \in Arrays /\ IsArray(Whole("uint32", data), "uint32", Len(data))
         /\ Whole("uint32", data).data = data
<1>1. Whole("uint32", data) = [tag |-> "uint32", data |-> data, partial |-> FALSE]
  BY DEF Whole
<1>2. data \in Seq(Values)
  BY DEF Values
<1>3. Whole("uint32", data) \in Arrays
  <2>1. PICK a : a = [tag |-> "uint32", data |-> data, partial |-> FALSE]
    OBVIOUS
  <2>2. a \in [tag : {"uint32", "float", "vec2", "vec3"}, data : Seq(Values), partial : BOOLEAN]
    BY <1>2, <2>1
  <2>3. a.data \in Seq(Nat)
    BY <2>1
  <2>4. a \in Arrays
    BY <2>2, <2>3 DEF Arrays
  <2> QED
    BY <1>1, <2>1, <2>4
<1> QED
  BY <1>1, <1>3 DEF IsArray

LEMMA ZerosAreTyped ==
  ASSUME NEW n \in Nat
  PROVE  Zeros(n) \in Seq(Values)
<1>1. 0 \in Values
  BY DEF Values
<1> QED
  BY <1>1 DEF Zeros

LEMMA ItemHasCurves ==
  ASSUME NEW s \in Seq(CurveSet), NEW off, IsOffsets(off, Len(s), Chains(s))
  PROVE  HaveCurves(ItemArrays(s), s, off)
<1>1. PICK n \in Nat : n = Len(s) /\ DOMAIN s = 1 .. n
  OBVIOUS
<1>2. PICK o : o = [i \in 0 .. n |-> 3 * i]
  OBVIOUS
<1>3. /\ Triples(s) \in [1 .. n -> Seq(Nat)] /\ Chains(s) \in [1 .. n -> Seq(Values)]
      /\ Roots(s) \in [1 .. n -> Seq(Values)] /\ Girths(s) \in [1 .. n -> Seq(Values)]
      /\ IsOffsets(off, n, Chains(s)) /\ IsOffsets(off, n, Roots(s)) /\ IsOffsets(off, n, Girths(s))
      /\ IsOffsets(o, n, Triples(s))
      /\ \A i \in 1 .. n : PointsBefore(s, i) = off[i - 1] /\ off[i - 1] \in Nat
  BY <1>1, <1>2, ListsAreTyped
<1>4. PICK t, c, r, w : /\ t = FlattenSeq(Triples(s)) /\ c = FlattenSeq(Chains(s))
                        /\ r = FlattenSeq(Roots(s)) /\ w = FlattenSeq(Girths(s))
  OBVIOUS
<1>5. /\ IsJoined(t, o, n, Triples(s), Nat) /\ IsJoined(c, off, n, Chains(s), Values)
      /\ IsJoined(r, off, n, Roots(s), Values) /\ IsJoined(w, off, n, Girths(s), Values)
  BY <1>3, <1>4, Flattened
<1>6. /\ t \in Seq(Nat) /\ c \in Seq(Values) /\ r \in Seq(Values) /\ w \in Seq(Values)
      /\ Len(t) = 3 * n /\ Len(c) = off[n] /\ Len(r) = off[n] /\ Len(w) = off[n]
  <2>1. o[n] = 3 * n
    BY <1>2
  <2> QED
    BY <1>5, <2>1 DEF IsJoined
<1>7. PICK u, f : u = [i \in 1 .. n |-> s[i].key[2]] /\ f = [i \in 1 .. n |-> s[i].key[1]]
  OBVIOUS
<1>8. u \in Seq(Values) /\ f \in Seq(Nat) /\ Len(u) = n /\ Len(f) = n
  <2>1. \A i \in 1 .. n : s[i].key[2] \in Values /\ s[i].key[1] \in Nat
    BY <1>1, CurveIs DEF Values
  <2> QED
    BY <1>7, <2>1
<1>9. PICK z1, z2 : z1 = Zeros(n) /\ z2 = Zeros(PointsBefore(s, n + 1))
  OBVIOUS
<1>10. z1 \in Seq(Values) /\ z2 \in Seq(Values)
  <2>1. n \in 0 .. Len(s) /\ off[n] \in Nat
    BY <1>1, <1>3 DEF IsOffsets
  <2>2. PointsBefore(s, n + 1) = off[n]
    BY <1>1, <2>1, PointsBeforeIs
  <2> QED
    BY <1>9, <2>1, <2>2, ZerosAreTyped
<1>11. PICK arrays : arrays = ItemArrays(s)
  OBVIOUS
<1>12. arrays = << Whole("uint32", t), Whole("vec3", c), Whole("vec2", r), Whole("vec3", z1), Whole("vec3", z1),
                   Whole("vec3", z1), Whole("vec2", u), Whole("uint32", f), Whole("float", z2),
                   Whole("float", w), Whole("vec3", z2) >>
  BY <1>1, <1>4, <1>7, <1>9, <1>11, ItemArraysIs
<1>13. /\ \A data \in {c, r, z1, u, z2, w} : \A tag \in {"float", "vec2", "vec3"} : Whole(tag, data) \in Arrays
       /\ \A data \in {t, f} : Whole("uint32", data) \in Arrays
  BY <1>6, <1>8, <1>10, WholeIsArray, WordsAreArray
<1>14. arrays \in Seq(Arrays) /\ Len(arrays) = 11
  BY <1>12, <1>13
<1>15. /\ arrays[1] = Whole("uint32", t) /\ arrays[2] = Whole("vec3", c) /\ arrays[3] = Whole("vec2", r)
       /\ arrays[7] = Whole("vec2", u) /\ arrays[8] = Whole("uint32", f) /\ arrays[10] = Whole("float", w)
  BY <1>12
<1>16. /\ arrays[1].data = t /\ IsArray(arrays[1], "uint32", 3 * n)
       /\ arrays[8].data = f /\ IsArray(arrays[8], "uint32", n)
  BY <1>6, <1>8, <1>15, WordsAreArray
<1>17. /\ arrays[2].data = c /\ IsArray(arrays[2], "vec3", off[n])
       /\ arrays[3].data = r /\ IsArray(arrays[3], "vec2", off[n])
  BY <1>6, <1>15, WholeIsArray
<1>18. /\ arrays[7].data = u /\ IsArray(arrays[7], "vec2", n)
       /\ arrays[10].data = w /\ IsArray(arrays[10], "float", off[n])
  BY <1>6, <1>8, <1>15, WholeIsArray
<1>19. ASSUME NEW i \in 1 .. n
       PROVE  /\ t[3 * (i - 1) + 1] = off[i - 1] /\ t[3 * (i - 1) + 2] = Len(s[i].positions)
              /\ u[i] = s[i].key[2] /\ f[i] = s[i].key[1]
  <2>1. PICK a \in Nat, m \in Nat : a = off[i - 1] /\ m = Len(s[i].positions)
    BY <1>1, <1>3, CurveIs
  <2>2. Triples(s)[i] = <<a, m, 0>>
    BY <1>1, <1>3, <2>1 DEF Triples
  <2>3. o[i - 1] = 3 * (i - 1)
    <3>1. i - 1 \in 0 .. n
      OBVIOUS
    <3> QED
      BY <1>2, <3>1
  <2>4. 1 \in 1 .. Len(Triples(s)[i]) /\ 2 \in 1 .. Len(Triples(s)[i])
    BY <2>2
  <2>5. t[o[i - 1] + 1] = Triples(s)[i][1] /\ t[o[i - 1] + 2] = Triples(s)[i][2]
    BY <1>5, <2>4 DEF IsJoined
  <2> QED
    BY <1>7, <2>1, <2>2, <2>3, <2>5
<1>20. ASSUME NEW i \in 1 .. n, NEW k \in 1 .. Len(s[i].positions)
       PROVE  /\ c[off[i - 1] + k] = s[i].positions[k] /\ r[off[i - 1] + k] = s[i].key[3]
              /\ w[off[i - 1] + k] = s[i].widths[k]
  <2>1. PICK m \in Nat : m = Len(s[i].positions) /\ DOMAIN s[i].positions = 1 .. m /\ Len(s[i].widths) = m
    BY <1>1, CurveIs
  <2>2. /\ Chains(s)[i] = s[i].positions /\ Girths(s)[i] = s[i].widths
        /\ Roots(s)[i] = [x \in 1 .. m |-> s[i].key[3]]
    BY <1>1, <2>1 DEF Chains, Girths, Roots
  <2>3. k \in 1 .. Len(Chains(s)[i]) /\ k \in 1 .. Len(Girths(s)[i]) /\ k \in 1 .. Len(Roots(s)[i])
        /\ Roots(s)[i][k] = s[i].key[3]
    <3>1. Len(Roots(s)[i]) = m
      BY <2>2
    <3> QED
      BY <2>1, <2>2, <3>1
  <2>4. c[off[i - 1] + k] = Chains(s)[i][k]
    BY <1>5, <2>3 DEF IsJoined
  <2>5. r[off[i - 1] + k] = Roots(s)[i][k]
    BY <1>5, <2>3 DEF IsJoined
  <2>6. w[off[i - 1] + k] = Girths(s)[i][k]
    BY <1>5, <2>3 DEF IsJoined
  <2> QED
    BY <2>2, <2>3, <2>4, <2>5, <2>6
<1>21. HaveCurves(arrays, s, off)
  BY <1>1, <1>14, <1>16, <1>17, <1>18, <1>19, <1>20 DEF HaveCurves
<1> QED
  BY <1>11, <1>21

LEMMA PlacedIsHeld ==
  ASSUME NEW arrays \in Seq(Arrays), NEW b, Placed(b, arrays, 11), NEW d, d.groups = b.groups, NEW k \in 1 .. 11
  PROVE  b.ids[k] \in Nat /\ InBounds(d, b.ids[k]) /\ Array(d, b.ids[k]) = arrays[k]
<1>1. PICK g \in 1 .. Len(b.groups) : \E a \in 1 .. Len(b.groups[g]) :
        b.ids[k] = (g - 1) * IdBase + (a - 1) /\ b.groups[g][a] = arrays[k]
  BY DEF Placed
<1>2. PICK a \in 1 .. Len(b.groups[g]) :
        b.ids[k] = (g - 1) * IdBase + (a - 1) /\ b.groups[g][a] = arrays[k]
  BY <1>1
<1>3. b.groups \in Seq(Seq(Arrays)) /\ Len(b.groups) \in Nat
  BY DEF Placed, Builds
<1>4. b.groups[g] \in Seq(Arrays)
  BY <1>3
<1>5. Len(b.groups[g]) \in Nat /\ Len(b.groups[g]) <= 11
  <2>1. \A x \in 1 .. Len(b.groups) : Len(b.groups[x]) <= 11
    BY DEF Placed
  <2> QED
    BY <1>4, <2>1
<1>6. PICK x, y : x = g - 1 /\ y = a - 1
  OBVIOUS
<1>7. /\ x \in Nat /\ x + 1 = g /\ x < Len(b.groups)
      /\ y \in Nat /\ y + 1 = a /\ y < Len(b.groups[g]) /\ y \in 0 .. IdBase - 1
  BY <1>3, <1>5, <1>6, XGenDocumentAssumption
<1>8. b.ids[k] = x * IdBase + y
  BY <1>2, <1>6
<1>9. GroupOf(b.ids[k]) = x /\ IndexOf(b.ids[k]) = y /\ b.ids[k] \in Nat
  BY <1>7, <1>8, IdParts
<1> QED
  BY <1>2, <1>7, <1>9 DEF InBounds, Array, At

HasArray(d, id, a) == InBounds(d, id) /\ Array(d, id) = a

\* A built document has one item, with all the arrays.
IsBuilt(d, it, arrays) ==
  /\ d \in DocumentSet /\ it \in ItemSet /\ d.items = <<it>>
  /\ HasArray(d, it.infos, arrays[1]) /\ HasArray(d, it.positions, arrays[2])
  /\ HasArray(d, it.patchUVs, arrays[3]) /\ HasArray(d, it.faceUVs, arrays[7])
  /\ HasArray(d, it.faceIds, arrays[8]) /\ HasArray(d, it.widths, arrays[10])

LEMMA BuildIs ==
  ASSUME NEW s, ItemArrays(s) \in Seq(Arrays), Len(ItemArrays(s)) = 11, NEW limit
  PROVE  \E it : IsBuilt(Build(s, limit), it, ItemArrays(s))
<1>1. PICK arrays \in Seq(Arrays) : arrays = ItemArrays(s) /\ Len(arrays) = 11
  OBVIOUS
<1>2. PICK b : b = Grouped(arrays, limit)
  OBVIOUS
<1>3. Placed(b, arrays, 11)
  BY <1>1, <1>2, GroupedIs
<1>4. PICK it : it = [infos |-> b.ids[1], positions |-> b.ids[2], patchUVs |-> b.ids[3],
                      faceUVs |-> b.ids[7], faceIds |-> b.ids[8], widths |-> b.ids[10]]
  OBVIOUS
<1>5. PICK d : d = [items |-> <<it>>, groups |-> b.groups]
  OBVIOUS
<1>6. Build(s, limit) = d
  BY <1>1, <1>2, <1>4, <1>5 DEF Build
<1>7. d.groups = b.groups /\ d.items = <<it>>
  BY <1>5
<1>8. \A k \in 1 .. 11 : b.ids[k] \in Nat /\ InBounds(d, b.ids[k]) /\ Array(d, b.ids[k]) = arrays[k]
  <2> TAKE k \in 1 .. 11
  <2>1. d.groups = b.groups
    BY <1>7
  <2> QED
    BY <1>3, <2>1, PlacedIsHeld, Zenon
<1>9. /\ it.infos = b.ids[1] /\ it.positions = b.ids[2] /\ it.patchUVs = b.ids[3]
      /\ it.faceUVs = b.ids[7] /\ it.faceIds = b.ids[8] /\ it.widths = b.ids[10]
  BY <1>4
<1>10. it \in ItemSet
  BY <1>4, <1>8 DEF ItemSet
<1>11. d \in DocumentSet
  <2>1. <<it>> \in Seq(ItemSet) /\ b.groups \in Seq(Seq(Arrays))
    BY <1>3, <1>10 DEF Placed, Builds
  <2> QED
    BY <1>5, <2>1 DEF DocumentSet
<1>12. IsBuilt(d, it, arrays)
  BY <1>7, <1>8, <1>9, <1>10, <1>11 DEF IsBuilt, HasArray
<1> QED
  BY <1>1, <1>6, <1>12

\* The item of a built document, curve by curve.
LEMMA BuiltItemIs ==
  ASSUME NEW s \in Seq(CurveSet), s # <<>>, NEW off, IsOffsets(off, Len(s), Chains(s)),
         NEW arrays, HaveCurves(arrays, s, off), NEW d, NEW it, IsBuilt(d, it, arrays)
  PROVE  /\ ShapesFit(d, it) /\ ChannelsFit(d, it)
         /\ Len(Data(d, it.faceIds)) = Len(s) /\ Stride(d, it) = 3 /\ Primitives(d, it) = 0 .. Len(s) - 1
         /\ \A i \in 1 .. Len(s) :
              /\ First(d, it, 3, i - 1) = off[i - 1] /\ Count(d, it, 3, i - 1) = Len(s[i].positions)
              /\ At(Data(d, it.faceUVs), i - 1) = s[i].key[2] /\ At(Data(d, it.faceIds), i - 1) = s[i].key[1]
<1>1. PICK n \in Nat \ {0} : n = Len(s)
  OBVIOUS
<1>2. /\ Array(d, it.infos) = arrays[1] /\ Array(d, it.positions) = arrays[2]
      /\ Array(d, it.patchUVs) = arrays[3] /\ Array(d, it.faceUVs) = arrays[7]
      /\ Array(d, it.faceIds) = arrays[8] /\ Array(d, it.widths) = arrays[10]
  BY DEF IsBuilt, HasArray
<1>3. /\ InBounds(d, it.infos) /\ InBounds(d, it.positions) /\ InBounds(d, it.patchUVs)
      /\ InBounds(d, it.faceUVs) /\ InBounds(d, it.faceIds) /\ InBounds(d, it.widths)
  BY DEF IsBuilt, HasArray
<1>4. /\ IsArray(arrays[1], "uint32", 3 * n) /\ IsArray(arrays[2], "vec3", off[n])
      /\ IsArray(arrays[3], "vec2", off[n]) /\ IsArray(arrays[7], "vec2", n)
      /\ IsArray(arrays[8], "uint32", n) /\ IsArray(arrays[10], "float", off[n])
  BY <1>1 DEF HaveCurves
<1>5. /\ Holds(d, it.infos, "uint32") /\ Holds(d, it.positions, "vec3") /\ Holds(d, it.widths, "float")
      /\ Holds(d, it.patchUVs, "vec2") /\ Holds(d, it.faceUVs, "vec2") /\ Holds(d, it.faceIds, "uint32")
  BY <1>2, <1>3, <1>4 DEF Holds, IsArray
<1>6. /\ Len(Data(d, it.infos)) = 3 * n /\ Len(Data(d, it.faceIds)) = n /\ Len(Data(d, it.faceUVs)) = n
      /\ Len(Data(d, it.positions)) = off[n] /\ Len(Data(d, it.patchUVs)) = off[n]
      /\ Len(Data(d, it.widths)) = off[n]
  BY <1>2, <1>4 DEF Data, IsArray
<1>7. Stride(d, it) = 3 /\ Len(Data(d, it.infos)) % Len(Data(d, it.faceIds)) = 0
  <2>1. (3 * n) \div n = 3 /\ (3 * n) % n = 0
    BY <1>1, SMTT(60)
  <2> QED
    BY <1>6, <2>1 DEF Stride
<1>8. Data(d, it.faceIds) # <<>>
  <2>1. Len(<<>>) = 0
    OBVIOUS
  <2> QED
    BY <1>1, <1>6, <2>1
<1>9. ShapesFit(d, it) /\ ChannelsFit(d, it)
  BY <1>5, <1>6, <1>7, <1>8 DEF ShapesFit, ChannelsFit, InfosFit
<1>10. ASSUME NEW i \in 1 .. n
       PROVE  /\ First(d, it, 3, i - 1) = off[i - 1] /\ Count(d, it, 3, i - 1) = Len(s[i].positions)
              /\ At(Data(d, it.faceUVs), i - 1) = s[i].key[2] /\ At(Data(d, it.faceIds), i - 1) = s[i].key[1]
  <2>1. /\ arrays[1].data[3 * (i - 1) + 1] = off[i - 1]
        /\ arrays[1].data[3 * (i - 1) + 2] = Len(s[i].positions)
        /\ arrays[7].data[i] = s[i].key[2] /\ arrays[8].data[i] = s[i].key[1]
    BY <1>1 DEF HaveCurves
  <2>2. (i - 1) * 3 + 1 = 3 * (i - 1) + 1 /\ (i - 1) * 3 + 1 + 1 = 3 * (i - 1) + 2 /\ i - 1 + 1 = i
    OBVIOUS
  <2> QED
    BY <1>2, <2>1, <2>2 DEF First, Count, At, Data
<1>11. Primitives(d, it) = 0 .. n - 1
  BY <1>6 DEF Primitives
<1> QED
  BY <1>1, <1>6, <1>7, <1>9, <1>10, <1>11

LEMMA BuiltCurveIs ==
  ASSUME NEW s \in Seq(CurveSet), s # <<>>, NEW off, IsOffsets(off, Len(s), Chains(s)),
         NEW arrays, HaveCurves(arrays, s, off), NEW d, NEW it, IsBuilt(d, it, arrays), NEW i \in 1 .. Len(s)
  PROVE  /\ RangeFits(d, it, 3, i - 1) /\ CurveAt(d, it, i - 1) = s[i]
         /\ Finite(At(Data(d, it.faceUVs), i - 1)) /\ GoodPoints(d, it, 3, i - 1)
         /\ AllFinite(Span(d, it, it.patchUVs, 3, i - 1))
<1>1. PICK n, p, first, count, c :
        n = Len(s) /\ n \in Nat /\ p = i - 1 /\ first = off[i - 1] /\ count = Len(s[i].positions) /\ c = s[i]
  <2>1. Len(s) \in Nat
    OBVIOUS
  <2>2. \E n, p, first, count, c :
           n = Len(s) /\ p = i - 1 /\ first = off[i - 1] /\ count = Len(s[i].positions) /\ c = s[i]
    OBVIOUS
  <2> QED
    BY <2>1, <2>2
<1>2. /\ c \in CurveSet /\ c.positions \in Seq(Int) /\ c.widths \in Seq(Nat)
      /\ c.key[1] \in Nat /\ c.key[2] \in Int /\ c.key[3] \in Int
      /\ c.key = <<c.key[1], c.key[2], c.key[3]>>
      /\ count \in Nat /\ count >= 2 /\ DOMAIN c.positions = 1 .. count /\ DOMAIN c.widths = 1 .. count
      /\ \A k \in 1 .. count : c.positions[k] \in Int /\ c.widths[k] \in Nat
  BY <1>1, CurveIs
<1>3. /\ ShapesFit(d, it) /\ ChannelsFit(d, it) /\ Stride(d, it) = 3 /\ p \in Primitives(d, it)
      /\ First(d, it, 3, p) = first /\ Count(d, it, 3, p) = count
      /\ At(Data(d, it.faceUVs), p) = c.key[2] /\ At(Data(d, it.faceIds), p) = c.key[1]
  <2>1. /\ ShapesFit(d, it) /\ ChannelsFit(d, it) /\ Stride(d, it) = 3
        /\ Primitives(d, it) = 0 .. Len(s) - 1
        /\ \A j \in 1 .. Len(s) :
              /\ First(d, it, 3, j - 1) = off[j - 1] /\ Count(d, it, 3, j - 1) = Len(s[j].positions)
              /\ At(Data(d, it.faceUVs), j - 1) = s[j].key[2] /\ At(Data(d, it.faceIds), j - 1) = s[j].key[1]
    BY BuiltItemIs
  <2>2. p \in 0 .. Len(s) - 1
    BY <1>1
  <2> QED
    BY <1>1, <2>1, <2>2
<1>4. d \in DocumentSet /\ it \in ItemSet
  BY DEF IsBuilt
<1>5. /\ Data(d, it.positions) = arrays[2].data /\ Data(d, it.patchUVs) = arrays[3].data
      /\ Data(d, it.widths) = arrays[10].data /\ Len(Data(d, it.positions)) = off[n]
  BY <1>1 DEF IsBuilt, HasArray, Data, HaveCurves, IsArray
<1>6. first \in Nat /\ first + count <= off[n]
  <2>1. Chains(s)[i] = s[i].positions /\ \A j \in 1 .. n : Len(Chains(s)[j]) \in Nat
    <3>1. \A j \in 1 .. n : Chains(s)[j] = s[j].positions
      BY <1>1 DEF Chains
    <3> QED
      BY <1>1, <3>1, CurveIs
  <2>2. off[i] = first + count /\ first \in Nat /\ off[i] \in Nat
    BY <1>1, <2>1 DEF IsOffsets
  <2>3. i \in 0 .. n /\ n \in i .. n
    BY <1>1
  <2>4. off[i] <= off[n]
    BY <1>1, <2>1, <2>3, OffsetsGrow
  <2> QED
    BY <2>2, <2>4
<1>7. RangeFits(d, it, 3, p)
  BY <1>2, <1>3, <1>5, <1>6 DEF RangeFits
<1>8. \A id \in {it.positions, it.widths, it.patchUVs} :
        /\ Span(d, it, id, 3, p) \in Seq(Values) /\ DOMAIN Span(d, it, id, 3, p) = 1 .. count
        /\ \A k \in 1 .. count : Span(d, it, id, 3, p)[k] = Data(d, id)[first + k]
  BY <1>3, <1>4, <1>7, SpanIs
<1>9. \A k \in 1 .. count :
        /\ arrays[2].data[first + k] = c.positions[k] /\ arrays[3].data[first + k] = c.key[3]
        /\ arrays[10].data[first + k] = c.widths[k]
  BY <1>1 DEF HaveCurves
<1>10. PICK pos, wid, uvs : /\ pos = Span(d, it, it.positions, 3, p) /\ wid = Span(d, it, it.widths, 3, p)
                            /\ uvs = Span(d, it, it.patchUVs, 3, p)
  OBVIOUS
<1>11. /\ DOMAIN pos = 1 .. count /\ DOMAIN wid = 1 .. count /\ DOMAIN uvs = 1 .. count
       /\ pos \in Seq(Values) /\ wid \in Seq(Values)
       /\ \A k \in 1 .. count : pos[k] = c.positions[k] /\ wid[k] = c.widths[k] /\ uvs[k] = c.key[3]
  BY <1>5, <1>8, <1>9, <1>10
<1>12. pos = c.positions /\ wid = c.widths
  <2>1. \A t \in Seq(Values) : t = [k \in DOMAIN t |-> t[k]]
    OBVIOUS
  <2>2. \A t \in Seq(Int) : t = [k \in DOMAIN t |-> t[k]]
    OBVIOUS
  <2>3. \A t \in Seq(Nat) : t = [k \in DOMAIN t |-> t[k]]
    OBVIOUS
  <2>4. PICK ps, ws : ps = c.positions /\ ws = c.widths
    OBVIOUS
  <2>5. pos = [k \in 1 .. count |-> pos[k]] /\ ps = [k \in 1 .. count |-> ps[k]]
    BY <1>2, <1>11, <2>1, <2>2, <2>4
  <2>6. wid = [k \in 1 .. count |-> wid[k]] /\ ws = [k \in 1 .. count |-> ws[k]]
    BY <1>2, <1>11, <2>1, <2>3, <2>4
  <2>7. \A k \in 1 .. count : pos[k] = ps[k] /\ wid[k] = ws[k]
    BY <1>11, <2>4
  <2> QED
    BY <2>4, <2>5, <2>6, <2>7
<1>13. At(Data(d, it.patchUVs), first) = c.key[3]
  <2>1. 1 \in 1 .. count
    BY <1>2
  <2> QED
    BY <1>5, <1>9, <2>1 DEF At
<1>14. CurveAt(d, it, p) = c
  <2>1. CurveAt(d, it, p) = [key |-> c.key, positions |-> c.positions, widths |-> c.widths]
    BY <1>2, <1>3, <1>10, <1>12, <1>13 DEF CurveAt
  <2> QED
    BY <1>2, <2>1 DEF CurveSet
<1>15. \A v \in Int : Finite(v)
  BY XGenDocumentAssumption DEF Finite
<1>16. GoodPoints(d, it, 3, p)
  <2>1. \A k \in 1 .. count : pos[k] \in Int /\ wid[k] \in Nat
    BY <1>2, <1>11
  <2>2. AllFinite(pos)
    BY <1>11, <1>15, <2>1 DEF AllFinite
  <2>3. AllFinite(wid)
    <3>1. \A w \in Nat : Finite(w)
      BY <1>15
    <3> QED
      BY <1>11, <2>1, <3>1 DEF AllFinite
  <2>4. \A w \in Range(wid) : w >= 0
    <3>1. Range(wid) \in SUBSET Nat
      BY <1>11, <2>1 DEF Range
    <3> QED
      BY <3>1
  <2> QED
    BY <1>10, <2>2, <2>3, <2>4 DEF GoodPoints
<1>17. AllFinite(uvs) /\ Finite(At(Data(d, it.faceUVs), p))
  BY <1>2, <1>3, <1>11, <1>15 DEF AllFinite
<1> QED
  BY <1>1, <1>7, <1>10, <1>14, <1>16, <1>17

\* A list of one list, flattened.
LEMMA FlattenOne ==
  ASSUME NEW X, NEW list \in Seq(X)
  PROVE  FlattenSeq(<<list>>) = list
<1>1. PICK seqs : seqs = <<list>>
  OBVIOUS
<1>2. seqs \in [1 .. 1 -> Seq(X)] /\ seqs[1] = list
  BY <1>1
<1>3. \A i \in 1 .. 1 : Len(seqs[i]) \in Nat
  BY <1>2
<1>4. PICK off : IsOffsets(off, 1, seqs)
  BY <1>3, OffsetsExist
<1>5. IsJoined(FlattenSeq(seqs), off, 1, seqs, X)
  BY <1>2, <1>4, Flattened
<1>6. PICK t : t = FlattenSeq(seqs)
  OBVIOUS
<1>7. off[0] = 0 /\ off[1] = Len(list) /\ Len(list) \in Nat
  <2>1. 1 \in 1 .. 1 /\ 1 - 1 = 0
    OBVIOUS
  <2>2. off[1] = off[1 - 1] + Len(seqs[1]) /\ off[0] = 0
    BY <1>4, <2>1 DEF IsOffsets
  <2> QED
    BY <1>2, <2>1, <2>2
<1>8. t \in Seq(X) /\ Len(t) = Len(list)
  BY <1>5, <1>6, <1>7 DEF IsJoined
<1>9. \A k \in 1 .. Len(list) : t[k] = list[k]
  <2>1. 1 \in 1 .. 1
    OBVIOUS
  <2>2. \A k \in 1 .. Len(seqs[1]) : t[off[1 - 1] + k] = seqs[1][k]
    BY <1>5, <1>6, <2>1 DEF IsJoined
  <2>3. \A k \in 1 .. Len(list) : off[1 - 1] + k = k
    BY <1>7
  <2> QED
    BY <1>2, <2>2, <2>3
<1>10. t = list
  BY <1>8, <1>9
<1> QED
  BY <1>1, <1>6, <1>10

\* What was built of curves has them.
LEMMA BuiltIs ==
  ASSUME NEW s \in Seq(CurveSet), s # <<>>, NEW limit
  PROVE  LET d == Build(s, limit)
         IN  /\ d \in DocumentSet /\ Shaped(d)
             /\ \A i \in DOMAIN d.items : \A p \in Primitives(d, d.items[i]) : StandsAlone(d, d.items[i], p)
             /\ Materialize(d, "source") = s
             /\ d.items # <<>> /\ \A i \in DOMAIN d.items : ItemFits(d, d.items[i])
             /\ FlattenSeq(CurveLists(d)) = s
<1>1. PICK n \in Nat : n = Len(s) /\ DOMAIN s = 1 .. n
  OBVIOUS
<1>2. PICK off : IsOffsets(off, Len(s), Chains(s))
  <2>1. \A i \in 1 .. n : Len(Chains(s)[i]) \in Nat
    <3>1. \A i \in 1 .. n : Chains(s)[i] = s[i].positions
      BY <1>1 DEF Chains
    <3> QED
      BY <1>1, <3>1, CurveIs
  <2> QED
    BY <1>1, <2>1, OffsetsExist
<1>3. PICK arrays : arrays = ItemArrays(s) /\ HaveCurves(arrays, s, off)
  BY <1>2, ItemHasCurves
<1>4. PICK d : d = Build(s, limit)
  OBVIOUS
<1>5. PICK it : IsBuilt(d, it, arrays)
  <2>1. ItemArrays(s) \in Seq(Arrays) /\ Len(ItemArrays(s)) = 11
    BY <1>3 DEF HaveCurves
  <2> QED
    BY <1>3, <1>4, <2>1, BuildIs
<1>6. /\ d \in DocumentSet /\ d.items = <<it>> /\ DOMAIN d.items = {1} /\ d.items[1] = it /\ d.items # <<>>
  <2>1. d \in DocumentSet /\ d.items = <<it>>
    BY <1>5 DEF IsBuilt
  <2>2. DOMAIN <<it>> = {1} /\ <<it>>[1] = it /\ <<it>> # <<>>
    OBVIOUS
  <2> QED
    BY <2>1, <2>2
<1>7. /\ ShapesFit(d, it) /\ ChannelsFit(d, it)
      /\ Len(Data(d, it.faceIds)) = n /\ Stride(d, it) = 3 /\ Primitives(d, it) = 0 .. n - 1
      /\ \A i \in 1 .. n :
           First(d, it, 3, i - 1) = off[i - 1] /\ Count(d, it, 3, i - 1) = Len(s[i].positions)
  BY <1>1, <1>2, <1>3, <1>5, BuiltItemIs
<1>8. \A i \in 1 .. n :
        /\ RangeFits(d, it, 3, i - 1) /\ CurveAt(d, it, i - 1) = s[i]
        /\ Finite(At(Data(d, it.faceUVs), i - 1)) /\ GoodPoints(d, it, 3, i - 1)
        /\ AllFinite(Span(d, it, it.patchUVs, 3, i - 1))
  BY <1>1, <1>2, <1>3, <1>5, BuiltCurveIs
<1>9. \A p \in Primitives(d, it) : \E i \in 1 .. n : p = i - 1
  <2>1. \A p \in 0 .. n - 1 : \E i \in 1 .. n : p = i - 1
    <3> TAKE p \in 0 .. n - 1
    <3>1. p + 1 \in 1 .. n /\ p = p + 1 - 1
      OBVIOUS
    <3> QED
      BY <3>1
  <2> QED
    BY <1>7, <2>1
<1>10. ItemFits(d, it)
  BY <1>7, <1>8, <1>9 DEF ItemFits
<1>11. Shaped(d)
  BY <1>6, <1>10 DEF Shaped, ItemFits
<1>12. \A p, r \in Primitives(d, it) : p # r => Disjoint(d, it, p, r)
  <2> SUFFICES ASSUME NEW p \in Primitives(d, it), NEW r \in Primitives(d, it), p # r
               PROVE  Disjoint(d, it, p, r)
    OBVIOUS
  <2>1. PICK i \in 1 .. n : p = i - 1
    BY <1>9
  <2>2. PICK j \in 1 .. n : r = j - 1
    BY <1>9
  <2>3. \A x, y \in 1 .. n : x < y => off[x - 1] + Len(s[x].positions) <= off[y - 1]
    <3> TAKE x, y \in 1 .. n
    <3> HAVE x < y
    <3>1. \A k \in 1 .. n : Chains(s)[k] = s[k].positions /\ Len(Chains(s)[k]) \in Nat
      <4>1. \A k \in 1 .. n : Chains(s)[k] = s[k].positions
        BY <1>1 DEF Chains
      <4> QED
        BY <1>1, <4>1, CurveIs
    <3>2. off[x] = off[x - 1] + Len(s[x].positions)
      BY <1>1, <1>2, <3>1 DEF IsOffsets
    <3>3. PICK z : z = y - 1
      OBVIOUS
    <3>4. x \in 0 .. n /\ z \in x .. n
      BY <3>3
    <3>5. off[x] <= off[z]
      BY <1>1, <1>2, <3>1, <3>4, OffsetsGrow
    <3> QED
      BY <3>2, <3>3, <3>5
  <2>4. /\ First(d, it, Stride(d, it), p) = off[i - 1] /\ Count(d, it, Stride(d, it), p) = Len(s[i].positions)
        /\ First(d, it, Stride(d, it), r) = off[j - 1] /\ Count(d, it, Stride(d, it), r) = Len(s[j].positions)
    BY <1>7, <2>1, <2>2
  <2>5. i < j \/ j < i
    BY <2>1, <2>2
  <2> QED
    BY <2>3, <2>4, <2>5 DEF Disjoint
<1>13. \A i \in DOMAIN d.items : \A p \in Primitives(d, d.items[i]) : StandsAlone(d, d.items[i], p)
  <2>1. ASSUME NEW p \in Primitives(d, it) PROVE StandsAlone(d, it, p)
    <3>1. SamePoints(d, it, p, it, p)
      BY DEF SamePoints
    <3>2. \A o \in Primitives(d, it) : o # p => Disjoint(d, it, p, o)
      BY <1>12
    <3> QED
      BY <1>6, <3>1, <3>2 DEF StandsAlone
  <2> QED
    BY <1>6, <2>1
<1>14. FlattenSeq(CurveLists(d)) = s
  <2>1. CurveLists(d) = <<[k \in 1 .. n |-> CurveAt(d, it, k - 1)]>>
    <3>1. PICK c : c = [k \in 1 .. n |-> CurveAt(d, it, k - 1)]
      OBVIOUS
    <3>2. PICK lists : lists = CurveLists(d)
      OBVIOUS
    <3>3. lists = [i \in {1} |-> c]
      BY <1>6, <1>7, <3>1, <3>2 DEF CurveLists
    <3>4. <<c>> = [i \in {1} |-> c]
      OBVIOUS
    <3> QED
      BY <3>1, <3>2, <3>3, <3>4
  <2>2. [k \in 1 .. n |-> CurveAt(d, it, k - 1)] = s
    <3>1. \A t \in Seq(CurveSet) : t = [k \in DOMAIN t |-> t[k]]
      OBVIOUS
    <3>2. s = [k \in 1 .. n |-> s[k]]
      BY <1>1, <3>1
    <3> QED
      BY <1>8, <3>2
  <2> QED
    BY <2>1, <2>2, FlattenOne
<1>15. \A i \in DOMAIN d.items : ItemFits(d, d.items[i])
  BY <1>6, <1>10
<1>16. Materialize(d, "source") = s
  BY <1>6, <1>14, <1>15, MaterializeIs DEF Arranged
<1> QED
  BY <1>4, <1>6, <1>11, <1>13, <1>14, <1>15, <1>16

-----------------------------------------------------------------------------
(* The inductive invariant *)

LEMMA SourceIsTyped ==
  ASSUME NEW d \in DocumentSet
  PROVE  /\ Materialize(d, "source") \in Seq(CurveSet)
         /\ Materialize(d, "source") # Invalid => Shaped(d)
<1>1. CASE d.items # <<>> /\ \A i \in DOMAIN d.items : ItemFits(d, d.items[i])
  <2>1. Materialize(d, "source") = FlattenSeq(CurveLists(d))
    BY <1>1, MaterializeIs DEF Arranged
  <2>2. PICK n, lists : n \in Nat /\ n = Len(d.items) /\ lists = CurveLists(d) /\ lists \in [1 .. n -> Seq(CurveSet)]
    BY <1>1, CurvesAreTyped
  <2>3. \A i \in 1 .. n : Len(lists[i]) \in Nat
    BY <2>2
  <2>4. PICK off : IsOffsets(off, n, lists)
    BY <2>2, <2>3, OffsetsExist
  <2>5. FlattenSeq(lists) \in Seq(CurveSet)
    BY <2>2, <2>4, Flattened DEF IsJoined
  <2>6. Shaped(d)
    BY <1>1 DEF Shaped, ItemFits
  <2> QED
    BY <2>1, <2>2, <2>5, <2>6
<1>2. CASE ~(d.items # <<>> /\ \A i \in DOMAIN d.items : ItemFits(d, d.items[i]))
  <2>1. Materialize(d, "source") = Invalid
    BY <1>2, MaterializeIs
  <2> QED
    <3>1. <<>> \in Seq(CurveSet)
      OBVIOUS
    <3> QED
      BY <2>1, <3>1 DEF Invalid
<1> QED
  BY <1>1, <1>2

AllStandAlone(d) ==
  \A i \in DOMAIN d.items : \A p \in Primitives(d, d.items[i]) : StandsAlone(d, d.items[i], p)

\* What the invariant says of a document d and curves c of target t.
Sound(d, c, t) ==
  /\ d \in DocumentSet /\ c \in Seq(CurveSet)
  /\ c # Invalid => Shaped(d)
  /\ c # Invalid => Agree(d, c)
  /\ t # 0 => c # Invalid /\ AllStandAlone(d)

LEMMA AgreeingIsEqual ==
  ASSUME NEW d \in DocumentSet, Shaped(d), NEW c \in Seq(CurveSet), c # Invalid, Agree(d, c), AllStandAlone(d)
  PROVE  Materialize(d, "source") = c
<1>1. Materialize(d, "source") \in Seq(CurveSet)
  BY SourceIsTyped
<1>2. Materialize(d, "source") # Invalid
  BY <1>1 DEF Agree, Invalid
<1>3. \A i \in 1 .. Len(d.items) : \A p \in Primitives(d, d.items[i]) : StandsAlone(d, d.items[i], p)
  BY DEF DocumentSet, AllStandAlone
<1> QED
  BY <1>1, <1>2, <1>3, AllAlone

LEMMA IInvIs ==
  IInv <=> Sound(document, curves, target) /\ target \in Targets \cup {0} /\ calls \in 0 .. MaxCalls
BY DEF IInv, Sound, TypeOK, RoutesAgree, Agree, BuiltStandsAlone, AllStandAlone

LEMMA InitIInv == Init => IInv
<1> SUFFICES ASSUME Init PROVE IInv
  OBVIOUS
<1>1. document \in DocumentSet /\ curves = Materialize(document, "source") /\ target = 0 /\ calls = 0
  BY XGenDocumentAssumption DEF Init
<1>2. curves \in Seq(CurveSet) /\ (curves # Invalid => Shaped(document))
  BY <1>1, SourceIsTyped
<1>3. Sound(document, curves, target)
  BY <1>1, <1>2 DEF Sound, Agree
<1>4. 0 \in 0 .. MaxCalls
  BY XGenDocumentAssumption
<1> QED
  BY <1>1, <1>3, <1>4, IInvIs

LEMMA ProcessIsSound ==
  ASSUME NEW d, NEW c, NEW t, Sound(d, c, t), NEW q \in ParameterSet
  PROVE  Sound(ProcessDocument(d, q).document, IF ParametersFit(q) THEN ProcessedCurves(c, q) ELSE c, t)
<1>1. d \in DocumentSet /\ c \in Seq(CurveSet)
  BY DEF Sound
<1>2. PICK e : e = ProcessDocument(d, q).document
  OBVIOUS
<1>3. e \in DocumentSet /\ (~ParametersFit(q) => e = d)
  BY <1>1, <1>2, ProcessIsTyped
<1>4. CASE ~ParametersFit(q)
  BY <1>2, <1>3, <1>4
<1>5. CASE ParametersFit(q)
  <2>1. PICK r : r = ProcessedCurves(c, q)
    OBVIOUS
  <2>2. r \in Seq(CurveSet) /\ (r = Invalid <=> c = Invalid)
    BY <1>1, <1>5, <2>1, ProcessedIsTyped
  <2>3. ASSUME c # Invalid
        PROVE  Shaped(e) /\ Agree(e, r) /\ (AllStandAlone(d) => AllStandAlone(e))
    <3>1. Shaped(d) /\ Agree(d, c)
      BY <2>3 DEF Sound
    <3>2. Agree(e, r)
      BY <1>1, <1>2, <1>5, <2>1, <2>3, <3>1, ProcessKeepsCurves
    <3>3. /\ Shaped(e) /\ e.items = d.items
          /\ \A i \in 1 .. Len(d.items) : SameItem(d, e, d.items[i])
          /\ \A i \in 1 .. Len(d.items) : \A p \in Primitives(d, d.items[i]) :
               StandsAlone(e, d.items[i], p) <=> StandsAlone(d, d.items[i], p)
      BY <1>1, <1>2, <1>5, <3>1, ProcessKeepsShape
    <3>4. DOMAIN d.items = 1 .. Len(d.items)
      BY <1>1 DEF DocumentSet
    <3>5. \A i \in 1 .. Len(d.items) : Primitives(e, d.items[i]) = Primitives(d, d.items[i])
      BY <3>3, SameItemFits
    <3>6. AllStandAlone(d) => AllStandAlone(e)
      BY <3>3, <3>4, <3>5 DEF AllStandAlone
    <3> QED
      BY <3>2, <3>3, <3>6
  <2>5. t # 0 => c # Invalid /\ AllStandAlone(e)
    BY <2>3 DEF Sound
  <2>6. Sound(e, r, t)
    BY <1>3, <2>2, <2>3, <2>5 DEF Sound
  <2> QED
    BY <1>2, <1>5, <2>1, <2>6
<1> QED
  BY <1>4, <1>5

LEMMA ProcessIInv ==
  ASSUME IInv, NEW q \in Parameters, Process(q)
  PROVE  IInv'
<1>1. q \in ParameterSet
  BY XGenDocumentAssumption
<1>2. Sound(document, curves, target)
  BY IInvIs
<1>3. /\ document' = ProcessDocument(document, q).document
      /\ curves' = IF ParametersFit(q) THEN ProcessedCurves(curves, q) ELSE curves
      /\ target' = target /\ calls' = calls + 1 /\ calls < MaxCalls
  BY DEF Process
<1>4. Sound(document', curves', target')
  BY <1>1, <1>2, <1>3, ProcessIsSound
<1>5. target' \in Targets \cup {0} /\ calls' \in 0 .. MaxCalls
  BY <1>3, XGenDocumentAssumption DEF IInv, TypeOK
<1> QED
  BY <1>4, <1>5 DEF IInv, Sound, TypeOK, RoutesAgree, Agree, BuiltStandsAlone, AllStandAlone

LEMMA RebuildIInv ==
  ASSUME IInv, NEW limit \in Targets, Rebuild(limit)
  PROVE  IInv'
<1>1. /\ document' = Build(curves, limit) /\ curves' = curves /\ curves # Invalid
      /\ target' = limit /\ calls' = calls + 1 /\ calls < MaxCalls
  BY DEF Rebuild, Buildable
<1>2. curves \in Seq(CurveSet) /\ curves # <<>>
  BY <1>1 DEF IInv, TypeOK, Invalid
<1>3. /\ document' \in DocumentSet /\ Shaped(document') /\ AllStandAlone(document')
      /\ Agree(document', curves)
  BY <1>1, <1>2, BuiltIs DEF AllStandAlone, Agree
<1>4. Sound(document', curves', target')
  BY <1>1, <1>2, <1>3 DEF Sound
<1>5. target' \in Targets \cup {0} /\ calls' \in 0 .. MaxCalls
  BY <1>1, XGenDocumentAssumption DEF IInv, TypeOK
<1> QED
  BY <1>4, <1>5 DEF IInv, Sound, TypeOK, RoutesAgree, Agree, BuiltStandsAlone, AllStandAlone

\* The state is sound: document and curves have their types, curves mean
\* that the document's channels and ranges fit, and the two routes agree
\* (xgen.cpp:1480-1686).
THEOREM Inductive == Spec => []IInv
<1>1. Init => IInv
  BY InitIInv
<1>2. IInv /\ [Next]_vars => IInv'
  <2> SUFFICES ASSUME IInv, [Next]_vars PROVE IInv'
    OBVIOUS
  <2>1. ASSUME NEW q \in Parameters, Process(q) PROVE IInv'
    BY <2>1, ProcessIInv
  <2>2. ASSUME NEW limit \in Targets, Rebuild(limit) PROVE IInv'
    BY <2>2, RebuildIInv
  <2>3. CASE UNCHANGED vars
    <3>1. document' = document /\ curves' = curves /\ target' = target /\ calls' = calls
      BY <2>3 DEF vars
    <3>2. Sound(document', curves', target') /\ target' \in Targets \cup {0} /\ calls' \in 0 .. MaxCalls
      BY <3>1, IInvIs
    <3> QED
      BY <3>2 DEF IInv, Sound, TypeOK, RoutesAgree, Agree, BuiltStandsAlone, AllStandAlone
  <2> QED
    BY <2>1, <2>2, <2>3 DEF Next, Done
<1> QED
  BY <1>1, <1>2, PTL DEF Spec

\* Whatever is loaded, processed or built keeps its type: arrays of integers
\* have integers, and each curve has two points or more, with a width for each
\* (xgen.cpp:1268-1399, 1480-1686).
THEOREM TypeCorrect == Spec => []TypeOK
<1>1. IInv => TypeOK
  BY DEF IInv
<1> QED
  BY <1>1, Inductive, PTL

\* Processing the document in place and processing its curves beside it give
\* as many curves, with the same identities and widths, whatever arrays the items
\* share; and the same positions of each curve that stands alone: every item
\* that refers to its positions has it too, and none another curve through
\* its points.  The document may have been built in between
\* (xgen.cpp:1480-1563, 1565-1686).
THEOREM OneResult == Spec => []RoutesAgree
<1>1. IInv => RoutesAgree
  BY DEF IInv
<1> QED
  BY <1>1, Inductive, PTL

LEMMA ReadersAgreeOn ==
  ASSUME document \in DocumentSet
  PROVE  ReadersAgree
<1>1. \A order \in {"source", "canonical"} : Fused(document, order) = Pack(document, order)
  BY FusedIsPack DEF Orders
<1>2. Pack(document, "canonical") = PointsOf(Materialize(document, "canonical"))
  BY PackedIsPoints
<1>3. ASSUME Materialize(document, "source") # Invalid, ThreeWords(document)
      PROVE  Pack(document, "source") = PointsOf(Materialize(document, "source"))
  BY <1>3, SourceIsPoints
<1> QED
  BY <1>1, <1>2, <1>3 DEF ReadersAgree

\* The fused reader, the packed reader and full materialization give the
\* same points of every document that can be loaded, processed or built, and
\* in canonical order refuse the same ones (xgen.cpp:702-870, 880-1077).
THEOREM OneReading == Spec => []ReadersAgree
<1>1. TypeOK => ReadersAgree
  BY ReadersAgreeOn DEF TypeOK
<1> QED
  BY <1>1, TypeCorrect, PTL

-----------------------------------------------------------------------------
(* Canonical order *)

\* t has the curves of s, that of place i at place p[i].
Permutes(p, s, t, n) ==
  /\ p \in [1 .. n -> 1 .. n]
  /\ \A i, j \in 1 .. n : p[i] = p[j] => i = j
  /\ \A x \in 1 .. n : \E i \in 1 .. n : p[i] = x
  /\ \A i \in 1 .. n : t[p[i]] = s[i]

LEMMA PermutesBack ==
  ASSUME NEW p, NEW s, NEW t, NEW n, Permutes(p, s, t, n)
  PROVE  \E r : Permutes(r, t, s, n)
<1> DEFINE r == [x \in 1 .. n |-> CHOOSE i \in 1 .. n : p[i] = x]
<1>1. \A x \in 1 .. n : r[x] \in 1 .. n /\ p[r[x]] = x
  <2> TAKE x \in 1 .. n
  <2>1. \E i \in 1 .. n : p[i] = x
    BY DEF Permutes
  <2> QED
    BY <2>1
<1>2. r \in [1 .. n -> 1 .. n]
  BY <1>1
<1> HIDE DEF r
<1>3. \A x, y \in 1 .. n : r[x] = r[y] => x = y
  BY <1>1
<1>4. \A i \in 1 .. n : r[p[i]] = i /\ p[i] \in 1 .. n
  BY <1>1 DEF Permutes
<1>5. \A x \in 1 .. n : s[r[x]] = t[x]
  BY <1>1 DEF Permutes
<1>6. Permutes(r, t, s, n)
  BY <1>2, <1>3, <1>4, <1>5 DEF Permutes
<1> QED
  BY <1>6

LEMMA PermutedDuplicates ==
  ASSUME NEW p, NEW s, NEW t, NEW n \in Nat, Permutes(p, s, t, n),
         DOMAIN s = 1 .. n, DOMAIN t = 1 .. n, Duplicates(s)
  PROVE  Duplicates(t)
<1>1. PICK i \in 1 .. n, j \in 1 .. n : i < j /\ s[i].key = s[j].key
  BY DEF Duplicates, SameIdentity
<1>2. p[i] \in 1 .. n /\ p[j] \in 1 .. n /\ p[i] # p[j] /\ t[p[i]].key = t[p[j]].key
  <2>1. i # j
    BY <1>1
  <2> QED
    BY <1>1, <2>1 DEF Permutes
<1>3. p[i] < p[j] \/ p[j] < p[i]
  BY <1>2
<1> QED
  BY <1>2, <1>3 DEF Duplicates, SameIdentity

\* Without duplicates an order of keys is one of places.
LEMMA PermutedPrecedes ==
  ASSUME NEW p, NEW s, NEW t, NEW n, Permutes(p, s, t, n), Keyed(s, n), ~Duplicates(s),
         NEW i \in 1 .. n, NEW j \in 1 .. n
  PROVE  Precedes(t, p[i], p[j]) <=> Precedes(s, i, j)
<1>1. t[p[i]] = s[i] /\ t[p[j]] = s[j] /\ n \in Nat /\ DOMAIN s = 1 .. n
  BY DEF Permutes, Keyed
<1>2. CASE s[i].key = s[j].key
  <2>1. ~(i < j) /\ ~(j < i)
    BY <1>1, <1>2 DEF Duplicates, SameIdentity
  <2>2. i = j
    BY <2>1
  <2> QED
    BY <1>1, <2>2 DEF Precedes, Permutes
<1>3. CASE s[i].key # s[j].key
  BY <1>1, <1>3 DEF Precedes
<1> QED
  BY <1>2, <1>3

LEMMA PermutedRank ==
  ASSUME NEW p, NEW s, NEW t, NEW n, Permutes(p, s, t, n), Keyed(s, n), Keyed(t, n), ~Duplicates(s),
         NEW i \in 1 .. n
  PROVE  Cardinality(Before(t, p[i])) = Cardinality(Before(s, i))
<1>1. p[i] \in 1 .. n
  BY DEF Permutes
<1>2. /\ Before(s, i) = {j \in 1 .. n : Precedes(s, j, i)} /\ IsFiniteSet(Before(s, i))
      /\ Before(t, p[i]) = {j \in 1 .. n : Precedes(t, j, p[i])}
  BY <1>1, BeforeIs
<1>3. PICK A, B : A = Before(s, i) /\ B = Before(t, p[i])
  OBVIOUS
<1>4. /\ \A j \in A : p[j] \in B /\ j \in 1 .. n
      /\ \A x \in B : \E j \in A : p[j] = x
  <2>1. \A j \in 1 .. n : p[j] \in 1 .. n /\ (Precedes(t, p[j], p[i]) <=> Precedes(s, j, i))
    BY PermutedPrecedes DEF Permutes
  <2>2. \A x \in 1 .. n : \E j \in 1 .. n : p[j] = x
    BY DEF Permutes
  <2> QED
    BY <1>2, <1>3, <2>1, <2>2
<1> DEFINE q == [j \in A |-> p[j]]
<1>5. q \in [A -> B] /\ (\A j, k \in A : q[j] = q[k] => j = k) /\ \A x \in B : \E j \in A : q[j] = x
  BY <1>4 DEF Permutes
<1>6. q \in Bijection(A, B)
  <2> HIDE DEF q
  <2>1. DOMAIN q = A
    BY <1>5
  <2> QED
    BY <1>5, <2>1 DEF Bijection, Injection, Surjection, IsInjective
<1>7. Cardinality(B) = Cardinality(A)
  BY <1>2, <1>3, <1>6, FS_Bijection DEF ExistsBijection
<1> QED
  BY <1>3, <1>7

\* Of curves that are all different the order they come in is forgotten.
LEMMA PermutedCanonical ==
  ASSUME NEW p, NEW s, NEW t, NEW n, Permutes(p, s, t, n), Keyed(s, n), Keyed(t, n), ~Duplicates(s)
  PROVE  Canonical(t) = Canonical(s)
<1>1. DOMAIN s = 1 .. n /\ DOMAIN t = 1 .. n
  BY DEF Keyed
<1>2. \A m \in 1 .. n : Canonical(t)[m] = Canonical(s)[m]
  <2> TAKE m \in 1 .. n
  <2>1. PICK i : i = CHOOSE k \in DOMAIN s : Cardinality(Before(s, k)) = m - 1
    OBVIOUS
  <2>2. i \in 1 .. n /\ Cardinality(Before(s, i)) = m - 1
    <3>1. \E k \in 1 .. n : Cardinality(Before(s, k)) = m - 1
      BY RankFound
    <3> QED
      BY <1>1, <2>1, <3>1
  <2>3. PICK j : j = CHOOSE k \in DOMAIN t : Cardinality(Before(t, k)) = m - 1
    OBVIOUS
  <2>4. j \in 1 .. n /\ Cardinality(Before(t, j)) = m - 1
    <3>1. \E k \in 1 .. n : Cardinality(Before(t, k)) = m - 1
      BY RankFound
    <3> QED
      BY <1>1, <2>3, <3>1
  <2>5. p[i] \in 1 .. n /\ Cardinality(Before(t, p[i])) = m - 1 /\ t[p[i]] = s[i]
    <3>1. Cardinality(Before(t, p[i])) = Cardinality(Before(s, i))
      BY <2>2, PermutedRank
    <3> QED
      BY <2>2, <3>1 DEF Permutes
  <2>6. j = p[i]
    BY <2>4, <2>5, RankIsOne
  <2>7. Canonical(s)[m] = s[i] /\ Canonical(t)[m] = t[j]
    BY <1>1, <2>1, <2>3 DEF Canonical
  <2> QED
    BY <2>5, <2>6, <2>7
<1>3. PICK a, b : a = Canonical(s) /\ b = Canonical(t)
  OBVIOUS
<1>4. a = [m \in 1 .. n |-> a[m]] /\ b = [m \in 1 .. n |-> b[m]]
  BY <1>1, <1>3 DEF Canonical
<1> QED
  BY <1>2, <1>3, <1>4

LEMMA PermutedArranged ==
  ASSUME NEW p, NEW s, NEW t, NEW n, Permutes(p, s, t, n), Keyed(s, n), Keyed(t, n)
  PROVE  Arranged(t, "canonical") = Arranged(s, "canonical")
<1>1. n \in Nat /\ DOMAIN s = 1 .. n /\ DOMAIN t = 1 .. n
  BY DEF Keyed
<1>2. PICK r : Permutes(r, t, s, n)
  BY PermutesBack
<1>3. Duplicates(t) <=> Duplicates(s)
  BY <1>1, <1>2, PermutedDuplicates
<1>4. CASE Duplicates(s)
  BY <1>3, <1>4 DEF Arranged
<1>5. CASE ~Duplicates(s)
  <2>1. Canonical(t) = Canonical(s)
    BY <1>5, PermutedCanonical
  <2> QED
    BY <1>3, <1>5, <2>1 DEF Arranged
<1> QED
  BY <1>4, <1>5

\* A place of a sequence, in the joined sequence.
IsPlace(m, i, k, off, n, a) == i \in 1 .. n /\ k \in 1 .. Len(a[i]) /\ m = off[i - 1] + k

\* A place in the joined sequence is one place of one of the sequences.
LEMMA PlacesApart ==
  ASSUME NEW n \in Nat, NEW X, NEW a \in [1 .. n -> Seq(X)], NEW off, IsOffsets(off, n, a),
         NEW m, NEW i, NEW j, NEW k, NEW l, IsPlace(m, i, k, off, n, a), IsPlace(m, j, l, off, n, a)
  PROVE  i = j /\ k = l
<1>0. /\ i \in 1 .. n /\ j \in 1 .. n /\ k \in 1 .. Len(a[i]) /\ l \in 1 .. Len(a[j])
      /\ off[i - 1] + k = off[j - 1] + l /\ \A x \in 1 .. n : Len(a[x]) \in Nat
  BY DEF IsPlace
<1>1. \A x, y \in 1 .. n : x < y => off[x - 1] + Len(a[x]) <= off[y - 1]
  <2> TAKE x, y \in 1 .. n
  <2> HAVE x < y
  <2>1. PICK z : z = y - 1
    OBVIOUS
  <2>2. x \in 0 .. n /\ z \in x .. n
    BY <2>1
  <2>3. off[x] <= off[z] /\ off[x] = off[x - 1] + Len(a[x])
    BY <1>0, <2>2, OffsetsGrow DEF IsOffsets
  <2> QED
    BY <2>1, <2>3
<1>2. off[i - 1] \in Nat /\ off[j - 1] \in Nat /\ Len(a[i]) \in Nat /\ Len(a[j]) \in Nat
  <2>1. i - 1 \in 0 .. n /\ j - 1 \in 0 .. n
    BY <1>0
  <2> QED
    BY <1>0, <2>1 DEF IsOffsets
<1>3. ~(i < j) /\ ~(j < i)
  <2>1. PICK x, y : x = off[i - 1] /\ y = off[j - 1]
    OBVIOUS
  <2>2. /\ x \in Nat /\ y \in Nat /\ k \in Nat /\ l \in Nat /\ k >= 1 /\ l >= 1
        /\ k <= Len(a[i]) /\ l <= Len(a[j]) /\ x + k = y + l
    BY <1>0, <1>2, <2>1
  <2>3. ASSUME i < j PROVE FALSE
    <3>1. x + Len(a[i]) <= y
      BY <1>0, <1>1, <2>1, <2>3
    <3> QED
      BY <1>2, <2>2, <3>1
  <2>4. ASSUME j < i PROVE FALSE
    <3>1. y + Len(a[j]) <= x
      BY <1>0, <1>1, <2>1, <2>4
    <3> QED
      BY <1>2, <2>2, <3>1
  <2> QED
    BY <2>3, <2>4
<1>4. i = j
  BY <1>0, <1>3
<1> QED
  BY <1>0, <1>2, <1>4

\* Joined in reverse: the k-th of sequence i is at another place.
IsMoved(p, offs, off, n, a) ==
  \A i \in 1 .. n : \A k \in 1 .. Len(a[i]) : p[off[i - 1] + k] = offs[n - i] + k

LEMMA MovedPlaces ==
  ASSUME NEW n \in Nat, NEW X, NEW a \in [1 .. n -> Seq(X)], NEW s, NEW off, NEW offs,
         IsOffsets(off, n, a), IsJoined(s, off, n, a, X)
  PROVE  \E p : p = [m \in 1 .. off[n] |-> p[m]] /\ IsMoved(p, offs, off, n, a)
<1>1. \A i \in 1 .. n : Len(a[i]) \in Nat
  OBVIOUS
<1> DEFINE To(m) == CHOOSE x : \E i \in 1 .. n : \E k \in 1 .. Len(a[i]) : m = off[i - 1] + k /\ x = offs[n - i] + k
           p == [m \in 1 .. off[n] |-> To(m)]
<1>2. ASSUME NEW i \in 1 .. n, NEW k \in 1 .. Len(a[i])
      PROVE  p[off[i - 1] + k] = offs[n - i] + k
  <2>1. PICK m : m = off[i - 1] + k /\ m \in 1 .. off[n]
    BY DEF IsJoined
  <2>2. \A j \in 1 .. n : \A l \in 1 .. Len(a[j]) : m = off[j - 1] + l => j = i /\ l = k
    <3> TAKE j \in 1 .. n
    <3> TAKE l \in 1 .. Len(a[j])
    <3> HAVE m = off[j - 1] + l
    <3>1. off[i - 1] + k = off[j - 1] + l
      BY <2>1
    <3>2. IsPlace(m, i, k, off, n, a) /\ IsPlace(m, j, l, off, n, a)
      BY <2>1, <3>1 DEF IsPlace
    <3>3. i = j /\ k = l
      BY <3>2, PlacesApart
    <3> QED
      BY <3>3
  <2>3. \A x : (\E j \in 1 .. n : \E l \in 1 .. Len(a[j]) : m = off[j - 1] + l /\ x = offs[n - j] + l)
                 <=> x = offs[n - i] + k
    BY <2>1, <2>2
  <2>4. p[m] = CHOOSE x : \E j \in 1 .. n : \E l \in 1 .. Len(a[j]) : m = off[j - 1] + l /\ x = offs[n - j] + l
    BY <2>1
  <2>5. p[m] = offs[n - i] + k
    <3> HIDE DEF p
    <3> QED
      BY <2>3, <2>4
  <2> QED
    BY <2>1, <2>5
<1> HIDE DEF p
<1>3. IsMoved(p, offs, off, n, a)
  BY <1>2 DEF IsMoved
<1>4. p = [m \in 1 .. off[n] |-> p[m]]
  <2> HIDE DEF To
  <2> QED
    BY DEF p
<1> QED
  BY <1>3, <1>4

LEMMA FlattenReversed ==
  ASSUME NEW n \in Nat, NEW X, NEW a \in [1 .. n -> Seq(X)], NEW b \in [1 .. n -> Seq(X)],
         \A i \in 1 .. n : b[n - i + 1] = a[i]
  PROVE  LET s == FlattenSeq(a)
             t == FlattenSeq(b)
         IN  s \in Seq(X) /\ t \in Seq(X) /\ Len(t) = Len(s) /\ \E p : Permutes(p, s, t, Len(s))
<1>1. \A i \in 1 .. n : Len(a[i]) \in Nat /\ Len(b[i]) \in Nat
  OBVIOUS
<1>2. PICK off : IsOffsets(off, n, a)
  BY <1>1, OffsetsExist
<1>3. PICK offs : IsOffsets(offs, n, b)
  BY <1>1, OffsetsExist
<1>4. PICK s, t : s = FlattenSeq(a) /\ t = FlattenSeq(b)
  OBVIOUS
<1>5. IsJoined(s, off, n, a, X) /\ IsJoined(t, offs, n, b, X)
  BY <1>2, <1>3, <1>4, Flattened
<1>6. PICK N \in Nat, M \in Nat : N = off[n] /\ M = offs[n]
  BY <1>2, <1>3 DEF IsOffsets
<1>7. s \in Seq(X) /\ t \in Seq(X) /\ Len(s) = N /\ Len(t) = M
  BY <1>5, <1>6 DEF IsJoined
<1>8. PICK p : p = [m \in 1 .. N |-> p[m]] /\ IsMoved(p, offs, off, n, a)
  BY <1>2, <1>5, <1>6, MovedPlaces
\* Places of s and of t in terms of sequence and place in it.
<1>9. \A m \in 1 .. N : \E i \in 1 .. n : \E k \in 1 .. Len(a[i]) : m = off[i - 1] + k
  BY <1>5, <1>6 DEF IsJoined
<1>10. ASSUME NEW i \in 1 .. n, NEW k \in 1 .. Len(a[i])
       PROVE  /\ off[i - 1] + k \in 1 .. N /\ s[off[i - 1] + k] = a[i][k]
              /\ p[off[i - 1] + k] = offs[n - i] + k
              /\ offs[n - i] + k \in 1 .. M /\ t[offs[n - i] + k] = a[i][k]
  <2>1. off[i - 1] + k \in 1 .. N /\ s[off[i - 1] + k] = a[i][k]
    BY <1>5, <1>6 DEF IsJoined
  <2>2. PICK j : j = n - i + 1
    OBVIOUS
  <2>3. j \in 1 .. n /\ j - 1 = n - i /\ b[j] = a[i]
    BY <2>2
  <2>4. offs[j - 1] + k \in 1 .. M /\ t[offs[j - 1] + k] = b[j][k]
    BY <1>5, <1>6, <2>3 DEF IsJoined
  <2>5. p[off[i - 1] + k] = offs[n - i] + k
    BY <1>8 DEF IsMoved
  <2> QED
    BY <2>1, <2>3, <2>4, <2>5
<1>11. p \in [1 .. N -> 1 .. M]
  <2>1. \A m \in 1 .. N : p[m] \in 1 .. M
    <3> TAKE m \in 1 .. N
    <3>1. PICK i \in 1 .. n : \E k \in 1 .. Len(a[i]) : m = off[i - 1] + k
      BY <1>9
    <3>2. PICK k \in 1 .. Len(a[i]) : m = off[i - 1] + k
      BY <3>1
    <3>3. p[off[i - 1] + k] = offs[n - i] + k /\ offs[n - i] + k \in 1 .. M
      BY <1>10
    <3> QED
      BY <3>2, <3>3
  <2> QED
    BY <1>8, <2>1
<1>12. \A x, y \in 1 .. N : p[x] = p[y] => x = y
  <2> TAKE x, y \in 1 .. N
  <2> HAVE p[x] = p[y]
  <2>1. PICK i \in 1 .. n : \E k \in 1 .. Len(a[i]) : x = off[i - 1] + k
    BY <1>9
  <2>2. PICK k \in 1 .. Len(a[i]) : x = off[i - 1] + k
    BY <2>1
  <2>3. PICK j \in 1 .. n : \E l \in 1 .. Len(a[j]) : y = off[j - 1] + l
    BY <1>9
  <2>4. PICK l \in 1 .. Len(a[j]) : y = off[j - 1] + l
    BY <2>3
  <2>5. offs[n - i] + k = offs[n - j] + l
    BY <1>10, <2>2, <2>4
  <2>6. PICK u, v : u = n - i + 1 /\ v = n - j + 1
    OBVIOUS
  <2>7. /\ u \in 1 .. n /\ v \in 1 .. n /\ u - 1 = n - i /\ v - 1 = n - j
        /\ b[u] = a[i] /\ b[v] = a[j]
    BY <2>6
  <2>8. k \in 1 .. Len(b[u]) /\ l \in 1 .. Len(b[v]) /\ offs[u - 1] + k = offs[v - 1] + l
    BY <2>5, <2>7
  <2>9. u = v /\ k = l
    <3>1. PICK m : m = offs[u - 1] + k
      OBVIOUS
    <3>2. IsPlace(m, u, k, offs, n, b) /\ IsPlace(m, v, l, offs, n, b)
      BY <2>7, <2>8, <3>1 DEF IsPlace
    <3> QED
      BY <1>3, <3>2, PlacesApart, ZenonT(30)
  <2>10. i = j
    BY <2>6, <2>9
  <2> QED
    BY <2>2, <2>4, <2>9, <2>10
<1>13. \A x \in 1 .. M : \E m \in 1 .. N : p[m] = x
  <2> TAKE x \in 1 .. M
  <2>1. PICK j \in 1 .. n : \E k \in 1 .. Len(b[j]) : x = offs[j - 1] + k
    BY <1>5, <1>6 DEF IsJoined
  <2>2. PICK k \in 1 .. Len(b[j]) : x = offs[j - 1] + k
    BY <2>1
  <2>3. PICK i : i = n - j + 1
    OBVIOUS
  <2>4. i \in 1 .. n /\ n - i = j - 1 /\ n - i + 1 = j
    BY <2>3
  <2>5. b[j] = a[i]
    BY <2>4
  <2>6. off[i - 1] + k \in 1 .. N /\ p[off[i - 1] + k] = offs[n - i] + k
    BY <1>10, <2>2, <2>4, <2>5
  <2> QED
    BY <2>2, <2>4, <2>6
<1>14. N = M
  <2>1. DOMAIN p = 1 .. N
    BY <1>11
  <2>2. p \in Bijection(1 .. N, 1 .. M)
    BY <1>11, <1>12, <1>13, <2>1 DEF Bijection, Injection, Surjection, IsInjective
  <2>3. /\ IsFiniteSet(1 .. N) /\ Cardinality(1 .. N) = IF 1 > N THEN 0 ELSE N - 1 + 1
        /\ Cardinality(1 .. M) = IF 1 > M THEN 0 ELSE M - 1 + 1
    <3>1. 1 \in Int /\ N \in Int /\ M \in Int
      OBVIOUS
    <3> QED
      BY <3>1, FS_Interval
  <2>4. Cardinality(1 .. M) = Cardinality(1 .. N)
    BY <2>2, <2>3, FS_Bijection DEF ExistsBijection
  <2> QED
    BY <2>3, <2>4
<1>15. \A m \in 1 .. N : t[p[m]] = s[m]
  <2> TAKE m \in 1 .. N
  <2>1. PICK i \in 1 .. n : \E k \in 1 .. Len(a[i]) : m = off[i - 1] + k
    BY <1>9
  <2>2. PICK k \in 1 .. Len(a[i]) : m = off[i - 1] + k
    BY <2>1
  <2>3. PICK x : x = offs[n - i] + k
    OBVIOUS
  <2>4. p[m] = x /\ t[x] = a[i][k] /\ s[m] = a[i][k]
    BY <1>10, <2>2, <2>3
  <2> QED
    BY <2>4
<1>16. Permutes(p, s, t, N)
  BY <1>11, <1>12, <1>13, <1>14, <1>15 DEF Permutes
<1> QED
  BY <1>4, <1>7, <1>14, <1>16

\* What an item says depends on the groups alone.
LEMMA SameGroups ==
  ASSUME NEW d, NEW e, e.groups = d.groups, NEW it
  PROVE  /\ ItemFits(e, it) <=> ItemFits(d, it)
         /\ Len(Data(e, it.faceIds)) = Len(Data(d, it.faceIds))
         /\ \A p : CurveAt(e, it, p) = CurveAt(d, it, p)
<1>1. \A id : InBounds(e, id) = InBounds(d, id) /\ Array(e, id) = Array(d, id)
  BY DEF InBounds, Array
<1>2. \A id : Data(e, id) = Data(d, id)
  BY <1>1 DEF Data
<1>3. \A id, tag : Holds(e, id, tag) <=> Holds(d, id, tag)
  BY <1>1 DEF Holds
<1>4. Stride(e, it) = Stride(d, it) /\ Primitives(e, it) = Primitives(d, it)
  BY <1>2 DEF Stride, Primitives
<1>5. \A st, p : First(e, it, st, p) = First(d, it, st, p) /\ Count(e, it, st, p) = Count(d, it, st, p)
  BY <1>2 DEF First, Count
<1>6. \A id, st, p : Span(e, it, id, st, p) = Span(d, it, id, st, p)
  BY <1>2, <1>5 DEF Span
<1>7. ShapesFit(e, it) <=> ShapesFit(d, it)
  BY <1>2, <1>3 DEF ShapesFit
<1>8. ChannelsFit(e, it) <=> ChannelsFit(d, it)
  BY <1>2, <1>3, <1>4 DEF ChannelsFit, InfosFit
<1>9. \A st, p : /\ RangeFits(e, it, st, p) <=> RangeFits(d, it, st, p)
                 /\ GoodPoints(e, it, st, p) <=> GoodPoints(d, it, st, p)
  BY <1>2, <1>5, <1>6 DEF RangeFits, GoodPoints
<1>10. ItemFits(e, it) <=> ItemFits(d, it)
  BY <1>2, <1>4, <1>6, <1>7, <1>8, <1>9 DEF ItemFits
<1>11. \A p : CurveAt(e, it, p) = CurveAt(d, it, p)
  BY <1>2, <1>4, <1>5, <1>6 DEF CurveAt
<1> QED
  BY <1>2, <1>10, <1>11

\* Items in reverse give the same curves in canonical order.
LEMMA ReversedIsSame ==
  ASSUME NEW d \in DocumentSet
  PROVE  Materialize([d EXCEPT !.items = Reverse(@)], "canonical") = Materialize(d, "canonical")
<1>0. PICK n \in Nat : n = Len(d.items) /\ DOMAIN d.items = 1 .. n
  BY DEF DocumentSet
<1>1. PICK items : items = d.items /\ n = Len(items) /\ DOMAIN items = 1 .. n
  BY <1>0
<1>2. PICK e : e = [d EXCEPT !.items = Reverse(@)]
  OBVIOUS
<1>3. PICK rev : rev = Reverse(items)
  OBVIOUS
<1>4. e.groups = d.groups /\ e.items = rev
  BY <1>1, <1>2, <1>3 DEF DocumentSet
<1>5. rev = [i \in 1 .. n |-> items[n - i + 1]]
  BY <1>1, <1>3 DEF Reverse
<1>6. /\ DOMAIN rev = 1 .. n
      /\ \A i \in 1 .. n : n - i + 1 \in 1 .. n /\ rev[i] = items[n - i + 1] /\ rev[n - i + 1] = items[i]
  <2>1. DOMAIN rev = 1 .. n /\ \A i \in 1 .. n : rev[i] = items[n - i + 1]
    BY <1>5
  <2>2. \A i \in 1 .. n : n - i + 1 \in 1 .. n /\ n - (n - i + 1) + 1 = i
    OBVIOUS
  <2> QED
    BY <2>1, <2>2
<1>7. (rev # <<>>) <=> (items # <<>>)
  <2>1. rev \in Seq(ItemSet) /\ Len(rev) = n
    <3>1. items \in Seq(ItemSet)
      BY <1>1 DEF DocumentSet
    <3>2. \A i \in 1 .. n : items[i] \in ItemSet
      BY <1>1, <3>1
    <3>3. \A i \in 1 .. n : rev[i] \in ItemSet
      BY <1>6, <3>2
    <3>4. rev \in [1 .. n -> ItemSet]
      BY <1>5, <3>3
    <3> QED
      BY <3>4
  <2>2. items # <<>> <=> n # 0
    BY <1>1 DEF DocumentSet
  <2> QED
    BY <2>1, <2>2
<1>8. (\A i \in 1 .. n : ItemFits(e, rev[i])) <=> (\A i \in 1 .. n : ItemFits(d, items[i]))
  <2>1. \A it : ItemFits(e, it) <=> ItemFits(d, it)
    BY <1>4, SameGroups
  <2> QED
    BY <1>6, <2>1
<1>9. CASE ~(items # <<>> /\ \A i \in 1 .. n : ItemFits(d, items[i]))
  <2>1. Materialize(d, "canonical") = Invalid
    BY <1>1, <1>9, MaterializeIs
  <2>2. Materialize(e, "canonical") = Invalid
    BY <1>4, <1>6, <1>7, <1>8, <1>9, MaterializeIs
  <2> QED
    BY <1>2, <2>1, <2>2
<1>10. CASE items # <<>> /\ \A i \in 1 .. n : ItemFits(d, items[i])
  <2>1. PICK a, b : a = CurveLists(d) /\ b = CurveLists(e)
    OBVIOUS
  <2>2. a \in [1 .. n -> Seq(CurveSet)]
    BY <1>1, <1>10, <2>1, CurvesAreTyped
  <2>3. b \in [1 .. n -> Seq(CurveSet)] /\ \A i \in 1 .. n : b[n - i + 1] = a[i]
    <3>1. \A it : /\ Len(Data(e, it.faceIds)) = Len(Data(d, it.faceIds))
                  /\ \A p : CurveAt(e, it, p) = CurveAt(d, it, p)
      BY <1>4, SameGroups
    <3>2. a = [i \in 1 .. n |-> [k \in 1 .. Len(Data(d, items[i].faceIds)) |-> CurveAt(d, items[i], k - 1)]]
      BY <1>1, <2>1 DEF CurveLists
    <3>3. b = [i \in 1 .. n |-> [k \in 1 .. Len(Data(e, rev[i].faceIds)) |-> CurveAt(e, rev[i], k - 1)]]
      BY <1>4, <1>6, <2>1 DEF CurveLists
    <3>4. \A i, j \in 1 .. n : rev[j] = items[i] => b[j] = a[i]
      <4> TAKE i, j \in 1 .. n
      <4> HAVE rev[j] = items[i]
      <4>1. PICK it, c : it = items[i] /\ c = Len(Data(d, it.faceIds))
        OBVIOUS
      <4>2. a[i] = [k \in 1 .. c |-> CurveAt(d, it, k - 1)]
        BY <3>2, <4>1
      <4>3. b[j] = [k \in 1 .. c |-> CurveAt(e, it, k - 1)]
        BY <3>1, <3>3, <4>1
      <4> QED
        BY <3>1, <4>2, <4>3
    <3>5. \A i \in 1 .. n : b[n - i + 1] = a[i]
      BY <1>6, <3>4
    <3>6. \A j \in 1 .. n : b[j] \in Seq(CurveSet)
      <4> TAKE j \in 1 .. n
      <4>1. PICK i : i = n - j + 1
        OBVIOUS
      <4>2. i \in 1 .. n /\ rev[j] = items[i]
        BY <1>6, <4>1
      <4> QED
        BY <2>2, <3>4, <4>2
    <3>7. b = [i \in 1 .. n |-> b[i]]
      BY <3>3
    <3> QED
      BY <3>5, <3>6, <3>7
  <2>4. PICK s, t : s = FlattenSeq(a) /\ t = FlattenSeq(b)
    OBVIOUS
  <2>5. s \in Seq(CurveSet) /\ t \in Seq(CurveSet) /\ Len(t) = Len(s) /\ \E p : Permutes(p, s, t, Len(s))
    BY <2>2, <2>3, <2>4, FlattenReversed, ZenonT(30)
  <2>6. Keyed(s, Len(s)) /\ Keyed(t, Len(s))
    <3>1. Keyed(s, Len(s)) /\ Keyed(t, Len(t))
      BY <2>5, CurvesAreKeyed
    <3> QED
      BY <2>5, <3>1
  <2>7. Arranged(t, "canonical") = Arranged(s, "canonical")
    BY <2>5, <2>6, PermutedArranged
  <2>8. Materialize(d, "canonical") = Arranged(s, "canonical")
    BY <1>1, <1>10, <2>1, <2>4, MaterializeIs
  <2>9. Materialize(e, "canonical") = Arranged(t, "canonical")
    BY <1>4, <1>6, <1>7, <1>8, <1>10, <2>1, <2>4, MaterializeIs
  <2> QED
    BY <1>2, <2>7, <2>8, <2>9
<1> QED
  BY <1>9, <1>10

\* The curves in canonical order are those of the source, in that order.
LEMMA CanonicalIsArranged ==
  ASSUME NEW d \in DocumentSet, Materialize(d, "source") # Invalid
  PROVE  Materialize(d, "canonical") = Arranged(Materialize(d, "source"), "canonical")
<1>1. /\ d.items # <<>> /\ \A i \in DOMAIN d.items : ItemFits(d, d.items[i])
      /\ Materialize(d, "source") = FlattenSeq(CurveLists(d))
  BY MaterializeIs DEF Arranged
<1> QED
  BY <1>1, MaterializeIs

\* Canonical order is that of the set of curves: neither the order of the
\* items nor the grouping of the arrays can be seen in it
\* (include/nanoxgen/xgen.h:59, xgen.cpp:1380-1400).
THEOREM OneOrder == Spec => []CanonicalIsStable
<1>1. ASSUME IInv PROVE CanonicalIsStable
  <2>1. document \in DocumentSet
    BY <1>1 DEF IInv, TypeOK
  <2>2. Materialize([document EXCEPT !.items = Reverse(@)], "canonical") = Materialize(document, "canonical")
    BY <2>1, ReversedIsSame
  <2>3. ASSUME target # 0 PROVE Materialize(document, "canonical") = Arranged(curves, "canonical")
    <3>1. curves # Invalid /\ Materialize(document, "source") = curves
      <4>1. Sound(document, curves, target)
        BY <1>1, IInvIs
      <4>2. /\ curves # Invalid /\ curves \in Seq(CurveSet) /\ Shaped(document) /\ Agree(document, curves)
            /\ AllStandAlone(document)
        BY <2>3, <4>1 DEF Sound
      <4> QED
        BY <2>1, <4>2, AgreeingIsEqual
    <3> QED
      BY <2>1, <3>1, CanonicalIsArranged
  <2> QED
    BY <2>2, <2>3 DEF CanonicalIsStable
<1> QED
  BY <1>1, Inductive, PTL

=============================================================================
