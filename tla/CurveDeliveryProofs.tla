------------------------- MODULE CurveDeliveryProofs ------------------------
(***************************************************************************)
(* What holds of CurveDelivery for any documents, times, options and sizes of *)
(* writes: a file that is loaded is a whole cache that some run has built, a  *)
(* cache gives back what went into it, its motion is of its own curves, and   *)
(* the batches of a renderer say the same for every limit.                    *)
(***************************************************************************)
EXTENDS CurveDelivery, FiniteSetTheorems, WellFoundedInduction, TLAPS

\* A blob says its own size and has the hash of its own content.
IsWhole(b) ==
  /\ b = [header |-> b.header, body |-> b.body, size |-> b.size]
  /\ b.header.words = b.size /\ ContentHash(b.body) = b.header.hash

\* What is on the disk and in the memory of the tool has been built.
BuiltInv ==
  /\ \A b \in built : IsWhole(b)
  /\ pc \in {"open", "write", "check"} => cache \in built
  /\ file = [blob |-> file.blob, size |-> file.size]
  /\ (file = NoFile /\ pc # "write") \/ file.blob \in built

IInv == BuiltInv /\ LoadedWasBuilt

-----------------------------------------------------------------------------
(* Files *)

\* What the builder gives is whole: the header has the size and the hash of the
\* body that it is laid before.
LEMMA BuiltIsWhole ==
  ASSUME NEW in, BuildCurveCache(in) # NoBlob
  PROVE  IsWhole(BuildCurveCache(in))
<1>1. BuildCurveCache(in) = Blob(in)
  BY DEF BuildCurveCache
<1>2. IsWhole(Blob(in))
  BY DEF IsWhole, Blob, ContentHash
<1> QED
  BY <1>1, <1>2

\* A part of a whole blob is refused, or it is the blob.
LEMMA PartIsRefused ==
  ASSUME NEW b, IsWhole(b), NEW n, ValidateCurveCache(Written(b, n))
  PROVE  Written(b, n) = b
<1> DEFINE f == Written(b, n)
<1>1. /\ f = [header |-> f.header, body |-> f.body, size |-> f.size]
      /\ f.size = n
  BY DEF Written
<1>2. n >= HeaderWords /\ f.header.words = n /\ ContentHash(f.body) = f.header.hash
  BY <1>1 DEF ValidateCurveCache, HeaderFits
<1>3. f.header = b.header
  BY <1>2 DEF Written
<1>4. f.size = b.size /\ f.body = b.body
  BY <1>1, <1>2, <1>3 DEF IsWhole, ContentHash
<1> QED
  BY <1>1, <1>3, <1>4 DEF IsWhole

\* Where there is no file there is nothing to load.
LEMMA NothingIsRefused == LoadCurveCache(Written(NoFile.blob, NoFile.size)) = NoBlob
<1> DEFINE f == Written(NoFile.blob, NoFile.size)
<1>1. f.size = 0
  BY DEF Written, NoFile
<1>2. ~ValidateCurveCache(f)
  BY <1>1 DEF ValidateCurveCache, HeaderFits, HeaderWords
<1> QED
  BY <1>2 DEF LoadCurveCache

\* A load gives nothing or what has been built.
LEMMA LoadGivesBuilt ==
  ASSUME BuiltInv
  PROVE  LET b == LoadCurveCache(Written(file.blob, file.size)) IN b = NoBlob \/ b \in built
<1> DEFINE f == Written(file.blob, file.size)
<1>1. CASE file = NoFile
  BY <1>1, NothingIsRefused
<1>2. CASE file.blob \in built
  <2>1. IsWhole(file.blob)
    BY <1>2 DEF BuiltInv
  <2>2. CASE ValidateCurveCache(f)
    BY <1>2, <2>1, <2>2, PartIsRefused DEF LoadCurveCache
  <2>3. CASE ~ValidateCurveCache(f)
    BY <2>3 DEF LoadCurveCache
  <2> QED
    BY <2>2, <2>3
<1> QED
  BY <1>1, <1>2 DEF BuiltInv

-----------------------------------------------------------------------------
(* The tool and the processes beside it *)

LEMMA InitInvariant == Init => IInv
BY DEF Init, IInv, BuiltInv, LoadedWasBuilt, NoFile

LEMMA NextInvariant == IInv /\ [Next]_vars => IInv'
<1> SUFFICES ASSUME IInv, [Next]_vars PROVE IInv'
  OBVIOUS
<1> USE DEF IInv
<1>1. CASE LoadBase
  BY <1>1 DEF LoadBase, End, world, BuiltInv, LoadedWasBuilt
<1>2. CASE LoadInSourceOrder
  BY <1>2 DEF LoadInSourceOrder, world, BuiltInv, LoadedWasBuilt
<1>3. CASE LoadMotion
  BY <1>3 DEF LoadMotion, End, world, BuiltInv, LoadedWasBuilt
<1>4. CASE Build
  <2>1. PICK b : b = BuildCurveCache(CacheInput)
    OBVIOUS
  <2>2. CASE b = NoBlob
    BY <1>4, <2>1, <2>2 DEF Build, End, BuiltInv, LoadedWasBuilt
  <2>3. CASE b # NoBlob
    <3>1. IsWhole(b)
      BY <2>1, <2>3, BuiltIsWhole
    <3>2. /\ cache' = b /\ pc' = "open" /\ built' = built \cup {b}
          /\ UNCHANGED <<file, loaded>>
      BY <1>4, <2>1, <2>3 DEF Build
    <3> QED
      BY <3>1, <3>2 DEF BuiltInv, LoadedWasBuilt
  <2> QED
    BY <2>2, <2>3
<1>5. CASE Open
  BY <1>5 DEF Open, BuiltInv, LoadedWasBuilt
<1>6. CASE Write
  <2>1. PICK n : file' = [file EXCEPT !.size = n] /\ pc' = IF n = cache.size THEN "check" ELSE pc
    BY <1>6 DEF Write
  <2>2. pc = "write" /\ UNCHANGED <<cache, built, loaded>>
    BY <1>6 DEF Write
  <2>3. file' = [blob |-> file.blob, size |-> n] /\ file.blob \in built
    BY <2>1, <2>2 DEF BuiltInv
  <2> QED
    BY <2>1, <2>2, <2>3 DEF BuiltInv, LoadedWasBuilt
<1>7. CASE Check
  <2>1. LET b == LoadCurveCache(Written(file.blob, file.size)) IN b = NoBlob \/ b \in built
    BY LoadGivesBuilt
  <2>2. loaded' = loaded \/ loaded' = LoadCurveCache(Written(file.blob, file.size))
    BY <1>7 DEF Check
  <2>3. UNCHANGED <<file, built>> /\ pc' \in {"done", "failed"}
    BY <1>7 DEF Check, End
  <2> QED
    BY <2>1, <2>2, <2>3 DEF BuiltInv, LoadedWasBuilt
<1>8. CASE Stop
  BY <1>8 DEF Stop, End, world, BuiltInv, LoadedWasBuilt
<1>9. CASE Again
  BY <1>9 DEF Again, BuiltInv, LoadedWasBuilt
<1>10. CASE Load
  <2>1. LET b == LoadCurveCache(Written(file.blob, file.size)) IN b = NoBlob \/ b \in built
    BY LoadGivesBuilt
  <2> QED
    BY <1>10, <2>1 DEF Load, BuiltInv, LoadedWasBuilt
<1>11. CASE UNCHANGED vars
  BY <1>11 DEF vars, BuiltInv, LoadedWasBuilt
<1> QED
  BY <1>1, <1>2, <1>3, <1>4, <1>5, <1>6, <1>7, <1>8, <1>9, <1>10, <1>11 DEF Next

\* A process that loads the file has an exception or a cache that a run has built,
\* however many words of it have been written when the tool ended or when the
\* process looked (save_curve_cache() and validate_curve_cache()).
THEOREM LoadsAreBuilt == Spec => []LoadedWasBuilt
<1>1. IInv => LoadedWasBuilt
  BY DEF IInv
<1> QED
  BY <1>1, InitInvariant, NextInvariant, PTL DEF Spec

-----------------------------------------------------------------------------
(* Induction and folds *)

\* A set of naturals that is not empty has a least element.
LEMMA LeastNatural ==
  ASSUME NEW T \in SUBSET Nat, T # {}
  PROVE  \E x \in T : \A y \in T : x <= y
<1>1. PICK R : R = OpToRel(<, Nat)
  OBVIOUS
<1>2. IsWellFoundedOn(R, Nat)
  BY <1>1, NatLessThanWellFounded
<1>3. PICK x \in T : \A y \in T : ~(<<y, x>> \in R)
  BY <1>2, WFMin
<1>4. R = {ss \in Nat \X Nat : ss[1] < ss[2]}
  BY <1>1, Zenon DEF OpToRel
<1>5. \A y \in T : y < x => <<y, x>> \in R
  BY <1>4
<1>6. \A y \in T : y < x => FALSE
  BY <1>3, <1>5
<1>7. x \in Nat /\ \A y \in T : y \in Nat
  BY <1>3
<1> QED
  BY <1>3, <1>6, <1>7

\* A set that has 0, and with each number below n the next one, has n.
LEMMA Induct ==
  ASSUME NEW n \in Nat, NEW T, 0 \in T, \A m \in 1 .. n : m - 1 \in T => m \in T
  PROVE  \A m \in 0 .. n : m \in T
<1> DEFINE Missing == {m \in 0 .. n : m \notin T}
<1> SUFFICES ASSUME Missing # {} PROVE FALSE
  OBVIOUS
<1>1. Missing \in SUBSET Nat
  OBVIOUS
<1>2. PICK x \in Missing : \A y \in Missing : x <= y
  <2> HIDE DEF Missing
  <2> QED
    BY <1>1, LeastNatural
<1>3. x \in 1 .. n /\ x - 1 \in 0 .. n /\ x - 1 \notin Missing /\ x \notin T
  BY <1>2
<1> QED
  BY <1>3

\* What n steps from zero are.
IsRun(g, n, S, zero, Step) ==
  /\ g \in [0 .. n -> S] /\ g[0] = zero
  /\ \A m \in 1 .. n : g[m] = Step[<<g[m - 1], m>>]

\* Steps that stay in a set can be taken one after the other.
LEMMA Iterates ==
  ASSUME NEW n \in Nat, NEW S, NEW zero \in S, NEW Step \in [S \X (1 .. n) -> S]
  PROVE  \E g : IsRun(g, n, S, zero, Step)
<1> DEFINE Taken(m) == {g \in [0 .. m -> S] : g[0] = zero /\ \A k \in 1 .. m : g[k] = Step[<<g[k - 1], k>>]}
           T == {m \in 0 .. n : Taken(m) # {}}
<1>1. 0 \in T
  <2> DEFINE g == [k \in 0 .. 0 |-> zero]
  <2>1. g \in Taken(0)
    OBVIOUS
  <2> QED
    BY <2>1
<1>2. ASSUME NEW m \in 1 .. n, m - 1 \in T PROVE m \in T
  <2>1. PICK g : g \in Taken(m - 1)
    BY <1>2
  <2> DEFINE h == [k \in 0 .. m |-> IF k = m THEN Step[<<g[m - 1], m>>] ELSE g[k]]
  <2>2. g[m - 1] \in S /\ Step[<<g[m - 1], m>>] \in S
    BY <2>1
  <2>3. h \in [0 .. m -> S] /\ h[0] = zero
    BY <2>1, <2>2
  <2>4. ASSUME NEW k \in 1 .. m PROVE h[k] = Step[<<h[k - 1], k>>]
    <3>1. h[k - 1] = g[k - 1]
      OBVIOUS
    <3>2. CASE k = m
      <4>1. h[k] = Step[<<g[m - 1], m>>] /\ h[k - 1] = g[m - 1]
        BY <3>1, <3>2
      <4> QED
        BY <3>2, <4>1
    <3>3. CASE k # m
      <4>1. k \in 1 .. m - 1 /\ h[k] = g[k]
        BY <3>3
      <4> QED
        BY <2>1, <3>1, <4>1
    <3> QED
      BY <3>2, <3>3
  <2>5. h \in Taken(m)
    <3> HIDE DEF h
    <3> QED
      BY <2>3, <2>4
  <2> QED
    <3> HIDE DEF h, Taken
    <3> QED
      BY <2>5
<1>3. n \in T
  <2> HIDE DEF T
  <2> QED
    BY <1>1, <1>2, Induct
<1>4. PICK g : g \in Taken(n)
  BY <1>3
<1> QED
  BY <1>4 DEF IsRun

LEMMA MaxIsLast ==
  ASSUME NEW n \in Nat, NEW s \in SUBSET (1 .. n), s # {}
  PROVE  Max(s) \in s /\ \A y \in s : Max(s) >= y
<1> DEFINE Rest == {n - y : y \in s}
<1>1. Rest \in SUBSET Nat /\ Rest # {}
  <2>1. \A y \in s : n - y \in Nat
    OBVIOUS
  <2>2. PICK y : y \in s
    OBVIOUS
  <2>3. n - y \in Rest
    BY <2>2
  <2> QED
    BY <2>1, <2>3
<1>2. PICK r \in Rest : \A y \in Rest : r <= y
  <2> HIDE DEF Rest
  <2> QED
    BY <1>1, LeastNatural
<1>3. PICK x \in s : r = n - x
  OBVIOUS
<1>4. \A y \in s : x >= y
  <2> TAKE y \in s
  <2>1. n - x <= n - y
    BY <1>2, <1>3
  <2> QED
    BY <2>1
<1> QED
  BY <1>4 DEF Max

LEMMA UpTo ==
  ASSUME NEW n \in Nat, NEW m \in 1 .. n
  PROVE  1 .. m \in SUBSET (1 .. n) /\ 1 .. m # {} /\ Max(1 .. m) = m /\ (1 .. m) \ {m} = 1 .. m - 1
<1>1. 1 .. m \in SUBSET (1 .. n) /\ m \in 1 .. m
  OBVIOUS
<1>2. Max(1 .. m) \in 1 .. m /\ Max(1 .. m) >= m
  BY <1>1, MaxIsLast
<1>3. Max(1 .. m) = m
  BY <1>2
<1> QED
  BY <1>1, <1>3

\* FoldLeft() folds over the sets of places, from the largest place down.
IsFold(g, n, S, zero, Step) ==
  /\ g \in [SUBSET (1 .. n) -> S]
  /\ \A s \in SUBSET (1 .. n) :
       g[s] = IF s = {} THEN zero ELSE Step[<<g[s \ {Max(s)}], Max(s)>>]

LEMMA Folds ==
  ASSUME NEW n \in Nat, NEW S, NEW zero \in S, NEW Step \in [S \X (1 .. n) -> S]
  PROVE  \E g : IsFold(g, n, S, zero, Step)
<1> DEFINE Taken(m) == {g \in [SUBSET (1 .. m) -> S] :
                         \A s \in SUBSET (1 .. m) :
                           g[s] = IF s = {} THEN zero ELSE Step[<<g[s \ {Max(s)}], Max(s)>>]}
           T == {m \in 0 .. n : Taken(m) # {}}
<1>1. 0 \in T
  <2> DEFINE g == [s \in SUBSET (1 .. 0) |-> zero]
  <2>1. \A s \in SUBSET (1 .. 0) : s = {}
    OBVIOUS
  <2>2. g \in Taken(0)
    BY <2>1
  <2> QED
    <3> HIDE DEF g, Taken
    <3> QED
      BY <2>2
<1>2. ASSUME NEW m \in 1 .. n, m - 1 \in T PROVE m \in T
  <2>1. PICK g : g \in Taken(m - 1)
    BY <1>2
  <2> DEFINE h == [s \in SUBSET (1 .. m) |-> IF m \in s THEN Step[<<g[s \ {m}], m>>] ELSE g[s]]
  <2>2. ASSUME NEW s \in SUBSET (1 .. m), m \in s
        PROVE  /\ s \ {m} \in SUBSET (1 .. m - 1) /\ Max(s) = m /\ s # {}
               /\ h[s] = Step[<<g[s \ {m}], m>>] /\ h[s \ {m}] = g[s \ {m}] /\ h[s] \in S
    <3>1. Max(s) \in 1 .. m /\ Max(s) >= m
      <4>1. m \in Nat /\ s # {}
        BY <2>2
      <4>2. Max(s) \in s /\ \A y \in s : Max(s) >= y
        BY <4>1, MaxIsLast
      <4> QED
        BY <2>2, <4>2
    <3>2. s \ {m} \in SUBSET (1 .. m - 1)
      BY <2>2
    <3>3. g[s \ {m}] \in S
      BY <2>1, <3>2
    <3>4. s \ {m} \in SUBSET (1 .. m) /\ m \notin s \ {m}
      OBVIOUS
    <3> QED
      BY <2>2, <3>1, <3>2, <3>3, <3>4
  <2>3. ASSUME NEW s \in SUBSET (1 .. m), m \notin s
        PROVE  s \in SUBSET (1 .. m - 1) /\ h[s] = g[s] /\ h[s] \in S
    <3>1. s \in SUBSET (1 .. m - 1)
      BY <2>3
    <3> QED
      BY <2>1, <2>3, <3>1
  <2>4. h \in [SUBSET (1 .. m) -> S]
    <3>1. \A s \in SUBSET (1 .. m) : h[s] \in S
      BY <2>2, <2>3
    <3> QED
      BY <3>1
  <2>5. ASSUME NEW s \in SUBSET (1 .. m)
        PROVE  h[s] = IF s = {} THEN zero ELSE Step[<<h[s \ {Max(s)}], Max(s)>>]
    <3> HIDE DEF h
    <3>1. CASE m \in s
      BY <2>2, <3>1
    <3>2. CASE s = {}
      BY <2>1, <2>3, <3>2
    <3>3. CASE m \notin s /\ s # {}
      <4>1. s \in SUBSET (1 .. m - 1) /\ h[s] = g[s]
        BY <2>3, <3>3
      <4>2. s \ {Max(s)} \in SUBSET (1 .. m) /\ m \notin s \ {Max(s)}
        BY <3>3
      <4>3. h[s \ {Max(s)}] = g[s \ {Max(s)}]
        BY <2>3, <4>2
      <4> QED
        BY <2>1, <3>3, <4>1, <4>3
    <3> QED
      BY <3>1, <3>2, <3>3
  <2>6. h \in Taken(m)
    <3> HIDE DEF h
    <3> QED
      BY <2>4, <2>5
  <2> QED
    <3> HIDE DEF h, Taken
    <3> QED
      BY <2>6
<1>3. n \in T
  <2> HIDE DEF T
  <2> QED
    BY <1>1, <1>2, Induct
<1>4. PICK g : g \in Taken(n)
  BY <1>3
<1> QED
  BY <1>4 DEF IsFold

-----------------------------------------------------------------------------
(* Sequences one after another *)

\* Where sequence i begins when the n sequences are put behind one another.
IsOffsets(off, n, seqs) ==
  /\ off \in [0 .. n -> Nat]
  /\ off[0] = 0
  /\ \A i \in 1 .. n : off[i] = off[i - 1] + Len(seqs[i])

\* s is the n sequences, one after another.
IsJoined(s, off, n, seqs, X) ==
  /\ s \in Seq(X) /\ Len(s) = off[n]
  /\ \A i \in 1 .. n : \A k \in 1 .. Len(seqs[i]) :
       off[i - 1] + k \in 1 .. off[n] /\ s[off[i - 1] + k] = seqs[i][k]
  /\ \A m \in 1 .. off[n] : \E i \in 1 .. n : \E k \in 1 .. Len(seqs[i]) : m = off[i - 1] + k

LEMMA JoinOne ==
  ASSUME NEW n \in Nat, n # 0, NEW X, NEW seqs \in [1 .. n -> Seq(X)], NEW off, IsOffsets(off, n, seqs),
         NEW s, IsJoined(s, off, n - 1, seqs, X)
  PROVE  IsJoined(s \o seqs[n], off, n, seqs, X)
<1> DEFINE t == s \o seqs[n]
<1>1. /\ s \in Seq(X) /\ seqs[n] \in Seq(X) /\ Len(s) = off[n - 1] /\ n - 1 \in Nat
      /\ off[n] = off[n - 1] + Len(seqs[n]) /\ off[n - 1] \in Nat /\ off[n] \in Nat /\ Len(seqs[n]) \in Nat
  BY DEF IsJoined, IsOffsets
<1>2. /\ t \in Seq(X) /\ Len(t) = off[n]
      /\ \A m \in 1 .. off[n - 1] : t[m] = s[m]
      /\ \A k \in 1 .. Len(seqs[n]) : t[off[n - 1] + k] = seqs[n][k]
  <2>1. PICK q, l : q = seqs[n] /\ l = off[n - 1]
    OBVIOUS
  <2>2. q \in Seq(X) /\ Len(s) = l /\ l \in Nat /\ Len(q) \in Nat /\ off[n] = l + Len(q)
    BY <1>1, <2>1
  <2>3. s \o q \in Seq(X) /\ Len(s \o q) = l + Len(q)
    <3>1. s \in Seq(X) /\ q \in Seq(X)
      BY <1>1, <2>1
    <3>2. s \o q \in Seq(X)
      BY <3>1
    <3>3. Len(s \o q) = Len(s) + Len(q)
      BY <3>1
    <3> QED
      BY <2>2, <3>2, <3>3
  <2>4. \A m \in 1 .. l : (s \o q)[m] = s[m]
    BY <1>1, <2>2
  <2>5. \A k \in 1 .. Len(q) : (s \o q)[l + k] = q[k]
    BY <1>1, <2>2
  <2> QED
    BY <2>1, <2>2, <2>3, <2>4, <2>5
<1> HIDE DEF t
<1>3. ASSUME NEW i \in 1 .. n, NEW k \in 1 .. Len(seqs[i])
      PROVE  off[i - 1] + k \in 1 .. off[n] /\ t[off[i - 1] + k] = seqs[i][k]
  <2>1. CASE i = n
    BY <1>1, <1>2, <2>1
  <2>2. CASE i # n
    <3>1. i \in 1 .. n - 1
      BY <2>2
    <3>2. PICK x : x = off[i - 1] + k
      OBVIOUS
    <3>3. x \in 1 .. off[n - 1] /\ s[x] = seqs[i][k]
      BY <3>1, <3>2 DEF IsJoined
    <3>4. x \in 1 .. off[n] /\ t[x] = s[x]
      BY <1>1, <1>2, <3>3
    <3> QED
      BY <3>2, <3>3, <3>4
  <2> QED
    BY <2>1, <2>2
<1>4. ASSUME NEW m \in 1 .. off[n]
      PROVE  \E i \in 1 .. n : \E k \in 1 .. Len(seqs[i]) : m = off[i - 1] + k
  <2>1. CASE m \in 1 .. off[n - 1]
    <3>1. PICK i \in 1 .. n - 1 : \E k \in 1 .. Len(seqs[i]) : m = off[i - 1] + k
      BY <2>1 DEF IsJoined
    <3>2. i \in 1 .. n
      BY <1>1
    <3> QED
      BY <3>1, <3>2
  <2>2. CASE m \notin 1 .. off[n - 1]
    <3>1. m - off[n - 1] \in 1 .. Len(seqs[n]) /\ m = off[n - 1] + (m - off[n - 1])
      BY <1>1, <2>2
    <3>2. n \in 1 .. n
      OBVIOUS
    <3> QED
      BY <3>1, <3>2
  <2> QED
    BY <2>1, <2>2
<1> QED
  BY <1>2, <1>3, <1>4 DEF IsJoined, t

LEMMA JoinedSame ==
  ASSUME NEW n \in Nat, NEW X, NEW seqs, NEW off, NEW s, IsJoined(s, off, n, seqs, X),
         NEW others, NEW offs, offs[n] = off[n],
         \A i \in 1 .. n : others[i] = seqs[i] /\ offs[i - 1] = off[i - 1]
  PROVE  IsJoined(s, offs, n, others, X)
<1>1. s \in Seq(X) /\ Len(s) = offs[n]
  BY DEF IsJoined
<1>2. ASSUME NEW i \in 1 .. n, NEW k \in 1 .. Len(others[i])
      PROVE  offs[i - 1] + k \in 1 .. offs[n] /\ s[offs[i - 1] + k] = others[i][k]
  BY ZenonT(30) DEF IsJoined
<1>3. ASSUME NEW m \in 1 .. offs[n]
      PROVE  \E i \in 1 .. n : \E k \in 1 .. Len(others[i]) : m = offs[i - 1] + k
  <2>1. PICK i \in 1 .. n : \E k \in 1 .. Len(seqs[i]) : m = off[i - 1] + k
    BY DEF IsJoined
  <2> QED
    BY <2>1
<1> QED
  BY <1>1, <1>2, <1>3 DEF IsJoined

LEMMA OffsetsExist ==
  ASSUME NEW n \in Nat, NEW seqs, \A i \in 1 .. n : Len(seqs[i]) \in Nat
  PROVE  \E off : IsOffsets(off, n, seqs)
<1> DEFINE Step == [x \in Nat \X (1 .. n) |-> x[1] + Len(seqs[x[2]])]
<1>1. Step \in [Nat \X (1 .. n) -> Nat] /\ 0 \in Nat
  OBVIOUS
<1>2. \A a \in Nat, i \in 1 .. n : Step[<<a, i>>] = a + Len(seqs[i])
  OBVIOUS
<1> HIDE DEF Step
<1>3. PICK off : IsRun(off, n, Nat, 0, Step)
  BY <1>1, Iterates, Zenon
<1>4. \A i \in 1 .. n : off[i - 1] \in Nat
  BY <1>3 DEF IsRun
<1> QED
  BY <1>2, <1>3, <1>4, ZenonT(30) DEF IsOffsets, IsRun

\* Offsets depend on the lengths only.
LEMMA OffsetsSame ==
  ASSUME NEW n \in Nat, NEW a, NEW b, \A i \in 1 .. n : Len(a[i]) = Len(b[i]),
         NEW off, NEW other, IsOffsets(off, n, a), IsOffsets(other, n, b)
  PROVE  off = other
<1> DEFINE T == {m \in 0 .. n : off[m] = other[m]}
<1>1. 0 \in T
  BY DEF IsOffsets
<1>2. ASSUME NEW m \in 1 .. n, m - 1 \in T PROVE m \in T
  BY <1>2 DEF IsOffsets
<1>3. \A m \in 0 .. n : m \in T
  <2> HIDE DEF T
  <2> QED
    BY <1>1, <1>2, Induct
<1> QED
  BY <1>3 DEF IsOffsets

\* What FlattenSeq() is.
LEMMA Flattened ==
  ASSUME NEW n \in Nat, NEW X, NEW seqs \in [1 .. n -> Seq(X)], NEW off, IsOffsets(off, n, seqs)
  PROVE  IsJoined(FlattenSeq(seqs), off, n, seqs, X)
<1>1. Len(seqs) = n
  OBVIOUS
<1>2. CASE n = 0
  <2>1. FlattenSeq(seqs) = seqs /\ seqs = <<>> /\ off[n] = 0
    BY <1>1, <1>2 DEF FlattenSeq, IsOffsets
  <2> QED
    BY <1>2, <2>1 DEF IsJoined
<1>3. CASE n # 0
  <2> DEFINE Step == [x \in Seq(X) \X (1 .. n) |-> x[1] \o seqs[x[2]]]
  <2>1. Step \in [Seq(X) \X (1 .. n) -> Seq(X)] /\ <<>> \in Seq(X)
    OBVIOUS
  <2>2. \A a \in Seq(X), i \in 1 .. n : Step[<<a, i>>] = a \o seqs[i]
    OBVIOUS
  <2> HIDE DEF Step
  <2>3. PICK g : IsRun(g, n, Seq(X), <<>>, Step)
    BY <2>1, Iterates, Zenon
  <2>4. g[0] = <<>> /\ \A i \in 1 .. n : g[i - 1] \in Seq(X) /\ g[i] = g[i - 1] \o seqs[i]
    <3>1. \A i \in 1 .. n : i - 1 \in 0 .. n
      OBVIOUS
    <3>2. g[0] = <<>> /\ \A i \in 1 .. n : g[i - 1] \in Seq(X) /\ g[i] = Step[<<g[i - 1], i>>]
      BY <2>3, <3>1 DEF IsRun
    <3> QED
      BY <2>2, <3>2
  <2> DEFINE h == [i \in 1 .. n |-> g[i]]
  <2>5. h = [i \in 1 .. n |-> IF i = 1 THEN seqs[i] ELSE h[i - 1] \o seqs[i]]
    <3>1. ASSUME NEW i \in 1 .. n PROVE h[i] = IF i = 1 THEN seqs[i] ELSE h[i - 1] \o seqs[i]
      <4>1. CASE i = 1
        <5>1. g[1] = g[0] \o seqs[1] /\ g[0] = <<>> /\ seqs[1] \in Seq(X)
          <6>1. 1 \in 1 .. n /\ 1 - 1 = 0
            BY <4>1
          <6>2. g[1] = g[1 - 1] \o seqs[1]
            BY <2>4, <6>1, Zenon
          <6> QED
            BY <2>4, <6>1, <6>2
        <5>2. g[1] = seqs[1]
          BY <5>1
        <5> QED
          BY <4>1, <5>2
      <4>2. CASE i # 1
        <5>1. i - 1 \in 1 .. n
          BY <4>2
        <5> QED
          BY <2>4, <4>2, <5>1
      <4> QED
        BY <4>1, <4>2
    <3> QED
      BY <3>1
  <2>6. PICK f : f = CHOOSE r : r = [i \in 1 .. n |-> IF i = 1 THEN seqs[i] ELSE r[i - 1] \o seqs[i]]
    OBVIOUS
  <2>7. f = [i \in 1 .. n |-> IF i = 1 THEN seqs[i] ELSE f[i - 1] \o seqs[i]]
    <3> HIDE DEF h
    <3> QED
      BY <2>5, <2>6
  <2>8. FlattenSeq(seqs) = f[n]
    BY <1>1, <1>3, <2>6 DEF FlattenSeq
  <2>9. f[1] = seqs[1] /\ \A m \in 2 .. n : f[m] = f[m - 1] \o seqs[m]
    <3>1. \A m \in 1 .. n : f[m] = IF m = 1 THEN seqs[m] ELSE f[m - 1] \o seqs[m]
      BY <2>7, Zenon
    <3>2. 1 \in 1 .. n /\ \A m \in 2 .. n : m \in 1 .. n /\ m # 1
      BY <1>3
    <3> QED
      BY <3>1, <3>2
  <2> DEFINE T == {m \in 0 .. n : m # 0 => IsJoined(f[m], off, m, seqs, X)}
  <2>10. 0 \in T
    OBVIOUS
  <2>11. ASSUME NEW m \in 1 .. n, m - 1 \in T PROVE m \in T
    <3>1. m \in Nat /\ m # 0 /\ seqs[m] \in Seq(X)
      OBVIOUS
    <3> DEFINE some == [i \in 1 .. m |-> seqs[i]]
               offs == [i \in 0 .. m |-> off[i]]
    <3>2. CASE m = 1
      <4>1. off[0] = 0 /\ off[1] = off[0] + Len(seqs[1]) /\ Len(seqs[1]) \in Nat
        BY <1>3 DEF IsOffsets
      <4>2. off[1] = Len(seqs[1]) /\ f[1] = seqs[1]
        BY <2>9, <4>1
      <4>3. IsJoined(f[1], off, 1, seqs, X)
        BY <3>1, <3>2, <4>1, <4>2 DEF IsJoined
      <4> QED
        BY <3>2, <4>3
    <3>3. CASE m # 1
      <4>1. IsJoined(f[m - 1], off, m - 1, seqs, X) /\ f[m] = f[m - 1] \o seqs[m]
        <5>1. m \in 2 .. n /\ m - 1 # 0
          BY <3>3
        <5> QED
          BY <2>9, <2>11, <5>1
      <4>2. some \in [1 .. m -> Seq(X)] /\ IsOffsets(offs, m, some)
        <5>1. \A i \in 1 .. m : i \in 1 .. n /\ i - 1 \in 0 .. m /\ i \in 0 .. m /\ some[i] = seqs[i]
          OBVIOUS
        <5>2. \A i \in 0 .. m : i \in 0 .. n /\ offs[i] = off[i]
          OBVIOUS
        <5>3. some \in [1 .. m -> Seq(X)] /\ offs \in [0 .. m -> Nat]
          BY DEF IsOffsets
        <5> HIDE DEF some, offs
        <5> QED
          BY <5>1, <5>2, <5>3 DEF IsOffsets
      <4>3. IsJoined(f[m - 1], offs, m - 1, some, X)
        <5>0. m - 1 \in Nat
          OBVIOUS
        <5>1. \A i \in 1 .. m - 1 : i \in 1 .. m /\ i - 1 \in 0 .. m /\ some[i] = seqs[i] /\ offs[i - 1] = off[i - 1]
          OBVIOUS
        <5>2. offs[m - 1] = off[m - 1]
          OBVIOUS
        <5> HIDE DEF some, offs
        <5> QED
          BY <4>1, <5>0, <5>1, <5>2, JoinedSame
      <4>4. IsJoined(f[m - 1] \o some[m], offs, m, some, X)
        <5> HIDE DEF some, offs
        <5> QED
          BY <3>1, <4>2, <4>3, JoinOne
      <4>5. IsJoined(f[m], off, m, seqs, X)
        <5>1. \A i \in 1 .. m : i - 1 \in 0 .. m /\ some[i] = seqs[i] /\ offs[i - 1] = off[i - 1]
          OBVIOUS
        <5>2. offs[m] = off[m] /\ some[m] = seqs[m]
          OBVIOUS
        <5> HIDE DEF some, offs
        <5> QED
          BY <3>1, <4>1, <4>4, <5>1, <5>2, JoinedSame
      <4> QED
        BY <4>5
    <3> QED
      BY <3>2, <3>3
  <2>12. n \in T
    <3> HIDE DEF T
    <3>1. \A m \in 0 .. n : m \in T
      BY <2>10, <2>11, Induct
    <3> QED
      BY <3>1
  <2> QED
    BY <1>3, <2>8, <2>12
<1> QED
  BY <1>2, <1>3

\* A fold that exists, with what its steps are taken from.
LEMMA FoldsWithin ==
  ASSUME NEW n \in Nat, NEW S, NEW zero \in S, NEW Step \in [S \X (1 .. n) -> S]
  PROVE  \E g : /\ IsFold(g, n, S, zero, Step)
                /\ \A s \in SUBSET (1 .. n) : s # {} => Max(s) \in 1 .. n /\ g[s \ {Max(s)}] \in S
<1>1. PICK g : IsFold(g, n, S, zero, Step)
  BY Folds, Zenon
<1>2. ASSUME NEW s \in SUBSET (1 .. n), s # {}
      PROVE  Max(s) \in 1 .. n /\ g[s \ {Max(s)}] \in S
  <2>1. Max(s) \in s
    BY <1>2, MaxIsLast
  <2>2. s \ {Max(s)} \in SUBSET (1 .. n)
    OBVIOUS
  <2> QED
    BY <1>1, <2>1, <2>2 DEF IsFold
<1> QED
  BY <1>1, <1>2

\* A part of a sequence, by its places.
LEMMA PartIs ==
  ASSUME NEW X, NEW s \in Seq(X), NEW first \in Nat, NEW count \in Nat, first + count <= Len(s)
  PROVE  LET part == SubSeq(s, first + 1, first + count)
         IN  /\ part \in Seq(X) /\ Len(part) = count /\ DOMAIN part = 1 .. count
             /\ \A k \in 1 .. count : part[k] = s[first + k] /\ first + k \in 1 .. Len(s)
<1> DEFINE part == SubSeq(s, first + 1, first + count)
<1>1. Len(s) \in Nat
  OBVIOUS
<1>2. part = [k \in 1 .. first + count - (first + 1) + 1 |-> s[k + (first + 1) - 1]]
  OBVIOUS
<1>3. first + count - (first + 1) + 1 = count
  OBVIOUS
<1>4. part = [k \in 1 .. count |-> s[k + (first + 1) - 1]]
  BY <1>2, <1>3
<1> HIDE DEF part
<1>5. \A k \in 1 .. count : k + (first + 1) - 1 = first + k /\ first + k \in 1 .. Len(s) /\ s[first + k] \in X
  BY <1>1
<1>6. part \in [1 .. count -> X]
  BY <1>4, <1>5
<1>7. part \in Seq(X) /\ Len(part) = count /\ DOMAIN part = 1 .. count
  BY <1>6
<1>8. \A k \in 1 .. count : part[k] = s[first + k]
  BY <1>4, <1>5
<1> QED
  BY <1>5, <1>7, <1>8 DEF part

\* Later offsets are not smaller.
LEMMA OffsetsGrow ==
  ASSUME NEW n \in Nat, NEW seqs, NEW off, IsOffsets(off, n, seqs),
         \A i \in 1 .. n : Len(seqs[i]) \in Nat, NEW i \in 0 .. n, NEW j \in i .. n
  PROVE  off[i] <= off[j]
<1> DEFINE T == {m \in 0 .. n : m >= i => off[i] <= off[m]}
<1>1. i \in Nat /\ j \in 0 .. n /\ j >= i
  OBVIOUS
<1>2. 0 \in T
  BY DEF IsOffsets
<1>3. ASSUME NEW m \in 1 .. n, m - 1 \in T PROVE m \in T
  <2>1. /\ off[m] = off[m - 1] + Len(seqs[m]) /\ Len(seqs[m]) \in Nat
        /\ off[m] \in Nat /\ off[m - 1] \in Nat /\ off[i] \in Nat
    BY DEF IsOffsets
  <2>2. CASE m > i
    BY <1>3, <2>1, <2>2
  <2>3. CASE ~(m > i)
    <3>1. m >= i => m = i
      BY <2>3
    <3> QED
      BY <2>1, <3>1
  <2> QED
    BY <2>2, <2>3
<1>4. j \in T
  <2> HIDE DEF T
  <2>1. \A m \in 0 .. n : m \in T
    BY <1>2, <1>3, Induct
  <2> QED
    BY <1>1, <2>1
<1> QED
  BY <1>1, <1>4

-----------------------------------------------------------------------------
(* Sums *)

\* Numbers that are added up.
IsTotals(off, n, counts) ==
  /\ off \in [0 .. n -> Nat] /\ off[0] = 0
  /\ \A m \in 1 .. n : off[m] = off[m - 1] + counts[m]

IsSumFold(f, counts) ==
  f = CHOOSE r : r = [t \in SUBSET (DOMAIN counts) |->
                        IF t = {} THEN 0 ELSE r[t \ {Max(t)}] + counts[Max(t)]]

LEMMA SumFold ==
  ASSUME NEW counts, NEW f, IsSumFold(f, counts)
  PROVE  Sum(counts) = f[DOMAIN counts]
  BY DEF IsSumFold, Sum, FoldLeft, MapThenFoldSet

LEMMA SumIs ==
  ASSUME NEW n \in Nat, NEW counts \in [1 .. n -> Nat], NEW off, IsTotals(off, n, counts)
  PROVE  Sum(counts) = off[n]
<1> DEFINE Once(x, m) == x + counts[m]
           Step == [x \in Nat \X (1 .. n) |-> Once(x[1], x[2])]
<1>1. DOMAIN counts = 1 .. n /\ \A m \in 1 .. n : counts[m] \in Nat
  OBVIOUS
<1>2. Step \in [Nat \X (1 .. n) -> Nat] /\ \A x \in Nat, m \in 1 .. n : Step[<<x, m>>] = Once(x, m)
  <2>1. ASSUME NEW x \in Nat, NEW m \in 1 .. n PROVE Once(x, m) \in Nat
    BY <1>1
  <2> HIDE DEF Once
  <2> QED
    BY <2>1
<1>3. PICK g : /\ IsFold(g, n, Nat, 0, Step)
               /\ \A r \in SUBSET (1 .. n) : r # {} => Max(r) \in 1 .. n /\ g[r \ {Max(r)}] \in Nat
  <2> HIDE DEF Step
  <2> QED
    BY <1>2, FoldsWithin
<1>4. g = [r \in SUBSET (1 .. n) |-> IF r = {} THEN 0 ELSE Once(g[r \ {Max(r)}], Max(r))]
  <2>1. \A r \in SUBSET (1 .. n) : g[r] = IF r = {} THEN 0 ELSE Once(g[r \ {Max(r)}], Max(r))
    <3> HIDE DEF Step, Once
    <3> QED
      BY <1>2, <1>3 DEF IsFold
  <2>2. g = [r \in SUBSET (1 .. n) |-> g[r]]
    BY <1>3 DEF IsFold
  <2> QED
    BY <2>1, <2>2
<1>5. PICK f : f = CHOOSE r : r = [t \in SUBSET (DOMAIN counts) |-> IF t = {} THEN 0 ELSE Once(r[t \ {Max(t)}], Max(t))]
  OBVIOUS
<1>6. f = [t \in SUBSET (1 .. n) |-> IF t = {} THEN 0 ELSE Once(f[t \ {Max(t)}], Max(t))]
  <2>1. f = CHOOSE r : r = [t \in SUBSET (1 .. n) |-> IF t = {} THEN 0 ELSE Once(r[t \ {Max(t)}], Max(t))]
    <3> HIDE DEF Once
    <3> QED
      BY <1>1, <1>5
  <2> HIDE DEF Once
  <2> QED
    BY <1>4, <2>1
<1>7. Sum(counts) = f[1 .. n]
  <2>1. IsSumFold(f, counts)
    BY <1>5 DEF IsSumFold
  <2> QED
    BY <1>1, <2>1, SumFold
<1> DEFINE h == [m \in 0 .. n |-> f[1 .. m]]
<1>8. h[0] = 0 /\ \A m \in 1 .. n : h[m] = Once(h[m - 1], m)
  <2>1. f[1 .. 0] = 0
    BY <1>6
  <2>2. ASSUME NEW m \in 1 .. n PROVE f[1 .. m] = Once(f[1 .. m - 1], m)
    <3>1. /\ 1 .. m \in SUBSET (1 .. n) /\ 1 .. m # {} /\ Max(1 .. m) = m
          /\ (1 .. m) \ {m} = 1 .. m - 1
      BY UpTo
    <3> HIDE DEF Once
    <3>2. f[1 .. m] = Once(f[(1 .. m) \ {Max(1 .. m)}], Max(1 .. m))
      BY <1>6, <3>1
    <3> QED
      BY <3>1, <3>2
  <2> HIDE DEF Once
  <2> QED
    BY <2>1, <2>2
<1>9. h[n] = f[1 .. n]
  OBVIOUS
<1> HIDE DEF h
<1> DEFINE T == {m \in 0 .. n : h[m] = off[m]}
<1>10. 0 \in T
  BY <1>8 DEF IsTotals
<1>11. ASSUME NEW m \in 1 .. n, m - 1 \in T PROVE m \in T
  BY <1>8, <1>11 DEF IsTotals
<1>12. n \in T
  <2> HIDE DEF T
  <2>1. \A m \in 0 .. n : m \in T
    BY <1>10, <1>11, Induct
  <2> QED
    BY <2>1
<1> QED
  BY <1>7, <1>9, <1>12

LEMMA TotalsExist ==
  ASSUME NEW n \in Nat, NEW counts, \A m \in 1 .. n : counts[m] \in Nat
  PROVE  \E off : IsTotals(off, n, counts)
<1> DEFINE Step == [x \in Nat \X (1 .. n) |-> x[1] + counts[x[2]]]
<1>1. Step \in [Nat \X (1 .. n) -> Nat] /\ 0 \in Nat
  OBVIOUS
<1>2. \A a \in Nat, i \in 1 .. n : Step[<<a, i>>] = a + counts[i]
  OBVIOUS
<1> HIDE DEF Step
<1>3. PICK off : IsRun(off, n, Nat, 0, Step)
  BY <1>1, Iterates, Zenon
<1>4. \A i \in 1 .. n : off[i - 1] \in Nat
  BY <1>3 DEF IsRun
<1> QED
  BY <1>2, <1>3, <1>4 DEF IsTotals, IsRun

\* The first m of the numbers.
FirstOf(part, m, counts) ==
  part = [i \in 1 .. m |-> part[i]] /\ \A i \in 1 .. m : part[i] = counts[i] /\ counts[i] \in Nat

LEMMA SumOfFirst ==
  ASSUME NEW n \in Nat, NEW counts, NEW off, IsTotals(off, n, counts), NEW m \in 0 .. n,
         NEW part, FirstOf(part, m, counts)
  PROVE  Sum(part) = off[m]
<1>0. part = [i \in 1 .. m |-> part[i]] /\ \A i \in 1 .. m : part[i] = counts[i] /\ counts[i] \in Nat
  BY DEF FirstOf
<1>1. m \in Nat /\ \A i \in 1 .. m : i \in 1 .. n /\ i \in 0 .. n /\ i - 1 \in 0 .. n
  OBVIOUS
<1>2. part \in [1 .. m -> Nat]
  BY <1>0, <1>1
<1> DEFINE offs == [i \in 0 .. m |-> off[i]]
<1>3. IsTotals(offs, m, part)
  <2>1. offs \in [0 .. m -> Nat] /\ offs[0] = 0
    BY DEF IsTotals
  <2>2. ASSUME NEW i \in 1 .. m PROVE offs[i] = offs[i - 1] + part[i]
    <3>1. offs[i] = off[i] /\ offs[i - 1] = off[i - 1]
      OBVIOUS
    <3> QED
      BY <1>0, <1>1, <3>1 DEF IsTotals
  <2> HIDE DEF offs
  <2> QED
    BY <2>1, <2>2 DEF IsTotals
<1>4. offs[m] = off[m]
  OBVIOUS
<1> HIDE DEF offs
<1> QED
  BY <1>1, <1>2, <1>3, <1>4, SumIs

-----------------------------------------------------------------------------
(* Sections of a file *)

LEMMA AlignIs ==
  ASSUME NEW n \in Nat
  PROVE  AlignUp(n) \in Nat /\ n <= AlignUp(n) /\ AlignUp(n) % 4 = 0
  BY DEF AlignUp, SectionWords

\* The element that word i of a section is of.
LEMMA ElementOf ==
  ASSUME NEW k \in {1, 2, 3, 4}, NEW n \in Nat, NEW i \in 1 .. k * n
  PROVE  (i - 1) \div k + 1 \in 1 .. n
<1>1. CASE k = 1
  BY <1>1
<1>2. CASE k = 2
  BY <1>2
<1>3. CASE k = 3
  BY <1>3
<1>4. CASE k = 4
  BY <1>4
<1> QED
  BY <1>1, <1>2, <1>3, <1>4

\* Two sequences, one behind the other.
Follows(u, s, t, X) ==
  /\ u \in Seq(X) /\ Len(u) = Len(s) + Len(t)
  /\ \A i \in 1 .. Len(s) : u[i] = s[i]
  /\ \A i \in 1 .. Len(t) : u[Len(s) + i] = t[i]

LEMMA JoinIs ==
  ASSUME NEW X, NEW s \in Seq(X), NEW t \in Seq(X)
  PROVE  Follows(s \o t, s, t, X)
<1>1. Len(s) \in Nat /\ Len(t) \in Nat
  OBVIOUS
<1>2. s \o t \in Seq(X) /\ Len(s \o t) = Len(s) + Len(t)
  OBVIOUS
<1>3. \A i \in 1 .. Len(s) : (s \o t)[i] = s[i]
  OBVIOUS
<1>4. \A i \in 1 .. Len(t) : (s \o t)[Len(s) + i] = t[i]
  OBVIOUS
<1> QED
  BY <1>2, <1>3, <1>4 DEF Follows

\* A section that is there, at offset o of a file with this body.
SitsAt(body, o, values, k) ==
  /\ o \in Nat /\ o >= HeaderWords /\ o % 4 = 0
  /\ o - HeaderWords + k * Len(values) <= Len(body)
  /\ \A i \in 1 .. k * Len(values) : body[o - HeaderWords + i] = values[(i - 1) \div k + 1]

LEMMA AppendIs ==
  ASSUME NEW X, 0 \in X, NEW body \in Seq(X), NEW values \in Seq(X), values # <<>>, NEW k \in {1, 2, 3, 4}
  PROVE  /\ AppendArray(body, values, k) \in Seq(X)
         /\ Len(AppendArray(body, values, k)) >= Len(body)
         /\ \A i \in 1 .. Len(body) : AppendArray(body, values, k)[i] = body[i]
         /\ SitsAt(AppendArray(body, values, k), SectionOffset(body, values), values, k)
<1> DEFINE o == AlignUp(BlobWords(body))
           pad == [i \in 1 .. o - BlobWords(body) |-> 0]
           spread == [i \in 1 .. k * Len(values) |-> values[(i - 1) \div k + 1]]
           t == body \o pad \o spread
<1>1. Len(body) \in Nat /\ Len(values) \in Nat /\ k \in Nat /\ k * Len(values) \in Nat
  OBVIOUS
<1>2. BlobWords(body) = 32 + Len(body)
  BY DEF BlobWords, HeaderWords
<1>3. o \in Nat /\ o >= 32 + Len(body) /\ o % 4 = 0
  BY <1>1, <1>2, AlignIs
<1>4. AppendArray(body, values, k) = t /\ SectionOffset(body, values) = o
  BY DEF AppendArray, SectionOffset
<1> HIDE DEF o
<1>5. pad \in Seq(X) /\ Len(pad) = o - (32 + Len(body))
  BY <1>1, <1>2, <1>3
<1>6. spread \in Seq(X) /\ Len(spread) = k * Len(values)
  <2>1. \A i \in 1 .. k * Len(values) : values[(i - 1) \div k + 1] \in X
    BY <1>1, ElementOf
  <2> QED
    BY <1>1, <2>1
<1>7. \A i \in 1 .. k * Len(values) : spread[i] = values[(i - 1) \div k + 1]
  OBVIOUS
<1> HIDE DEF pad, spread
<1>8. PICK q, n : q = body \o pad /\ n = k * Len(values)
  OBVIOUS
<1>9. Follows(q, body, pad, X) /\ Follows(t, q, spread, X)
  <2>1. q \in Seq(X) /\ Follows(q, body, pad, X)
    <3>1. Follows(body \o pad, body, pad, X)
      BY <1>5, JoinIs
    <3>2. Follows(q, body, pad, X)
      BY <1>8, <3>1
    <3> QED
      BY <3>2 DEF Follows
  <2>2. Follows(q \o spread, q, spread, X)
    BY <1>6, <2>1, JoinIs
  <2> QED
    BY <1>8, <2>1, <2>2
<1> HIDE DEF t
<1>10. /\ n \in Nat /\ Len(q) = o - 32 /\ Len(t) = o - 32 + n /\ t \in Seq(X) /\ Len(spread) = n
       /\ Len(q) >= Len(body)
  BY <1>1, <1>3, <1>5, <1>6, <1>8, <1>9 DEF Follows
<1>11. \A i \in 1 .. Len(body) : t[i] = body[i]
  <2>1. \A i \in 1 .. Len(body) : i \in 1 .. Len(q)
    BY <1>1, <1>3, <1>10
  <2>2. \A i \in 1 .. Len(body) : q[i] = body[i]
    BY <1>9 DEF Follows
  <2>3. \A i \in 1 .. Len(q) : t[i] = q[i]
    BY <1>9 DEF Follows
  <2> QED
    BY <2>1, <2>2, <2>3
<1>12. \A i \in 1 .. n : t[o - 32 + i] = values[(i - 1) \div k + 1]
  <2>1. \A i \in 1 .. n : t[Len(q) + i] = spread[i]
    BY <1>9, <1>10 DEF Follows
  <2> QED
    BY <1>7, <1>8, <1>10, <2>1
<1>13. SitsAt(t, o, values, k)
  <2>1. o - 32 + n <= Len(t)
    BY <1>3, <1>10
  <2> QED
    BY <1>1, <1>3, <1>8, <1>12, <2>1 DEF SitsAt, HeaderWords
<1>14. Len(t) >= Len(body)
  BY <1>1, <1>3, <1>10
<1> QED
  BY <1>4, <1>10, <1>11, <1>13, <1>14

Layouts(X) == [body : Seq(X), offset : Seq(Nat)]

SectionSet(X) == [values : Seq(X), words : {1, 2, 3, 4}]

NoLayout == [body |-> <<>>, offset |-> <<>>]

\* One more section.
WithSection(acc, s) ==
  [body |-> AppendArray(acc.body, s.values, s.words),
   offset |-> Append(acc.offset, SectionOffset(acc.body, s.values))]

IsLayFold(f, sections) ==
  f = CHOOSE r : r = [t \in SUBSET (DOMAIN sections) |->
                        IF t = {} THEN NoLayout ELSE WithSection(r[t \ {Max(t)}], sections[Max(t)])]

LEMMA LayFold ==
  ASSUME NEW sections, NEW f, IsLayFold(f, sections)
  PROVE  Lay(sections) = f[DOMAIN sections]
  BY DEF IsLayFold, Lay, FoldLeft, MapThenFoldSet, WithSection, NoLayout

LEMMA SectionAdded ==
  ASSUME NEW X, 0 \in X, NEW acc \in Layouts(X), NEW s \in SectionSet(X)
  PROVE  WithSection(acc, s) \in Layouts(X)
<1>1. acc.body \in Seq(X) /\ acc.offset \in Seq(Nat) /\ s.values \in Seq(X) /\ s.words \in {1, 2, 3, 4}
  BY DEF Layouts, SectionSet
<1>2. AppendArray(acc.body, s.values, s.words) \in Seq(X) /\ SectionOffset(acc.body, s.values) \in Nat
  <2>1. CASE s.values = <<>>
    BY <1>1, <2>1 DEF AppendArray, SectionOffset
  <2>2. CASE s.values # <<>>
    BY <1>1, <2>2, AppendIs DEF SitsAt
  <2> QED
    BY <2>1, <2>2
<1>3. Append(acc.offset, SectionOffset(acc.body, s.values)) \in Seq(Nat)
  BY <1>1, <1>2
<1> QED
  BY <1>2, <1>3 DEF WithSection, Layouts

\* What laying out n sections does, one after the other.
LEMMA LaysOneByOne ==
  ASSUME NEW X, 0 \in X, NEW n \in Nat, NEW sections \in [1 .. n -> SectionSet(X)]
  PROVE  \E h : /\ h[0] = NoLayout /\ h[n] = Lay(sections)
                /\ \A m \in 0 .. n : h[m] \in Layouts(X)
                /\ \A m \in 1 .. n : h[m] = WithSection(h[m - 1], sections[m])
<1> DEFINE Once(x, m) == WithSection(x, sections[m])
           Step == [x \in Layouts(X) \X (1 .. n) |-> Once(x[1], x[2])]
<1>1. DOMAIN sections = 1 .. n /\ NoLayout \in Layouts(X)
  BY DEF NoLayout, Layouts
<1>2. /\ Step \in [Layouts(X) \X (1 .. n) -> Layouts(X)]
      /\ \A x \in Layouts(X), m \in 1 .. n : Step[<<x, m>>] = Once(x, m)
  <2>1. ASSUME NEW x \in Layouts(X), NEW m \in 1 .. n PROVE Once(x, m) \in Layouts(X)
    BY SectionAdded
  <2> HIDE DEF Once
  <2> QED
    BY <2>1
<1>3. PICK g : /\ IsFold(g, n, Layouts(X), NoLayout, Step)
               /\ \A r \in SUBSET (1 .. n) : r # {} => Max(r) \in 1 .. n /\ g[r \ {Max(r)}] \in Layouts(X)
  <2> HIDE DEF Step
  <2> QED
    BY <1>1, <1>2, FoldsWithin
<1>4. g = [r \in SUBSET (1 .. n) |-> IF r = {} THEN NoLayout ELSE Once(g[r \ {Max(r)}], Max(r))]
  <2>1. \A r \in SUBSET (1 .. n) : g[r] = IF r = {} THEN NoLayout ELSE Once(g[r \ {Max(r)}], Max(r))
    <3> HIDE DEF Step, Once
    <3> QED
      BY <1>2, <1>3 DEF IsFold
  <2>2. g = [r \in SUBSET (1 .. n) |-> g[r]]
    BY <1>3 DEF IsFold
  <2> HIDE DEF Once
  <2> QED
    BY <2>1, <2>2
<1>5. PICK f : f = CHOOSE r : r = [t \in SUBSET (DOMAIN sections) |-> IF t = {} THEN NoLayout ELSE Once(r[t \ {Max(t)}], Max(t))]
  OBVIOUS
<1>6. /\ f = [t \in SUBSET (1 .. n) |-> IF t = {} THEN NoLayout ELSE Once(f[t \ {Max(t)}], Max(t))]
      /\ f = CHOOSE r : r = [t \in SUBSET (1 .. n) |-> IF t = {} THEN NoLayout ELSE Once(r[t \ {Max(t)}], Max(t))]
  <2>1. f = CHOOSE r : r = [t \in SUBSET (1 .. n) |-> IF t = {} THEN NoLayout ELSE Once(r[t \ {Max(t)}], Max(t))]
    <3> HIDE DEF Once
    <3> QED
      BY <1>1, <1>5
  <2> HIDE DEF Once
  <2> QED
    BY <1>4, <2>1
<1>7. Lay(sections) = f[1 .. n]
  <2>1. IsLayFold(f, sections)
    BY <1>5 DEF IsLayFold
  <2> QED
    BY <1>1, <2>1, LayFold
<1> DEFINE h == [m \in 0 .. n |-> f[1 .. m]]
<1>8. h[0] = NoLayout /\ \A m \in 1 .. n : h[m] = Once(h[m - 1], m)
  <2>1. f[1 .. 0] = NoLayout
    <3> HIDE DEF Once
    <3> QED
      BY <1>6
  <2>2. ASSUME NEW m \in 1 .. n PROVE f[1 .. m] = Once(f[1 .. m - 1], m)
    <3>1. /\ 1 .. m \in SUBSET (1 .. n) /\ 1 .. m # {} /\ Max(1 .. m) = m
          /\ (1 .. m) \ {m} = 1 .. m - 1
      BY UpTo
    <3> HIDE DEF Once
    <3>2. f[1 .. m] = Once(f[(1 .. m) \ {Max(1 .. m)}], Max(1 .. m))
      BY <1>6, <3>1
    <3> QED
      BY <3>1, <3>2
  <2> HIDE DEF Once
  <2> QED
    BY <2>1, <2>2
<1>9. h[n] = f[1 .. n]
  OBVIOUS
<1> HIDE DEF h
<1> DEFINE T == {m \in 0 .. n : h[m] \in Layouts(X)}
<1>10. 0 \in T
  BY <1>1, <1>8
<1>11. ASSUME NEW m \in 1 .. n, m - 1 \in T PROVE m \in T
  BY <1>8, <1>11, SectionAdded
<1>12. \A m \in 0 .. n : m \in T
  <2> HIDE DEF T
  <2> QED
    BY <1>10, <1>11, Induct
<1> QED
  BY <1>7, <1>8, <1>9, <1>12

\* The first m sections are where their offsets say.
IsLaid(acc, sections, m) ==
  /\ Len(acc.offset) = m
  /\ \A j \in 1 .. m :
       IF sections[j].values = <<>> THEN acc.offset[j] = 0
       ELSE SitsAt(acc.body, acc.offset[j], sections[j].values, sections[j].words)

LEMMA StaysThere ==
  ASSUME NEW X, NEW body \in Seq(X), NEW longer \in Seq(X), Len(longer) >= Len(body),
         \A i \in 1 .. Len(body) : longer[i] = body[i],
         NEW o, NEW values \in Seq(X), NEW k \in Nat, SitsAt(body, o, values, k)
  PROVE  SitsAt(longer, o, values, k)
<1>1. /\ Len(body) \in Nat /\ Len(longer) \in Nat /\ Len(values) \in Nat /\ k * Len(values) \in Nat
      /\ o \in Nat /\ o >= 32 /\ o % 4 = 0 /\ o - 32 + k * Len(values) <= Len(body)
  BY DEF SitsAt, HeaderWords
<1>2. ASSUME NEW i \in 1 .. k * Len(values) PROVE longer[o - 32 + i] = values[(i - 1) \div k + 1]
  <2>1. o - 32 + i \in 1 .. Len(body)
    BY <1>1
  <2>2. body[o - 32 + i] = values[(i - 1) \div k + 1]
    BY DEF SitsAt, HeaderWords
  <2> QED
    BY <2>1, <2>2
<1> QED
  BY <1>1, <1>2 DEF SitsAt, HeaderWords

LEMMA LaidIs ==
  ASSUME NEW X, 0 \in X, NEW n \in Nat, NEW sections \in [1 .. n -> SectionSet(X)]
  PROVE  Lay(sections) \in Layouts(X) /\ IsLaid(Lay(sections), sections, n)
<1>1. PICK h : /\ h[0] = NoLayout /\ h[n] = Lay(sections)
               /\ \A m \in 0 .. n : h[m] \in Layouts(X)
               /\ \A m \in 1 .. n : h[m] = WithSection(h[m - 1], sections[m])
  BY LaysOneByOne
<1> DEFINE T == {m \in 0 .. n : IsLaid(h[m], sections, m)}
<1>2. 0 \in T
  BY <1>1 DEF IsLaid, NoLayout
<1>3. ASSUME NEW m \in 1 .. n, m - 1 \in T PROVE m \in T
  <2>1. PICK acc, s, more : acc = h[m - 1] /\ s = sections[m] /\ more = h[m]
    OBVIOUS
  <2>2. acc \in Layouts(X) /\ s \in SectionSet(X) /\ more = WithSection(acc, s) /\ more \in Layouts(X)
    <3>1. m - 1 \in 0 .. n /\ m \in 0 .. n
      OBVIOUS
    <3> QED
      BY <1>1, <2>1, <3>1
  <2>3. IsLaid(acc, sections, m - 1)
    BY <1>3, <2>1
  <2>4. /\ acc.body \in Seq(X) /\ acc.offset \in Seq(Nat) /\ s.values \in Seq(X) /\ s.words \in {1, 2, 3, 4}
        /\ more.body \in Seq(X) /\ more.offset \in Seq(Nat)
    BY <2>2 DEF Layouts, SectionSet
  <2>5. /\ more.body = AppendArray(acc.body, s.values, s.words)
        /\ more.offset = Append(acc.offset, SectionOffset(acc.body, s.values))
    BY <2>2 DEF WithSection
  <2>6. /\ Len(more.offset) = m /\ more.offset[m] = SectionOffset(acc.body, s.values)
        /\ \A j \in 1 .. m - 1 : more.offset[j] = acc.offset[j]
    <3>1. Len(acc.offset) = m - 1
      BY <2>3 DEF IsLaid
    <3>2. PICK x : x = SectionOffset(acc.body, s.values)
      OBVIOUS
    <3> QED
      BY <2>4, <2>5, <3>1, <3>2
  <2> DEFINE Grown(b, c) == Len(c) >= Len(b) /\ \A i \in 1 .. Len(b) : c[i] = b[i]
  <2>7. Grown(acc.body, more.body) /\ (s.values # <<>> => SitsAt(more.body, SectionOffset(acc.body, s.values), s.values, s.words))
    <3>1. CASE s.values = <<>>
      BY <2>4, <2>5, <3>1 DEF AppendArray
    <3>2. CASE s.values # <<>>
      <4>1. PICK b, v, k : b = acc.body /\ v = s.values /\ k = s.words
        OBVIOUS
      <4>2. b \in Seq(X) /\ v \in Seq(X) /\ v # <<>> /\ k \in {1, 2, 3, 4}
        BY <2>4, <3>2, <4>1
      <4>3. Grown(b, AppendArray(b, v, k)) /\ SitsAt(AppendArray(b, v, k), SectionOffset(b, v), v, k)
        BY <4>2, AppendIs
      <4> QED
        BY <2>5, <4>1, <4>3, Zenon
    <3> QED
      BY <3>1, <3>2
  <2>8. ASSUME NEW j \in 1 .. m
        PROVE  IF sections[j].values = <<>> THEN more.offset[j] = 0
               ELSE SitsAt(more.body, more.offset[j], sections[j].values, sections[j].words)
    <3>1. CASE j = m
      <4>1. CASE s.values = <<>>
        BY <2>1, <2>6, <3>1, <4>1 DEF SectionOffset
      <4>2. CASE s.values # <<>>
        <5>1. SitsAt(more.body, SectionOffset(acc.body, s.values), s.values, s.words)
          BY <2>7, <4>2
        <5> QED
          BY <2>1, <2>6, <3>1, <4>2, <5>1
      <4> QED
        BY <4>1, <4>2
    <3>2. CASE j # m
      <4>1. j \in 1 .. m - 1 /\ j \in 1 .. n
        BY <3>2
      <4>2. CASE sections[j].values = <<>>
        BY <2>3, <2>6, <4>1, <4>2 DEF IsLaid
      <4>3. CASE sections[j].values # <<>>
        <5>1. PICK v, k, o : v = sections[j].values /\ k = sections[j].words /\ o = acc.offset[j]
          OBVIOUS
        <5>2. SitsAt(acc.body, o, v, k)
          BY <2>3, <4>1, <4>3, <5>1 DEF IsLaid
        <5>3. v \in Seq(X) /\ k \in Nat
          BY <4>1, <5>1 DEF SectionSet
        <5>4. SitsAt(more.body, o, v, k)
          BY <2>4, <2>7, <5>2, <5>3, StaysThere
        <5> QED
          BY <2>6, <4>1, <4>3, <5>1, <5>4
      <4> QED
        BY <4>2, <4>3
    <3> QED
      BY <3>1, <3>2
  <2>9. IsLaid(more, sections, m)
    BY <2>6, <2>8 DEF IsLaid
  <2> QED
    BY <2>1, <2>9
<1>4. \A m \in 0 .. n : m \in T
  <2> HIDE DEF T
  <2> QED
    BY <1>2, <1>3, Induct
<1> QED
  BY <1>1, <1>4

-----------------------------------------------------------------------------
(* The builder and its check *)

PointSet == [at : Values, radius : Values]

InputSet ==
  [counts : Seq(Nat), points : Seq(PointSet), times : Seq(Values), motion : Seq(Values),
   texcoords : Seq(Values), patchUVs : Seq(Values), faceUVs : Seq(Values), faceIds : Seq(Values)]

Words == Values \cup PointSet

LEMMA InputIs ==
  ASSUME NEW in \in InputSet
  PROVE  /\ in.counts \in Seq(Words) /\ in.points \in Seq(Words) /\ in.times \in Seq(Words)
         /\ in.motion \in Seq(Words) /\ in.texcoords \in Seq(Words) /\ in.patchUVs \in Seq(Words)
         /\ in.faceUVs \in Seq(Words) /\ in.faceIds \in Seq(Words)
<1>1. /\ in.counts \in Seq(Nat) /\ in.points \in Seq(PointSet) /\ in.times \in Seq(Values)
      /\ in.motion \in Seq(Values) /\ in.texcoords \in Seq(Values) /\ in.patchUVs \in Seq(Values)
      /\ in.faceUVs \in Seq(Values) /\ in.faceIds \in Seq(Values)
  BY DEF InputSet
<1>2. \A s \in Seq(Nat) : s \in Seq(Words)
  BY DEF Words, Values
<1>3. \A s \in Seq(Values) : s \in Seq(Words)
  BY DEF Words
<1>4. \A s \in Seq(PointSet) : s \in Seq(Words)
  BY DEF Words
<1> QED
  BY <1>1, <1>2, <1>3, <1>4

LEMMA SectionsAre ==
  ASSUME NEW in \in InputSet
  PROVE  Sections(in) \in [1 .. 8 -> SectionSet(Words)]
<1>1. \A s \in Seq(Words) : \A k \in {1, 2, 3, 4} : [values |-> s, words |-> k] \in SectionSet(Words)
  BY DEF SectionSet
<1> DEFINE list == Sections(in)
<1>2. /\ list[1] \in SectionSet(Words) /\ list[2] \in SectionSet(Words) /\ list[3] \in SectionSet(Words)
      /\ list[4] \in SectionSet(Words) /\ list[5] \in SectionSet(Words) /\ list[6] \in SectionSet(Words)
      /\ list[7] \in SectionSet(Words) /\ list[8] \in SectionSet(Words)
  BY <1>1, InputIs DEF Sections
<1>3. DOMAIN list = 1 .. 8 /\ list = [i \in DOMAIN list |-> list[i]]
  BY DEF Sections
<1> HIDE DEF list
<1>4. \A i \in 1 .. 8 : i \in {1, 2, 3, 4, 5, 6, 7, 8}
  OBVIOUS
<1>5. \A i \in 1 .. 8 : list[i] \in SectionSet(Words)
  BY <1>2, <1>4
<1> QED
  BY <1>3, <1>5 DEF list

\* The section of a blob that its view takes for the values.
Shows(b, j, values, k) ==
  IF values = <<>> THEN b.header.offset[j] = 0
  ELSE SitsAt(b.body, b.header.offset[j], values, k)

LEMMA BlobIs ==
  ASSUME NEW in \in InputSet
  PROVE  LET b == Blob(in)
         IN  /\ b.header.kind = "cache" /\ b.header.flags = Flags(in)
             /\ b.header.strands = Len(in.counts) /\ b.header.points = Len(in.points)
             /\ b.header.samples = Len(in.times)
             /\ b.body \in Seq(Words) /\ b.size = 32 + Len(b.body)
             /\ b.header.words = b.size /\ b.header.hash = ContentHash(b.body)
             /\ Shows(b, 1, in.counts, 1) /\ Shows(b, 2, in.points, 4) /\ Shows(b, 3, in.times, 1)
             /\ Shows(b, 4, in.motion, 3) /\ Shows(b, 5, in.texcoords, 2)
             /\ Shows(b, 6, in.patchUVs, 2) /\ Shows(b, 7, in.faceUVs, 2)
             /\ Shows(b, 8, in.faceIds, 1)
<1>1. PICK list, laid : list = Sections(in) /\ laid = Lay(list)
  OBVIOUS
<1>2. 0 \in Words /\ 8 \in Nat /\ list \in [1 .. 8 -> SectionSet(Words)]
  BY <1>1, SectionsAre DEF Words, Values
<1>3. laid \in Layouts(Words) /\ IsLaid(laid, list, 8)
  BY <1>1, <1>2, LaidIs
<1>4. PICK b : b = Blob(in)
  OBVIOUS
<1>5. /\ b.header = [kind |-> "cache", flags |-> Flags(in),
                     words |-> BlobWords(laid.body), hash |-> ContentHash(laid.body),
                     strands |-> Len(in.counts), points |-> Len(in.points),
                     samples |-> Len(in.times), offset |-> laid.offset]
      /\ b.body = laid.body /\ b.size = BlobWords(laid.body)
  BY <1>1, <1>4 DEF Blob
<1>6. /\ b.header.kind = "cache" /\ b.header.flags = Flags(in)
      /\ b.header.strands = Len(in.counts) /\ b.header.points = Len(in.points)
      /\ b.header.samples = Len(in.times) /\ b.header.offset = laid.offset
      /\ b.header.words = b.size /\ b.header.hash = ContentHash(b.body)
  BY <1>5
<1>7. b.body \in Seq(Words) /\ b.size = 32 + Len(b.body)
  BY <1>3, <1>5 DEF Layouts, BlobWords, HeaderWords
<1>8. ASSUME NEW j \in 1 .. 8 PROVE Shows(b, j, list[j].values, list[j].words)
  BY <1>3, <1>5, <1>6 DEF IsLaid, Shows
<1>9. /\ list[1] = [values |-> in.counts, words |-> 1] /\ list[2] = [values |-> in.points, words |-> 4]
      /\ list[3] = [values |-> in.times, words |-> 1] /\ list[4] = [values |-> in.motion, words |-> 3]
      /\ list[5] = [values |-> in.texcoords, words |-> 2] /\ list[6] = [values |-> in.patchUVs, words |-> 2]
      /\ list[7] = [values |-> in.faceUVs, words |-> 2] /\ list[8] = [values |-> in.faceIds, words |-> 1]
  BY <1>1 DEF Sections
<1>10. /\ list[1].values = in.counts /\ list[1].words = 1 /\ list[2].values = in.points /\ list[2].words = 4
       /\ list[3].values = in.times /\ list[3].words = 1 /\ list[4].values = in.motion /\ list[4].words = 3
       /\ list[5].values = in.texcoords /\ list[5].words = 2 /\ list[6].values = in.patchUVs /\ list[6].words = 2
       /\ list[7].values = in.faceUVs /\ list[7].words = 2 /\ list[8].values = in.faceIds /\ list[8].words = 1
  BY <1>9
<1>11. /\ 1 \in 1 .. 8 /\ 2 \in 1 .. 8 /\ 3 \in 1 .. 8 /\ 4 \in 1 .. 8 /\ 5 \in 1 .. 8 /\ 6 \in 1 .. 8
       /\ 7 \in 1 .. 8 /\ 8 \in 1 .. 8
  OBVIOUS
<1>12. /\ Shows(b, 1, in.counts, 1) /\ Shows(b, 2, in.points, 4) /\ Shows(b, 3, in.times, 1)
       /\ Shows(b, 4, in.motion, 3) /\ Shows(b, 5, in.texcoords, 2)
       /\ Shows(b, 6, in.patchUVs, 2) /\ Shows(b, 7, in.faceUVs, 2)
       /\ Shows(b, 8, in.faceIds, 1)
  BY <1>8, <1>10, <1>11, Zenon
<1> QED
  BY <1>4, <1>6, <1>7, <1>12

LEMMA WordOf ==
  ASSUME NEW k \in {1, 2, 3, 4}, NEW n \in Nat, NEW i \in 1 .. n
  PROVE  (i - 1) * k + 1 \in 1 .. k * n /\ ((i - 1) * k + 1 - 1) \div k + 1 = i
<1>1. CASE k = 1
  BY <1>1
<1>2. CASE k = 2
  BY <1>2
<1>3. CASE k = 3
  BY <1>3
<1>4. CASE k = 4
  BY <1>4
<1> QED
  BY <1>1, <1>2, <1>3, <1>4

Sized(values, n) == values = <<>> \/ n = Len(values)

\* A view gives back what was laid out.
LEMMA ViewIs ==
  ASSUME NEW b, NEW j, NEW values \in Seq(Words), NEW k \in {1, 2, 3, 4}, Shows(b, j, values, k),
         NEW n, Sized(values, n)
  PROVE  View(b, j, n, k) = values
<1>1. CASE values = <<>>
  BY <1>1 DEF Shows, View
<1>2. CASE values # <<>>
  <2>1. PICK o : o = b.header.offset[j]
    OBVIOUS
  <2>2. SitsAt(b.body, o, values, k) /\ n = Len(values) /\ n \in Nat
    BY <1>2, <2>1 DEF Shows, Sized
  <2>3. o # 0
    BY <2>2 DEF SitsAt, HeaderWords
  <2>4. ASSUME NEW i \in 1 .. n PROVE Element(b, o, i - 1, k) = values[i]
    <3>1. PICK w : w = (i - 1) * k + 1
      OBVIOUS
    <3>2. w \in 1 .. k * n /\ (w - 1) \div k + 1 = i
      BY <2>2, <3>1, WordOf
    <3>3. b.body[o - HeaderWords + w] = values[i]
      BY <2>2, <3>2 DEF SitsAt
    <3>4. o - HeaderWords + (i - 1) * k + 1 = o - HeaderWords + w
      BY <2>2, <3>1 DEF SitsAt, HeaderWords
    <3> QED
      BY <3>3, <3>4 DEF Element
  <2>5. View(b, j, n, k) = [i \in 1 .. n |-> Element(b, o, i - 1, k)]
    BY <2>1, <2>3 DEF View, Elements
  <2>6. values = [i \in 1 .. n |-> values[i]]
    BY <2>2
  <2> QED
    BY <2>4, <2>5, <2>6
<1> QED
  BY <1>1, <1>2

\* Its section fits into the file.
LEMMA ShownFits ==
  ASSUME NEW b, b.body \in Seq(Words), NEW j, NEW values \in Seq(Words), NEW k \in {1, 2, 3, 4},
         Shows(b, j, values, k), NEW n, n = Len(values), NEW a \in {1, 4}
  PROVE  SectionFits(32 + Len(b.body), b.header.offset[j], n, k, a)
<1>1. n \in Nat /\ Len(b.body) \in Nat /\ (n = 0 <=> values = <<>>)
  OBVIOUS
<1>2. CASE values = <<>>
  BY <1>1, <1>2 DEF Shows, SectionFits
<1>3. CASE values # <<>>
  <2>1. PICK o : o = b.header.offset[j]
    OBVIOUS
  <2>2. o \in Nat /\ o >= 32 /\ o % 4 = 0 /\ o - 32 + k * n <= Len(b.body)
    BY <1>3, <2>1 DEF Shows, SitsAt, HeaderWords
  <2>3. k * n \in Nat /\ n * k = k * n
    BY <1>1
  <2>4. o % a = 0
    BY <2>2
  <2>5. PICK p, w : p = n * k /\ w = 32 + Len(b.body)
    OBVIOUS
  <2>6. 32 <= o /\ o <= w /\ p <= w - o
    <3>1. p \in Nat /\ w \in Nat /\ o \in Nat /\ o >= 32 /\ 32 + (o - 32 + p) <= w
      BY <1>1, <2>2, <2>3, <2>5
    <3> QED
      BY <3>1
  <2>7. SectionFits(w, o, n, k, a)
    <3>1. n # 0 /\ n * k = p
      BY <1>1, <1>3, <2>5
    <3> QED
      BY <2>4, <2>6, <3>1 DEF SectionFits, HeaderWords
  <2> QED
    BY <2>1, <2>5, <2>7
<1> QED
  BY <1>2, <1>3

\* What InputFits() says of the sizes.
LEMMA SizesFit ==
  ASSUME NEW in \in InputSet, InputFits(in)
  PROVE  /\ in.counts # <<>> /\ in.points # <<>> /\ Len(in.counts) # 0 /\ Len(in.points) # 0
         /\ Len(in.times) * Len(in.points) = Len(in.motion)
         /\ in.texcoords = <<>> \/ Len(in.points) = Len(in.texcoords)
         /\ in.patchUVs = <<>> \/ Len(in.counts) = Len(in.patchUVs)
         /\ in.faceUVs = <<>> \/ Len(in.counts) = Len(in.faceUVs)
         /\ in.faceIds = <<>> \/ Len(in.counts) = Len(in.faceIds)
         /\ (in.times = <<>>) = (in.motion = <<>>)
<1>1. /\ in.counts \in Seq(Words) /\ in.points \in Seq(Words) /\ in.times \in Seq(Words)
      /\ in.motion \in Seq(Words) /\ in.texcoords \in Seq(Words) /\ in.patchUVs \in Seq(Words)
      /\ in.faceUVs \in Seq(Words) /\ in.faceIds \in Seq(Words)
  BY InputIs
<1>2. \A s \in Seq(Words) : Len(s) \in Nat /\ (Len(s) = 0 <=> s = <<>>)
  OBVIOUS
<1>3. /\ Len(in.counts) \in Nat /\ Len(in.points) \in Nat /\ Len(in.times) \in Nat
      /\ (Len(in.counts) = 0 <=> in.counts = <<>>) /\ (Len(in.points) = 0 <=> in.points = <<>>)
      /\ (Len(in.texcoords) = 0 <=> in.texcoords = <<>>) /\ (Len(in.patchUVs) = 0 <=> in.patchUVs = <<>>)
      /\ (Len(in.faceUVs) = 0 <=> in.faceUVs = <<>>) /\ (Len(in.faceIds) = 0 <=> in.faceIds = <<>>)
  BY <1>1, <1>2, Zenon
<1>4. /\ in.counts # <<>> /\ in.points # <<>>
      /\ Len(in.motion) = Len(in.points) * Len(in.times)
      /\ Len(in.texcoords) \in {0, Len(in.points)} /\ Len(in.patchUVs) \in {0, Len(in.counts)}
      /\ Len(in.faceUVs) \in {0, Len(in.counts)} /\ Len(in.faceIds) \in {0, Len(in.counts)}
      /\ (in.times = <<>>) = (in.motion = <<>>)
  BY DEF InputFits, CurvesFit, ChannelsFit, MotionFits, Optional
<1>5. Len(in.times) * Len(in.points) = Len(in.motion)
  <2>1. \A x, y \in Nat : x * y = y * x
    OBVIOUS
  <2> QED
    BY <1>3, <1>4, <2>1
<1> QED
  BY <1>3, <1>4, <1>5

\* The views of what was built are the arrays that went in.
LEMMA ViewsAreInput ==
  ASSUME NEW in \in InputSet, InputFits(in)
  PROVE  LET b == Blob(in)
         IN  /\ PointCounts(b) = in.counts /\ PackedPoints(b) = in.points
             /\ MotionTimes(b) = in.times /\ MotionPoints(b) = in.motion
             /\ Texcoords(b) = in.texcoords /\ PatchUVs(b) = in.patchUVs
             /\ FaceUVs(b) = in.faceUVs /\ FaceIds(b) = in.faceIds
<1>1. PICK b : b = Blob(in)
  OBVIOUS
<1>2. /\ b.header.strands = Len(in.counts) /\ b.header.points = Len(in.points)
      /\ b.header.samples = Len(in.times)
      /\ Shows(b, 1, in.counts, 1) /\ Shows(b, 2, in.points, 4) /\ Shows(b, 3, in.times, 1)
      /\ Shows(b, 4, in.motion, 3) /\ Shows(b, 5, in.texcoords, 2)
      /\ Shows(b, 6, in.patchUVs, 2) /\ Shows(b, 7, in.faceUVs, 2)
      /\ Shows(b, 8, in.faceIds, 1)
  BY <1>1, BlobIs
<1>3. /\ in.counts \in Seq(Words) /\ in.points \in Seq(Words) /\ in.times \in Seq(Words)
      /\ in.motion \in Seq(Words) /\ in.texcoords \in Seq(Words) /\ in.patchUVs \in Seq(Words)
      /\ in.faceUVs \in Seq(Words) /\ in.faceIds \in Seq(Words)
  BY InputIs
<1>4. /\ Sized(in.counts, b.header.strands) /\ Sized(in.points, b.header.points)
      /\ Sized(in.times, b.header.samples) /\ Sized(in.motion, b.header.samples * b.header.points)
      /\ Sized(in.texcoords, b.header.points) /\ Sized(in.patchUVs, b.header.strands)
      /\ Sized(in.faceUVs, b.header.strands) /\ Sized(in.faceIds, b.header.strands)
  BY <1>2, SizesFit DEF Sized
<1>5. 1 \in {1, 2, 3, 4} /\ 2 \in {1, 2, 3, 4} /\ 3 \in {1, 2, 3, 4} /\ 4 \in {1, 2, 3, 4}
  OBVIOUS
<1>6. ASSUME NEW j, NEW values \in Seq(Words), NEW k \in {1, 2, 3, 4}, Shows(b, j, values, k),
             NEW n, Sized(values, n)
      PROVE  View(b, j, n, k) = values
  BY <1>6, ViewIs
<1> DEFINE Back(j, values, n, k) == View(b, j, n, k) = values
<1>7. ASSUME NEW j, NEW values \in Seq(Words), NEW k \in {1, 2, 3, 4}, Shows(b, j, values, k),
             NEW n, Sized(values, n)
      PROVE  Back(j, values, n, k)
  BY <1>6, <1>7
<1> HIDE DEF Back
<1>8. /\ Back(1, in.counts, b.header.strands, 1) /\ Back(2, in.points, b.header.points, 4)
      /\ Back(3, in.times, b.header.samples, 1)
      /\ Back(4, in.motion, b.header.samples * b.header.points, 3)
      /\ Back(5, in.texcoords, b.header.points, 2) /\ Back(6, in.patchUVs, b.header.strands, 2)
      /\ Back(7, in.faceUVs, b.header.strands, 2) /\ Back(8, in.faceIds, b.header.strands, 1)
  BY <1>2, <1>3, <1>4, <1>5, <1>7, Zenon
<1> QED
  BY <1>1, <1>8 DEF Back, PointCounts, PackedPoints, MotionTimes, MotionPoints, Texcoords, PatchUVs, FaceUVs, FaceIds

\* The header of what was built passes the check.
LEMMA HeaderIsFit ==
  ASSUME NEW in \in InputSet, InputFits(in)
  PROVE  HeaderFits(Blob(in))
<1>1. PICK b, h : b = Blob(in) /\ h = b.header
  OBVIOUS
<1>2. /\ h.kind = "cache" /\ h.flags = Flags(in)
      /\ h.strands = Len(in.counts) /\ h.points = Len(in.points) /\ h.samples = Len(in.times)
      /\ b.body \in Seq(Words) /\ b.size = 32 + Len(b.body)
      /\ h.words = b.size /\ h.hash = ContentHash(b.body)
  BY <1>1, BlobIs
<1>3. /\ Shows(b, 1, in.counts, 1) /\ Shows(b, 2, in.points, 4) /\ Shows(b, 3, in.times, 1)
      /\ Shows(b, 4, in.motion, 3) /\ Shows(b, 5, in.texcoords, 2)
      /\ Shows(b, 6, in.patchUVs, 2) /\ Shows(b, 7, in.faceUVs, 2)
      /\ Shows(b, 8, in.faceIds, 1)
  BY <1>1, BlobIs
<1>4. /\ in.counts \in Seq(Words) /\ in.points \in Seq(Words) /\ in.times \in Seq(Words)
      /\ in.motion \in Seq(Words) /\ in.texcoords \in Seq(Words) /\ in.patchUVs \in Seq(Words)
      /\ in.faceUVs \in Seq(Words) /\ in.faceIds \in Seq(Words)
  BY InputIs
<1>5. Len(<<>>) = 0
  OBVIOUS
<1> DEFINE If(flag, n) == IF flag \in h.flags THEN n ELSE 0
           Fits(section, n, k, a) == SectionFits(h.words, h.offset[section], n, k, a)
<1>6. /\ If("texcoords", h.points) = Len(in.texcoords) /\ If("patchUVs", h.strands) = Len(in.patchUVs)
      /\ If("faceUVs", h.strands) = Len(in.faceUVs) /\ If("faceIds", h.strands) = Len(in.faceIds)
      /\ ("motion" \in h.flags) = (in.motion # <<>>)
  <2>1. \A f \in {"texcoords", "patchUVs", "faceUVs", "faceIds", "motion"} : f \in h.flags <=> in[f] # <<>>
    BY <1>2 DEF Flags
  <2>2. /\ ("texcoords" \in h.flags) = (in.texcoords # <<>>) /\ ("patchUVs" \in h.flags) = (in.patchUVs # <<>>)
        /\ ("faceUVs" \in h.flags) = (in.faceUVs # <<>>) /\ ("faceIds" \in h.flags) = (in.faceIds # <<>>)
        /\ ("motion" \in h.flags) = (in.motion # <<>>)
    BY <2>1
  <2> QED
    BY <1>2, <1>5, <2>2, SizesFit
<1>7. h.samples * h.points = Len(in.motion)
  BY <1>2, SizesFit
<1> HIDE DEF If
<1>8. ASSUME NEW j, NEW values \in Seq(Words), NEW k \in {1, 2, 3, 4}, Shows(b, j, values, k),
             NEW n, n = Len(values), NEW a \in {1, 4}
      PROVE  Fits(j, n, k, a)
  BY <1>1, <1>2, <1>8, ShownFits
<1> HIDE DEF Fits
<1>9. /\ Fits(1, h.strands, 1, 1) /\ Fits(2, h.points, 4, 4) /\ Fits(3, h.samples, 1, 1)
      /\ Fits(4, h.samples * h.points, 3, 1) /\ Fits(5, If("texcoords", h.points), 2, 1)
      /\ Fits(6, If("patchUVs", h.strands), 2, 1) /\ Fits(7, If("faceUVs", h.strands), 2, 1)
      /\ Fits(8, If("faceIds", h.strands), 1, 1)
  <2>1. 1 \in {1, 2, 3, 4} /\ 2 \in {1, 2, 3, 4} /\ 3 \in {1, 2, 3, 4} /\ 4 \in {1, 2, 3, 4} /\ 1 \in {1, 4} /\ 4 \in {1, 4}
    OBVIOUS
  <2>2. Fits(1, h.strands, 1, 1) /\ Fits(2, h.points, 4, 4) /\ Fits(3, h.samples, 1, 1)
    BY <1>2, <1>3, <1>4, <1>8, <2>1, Zenon
  <2>3. Fits(4, h.samples * h.points, 3, 1)
    BY <1>3, <1>4, <1>7, <1>8, <2>1, Zenon
  <2>4. /\ Fits(5, If("texcoords", h.points), 2, 1) /\ Fits(6, If("patchUVs", h.strands), 2, 1)
        /\ Fits(7, If("faceUVs", h.strands), 2, 1) /\ Fits(8, If("faceIds", h.strands), 1, 1)
    BY <1>3, <1>4, <1>6, <1>8, <2>1, Zenon
  <2> QED
    BY <2>2, <2>3, <2>4
<1>10. SectionsFit(b)
  BY <1>1, <1>9 DEF SectionsFit, Fits, If
<1>11. h.strands # 0 /\ h.points # 0 /\ ("motion" \in h.flags) = (h.samples # 0)
  <2>1. in.times \in Seq(Words) /\ (Len(in.times) = 0 <=> in.times = <<>>)
    BY <1>4
  <2> QED
    BY <1>2, <1>6, <2>1, SizesFit
<1>12. b.size >= 32
  BY <1>2
<1> QED
  BY <1>1, <1>2, <1>10, <1>11, <1>12 DEF HeaderFits, HeaderWords

\* The builder takes what fits and is finite, and nothing else.
LEMMA BuilderTakes ==
  ASSUME NEW in \in InputSet, AllFinite(in.texcoords), AllFinite(in.faceUVs) <=> AllFinite(in.patchUVs)
  PROVE  /\ BuildCurveCache(in) # NoBlob <=> InputFits(in) /\ Sound(in)
         /\ BuildCurveCache(in) # NoBlob => BuildCurveCache(in) = Blob(in)
<1>1. PICK b : b = Blob(in)
  OBVIOUS
<1>2. b # NoBlob
  <2>1. b.size = 32 + Len(b.body) /\ b.body \in Seq(Words)
    BY <1>1, BlobIs
  <2>2. b.size # 0
    BY <2>1
  <2> QED
    BY <2>2 DEF NoBlob
<1>3. ASSUME InputFits(in) PROVE ContentFits(b) <=> Sound(in)
  <2>1. /\ PointCounts(b) = in.counts /\ PackedPoints(b) = in.points
        /\ MotionTimes(b) = in.times /\ MotionPoints(b) = in.motion
        /\ Texcoords(b) = in.texcoords /\ PatchUVs(b) = in.patchUVs
        /\ FaceUVs(b) = in.faceUVs
    BY <1>1, <1>3, ViewsAreInput
  <2>2. b.header.points = Len(in.points)
    BY <1>1, BlobIs
  <2>3. /\ \A i \in DOMAIN in.counts : in.counts[i] >= 2
        /\ Sum(in.counts) = Len(in.points) /\ Increasing(in.times)
    BY <1>3 DEF InputFits, CurvesFit, MotionFits
  <2>4. \A c \in Range(in.counts) : c >= 2
    BY <2>3 DEF Range
  <2> QED
    BY <2>1, <2>2, <2>3, <2>4 DEF ContentFits, Sound
<1>4. InputFits(in) => HeaderFits(b)
  BY <1>1, HeaderIsFit
<1> QED
  BY <1>1, <1>2, <1>3, <1>4 DEF BuildCurveCache, ValidateCurveCache

-----------------------------------------------------------------------------
(* The order of the curves *)

\* Which of two curves comes first.
Precedes(s, j, i) == s[j].key < s[i].key \/ (s[j].key = s[i].key /\ j < i)

Keyed(s, n) == n \in Nat /\ DOMAIN s = 1 .. n /\ \A i \in 1 .. n : s[i].key \in Int

LEMMA PrecedesOrders ==
  ASSUME NEW s, NEW n, Keyed(s, n), NEW i \in 1 .. n, NEW j \in 1 .. n, NEW k \in 1 .. n
  PROVE  /\ ~Precedes(s, i, i)
         /\ Precedes(s, i, j) /\ Precedes(s, j, k) => Precedes(s, i, k)
         /\ i # j => Precedes(s, i, j) \/ Precedes(s, j, i)
<1>1. PICK a, b, c : a = s[i].key /\ b = s[j].key /\ c = s[k].key
  OBVIOUS
<1>2. a \in Int /\ b \in Int /\ c \in Int /\ i \in Int /\ j \in Int /\ k \in Int
  BY <1>1 DEF Keyed
<1>3. /\ Precedes(s, i, i) <=> a < a \/ (a = a /\ i < i)
      /\ Precedes(s, i, j) <=> a < b \/ (a = b /\ i < j)
      /\ Precedes(s, j, i) <=> b < a \/ (b = a /\ j < i)
      /\ Precedes(s, j, k) <=> b < c \/ (b = c /\ j < k)
      /\ Precedes(s, i, k) <=> a < c \/ (a = c /\ i < k)
  BY <1>1 DEF Precedes
<1> QED
  BY <1>2, <1>3

LEMMA BeforeIs ==
  ASSUME NEW s, NEW n, Keyed(s, n), NEW i \in 1 .. n
  PROVE  /\ Before(s, i) = {j \in 1 .. n : Precedes(s, j, i)}
         /\ IsFiniteSet(Before(s, i))
         /\ Cardinality(Before(s, i)) \in 0 .. n - 1
<1>1. Before(s, i) = {j \in 1 .. n : Precedes(s, j, i)}
  BY DEF Before, Precedes, Keyed
<1>2. n \in Nat /\ IsFiniteSet(1 .. n) /\ Cardinality(1 .. n) = n
  <2>1. n \in Nat /\ n \in Int /\ n - 1 + 1 = n
    BY DEF Keyed
  <2>2. IsFiniteSet(1 .. n) /\ Cardinality(1 .. n) = IF 1 > n THEN 0 ELSE n - 1 + 1
    BY <2>1, FS_Interval
  <2> QED
    BY <2>1, <2>2
<1>3. i \notin Before(s, i) /\ Before(s, i) \in SUBSET (1 .. n)
  BY <1>1, PrecedesOrders
<1>4. IsFiniteSet(Before(s, i)) /\ Cardinality(Before(s, i)) <= n /\ Cardinality(Before(s, i)) # n
  BY <1>2, <1>3, FS_Subset
<1>5. Cardinality(Before(s, i)) \in Nat
  BY <1>4, FS_CardinalityType
<1> QED
  BY <1>1, <1>2, <1>4, <1>5

LEMMA RankGrows ==
  ASSUME NEW s, NEW n, Keyed(s, n), NEW i \in 1 .. n, NEW j \in 1 .. n, Precedes(s, i, j)
  PROVE  Cardinality(Before(s, i)) < Cardinality(Before(s, j))
<1>1. Before(s, i) \subseteq Before(s, j) /\ i \in Before(s, j) /\ i \notin Before(s, i)
  BY BeforeIs, PrecedesOrders
<1>2. /\ IsFiniteSet(Before(s, j)) /\ Cardinality(Before(s, j)) \in Nat
      /\ Cardinality(Before(s, i)) \in Nat
  <2>1. n \in Nat
    BY DEF Keyed
  <2> QED
    BY <2>1, BeforeIs
<1>3. Cardinality(Before(s, i)) <= Cardinality(Before(s, j))
  BY <1>1, <1>2, FS_Subset
<1>4. Cardinality(Before(s, i)) # Cardinality(Before(s, j))
  BY <1>1, <1>2, FS_Subset
<1> QED
  BY <1>2, <1>3, <1>4

LEMMA RankIsOne ==
  ASSUME NEW s, NEW n, Keyed(s, n), NEW i \in 1 .. n, NEW j \in 1 .. n,
         Cardinality(Before(s, i)) = Cardinality(Before(s, j))
  PROVE  i = j
<1>1. Cardinality(Before(s, i)) \in Int
  <2>1. Cardinality(Before(s, i)) \in 0 .. n - 1
    BY BeforeIs
  <2> QED
    BY <2>1
<1>2. ~Precedes(s, i, j) /\ ~Precedes(s, j, i)
  BY <1>1, RankGrows
<1> QED
  BY <1>2, PrecedesOrders

\* There is a curve for each place.
LEMMA RankFound ==
  ASSUME NEW s, NEW n, Keyed(s, n), NEW m \in 1 .. n
  PROVE  \E i \in 1 .. n : Cardinality(Before(s, i)) = m - 1
<1> DEFINE rank == [i \in 1 .. n |-> Cardinality(Before(s, i))]
<1>1. rank \in [1 .. n -> 0 .. n - 1]
  BY BeforeIs
<1>2. \A i, j \in 1 .. n : rank[i] = rank[j] => i = j
  BY RankIsOne
<1>3. n \in Nat
  BY DEF Keyed
<1>4. rank \in Injection(1 .. n, 0 .. n - 1)
  <2> HIDE DEF rank
  <2> QED
    BY <1>1, <1>2 DEF Injection, IsInjective
<1>5. /\ IsFiniteSet(0 .. n - 1) /\ Cardinality(0 .. n - 1) = n /\ Cardinality(1 .. n) = n
  <2>1. n - 1 \in Int /\ n \in Int /\ n - 1 - 0 + 1 = n /\ n - 1 + 1 = n
    BY <1>3
  <2>2. /\ IsFiniteSet(0 .. n - 1) /\ Cardinality(0 .. n - 1) = IF 0 > n - 1 THEN 0 ELSE n - 1 - 0 + 1
        /\ Cardinality(1 .. n) = IF 1 > n THEN 0 ELSE n - 1 + 1
    BY <2>1, FS_Interval
  <2> QED
    BY <1>3, <2>2
<1>6. rank \in Surjection(1 .. n, 0 .. n - 1)
  <2> HIDE DEF rank
  <2> QED
    BY <1>4, <1>5, FS_Injection
<1>7. m - 1 \in 0 .. n - 1
  BY <1>3
<1>8. \E i \in 1 .. n : rank[i] = m - 1
  <2> HIDE DEF rank
  <2> QED
    BY <1>6, <1>7 DEF Surjection
<1> QED
  BY <1>8

LEMMA DocumentIs ==
  ASSUME NEW doc \in DocumentSet
  PROVE  /\ doc \in Seq(Curves) /\ Len(doc) \in Nat /\ DOMAIN doc = 1 .. Len(doc)
         /\ \A i \in 1 .. Len(doc) : doc[i] \in Curves
         /\ Keyed(doc, Len(doc)) /\ Len(doc) < CountLimit
<1>1. doc \in Seq(Curves) /\ Len(doc) < CountLimit
  BY DEF DocumentSet
<1>2. Len(doc) \in Nat /\ DOMAIN doc = 1 .. Len(doc) /\ \A i \in 1 .. Len(doc) : doc[i] \in Curves
  BY <1>1
<1>3. \A c \in Curves : c.key \in Int
  BY DEF Curves
<1>4. Keyed(doc, Len(doc))
  BY <1>2, <1>3 DEF Keyed
<1> QED
  BY <1>1, <1>2, <1>4

\* Curve m of the ordered ones has m - 1 before it.
LEMMA OrderedAt ==
  ASSUME NEW doc \in DocumentSet, NEW m \in 1 .. Len(doc)
  PROVE  \E i \in 1 .. Len(doc) : Cardinality(Before(doc, i)) = m - 1 /\ Ordered(doc)[m] = doc[i]
<1>1. DOMAIN doc = 1 .. Len(doc) /\ Keyed(doc, Len(doc))
  BY DocumentIs
<1>2. \E i \in 1 .. Len(doc) : Cardinality(Before(doc, i)) = m - 1
  BY <1>1, RankFound
<1>3. PICK i : i = CHOOSE j \in 1 .. Len(doc) : Cardinality(Before(doc, j)) = m - 1
  OBVIOUS
<1>4. i \in 1 .. Len(doc) /\ Cardinality(Before(doc, i)) = m - 1
  BY <1>2, <1>3
<1>5. Ordered(doc)[m] = doc[i]
  BY <1>1, <1>3 DEF Ordered
<1> QED
  BY <1>4, <1>5

\* The ordered curves are a document too, of the same curves.
LEMMA OrderedIs ==
  ASSUME NEW doc \in DocumentSet
  PROVE  /\ Ordered(doc) \in DocumentSet /\ Len(Ordered(doc)) = Len(doc)
         /\ \A m \in 1 .. Len(doc) : \E i \in 1 .. Len(doc) : Ordered(doc)[m] = doc[i]
<1>1. Len(doc) \in Nat /\ DOMAIN doc = 1 .. Len(doc) /\ Len(doc) < CountLimit
  BY DocumentIs
<1>2. \A m \in 1 .. Len(doc) : \E i \in 1 .. Len(doc) : Ordered(doc)[m] = doc[i]
  BY OrderedAt
<1>3. \A i \in 1 .. Len(doc) : doc[i] \in Curves
  BY DocumentIs
<1>4. DOMAIN Ordered(doc) = 1 .. Len(doc) /\ Ordered(doc) = [m \in 1 .. Len(doc) |-> Ordered(doc)[m]]
  BY <1>1 DEF Ordered
<1>5. PICK s : s = Ordered(doc)
  OBVIOUS
<1>6. s \in [1 .. Len(doc) -> Curves]
  BY <1>2, <1>3, <1>4, <1>5
<1>7. s \in Seq(Curves) /\ Len(s) = Len(doc)
  BY <1>1, <1>6
<1> QED
  BY <1>1, <1>2, <1>5, <1>7 DEF DocumentSet

\* If no two neighbours are equal, no two curves are.
LEMMA NoDuplicatesDistinct ==
  ASSUME NEW doc \in DocumentSet, ~HasDuplicateKeys(Ordered(doc))
  PROVE  Distinct(doc)
<1>1. /\ Len(doc) \in Nat /\ DOMAIN doc = 1 .. Len(doc) /\ Keyed(doc, Len(doc))
      /\ Len(Ordered(doc)) = Len(doc)
  BY DocumentIs, OrderedIs
<1>2. ASSUME NEW i \in 1 .. Len(doc), NEW j \in 1 .. Len(doc), i < j, doc[i].key = doc[j].key
      PROVE  FALSE
  <2>1. PICK a, b : a = Cardinality(Before(doc, i)) + 1 /\ b = Cardinality(Before(doc, j)) + 1
    OBVIOUS
  <2>2. a \in 1 .. Len(doc) /\ b \in 1 .. Len(doc) /\ a < b
    <3>1. Precedes(doc, i, j)
      BY <1>2 DEF Precedes
    <3>2. Cardinality(Before(doc, i)) < Cardinality(Before(doc, j))
      BY <1>1, <3>1, RankGrows
    <3>3. Cardinality(Before(doc, i)) \in 0 .. Len(doc) - 1 /\ Cardinality(Before(doc, j)) \in 0 .. Len(doc) - 1
      BY <1>1, BeforeIs
    <3> QED
      BY <1>1, <2>1, <3>2, <3>3
  <2>3. a + 1 \in 2 .. Len(doc) /\ a + 1 <= b /\ a + 1 \in 1 .. Len(doc) /\ a \in Nat /\ b \in Nat
    BY <1>1, <2>2
  <2>4. PICK k \in 1 .. Len(doc) : Cardinality(Before(doc, k)) = (a + 1) - 1 /\ Ordered(doc)[a + 1] = doc[k]
    <3>1. PICK c \in 1 .. Len(doc) : c = a + 1
      BY <2>3
    <3>2. \E k \in 1 .. Len(doc) : Cardinality(Before(doc, k)) = c - 1 /\ Ordered(doc)[c] = doc[k]
      BY OrderedAt
    <3> QED
      BY <3>1, <3>2, Zenon
  <2>5. Ordered(doc)[a] = doc[i]
    <3>1. PICK x \in 1 .. Len(doc) : Cardinality(Before(doc, x)) = a - 1 /\ Ordered(doc)[a] = doc[x]
      BY <2>2, OrderedAt
    <3>2. Cardinality(Before(doc, i)) = a - 1
      <4>1. Cardinality(Before(doc, i)) \in 0 .. Len(doc) - 1
        BY <1>1, BeforeIs
      <4> QED
        BY <1>1, <2>1, <4>1
    <3>3. x = i
      BY <1>1, <3>1, <3>2, RankIsOne
    <3> QED
      BY <3>1, <3>3
  <2>6. doc[i].key <= doc[k].key /\ doc[k].key <= doc[j].key
    <3>1. /\ doc[i].key \in Int /\ doc[j].key \in Int /\ doc[k].key \in Int
          /\ i \in Int /\ j \in Int /\ k \in Int
      BY <1>1 DEF Keyed
    <3>2. /\ Cardinality(Before(doc, i)) = a - 1 /\ Cardinality(Before(doc, j)) = b - 1
          /\ Cardinality(Before(doc, k)) = a
      <4>1. Cardinality(Before(doc, i)) \in 0 .. Len(doc) - 1 /\ Cardinality(Before(doc, j)) \in 0 .. Len(doc) - 1
        BY <1>1, BeforeIs
      <4> QED
        BY <1>1, <2>1, <2>3, <2>4, <4>1
    <3>3. ~Precedes(doc, k, i) /\ ~Precedes(doc, j, k)
      <4>1. Precedes(doc, k, i) => Cardinality(Before(doc, k)) < Cardinality(Before(doc, i))
        BY <1>1, RankGrows
      <4>2. Precedes(doc, j, k) => Cardinality(Before(doc, j)) < Cardinality(Before(doc, k))
        BY <1>1, RankGrows
      <4> QED
        BY <2>3, <3>2, <4>1, <4>2
    <3> QED
      BY <3>1, <3>3 DEF Precedes
  <2>7. doc[k].key = doc[i].key
    <3>1. doc[i].key \in Int /\ doc[j].key \in Int /\ doc[k].key \in Int
      BY <1>1 DEF Keyed
    <3> QED
      BY <1>2, <2>6, <3>1
  <2>8. (a + 1) - 1 = a /\ a + 1 \in 2 .. Len(Ordered(doc))
    BY <1>1, <2>3
  <2>9. Ordered(doc)[(a + 1) - 1].key = Ordered(doc)[a + 1].key
    BY <2>4, <2>5, <2>7, <2>8
  <2>10. HasDuplicateKeys(Ordered(doc))
    <3>1. PICK s, x : s = Ordered(doc) /\ x = a + 1
      OBVIOUS
    <3>2. x \in 2 .. Len(s) /\ s[x - 1].key = s[x].key
      BY <2>8, <2>9, <3>1, Zenon
    <3>3. HasDuplicateKeys(s)
      BY <3>2 DEF HasDuplicateKeys
    <3> QED
      BY <3>1, <3>3
  <2> QED
    BY <2>10
<1>3. ASSUME NEW i \in 1 .. Len(doc), NEW j \in 1 .. Len(doc), doc[i].key = doc[j].key PROVE i = j
  <2>1. ~(i < j) /\ ~(j < i)
    BY <1>2, <1>3
  <2> QED
    BY <1>1, <2>1
<1> QED
  BY <1>1, <1>3 DEF Distinct

-----------------------------------------------------------------------------
(* Parts of what is laid one after another *)

\* n sequences and what they are one after another.
Whole(s, off, n, seqs, X) ==
  /\ seqs \in [1 .. n -> Seq(X)] /\ IsOffsets(off, n, seqs) /\ IsJoined(s, off, n, seqs, X)

\* u is behind the first elements of s.
IsPart(s, first, u) ==
  first \in Nat /\ first + Len(u) <= Len(s) /\ SubSeq(s, first + 1, first + Len(u)) = u

\* The part of the whole that sequence i has become.
LEMMA PartOfJoined ==
  ASSUME NEW n \in Nat, NEW X, NEW seqs, NEW off, NEW s, Whole(s, off, n, seqs, X), NEW i \in 1 .. n
  PROVE  IsPart(s, off[i - 1], seqs[i])
<1>0. seqs \in [1 .. n -> Seq(X)] /\ IsOffsets(off, n, seqs) /\ IsJoined(s, off, n, seqs, X)
  BY DEF Whole
<1>1. PICK first, u : first = off[i - 1] /\ u = seqs[i]
  OBVIOUS
<1>2. u \in Seq(X) /\ Len(u) \in Nat /\ DOMAIN u = 1 .. Len(u)
  BY <1>0, <1>1
<1>3. first \in Nat /\ off[i] = first + Len(u) /\ s \in Seq(X) /\ Len(s) = off[n]
  <2>1. i - 1 \in 0 .. n
    OBVIOUS
  <2> QED
    BY <1>0, <1>1, <2>1 DEF IsOffsets, IsJoined
<1>4. first + Len(u) <= Len(s)
  <2>1. \A j \in 1 .. n : Len(seqs[j]) \in Nat
    BY <1>0
  <2>2. i \in 0 .. n /\ n \in i .. n
    OBVIOUS
  <2>3. off[i] <= off[n]
    BY <1>0, <2>1, <2>2, OffsetsGrow
  <2> QED
    BY <1>3, <2>3
<1> DEFINE part == SubSeq(s, first + 1, first + Len(u))
<1>5. /\ part \in Seq(X) /\ Len(part) = Len(u) /\ DOMAIN part = 1 .. Len(u)
      /\ \A k \in 1 .. Len(u) : part[k] = s[first + k]
  BY <1>2, <1>3, <1>4, PartIs
<1> HIDE DEF part
<1>6. \A k \in 1 .. Len(u) : s[first + k] = u[k]
  BY <1>0, <1>1 DEF IsJoined
<1>7. part = u
  BY <1>2, <1>5, <1>6
<1> QED
  BY <1>1, <1>3, <1>4, <1>7 DEF part, IsPart

LEMMA PartOfPart ==
  ASSUME NEW X, NEW t \in Seq(X), NEW u \in Seq(X), NEW a, IsPart(t, a, u),
         NEW v \in Seq(X), NEW b, IsPart(u, b, v)
  PROVE  IsPart(t, a + b, v)
<1>0. PICK c : c = Len(v)
  OBVIOUS
<1>1. /\ Len(t) \in Nat /\ Len(u) \in Nat /\ a + b \in Nat /\ (a + b) + c <= Len(t)
      /\ a \in Nat /\ b \in Nat /\ c \in Nat /\ a + Len(u) <= Len(t) /\ b + c <= Len(u)
      /\ u = SubSeq(t, a + 1, a + Len(u)) /\ v = SubSeq(u, b + 1, b + c)
  BY <1>0 DEF IsPart
<1> DEFINE p == SubSeq(t, (a + b) + 1, (a + b) + c)
           q == SubSeq(u, b + 1, b + c)
<1>2. /\ p \in Seq(X) /\ Len(p) = c /\ DOMAIN p = 1 .. c
      /\ \A k \in 1 .. c : p[k] = t[(a + b) + k]
  BY <1>1, PartIs
<1>3. /\ q \in Seq(X) /\ Len(q) = c /\ DOMAIN q = 1 .. c
      /\ \A k \in 1 .. c : q[k] = u[b + k]
  BY <1>1, PartIs
<1>4. \A k \in 1 .. Len(u) : u[k] = t[a + k]
  <2>1. \A k \in 1 .. Len(u) : SubSeq(t, a + 1, a + Len(u))[k] = t[a + k]
    BY <1>1, PartIs
  <2> QED
    BY <1>1, <2>1
<1> HIDE DEF p, q
<1>5. \A k \in 1 .. c : p[k] = q[k]
  <2> TAKE k \in 1 .. c
  <2>1. b + k \in 1 .. Len(u) /\ a + (b + k) = (a + b) + k
    BY <1>1
  <2> QED
    BY <1>2, <1>3, <1>4, <2>1
<1>6. p = q
  BY <1>2, <1>3, <1>5
<1> QED
  BY <1>0, <1>1, <1>6 DEF p, q, IsPart

\* Sequences of one length begin at its multiples.
AllOfLength(seqs, n, len) == \A i \in 1 .. n : Len(seqs[i]) = len

LEMMA EqualLengths ==
  ASSUME NEW n \in Nat, NEW seqs, NEW off, IsOffsets(off, n, seqs), NEW len \in Nat,
         AllOfLength(seqs, n, len), NEW j \in 0 .. n
  PROVE  off[j] = j * len
<1> DEFINE T == {m \in 0 .. n : off[m] = m * len}
<1>1. 0 \in T
  BY DEF IsOffsets
<1>2. ASSUME NEW m \in 1 .. n, m - 1 \in T PROVE m \in T
  <2>1. off[m] = off[m - 1] + len /\ off[m - 1] = (m - 1) * len
    BY <1>2 DEF IsOffsets, AllOfLength
  <2>2. m \in Nat /\ m * len = (m - 1) * len + len
    OBVIOUS
  <2> QED
    BY <2>1, <2>2
<1>3. \A m \in 0 .. n : m \in T
  <2> HIDE DEF T
  <2> QED
    BY <1>1, <1>2, Induct
<1> QED
  BY <1>3

\* Whatever is in the sequences, there is a set that it is in.
AreSeqs(seqs, n, counts) ==
  /\ DOMAIN seqs = 1 .. n /\ seqs = [i \in 1 .. n |-> seqs[i]]
  /\ \A i \in 1 .. n :
       /\ counts[i] \in Nat /\ DOMAIN seqs[i] = 1 .. counts[i]
       /\ seqs[i] = [c \in 1 .. counts[i] |-> seqs[i][c]]

LEMMA SomeSet ==
  ASSUME NEW n \in Nat, NEW seqs, NEW counts, AreSeqs(seqs, n, counts)
  PROVE  \E X : seqs \in [1 .. n -> Seq(X)] /\ \A i \in 1 .. n : Len(seqs[i]) = counts[i]
<1> DEFINE X == UNION {{seqs[i][c] : c \in 1 .. counts[i]} : i \in 1 .. n}
<1>1. ASSUME NEW i \in 1 .. n PROVE seqs[i] \in Seq(X) /\ Len(seqs[i]) = counts[i]
  <2>1. counts[i] \in Nat /\ seqs[i] = [c \in 1 .. counts[i] |-> seqs[i][c]]
    BY DEF AreSeqs
  <2>2. \A c \in 1 .. counts[i] : seqs[i][c] \in X
    OBVIOUS
  <2> HIDE DEF X
  <2>3. seqs[i] \in [1 .. counts[i] -> X]
    BY <2>1, <2>2
  <2> QED
    BY <2>1, <2>3
<1>2. seqs = [i \in 1 .. n |-> seqs[i]]
  BY DEF AreSeqs
<1> HIDE DEF X
<1>3. seqs \in [1 .. n -> Seq(X)]
  BY <1>1, <1>2
<1> QED
  BY <1>1, <1>3

LEMMA WholeIs ==
  ASSUME NEW n \in Nat, NEW seqs, NEW counts, AreSeqs(seqs, n, counts)
  PROVE  \E X : \E off : /\ Whole(FlattenSeq(seqs), off, n, seqs, X) /\ IsTotals(off, n, counts)
                         /\ \A i \in 1 .. n : Len(seqs[i]) = counts[i]
<1>1. PICK X : seqs \in [1 .. n -> Seq(X)] /\ \A i \in 1 .. n : Len(seqs[i]) = counts[i]
  BY SomeSet, Zenon
<1>2. \A i \in 1 .. n : Len(seqs[i]) \in Nat
  BY <1>1
<1>3. PICK off : IsOffsets(off, n, seqs)
  BY <1>2, OffsetsExist
<1>4. IsJoined(FlattenSeq(seqs), off, n, seqs, X)
  BY <1>1, <1>3, Flattened
<1>5. IsTotals(off, n, counts)
  BY <1>1, <1>3 DEF IsOffsets, IsTotals
<1> QED
  BY <1>1, <1>3, <1>4, <1>5 DEF Whole

-----------------------------------------------------------------------------
(* What the tool writes *)

SampleSet == [time : Int, curves : Seq(Curves)]

LEMMA CurveIs ==
  ASSUME NEW c \in Curves
  PROVE  /\ c.key \in Values /\ c.positions \in Seq(Values) /\ Count(c) \in Nat /\ Len(c.positions) = Count(c)
         /\ PackedCurve(c) \in Seq(PointSet) /\ Len(PackedCurve(c)) = Count(c)
<1>1. /\ c.key \in Int /\ c.positions \in Seq(Values) /\ c.widths \in Seq(Values)
      /\ Len(c.widths) = Len(c.positions)
  BY DEF Curves
<1>2. PICK m : m = Len(c.positions)
  OBVIOUS
<1>3. m \in Nat /\ DOMAIN c.positions = 1 .. m /\ Len(c.widths) = m
  BY <1>1, <1>2
<1>4. \A i \in 1 .. m : c.positions[i] \in Values /\ c.widths[i] \in Values
  BY <1>1, <1>3
<1>5. \A v \in Values : Radius(v, 1) \in Values
  BY DEF Radius, Values, Finite
<1>6. PackedCurve(c) = [i \in 1 .. m |-> [at |-> c.positions[i], radius |-> Radius(c.widths[i], 1)]]
  BY <1>3 DEF PackedCurve
<1>7. \A i \in 1 .. m : [at |-> c.positions[i], radius |-> Radius(c.widths[i], 1)] \in PointSet
  BY <1>4, <1>5 DEF PointSet
<1>8. PackedCurve(c) \in [1 .. m -> PointSet]
  BY <1>6, <1>7
<1>9. c.key \in Values /\ Count(c) = m
  BY <1>1, <1>2 DEF Values, Count
<1>10. PackedCurve(c) \in Seq(PointSet) /\ Len(PackedCurve(c)) = m
  BY <1>3, <1>8
<1> QED
  BY <1>1, <1>2, <1>3, <1>9, <1>10

Lists(curves) == [i \in DOMAIN curves |-> curves[i].positions]
Packs(curves) == [i \in DOMAIN curves |-> PackedCurve(curves[i])]
Counts(curves) == [i \in DOMAIN curves |-> Count(curves[i])]

LEMMA FlatAre ==
  ASSUME NEW curves
  PROVE  /\ Positions(curves) = FlattenSeq(Lists(curves))
         /\ Flat(curves, PackedCurve) = FlattenSeq(Packs(curves))
  BY DEF Positions, Flat, Lists, Packs

\* Curves whose numbers of points are these, one after another.
LEMMA CurvesJoined ==
  ASSUME NEW curves \in Seq(Curves), NEW n \in Nat, Len(curves) = n, NEW off, IsTotals(off, n, Counts(curves))
  PROVE  /\ Counts(curves) \in [1 .. n -> Nat]
         /\ Whole(Positions(curves), off, n, Lists(curves), Values)
         /\ Whole(Flat(curves, PackedCurve), off, n, Packs(curves), PointSet)
<1>1. DOMAIN curves = 1 .. n /\ \A i \in 1 .. n : curves[i] \in Curves
  OBVIOUS
<1>2. PICK lists, packs, counts : lists = Lists(curves) /\ packs = Packs(curves) /\ counts = Counts(curves)
  OBVIOUS
<1>3. /\ counts \in [1 .. n -> Nat] /\ lists \in [1 .. n -> Seq(Values)] /\ packs \in [1 .. n -> Seq(PointSet)]
      /\ \A i \in 1 .. n : Len(lists[i]) = counts[i] /\ Len(packs[i]) = counts[i]
  BY <1>1, <1>2, CurveIs DEF Lists, Packs, Counts
<1>4. IsOffsets(off, n, lists) /\ IsOffsets(off, n, packs)
  BY <1>2, <1>3 DEF IsTotals, IsOffsets
<1>5. IsJoined(FlattenSeq(lists), off, n, lists, Values) /\ IsJoined(FlattenSeq(packs), off, n, packs, PointSet)
  BY <1>3, <1>4, Flattened
<1> QED
  BY <1>2, <1>3, <1>4, <1>5, FlatAre DEF Whole

LEMMA CurvesTotal ==
  ASSUME NEW curves \in Seq(Curves)
  PROVE  /\ Counts(curves) \in Seq(Nat) /\ Len(Counts(curves)) = Len(curves)
         /\ Positions(curves) \in Seq(Values) /\ Flat(curves, PackedCurve) \in Seq(PointSet)
         /\ \E off : IsTotals(off, Len(curves), Counts(curves))
<1>1. PICK n : n = Len(curves)
  OBVIOUS
<1>2. n \in Nat /\ DOMAIN curves = 1 .. n /\ \A i \in 1 .. n : curves[i] \in Curves
  BY <1>1
<1>3. DOMAIN Counts(curves) = 1 .. n /\ \A i \in 1 .. n : Counts(curves)[i] \in Nat
  BY <1>2, CurveIs DEF Counts
<1>4. PICK off : IsTotals(off, n, Counts(curves))
  BY <1>2, <1>3, TotalsExist, Zenon
<1>5. /\ Counts(curves) \in [1 .. n -> Nat]
      /\ Whole(Positions(curves), off, n, Lists(curves), Values)
      /\ Whole(Flat(curves, PackedCurve), off, n, Packs(curves), PointSet)
  BY <1>1, <1>2, <1>4, CurvesJoined
<1>6. Counts(curves) \in Seq(Nat) /\ Len(Counts(curves)) = n
  BY <1>2, <1>5
<1> QED
  BY <1>1, <1>4, <1>5, <1>6 DEF Whole, IsJoined

\* What the builder is given.
LEMMA InputTyped ==
  ASSUME minimal \in BOOLEAN, base \in Seq(Curves), samples \in Seq(SampleSet)
  PROVE  /\ CacheInput \in InputSet
         /\ AllFinite(CacheInput.texcoords) /\ CacheInput.faceUVs = CacheInput.patchUVs
         /\ CacheInput.points = Flat(base, PackedCurve)
         /\ CacheInput.motion = FlattenSeq([i \in DOMAIN samples |-> Positions(samples[i].curves)])
<1> DEFINE keys == [i \in DOMAIN base |-> base[i].key]
           zeros == [i \in DOMAIN Positions(base) |-> 0]
           times == [i \in DOMAIN samples |-> samples[i].time]
           moved == [i \in DOMAIN samples |-> Positions(samples[i].curves)]
           Full(s) == IF minimal THEN <<>> ELSE s
<1>1. CacheInput = [counts |-> Counts(base), points |-> Flat(base, PackedCurve), times |-> times,
                    motion |-> FlattenSeq(moved), texcoords |-> Full(zeros),
                    patchUVs |-> Full(keys), faceUVs |-> Full(keys), faceIds |-> Full(keys)]
  BY DEF CacheInput, Counts
<1>2. Counts(base) \in Seq(Nat) /\ Flat(base, PackedCurve) \in Seq(PointSet) /\ Positions(base) \in Seq(Values)
  BY CurvesTotal
<1>3. times \in Seq(Values)
  <2>1. PICK n : n = Len(samples)
    OBVIOUS
  <2>2. n \in Nat /\ DOMAIN samples = 1 .. n /\ \A i \in 1 .. n : samples[i] \in SampleSet
    BY <2>1
  <2>3. \A i \in 1 .. n : samples[i].time \in Values
    BY <2>2 DEF SampleSet, Values
  <2>4. times \in [1 .. n -> Values]
    BY <2>2, <2>3
  <2> QED
    BY <2>2, <2>4
<1>4. FlattenSeq(moved) \in Seq(Values)
  <2>1. PICK n : n = Len(samples)
    OBVIOUS
  <2>2. n \in Nat /\ DOMAIN samples = 1 .. n /\ \A i \in 1 .. n : samples[i].curves \in Seq(Curves)
    <3>1. n \in Nat /\ DOMAIN samples = 1 .. n /\ \A i \in 1 .. n : samples[i] \in SampleSet
      BY <2>1
    <3>2. \A x \in SampleSet : x.curves \in Seq(Curves)
      BY DEF SampleSet
    <3> QED
      BY <3>1, <3>2
  <2>3. \A i \in 1 .. n : Positions(samples[i].curves) \in Seq(Values)
    BY <2>2, CurvesTotal
  <2>4. moved \in [1 .. n -> Seq(Values)]
    BY <2>2, <2>3
  <2> HIDE DEF moved
  <2>5. \A i \in 1 .. n : Len(moved[i]) \in Nat
    BY <2>4
  <2>6. PICK off : IsOffsets(off, n, moved)
    BY <2>2, <2>5, OffsetsExist
  <2>7. IsJoined(FlattenSeq(moved), off, n, moved, Values)
    BY <2>2, <2>4, <2>6, Flattened
  <2> QED
    BY <2>7 DEF IsJoined
<1>5. keys \in Seq(Values)
  <2>1. PICK n : n = Len(base)
    OBVIOUS
  <2>2. n \in Nat /\ DOMAIN base = 1 .. n /\ \A i \in 1 .. n : base[i].key \in Values
    BY <2>1, CurveIs
  <2>3. keys \in [1 .. n -> Values]
    BY <2>2
  <2> QED
    BY <2>2, <2>3
<1>6. zeros \in Seq(Values) /\ \A i \in DOMAIN zeros : zeros[i] = 0
  <2>1. PICK n : n = Len(Positions(base))
    OBVIOUS
  <2>2. n \in Nat /\ DOMAIN Positions(base) = 1 .. n /\ 0 \in Values
    BY <1>2, <2>1 DEF Values
  <2>3. zeros \in [1 .. n -> Values]
    BY <2>2
  <2> QED
    BY <2>2, <2>3
<1> HIDE DEF keys, zeros, times, moved
<1>7. Full(keys) \in Seq(Values) /\ Full(zeros) \in Seq(Values)
  BY <1>5, <1>6
<1>8. AllFinite(Full(zeros))
  <2>1. 0 # NotFinite
    BY CurveCacheAssumption
  <2> QED
    BY <1>6, <2>1 DEF AllFinite, Finite
<1> HIDE DEF Full
<1>9. CacheInput \in InputSet
  BY <1>1, <1>2, <1>3, <1>4, <1>7 DEF InputSet
<1> QED
  BY <1>1, <1>8, <1>9 DEF moved

-----------------------------------------------------------------------------
(* The tool *)

\* The curves that it has are those of documents, in order and matched.
Sources ==
  /\ base = <<>> \/ base \in DocumentSet
  /\ samples \in Seq(SampleSet)
  /\ \A k \in DOMAIN samples :
       /\ MotionMatches(samples[k].curves)
       /\ \E doc \in Documents : samples[k].curves = Ordered(doc)
  /\ samples # <<>> => \E doc \in Documents : base = Ordered(doc)

\* What it hands out was built from them.
ToolInv ==
  /\ pc \in {"base", "motion", "still", "open", "write", "check", "done", "failed"}
  /\ minimal \in BOOLEAN
  /\ Sources
  /\ pc \in {"base", "done", "failed"} => samples = <<>>
  /\ pc = "motion" => base # <<>> /\ \E doc \in Documents : base = Ordered(doc)
  /\ IF pc \in {"open", "write", "check"} THEN cache # NoBlob /\ cache = BuildCurveCache(CacheInput)
     ELSE cache = NoBlob

LEMMA SourcesAre ==
  ASSUME Sources
  PROVE  base \in Seq(Curves) /\ samples \in Seq(SampleSet)
<1>1. <<>> \in Seq(Curves) /\ \A doc \in DocumentSet : doc \in Seq(Curves)
  BY DEF DocumentSet
<1> QED
  BY <1>1 DEF Sources

LEMMA SourcesStay == Sources /\ base' = base /\ samples' = samples => Sources'
  BY DEF Sources, MotionMatches

LEMMA InputStays ==
  minimal' = minimal /\ base' = base /\ samples' = samples => CacheInput' = CacheInput
  BY DEF CacheInput, Positions, Flat

LEMMA NothingIsSources == base' = <<>> /\ samples' = <<>> => Sources'
<1> SUFFICES ASSUME base' = <<>>, samples' = <<>> PROVE Sources'
  OBVIOUS
<1>1. samples' \in Seq(SampleSet) /\ DOMAIN samples' = {}
  OBVIOUS
<1> QED
  BY <1>1 DEF Sources

LEMMA LoadedIs ==
  ASSUME NEW doc \in Documents, NEW which, LoadCurves(doc, which) # Refused
  PROVE  /\ LoadCurves(doc, which) = Ordered(doc) /\ Ordered(doc) # <<>>
         /\ Ordered(doc) \in DocumentSet
<1>1. doc \in DocumentSet
  BY CurveDeliveryAssumption
<1> QED
  BY <1>1, OrderedIs DEF LoadCurves, Refused

LEMMA EndsEmpty ==
  ASSUME ToolInv, UNCHANGED <<tool, minimal>>, NEW how \in {"done", "failed"}, End(how)
  PROVE  ToolInv'
<1>1. pc' \in {"done", "failed"} /\ base' = <<>> /\ samples' = <<>> /\ cache' = NoBlob
  BY DEF End
<1>2. Sources'
  BY <1>1, NothingIsSources
<1>3. minimal' \in BOOLEAN
  BY DEF ToolInv
<1>4. pc' \notin {"open", "write", "check"} /\ pc' # "motion"
  BY <1>1
<1> QED
  BY <1>1, <1>2, <1>3, <1>4 DEF ToolInv

\* The tool has what it had, and the file of the next step.
LEMMA Carries ==
  ASSUME ToolInv, UNCHANGED <<tool, minimal, base, samples, cache>>,
         pc' = pc \/ (pc \in {"open", "write", "check"} /\ pc' \in {"open", "write", "check"})
  PROVE  ToolInv'
<1>1. Sources' /\ CacheInput' = CacheInput
  BY SourcesStay, InputStays DEF ToolInv
<1>2. BuildCurveCache(CacheInput)' = BuildCurveCache(CacheInput)
  BY <1>1
<1> QED
  BY <1>1, <1>2 DEF ToolInv

LEMMA InitTool == Init => ToolInv
<1> SUFFICES ASSUME Init PROVE ToolInv
  OBVIOUS
<1>1. <<>> \in Seq(SampleSet) /\ DOMAIN <<>> = {}
  OBVIOUS
<1>2. Sources
  BY <1>1 DEF Init, Sources
<1> QED
  BY <1>2 DEF Init, ToolInv

LEMMA NextTool == ToolInv /\ [Next]_vars => ToolInv'
<1> SUFFICES ASSUME ToolInv, [Next]_vars PROVE ToolInv'
  OBVIOUS
<1>1. CASE LoadBase
  <2>1. PICK doc \in Documents :
          IF LoadCurves(doc, tool) = Refused THEN End("failed")
          ELSE base' = LoadCurves(doc, tool) /\ pc' = "motion" /\ UNCHANGED <<samples, cache>>
    BY <1>1 DEF LoadBase
  <2>2. pc = "base" /\ UNCHANGED <<tool, minimal>>
    BY <1>1 DEF LoadBase
  <2>3. CASE LoadCurves(doc, tool) = Refused
    BY <2>1, <2>2, <2>3, EndsEmpty
  <2>4. CASE LoadCurves(doc, tool) # Refused
    <3>1. base' = Ordered(doc) /\ Ordered(doc) # <<>> /\ Ordered(doc) \in DocumentSet
      BY <2>1, <2>4, LoadedIs
    <3>2. samples = <<>> /\ samples' = samples /\ cache' = cache /\ cache = NoBlob /\ pc' = "motion"
          /\ minimal' \in BOOLEAN
      BY <2>1, <2>2, <2>4 DEF ToolInv
    <3>3. Sources'
      <4>1. samples' \in Seq(SampleSet) /\ DOMAIN samples' = {}
        BY <3>2
      <4> QED
        BY <3>1, <3>2, <4>1 DEF Sources
    <3> QED
      BY <3>1, <3>2, <3>3 DEF ToolInv
  <2> QED
    BY <2>3, <2>4
<1>2. CASE LoadInSourceOrder
  <2>1. PICK doc \in Documents : base' = doc
    BY <1>2 DEF LoadInSourceOrder
  <2>2. pc = "base" /\ pc' = "still" /\ UNCHANGED <<minimal, samples, cache>>
    BY <1>2 DEF LoadInSourceOrder
  <2>3. doc \in DocumentSet
    BY CurveDeliveryAssumption
  <2>4. samples = <<>> /\ cache = NoBlob /\ minimal' \in BOOLEAN
    BY <2>2 DEF ToolInv
  <2>5. Sources'
    <3>1. samples' \in Seq(SampleSet) /\ DOMAIN samples' = {} /\ samples' = <<>>
      BY <2>2, <2>4
    <3> QED
      BY <2>1, <2>3, <3>1 DEF Sources
  <2> QED
    BY <2>2, <2>4, <2>5 DEF ToolInv
<1>3. CASE LoadMotion
  <2>1. PICK doc, time : /\ doc \in Documents /\ time \in Times
                         /\ IF TimeFits(time) /\ MotionMatches(LoadCurves(doc, tool))
                            THEN /\ samples' = Append(samples, [time |-> time, curves |-> LoadCurves(doc, tool)])
                                 /\ UNCHANGED <<pc, base, cache>>
                            ELSE End("failed")
    BY <1>3 DEF LoadMotion
  <2>2. pc = "motion" /\ UNCHANGED <<tool, minimal>>
    BY <1>3 DEF LoadMotion
  <2>3. CASE ~(TimeFits(time) /\ MotionMatches(LoadCurves(doc, tool)))
    BY <2>1, <2>2, <2>3, EndsEmpty
  <2>4. CASE TimeFits(time) /\ MotionMatches(LoadCurves(doc, tool))
    <3>1. PICK s : s = [time |-> time, curves |-> LoadCurves(doc, tool)]
      OBVIOUS
    <3>2. samples' = Append(samples, s) /\ UNCHANGED <<pc, base, cache>>
      BY <2>1, <2>4, <3>1
    <3>3. LoadCurves(doc, tool) = Ordered(doc) /\ Ordered(doc) \in DocumentSet
      <4>1. LoadCurves(doc, tool) # Refused
        BY <2>4 DEF MotionMatches
      <4> QED
        BY <2>1, <4>1, LoadedIs
    <3>4. s \in SampleSet /\ s.curves = Ordered(doc) /\ MotionMatches(s.curves)
      <4>1. time \in Int
        BY <2>1, CurveDeliveryAssumption
      <4> QED
        BY <2>4, <3>1, <3>3, <4>1 DEF SampleSet, DocumentSet
    <3>5. base # <<>> /\ cache = NoBlob /\ Sources /\ \E d \in Documents : base = Ordered(d)
      BY <2>2 DEF ToolInv
    <3>6. PICK n : n = Len(samples)
      OBVIOUS
    <3>7. samples \in Seq(SampleSet) /\ n \in Nat /\ DOMAIN samples = 1 .. n
      BY <3>5, <3>6 DEF Sources
    <3>8. /\ samples' \in Seq(SampleSet) /\ DOMAIN samples' = 1 .. n + 1
          /\ samples'[n + 1] = s /\ \A k \in 1 .. n : samples'[k] = samples[k]
      BY <3>2, <3>4, <3>6, <3>7
    <3>9. ASSUME NEW k \in DOMAIN samples'
          PROVE  MotionMatches(samples'[k].curves) /\ \E d \in Documents : samples'[k].curves = Ordered(d)
      <4>1. CASE k = n + 1
        BY <2>1, <3>4, <3>8, <4>1
      <4>2. CASE k # n + 1
        <5>1. k \in 1 .. n
          BY <3>7, <3>8, <4>2
        <5> QED
          BY <3>5, <3>7, <3>8, <5>1 DEF Sources
      <4> QED
        BY <4>1, <4>2
    <3>10. Sources'
      <4>1. base' = base /\ (base = <<>> \/ base \in DocumentSet)
        BY <3>2, <3>5 DEF Sources
      <4> QED
        BY <3>5, <3>8, <3>9, <4>1 DEF Sources, MotionMatches
    <3>11. pc' = "motion" /\ base' # <<>> /\ cache' = NoBlob /\ minimal' \in BOOLEAN
           /\ \E d \in Documents : base' = Ordered(d)
      BY <2>2, <3>2, <3>5 DEF ToolInv
    <3> QED
      BY <3>10, <3>11 DEF ToolInv
  <2> QED
    BY <2>3, <2>4
<1>4. CASE Build
  <2>1. PICK b : b = BuildCurveCache(CacheInput)
    OBVIOUS
  <2>2. UNCHANGED <<tool, minimal>>
    BY <1>4 DEF Build
  <2>3. CASE b = NoBlob
    <3>1. End("failed")
      BY <1>4, <2>1, <2>3 DEF Build
    <3> QED
      BY <2>2, <3>1, EndsEmpty
  <2>4. CASE b # NoBlob
    <3>1. cache' = b /\ pc' = "open" /\ UNCHANGED <<base, samples>>
      BY <1>4, <2>1, <2>4 DEF Build
    <3>2. Sources' /\ CacheInput' = CacheInput
      BY <2>2, <3>1, SourcesStay, InputStays DEF ToolInv
    <3>3. BuildCurveCache(CacheInput)' = b
      BY <2>1, <3>2
    <3>4. minimal' \in BOOLEAN
      BY <2>2 DEF ToolInv
    <3> QED
      BY <2>4, <3>1, <3>2, <3>3, <3>4 DEF ToolInv
  <2> QED
    BY <2>3, <2>4
<1>5. CASE Open
  BY <1>5, Carries DEF Open
<1>6. CASE Write
  BY <1>6, Carries DEF Write
<1>7. CASE Check
  <2>1. PICK how \in {"done", "failed"} : End(how)
    BY <1>7 DEF Check
  <2> QED
    BY <1>7, <2>1, EndsEmpty DEF Check
<1>8. CASE Stop
  BY <1>8, EndsEmpty DEF Stop
<1>9. CASE Again
  <2>1. UNCHANGED <<tool, minimal, base, samples, cache>> /\ pc \in {"done", "failed"} /\ pc' = "base"
    BY <1>9 DEF Again
  <2>2. Sources'
    BY <2>1, SourcesStay DEF ToolInv
  <2> QED
    BY <2>1, <2>2 DEF ToolInv
<1>10. CASE Load
  BY <1>10, Carries DEF Load
<1>11. CASE UNCHANGED vars
  BY <1>11, Carries DEF vars
<1> QED
  BY <1>1, <1>2, <1>3, <1>4, <1>5, <1>6, <1>7, <1>8, <1>9, <1>10, <1>11 DEF Next

LEMMA BuiltFromInput ==
  ASSUME Sources, minimal \in BOOLEAN
  PROVE  LET in == CacheInput
         IN  /\ in \in InputSet
             /\ BuildCurveCache(in) # NoBlob <=> InputFits(in) /\ Sound(in)
             /\ BuildCurveCache(in) # NoBlob => BuildCurveCache(in) = Blob(in)
<1>1. PICK in : in = CacheInput
  OBVIOUS
<1>2. in \in InputSet /\ AllFinite(in.texcoords) /\ in.faceUVs = in.patchUVs
  BY <1>1, SourcesAre, InputTyped
<1>3. AllFinite(in.faceUVs) <=> AllFinite(in.patchUVs)
  BY <1>2
<1> QED
  BY <1>1, <1>2, <1>3, BuilderTakes

LEMMA InputGivenBack == ToolInv => CacheIsItsInput
<1> SUFFICES ASSUME ToolInv, pc \in {"motion", "still", "open"}
             PROVE  LET in == CacheInput
                        b == BuildCurveCache(in)
                    IN /\ b # NoBlob <=> InputFits(in) /\ Sound(in)
                       /\ b # NoBlob =>
                            /\ PointCounts(b) = in.counts /\ PackedPoints(b) = in.points
                            /\ MotionTimes(b) = in.times /\ MotionPoints(b) = in.motion
                            /\ Texcoords(b) = in.texcoords /\ PatchUVs(b) = in.patchUVs
                            /\ FaceUVs(b) = in.faceUVs /\ FaceIds(b) = in.faceIds
  BY DEF CacheIsItsInput
<1>1. PICK in, b : in = CacheInput /\ b = BuildCurveCache(in)
  OBVIOUS
<1>2. /\ in \in InputSet
      /\ b # NoBlob <=> InputFits(in) /\ Sound(in)
      /\ b # NoBlob => b = Blob(in)
  BY <1>1, BuiltFromInput DEF ToolInv
<1>3. ASSUME b # NoBlob
      PROVE  /\ PointCounts(b) = in.counts /\ PackedPoints(b) = in.points
             /\ MotionTimes(b) = in.times /\ MotionPoints(b) = in.motion
             /\ Texcoords(b) = in.texcoords /\ PatchUVs(b) = in.patchUVs
             /\ FaceUVs(b) = in.faceUVs /\ FaceIds(b) = in.faceIds
  BY <1>2, <1>3, ViewsAreInput
<1> QED
  BY <1>1, <1>2, <1>3

\* A cache gives back the arrays that it was built from: build_curve_cache() and
\* validate_curve_cache() agree on what fits, and the views of CurveCacheView find
\* each section, for curves of any number and length.
THEOREM CacheGivesItsInput == Spec => []CacheIsItsInput
<1> QED
  BY InitTool, NextTool, InputGivenBack, PTL DEF Spec

\* Matched curves have as many points each.
LEMMA MatchedAlike ==
  ASSUME NEW curves, MotionMatches(curves), base \in Seq(Curves), curves \in Seq(Curves)
  PROVE  /\ Len(curves) = Len(base) /\ Counts(curves) = Counts(base)
         /\ \A i \in 1 .. Len(base) : curves[i].key = base[i].key /\ Count(curves[i]) = Count(base[i])
<1>1. /\ Len(base) = Len(curves)
      /\ \A i \in DOMAIN base : Count(base[i]) = Count(curves[i]) /\ base[i].key = curves[i].key
  BY DEF MotionMatches, SameTopologyAndOrder
<1>2. DOMAIN base = 1 .. Len(base) /\ DOMAIN curves = 1 .. Len(base)
  BY <1>1
<1>3. Counts(curves) = Counts(base)
  BY <1>1, <1>2 DEF Counts
<1> QED
  BY <1>1, <1>2, <1>3

\* Matched curves are the same ones in the scene.
LEMMA MatchedStrands ==
  ASSUME Sources, NEW k \in DOMAIN samples, NEW i \in DOMAIN base
  PROVE  samples[k].curves[i].strand = base[i].strand
<1>1. PICK doc \in Documents : samples[k].curves = Ordered(doc)
  BY DEF Sources
<1>2. PICK other \in Documents : base = Ordered(other)
  <2>1. samples # <<>>
    OBVIOUS
  <2> QED
    BY <2>1 DEF Sources
<1>3. doc \in DocumentSet /\ other \in DocumentSet
  BY CurveDeliveryAssumption
<1>4. MotionMatches(Ordered(doc))
  BY <1>1 DEF Sources
<1>5. Distinct(doc) /\ Distinct(other)
  <2>1. ~HasDuplicateKeys(Ordered(doc)) /\ ~HasDuplicateKeys(Ordered(other))
    BY <1>2, <1>4 DEF MotionMatches
  <2> QED
    BY <1>3, <2>1, NoDuplicatesDistinct
<1>6. Ordered(doc) \in Seq(Curves) /\ Ordered(other) \in Seq(Curves)
  BY <1>3, OrderedIs DEF DocumentSet
<1>7. /\ Len(Ordered(doc)) = Len(base) /\ i \in 1 .. Len(base)
      /\ Ordered(doc)[i].key = Ordered(other)[i].key
  <2>1. base \in Seq(Curves)
    BY <1>2, <1>6
  <2>2. i \in 1 .. Len(base)
    BY <2>1
  <2> QED
    BY <1>2, <1>4, <1>6, <2>1, <2>2, MatchedAlike
<1>8. PICK x, y : /\ x \in 1 .. Len(doc) /\ Ordered(doc)[i] = doc[x]
                  /\ y \in 1 .. Len(other) /\ Ordered(other)[i] = other[y]
  <2>1. i \in 1 .. Len(doc) /\ i \in 1 .. Len(other)
    BY <1>2, <1>3, <1>7, OrderedIs
  <2>2. \E x \in 1 .. Len(doc) : Ordered(doc)[i] = doc[x]
    BY <1>3, <2>1, OrderedIs
  <2>3. \E y \in 1 .. Len(other) : Ordered(other)[i] = other[y]
    BY <1>3, <2>1, OrderedIs
  <2> QED
    BY <2>2, <2>3
<1>9. x \in DOMAIN doc /\ y \in DOMAIN other /\ doc[x].key = other[y].key
  BY <1>3, <1>7, <1>8, DocumentIs
<1>10. doc[x].strand = other[y].strand
  <2>1. doc \in {d \in Documents : Distinct(d)} /\ other \in {d \in Documents : Distinct(d)}
    BY <1>5
  <2> QED
    BY <1>9, <2>1, CurveDeliveryAssumption
<1> QED
  BY <1>1, <1>2, <1>8, <1>10

\* The part of a cache that is of curve i in sample k.
LEMMA MotionPart ==
  ASSUME ToolInv, cache # NoBlob, NEW k \in DOMAIN samples, NEW i \in DOMAIN base
  PROVE  CachedMotion(k, i) = samples[k].curves[i].positions
<1>1. pc \in {"open", "write", "check"} /\ cache = BuildCurveCache(CacheInput) /\ Sources /\ minimal \in BOOLEAN
  BY DEF ToolInv
<1>2. PICK in : in = CacheInput
  OBVIOUS
<1>3. in \in InputSet /\ InputFits(in) /\ cache = Blob(in)
  BY <1>1, <1>2, BuiltFromInput
<1>4. PICK n, m, P : n = Len(base) /\ m = Len(samples) /\ P = Len(in.points)
  OBVIOUS
<1>5. base \in Seq(Curves) /\ samples \in Seq(SampleSet)
  BY <1>1, SourcesAre
<1>6. /\ n \in Nat /\ DOMAIN base = 1 .. n /\ i \in 1 .. n
      /\ m \in Nat /\ DOMAIN samples = 1 .. m /\ k \in 1 .. m
      /\ \A j \in 1 .. m : samples[j].curves \in Seq(Curves)
  <2>1. \A s \in SampleSet : s.curves \in Seq(Curves)
    BY DEF SampleSet
  <2>2. /\ n \in Nat /\ DOMAIN base = 1 .. n /\ m \in Nat /\ DOMAIN samples = 1 .. m
        /\ \A j \in 1 .. m : samples[j] \in SampleSet
    BY <1>4, <1>5
  <2> QED
    BY <2>1, <2>2
<1>7. PICK off : IsTotals(off, n, Counts(base))
  BY <1>4, <1>5, CurvesTotal
<1>8. ASSUME NEW j \in 1 .. m
      PROVE  Whole(Positions(samples[j].curves), off, n, Lists(samples[j].curves), Values)
  <2>1. MotionMatches(samples[j].curves)
    BY <1>1, <1>6 DEF Sources
  <2>2. Len(samples[j].curves) = n /\ Counts(samples[j].curves) = Counts(base)
    BY <1>4, <1>5, <1>6, <2>1, MatchedAlike
  <2>3. IsTotals(off, n, Counts(samples[j].curves))
    BY <1>7, <2>2
  <2> QED
    BY <1>6, <2>2, <2>3, CurvesJoined
<1>9. /\ P \in Nat /\ off[n] = P
  <2>1. in.points = Flat(base, PackedCurve)
    BY <1>1, <1>2, <1>5, InputTyped
  <2>2. IsJoined(Flat(base, PackedCurve), off, n, Packs(base), PointSet)
    BY <1>4, <1>5, <1>6, <1>7, CurvesJoined DEF Whole
  <2> QED
    BY <1>4, <2>1, <2>2 DEF IsJoined
<1> DEFINE moved == [j \in 1 .. m |-> Positions(samples[j].curves)]
<1>10. /\ moved \in [1 .. m -> Seq(Values)] /\ in.motion = FlattenSeq(moved)
       /\ \A j \in 1 .. m : Len(moved[j]) = P
  <2>1. \A j \in 1 .. m : Positions(samples[j].curves) \in Seq(Values) /\ Len(Positions(samples[j].curves)) = P
    BY <1>8, <1>9 DEF Whole, IsJoined
  <2>2. in.motion = FlattenSeq(moved)
    BY <1>1, <1>2, <1>5, <1>6, InputTyped
  <2> QED
    BY <2>1, <2>2
<1>11. moved[k] = Positions(samples[k].curves)
  BY <1>6
<1> HIDE DEF moved
<1>12. PICK offm : IsOffsets(offm, m, moved)
  <2>1. \A j \in 1 .. m : Len(moved[j]) \in Nat
    BY <1>9, <1>10
  <2> QED
    BY <1>6, <2>1, OffsetsExist
<1>13. PICK a, u, t : a = (k - 1) * P /\ u = moved[k] /\ t = in.motion
  OBVIOUS
<1>14. Whole(t, offm, m, moved, Values)
  BY <1>6, <1>10, <1>12, <1>13, Flattened DEF Whole
<1>15. t \in Seq(Values) /\ u \in Seq(Values) /\ IsPart(t, a, u)
  <2>1. IsPart(t, offm[k - 1], moved[k])
    BY <1>6, <1>14, PartOfJoined
  <2>2. offm[k - 1] = a
    <3>1. k - 1 \in 0 .. m
      BY <1>6
    <3> QED
      BY <1>6, <1>9, <1>10, <1>12, <1>13, <3>1, EqualLengths DEF AllOfLength
  <2>3. t \in Seq(Values) /\ u \in Seq(Values)
    BY <1>6, <1>10, <1>13, <1>14 DEF Whole, IsJoined
  <2> QED
    BY <1>13, <2>1, <2>2, <2>3
<1>16. PICK b, c, v : b = off[i - 1] /\ c = Count(base[i]) /\ v = samples[k].curves[i].positions
  OBVIOUS
<1>17. v \in Seq(Values) /\ IsPart(u, b, v) /\ Len(v) = c
  <2>1. PICK lists : lists = Lists(samples[k].curves)
    OBVIOUS
  <2>2. Whole(u, off, n, lists, Values)
    BY <1>6, <1>8, <1>11, <1>13, <2>1
  <2>3. IsPart(u, off[i - 1], lists[i])
    BY <1>6, <2>2, PartOfJoined
  <2>4. MotionMatches(samples[k].curves)
    BY <1>1 DEF Sources
  <2>5. /\ Len(samples[k].curves) = n /\ Count(samples[k].curves[i]) = c
    BY <1>4, <1>5, <1>6, <1>16, <2>4, MatchedAlike
  <2>6. DOMAIN samples[k].curves = 1 .. n /\ samples[k].curves[i] \in Curves
    BY <1>6, <2>5
  <2>7. lists[i] = v
    BY <1>6, <1>16, <2>1, <2>6 DEF Lists
  <2>8. v \in Seq(Values) /\ Len(v) = c
    BY <1>16, <2>5, <2>6, CurveIs
  <2> QED
    BY <1>16, <2>3, <2>7, <2>8
<1>18. Start(i) = b
  <2>1. \A j \in 1 .. n : Counts(base)[j] \in Nat /\ Counts(base)[j] = Count(base[j])
    BY <1>5, <1>6, CurveIs DEF Counts
  <2>2. PICK part, l : part = [j \in 1 .. l |-> Count(base[j])] /\ l = i - 1
    OBVIOUS
  <2>3. l \in 0 .. n /\ \A j \in 1 .. l : j \in 1 .. n
    BY <1>6, <2>2
  <2>4. FirstOf(part, l, Counts(base))
    BY <2>1, <2>2, <2>3 DEF FirstOf
  <2>5. Sum(part) = off[l]
    BY <1>6, <1>7, <2>3, <2>4, SumOfFirst
  <2> QED
    BY <1>16, <2>2, <2>5 DEF Start
<1>19. MotionPoints(cache) = t /\ cache.header.points = P
  BY <1>3, <1>4, <1>13, ViewsAreInput, BlobIs
<1>20. CachedMotion(k, i) = SubSeq(t, (a + b) + 1, (a + b) + c)
  BY <1>13, <1>16, <1>18, <1>19 DEF CachedMotion
<1>21. IsPart(t, a + b, v)
  BY <1>15, <1>17, PartOfPart
<1> QED
  BY <1>16, <1>17, <1>20, <1>21 DEF IsPart

LEMMA MotionOfCurves == ToolInv => MotionFollowsItsCurve
<1> SUFFICES ASSUME ToolInv, cache # NoBlob, NEW k \in DOMAIN samples, NEW i \in DOMAIN base
             PROVE  \E c \in Range(samples[k].curves) :
                      c.strand = base[i].strand /\ CachedMotion(k, i) = c.positions
  BY DEF MotionFollowsItsCurve
<1>1. Sources
  BY DEF ToolInv
<1>2. PICK curves : curves = samples[k].curves
  OBVIOUS
<1>3. i \in DOMAIN curves
  <2>1. MotionMatches(curves) /\ base \in Seq(Curves) /\ samples \in Seq(SampleSet)
    BY <1>1, <1>2, SourcesAre DEF Sources
  <2>2. curves \in Seq(Curves)
    <3>1. samples[k] \in SampleSet
      BY <2>1
    <3> QED
      BY <1>2, <3>1 DEF SampleSet
  <2>3. Len(curves) = Len(base)
    BY <2>1, <2>2, MatchedAlike
  <2> QED
    BY <2>1, <2>2, <2>3
<1>4. curves[i] \in Range(curves)
  BY <1>3 DEF Range
<1>5. curves[i].strand = base[i].strand /\ CachedMotion(k, i) = curves[i].positions
  BY <1>1, <1>2, MatchedStrands, MotionPart
<1> QED
  BY <1>2, <1>4, <1>5

\* Every position of a motion sample in a cache is of the curve of the scene in
\* whose place it is, for documents of any size and order: what
\* same_topology_and_order() and has_duplicate_keys() let through has the same
\* curves in the same places, and the builder keeps the places.
THEOREM MotionIsOfItsCurve == Spec => []MotionFollowsItsCurve
<1> QED
  BY InitTool, NextTool, MotionOfCurves, PTL DEF Spec

-----------------------------------------------------------------------------
(* Batches *)

\* A quotient that is rounded up.
LEMMA RoundedUp ==
  ASSUME NEW n \in Nat \ {0}, NEW limit \in Nat \ {0}
  PROVE  LET q == (n + limit - 1) \div limit
         IN q \in Nat /\ q <= n /\ limit * q >= n /\ limit * q < n + limit
  OBVIOUS

\* The batches are those of the multiples of the limit, and the 32 bits of their
\* number and of the first strand of each are enough.
LEMMA BatchIsRange ==
  ASSUME NEW view, NEW limit \in 1 .. CountLimit - 1, view.strands \in 1 .. CountLimit - 1,
         NEW k \in 0 .. BatchCount(view.strands, limit) - 1
  PROVE  /\ k \in Nat /\ k * limit < view.strands
         /\ BatchFirst(k, limit) = k * limit
         /\ BatchEnd(view, k, limit) = IF view.strands < k * limit + limit THEN view.strands ELSE k * limit + limit
<1> DEFINE n == view.strands
           q == (n + limit - 1) \div limit
<1>1. CountLimit \in Nat /\ n \in Nat \ {0} /\ limit \in Nat \ {0} /\ n < CountLimit
  BY CurveCacheAssumption
<1>2. q \in Nat /\ q <= n /\ limit * q < n + limit
  BY <1>1, RoundedUp
<1>3. BatchCount(n, limit) = q
  <2>1. \A m \in Nat : m < CountLimit => m % CountLimit = m
    BY <1>1
  <2>2. q % CountLimit = q
    BY <1>1, <1>2, <2>1
  <2> QED
    BY <2>2 DEF BatchCount
<1>4. k \in Nat /\ k + 1 <= q
  BY <1>2, <1>3
<1>5. limit * (k + 1) <= limit * q
  BY <1>1, <1>2, <1>4
<1>6. k * limit < n /\ k * limit \in Nat
  BY <1>1, <1>2, <1>4, <1>5
<1>7. BatchFirst(k, limit) = k * limit
  BY <1>1, <1>6 DEF BatchFirst
<1> QED
  BY <1>4, <1>6, <1>7 DEF BatchEnd

\* Every strand is in exactly one batch, and no batch is empty or has more than the
\* limit, for any limit that 32 bits can hold (build_curve_batches()).
THEOREM BatchesHaveEveryStrandOnce ==
  ASSUME NEW view, NEW limit \in 1 .. CountLimit - 1,
         view.strands \in 1 .. CountLimit - 1
  PROVE  LET Batches == 0 .. BatchCount(view.strands, limit) - 1
             Has(k, s) == BatchFirst(k, limit) <= s /\ s < BatchEnd(view, k, limit)
         IN /\ \A s \in 0 .. view.strands - 1 : \E k \in Batches : Has(k, s)
            /\ \A s \in 0 .. view.strands - 1 : \A k, j \in Batches : Has(k, s) /\ Has(j, s) => k = j
            /\ \A k \in Batches : BatchEnd(view, k, limit) - BatchFirst(k, limit) \in 1 .. limit
<1> DEFINE n == view.strands
           Batches == 0 .. BatchCount(n, limit) - 1
           Has(k, s) == BatchFirst(k, limit) <= s /\ s < BatchEnd(view, k, limit)
<1>1. CountLimit \in Nat /\ n \in Nat \ {0} /\ limit \in Nat \ {0} /\ n < CountLimit
  BY CurveCacheAssumption
<1>2. ASSUME NEW s \in 0 .. n - 1 PROVE \E k \in Batches : Has(k, s)
  <2>1. PICK k \in Nat : limit * k <= s /\ s < limit * k + limit
    <3>1. s \div limit \in Nat /\ limit * (s \div limit) <= s /\ s < limit * (s \div limit) + limit
      BY <1>1
    <3> QED
      BY <3>1
  <2>2. PICK q \in Nat : q = (n + limit - 1) \div limit /\ q <= n /\ limit * q >= n
    BY <1>1, RoundedUp
  <2>3. BatchCount(n, limit) = q
    BY <1>1, <2>2 DEF BatchCount
  <2>4. k < q
    <3>1. SUFFICES ASSUME q <= k PROVE FALSE
      OBVIOUS
    <3>2. limit * q <= limit * k
      BY <1>1, <2>1, <2>2, <3>1
    <3> QED
      BY <1>1, <2>1, <2>2, <3>2
  <2>5. k \in Batches
    BY <2>1, <2>2, <2>3, <2>4
  <2>6. k * limit = limit * k /\ limit * k \in Nat
    BY <1>1, <2>1
  <2>7. Has(k, s)
    BY <1>1, <2>1, <2>5, <2>6, BatchIsRange
  <2> QED
    BY <2>5, <2>7
<1>3. ASSUME NEW s \in 0 .. n - 1, NEW k \in Batches, NEW j \in Batches, Has(k, s), Has(j, s) PROVE k = j
  <2>1. /\ k \in Nat /\ k * limit <= s /\ s < k * limit + limit
        /\ j \in Nat /\ j * limit <= s /\ s < j * limit + limit
    BY <1>1, <1>3, BatchIsRange
  <2>2. ASSUME NEW a \in Nat, NEW b \in Nat, a < b PROVE a * limit + limit <= b * limit
    BY <1>1, <2>2
  <2> QED
    BY <1>1, <2>1, <2>2
<1>4. ASSUME NEW k \in Batches PROVE BatchEnd(view, k, limit) - BatchFirst(k, limit) \in 1 .. limit
  <2>1. k \in Nat /\ k * limit \in Nat
    BY <1>1, BatchIsRange
  <2> QED
    BY <1>1, <2>1, BatchIsRange
<1> QED
  BY <1>2, <1>3, <1>4

LEMMA TotalsSame ==
  ASSUME NEW n \in Nat, NEW counts, NEW off, NEW other, IsTotals(off, n, counts), IsTotals(other, n, counts)
  PROVE  off = other
<1> DEFINE T == {m \in 0 .. n : off[m] = other[m]}
<1>1. 0 \in T
  BY DEF IsTotals
<1>2. ASSUME NEW m \in 1 .. n, m - 1 \in T PROVE m \in T
  BY <1>2 DEF IsTotals
<1>3. \A m \in 0 .. n : off[m] = other[m]
  <2>1. \A m \in 0 .. n : m \in T
    <3> HIDE DEF T
    <3> QED
      BY <1>1, <1>2, Induct
  <2> QED
    BY <2>1
<1> QED
  BY <1>3 DEF IsTotals

\* What a batch says of its strand i.
StrandAt(b, n, off, points, skip, i, v) ==
  /\ n \in Nat /\ b.counts \in [1 .. n -> Nat] /\ IsTotals(off, n, b.counts)
  /\ skip \in Nat /\ i \in 1 .. n /\ Len(v) = b.counts[i] /\ IsPart(points, skip + off[i - 1], v)

LEMMA PartOfStrand ==
  ASSUME NEW b, NEW n, NEW off, NEW points, NEW skip, NEW i, NEW v, StrandAt(b, n, off, points, skip, i, v)
  PROVE  Part(b, points, skip, i) = v
<1>0. /\ n \in Nat /\ b.counts \in [1 .. n -> Nat] /\ IsTotals(off, n, b.counts)
      /\ skip \in Nat /\ i \in 1 .. n /\ Len(v) = b.counts[i] /\ IsPart(points, skip + off[i - 1], v)
  BY DEF StrandAt
<1>1. PICK counts, l : counts = b.counts /\ l = i - 1
  OBVIOUS
<1>2. l \in 0 .. n /\ counts \in Seq(Nat) /\ Len(counts) = n
  BY <1>0, <1>1
<1>3. PICK some : some = SubSeq(counts, 1, l)
  OBVIOUS
<1>4. FirstOf(some, l, counts)
  <2>1. 0 \in Nat /\ l \in Nat /\ 0 + l <= Len(counts) /\ 0 + 1 = 1 /\ 0 + l = l
    BY <1>2
  <2>2. /\ SubSeq(counts, 0 + 1, 0 + l) \in Seq(Nat) /\ DOMAIN SubSeq(counts, 0 + 1, 0 + l) = 1 .. l
        /\ \A k \in 1 .. l : SubSeq(counts, 0 + 1, 0 + l)[k] = counts[0 + k]
    BY <1>2, <2>1, PartIs
  <2>3. some \in Seq(Nat) /\ DOMAIN some = 1 .. l /\ \A k \in 1 .. l : some[k] = counts[0 + k]
    BY <1>3, <2>1, <2>2
  <2>4. \A k \in 1 .. l : 0 + k = k /\ counts[k] \in Nat
    BY <1>1, <1>2
  <2>5. some = [k \in 1 .. l |-> some[k]]
    BY <2>3
  <2> QED
    BY <2>3, <2>4, <2>5 DEF FirstOf
<1>5. Sum(some) = off[l]
  BY <1>0, <1>1, <1>2, <1>4, SumOfFirst
<1>6. PICK first : first = skip + off[l]
  OBVIOUS
<1>7. Part(b, points, skip, i) = SubSeq(points, first + 1, first + counts[i])
  BY <1>1, <1>3, <1>5, <1>6 DEF Part
<1> QED
  BY <1>0, <1>1, <1>6, <1>7 DEF IsPart

-----------------------------------------------------------------------------
(* The strands of a batch *)

\* What build_curve_batches() takes.
Suits(view, motion, floats, p) ==
  /\ view.strands \in 1 .. CountLimit - 1 /\ p.limit \in 1 .. CountLimit - 1
  /\ \A s \in 0 .. view.strands - 1 : BatchCurveCount(view, s, p) \in Nat
  /\ view.rootUVs \in Seq(Int) /\ Len(view.rootUVs) = view.strands
  /\ DOMAIN floats = {1} /\ floats[1] = [name |-> floats[1].name, values |-> floats[1].values]
  /\ floats[1].values \in Seq(Nat) /\ Len(floats[1].values) = view.strands
  /\ Len(motion) \in Nat /\ DOMAIN motion = 1 .. Len(motion)

\* What a batch says of strand s, whichever batch it is.
Ideal(view, motion, floats, p, s) ==
  [count |-> BatchCurveCount(view, s, p), points |-> StrandPoints(view, s, p), rootUV |-> view.rootUVs[s + 1],
   id |-> floats[1].values[s + 1],
   motion |-> [k \in DOMAIN motion |-> StrandMotion(motion[k], view, s, p)]]

\* The strands of batch k, counted from 1, are those from First to First + Room - 1.
First(p, k) == (k - 1) * p.limit
Room(view, p, k) == BatchEnd(view, k - 1, p.limit) - BatchFirst(k - 1, p.limit)
Number(view, p) == BatchCount(view.strands, p.limit)

LEMMA Rooms ==
  ASSUME NEW view, NEW motion, NEW floats, NEW p, Suits(view, motion, floats, p), NEW k \in 1 .. Number(view, p)
  PROVE  /\ BatchFirst(k - 1, p.limit) = First(p, k) /\ First(p, k) \in Nat
         /\ BatchEnd(view, k - 1, p.limit) = First(p, k) + Room(view, p, k)
         /\ Room(view, p, k) \in 1 .. p.limit /\ First(p, k) + Room(view, p, k) <= view.strands
         /\ k < Number(view, p) => Room(view, p, k) = p.limit
         /\ k = Number(view, p) => First(p, k) + Room(view, p, k) = view.strands
<1>1. PICK L, n, q : L = p.limit /\ n = view.strands /\ q = Number(view, p)
  OBVIOUS
<1>2. L \in 1 .. CountLimit - 1 /\ n \in 1 .. CountLimit - 1 /\ view.strands \in 1 .. CountLimit - 1
  BY <1>1 DEF Suits
<1>3. CountLimit \in Nat /\ n \in Nat \ {0} /\ L \in Nat \ {0} /\ n < CountLimit
  BY <1>2, CurveCacheAssumption
<1>4. /\ q \in Nat /\ L * q >= n
  <2>1. PICK d : d = (n + L - 1) \div L
    OBVIOUS
  <2>2. d \in Nat /\ d <= n /\ L * d >= n
    BY <1>3, <2>1, RoundedUp
  <2>3. q = d % CountLimit
    BY <1>1, <2>1 DEF Number, BatchCount
  <2>4. d % CountLimit = d
    BY <1>3, <2>2
  <2> QED
    BY <2>2, <2>3, <2>4
<1>5. k \in Nat /\ k >= 1 /\ k <= q
  BY <1>1, <1>4
<1>6. PICK j, f, e : j = k - 1 /\ f = BatchFirst(k - 1, L) /\ e = BatchEnd(view, k - 1, L)
  OBVIOUS
<1>7. /\ j \in Nat /\ j * L < n /\ f = j * L /\ j * L \in Nat
      /\ e = IF n < j * L + L THEN n ELSE j * L + L
  <2>1. j \in 0 .. BatchCount(view.strands, L) - 1
    BY <1>1, <1>4, <1>5, <1>6 DEF Number
  <2>2. /\ j \in Nat /\ j * L < view.strands /\ BatchFirst(j, L) = j * L
        /\ BatchEnd(view, j, L) = IF view.strands < j * L + L THEN view.strands ELSE j * L + L
    BY <1>2, <2>1, BatchIsRange
  <2> QED
    BY <1>1, <1>3, <1>6, <2>2
<1>8. ASSUME k < q PROVE j * L + L < n
  <2>1. k \in 0 .. BatchCount(view.strands, L) - 1
    BY <1>1, <1>4, <1>5, <1>8 DEF Number
  <2>2. k * L < n
    BY <1>1, <1>2, <2>1, BatchIsRange
  <2>3. k * L = j * L + L
    BY <1>3, <1>5, <1>6
  <2> QED
    BY <2>2, <2>3
<1>9. ASSUME k = q PROVE n <= j * L + L
  <2>1. L * q = j * L + L
    BY <1>3, <1>5, <1>6, <1>9
  <2> QED
    BY <1>4, <2>1
<1>10. PICK x : x = j * L
  OBVIOUS
<1>11. /\ x \in Nat /\ x < n /\ f = x /\ e = IF n < x + L THEN n ELSE x + L
       /\ k < q => x + L < n
       /\ k = q => n <= x + L
  BY <1>7, <1>8, <1>9, <1>10
<1>12. /\ e - f \in 1 .. L /\ x + (e - f) = e /\ e <= n
       /\ k < q => e - f = L
       /\ k = q => e = n
  BY <1>3, <1>11
<1>13. First(p, k) = x /\ Room(view, p, k) = e - f
  BY <1>1, <1>6, <1>10 DEF First, Room
<1> QED
  BY <1>1, <1>6, <1>11, <1>12, <1>13

LEMMA PointsShape ==
  ASSUME NEW view, NEW s, NEW p, NEW n, n = BatchCurveCount(view, s, p)
  PROVE  /\ DOMAIN StrandPoints(view, s, p) = 1 .. n
         /\ StrandPoints(view, s, p) = [c \in 1 .. n |-> StrandPoints(view, s, p)[c]]
  BY DEF StrandPoints

LEMMA MotionShape ==
  ASSUME NEW m, NEW view, NEW s, NEW p, NEW n, n = BatchCurveCount(view, s, p)
  PROVE  /\ DOMAIN StrandMotion(m, view, s, p) = 1 .. n
         /\ StrandMotion(m, view, s, p) = [c \in 1 .. n |-> StrandMotion(m, view, s, p)[c]]
  BY DEF StrandMotion

\* The strands of batch k as the code puts them together.
Of(view, p, k, i) == First(p, k) + i - 1

PointLists(view, p, k) == [i \in 1 .. Room(view, p, k) |-> StrandPoints(view, Of(view, p, k, i), p)]
MotionLists(m, view, p, k) == [i \in 1 .. Room(view, p, k) |-> StrandMotion(m, view, Of(view, p, k, i), p)]
BatchCounts(view, p, k) == [i \in 1 .. Room(view, p, k) |-> BatchCurveCount(view, Of(view, p, k, i), p)]

\* Batch k, counted from 1.
IsBatch(b, view, motion, floats, p, k) ==
  /\ b.first = First(p, k)
  /\ b.counts = BatchCounts(view, p, k)
  /\ b.rootUVs = SubSeq(view.rootUVs, First(p, k) + 1, First(p, k) + Room(view, p, k))
  /\ b.points = FlattenSeq(PointLists(view, p, k))
  /\ DOMAIN b.times = DOMAIN motion
  /\ b.motion = FlattenSeq([j \in DOMAIN motion |-> FlattenSeq(MotionLists(motion[j], view, p, k))])
  /\ b.floats[1].values = SubSeq(floats[1].values, First(p, k) + 1, First(p, k) + Room(view, p, k))

LEMMA SliceIs ==
  ASSUME NEW name, NEW values, NEW r, r = [name |-> name, values |-> values], NEW first, NEW end
  PROVE  [r EXCEPT !.values = SubSeq(@, first, end)].values = SubSeq(values, first, end)
  OBVIOUS

LEMMA BatchIs ==
  ASSUME NEW view, NEW motion, NEW floats, NEW p, Suits(view, motion, floats, p), NEW k \in 1 .. Number(view, p),
         NEW b, b = Batch(k - 1, view, motion, floats, <<>>, p)
  PROVE  IsBatch(b, view, motion, floats, p, k)
<1>1. PICK first, end, room : first = First(p, k) /\ end = first + Room(view, p, k) /\ room = Room(view, p, k)
  OBVIOUS
<1>2. BatchFirst(k - 1, p.limit) = first /\ BatchEnd(view, k - 1, p.limit) = end /\ end - first = room
  BY <1>1, Rooms DEF Room
<1>3. view.rootUVs # <<>>
  <2>1. view.rootUVs \in Seq(Int) /\ Len(view.rootUVs) # 0
    BY DEF Suits
  <2> QED
    BY <2>1
<1>5. /\ b.first = first
      /\ b.counts = [i \in 1 .. room |-> BatchCurveCount(view, first + i - 1, p)]
      /\ b.rootUVs = SubSeq(view.rootUVs, first + 1, end)
      /\ b.points = FlattenSeq([i \in 1 .. room |-> StrandPoints(view, first + i - 1, p)])
  BY <1>2, <1>3 DEF Batch
<1>6. /\ b.times = [i \in DOMAIN motion |-> motion[i].time]
      /\ b.motion = FlattenSeq([j \in DOMAIN motion |->
                      FlattenSeq([i \in 1 .. room |-> StrandMotion(motion[j], view, first + i - 1, p)])])
  BY <1>2 DEF Batch
<1>7. b.floats = Slice(floats, first, end)
  BY <1>2 DEF Batch
<1>8. b.floats[1].values = SubSeq(floats[1].values, first + 1, end)
  <2>1. DOMAIN floats = {1} /\ 1 \in {1}
    BY DEF Suits
  <2>2. PICK r, name, values : r = floats[1] /\ name = r.name /\ values = r.values
    OBVIOUS
  <2>3. r = [name |-> name, values |-> values]
    BY <2>2 DEF Suits
  <2>4. b.floats = [i \in DOMAIN floats |-> [floats[i] EXCEPT !.values = SubSeq(@, first + 1, end)]]
    BY <1>7 DEF Slice
  <2>5. b.floats[1] = [r EXCEPT !.values = SubSeq(@, first + 1, end)]
    BY <2>1, <2>2, <2>4
  <2>6. [r EXCEPT !.values = SubSeq(@, first + 1, end)].values = SubSeq(values, first + 1, end)
    BY <2>3, SliceIs
  <2> QED
    BY <2>2, <2>5, <2>6
<1> QED
  BY <1>1, <1>5, <1>6, <1>8 DEF IsBatch, Of, PointLists, MotionLists, BatchCounts

\* Sequences of sequences, all of them with the same lengths.
AreLists(lists, n, room, counts) == \A j \in 1 .. n : AreSeqs(lists[j], room, counts)

JoinedAre(q, size, room, n, counts, off, lists) ==
  /\ room \in Nat /\ n \in Nat /\ IsTotals(off, room, counts) /\ AreLists(lists, n, room, counts)
  /\ q = [j \in 1 .. n |-> FlattenSeq(lists[j])] /\ size = off[room]

LEMMA JoinedTwice ==
  ASSUME NEW room, NEW n, NEW counts, NEW off, NEW lists, NEW q, NEW size,
         JoinedAre(q, size, room, n, counts, off, lists), NEW j \in 1 .. n, NEW i \in 1 .. room
  PROVE  IsPart(FlattenSeq(q), (j - 1) * size + off[i - 1], lists[j][i]) /\ Len(lists[j][i]) = counts[i]
<1>0. /\ room \in Nat /\ n \in Nat /\ IsTotals(off, room, counts) /\ AreLists(lists, n, room, counts)
      /\ q = [m \in 1 .. n |-> FlattenSeq(lists[m])] /\ size = off[room]
  BY DEF JoinedAre
<1>1. size \in Nat
  BY <1>0 DEF IsTotals
<1>2. ASSUME NEW m \in 1 .. n
      PROVE  /\ \E X : Whole(q[m], off, room, lists[m], X)
             /\ \A c \in 1 .. room : Len(lists[m][c]) = counts[c]
             /\ DOMAIN q[m] = 1 .. size /\ q[m] = [c \in 1 .. size |-> q[m][c]]
  <2>1. AreSeqs(lists[m], room, counts)
    BY <1>0 DEF AreLists
  <2>2. \E X : \E o : /\ Whole(FlattenSeq(lists[m]), o, room, lists[m], X) /\ IsTotals(o, room, counts)
                      /\ \A c \in 1 .. room : Len(lists[m][c]) = counts[c]
    BY <1>0, <2>1, WholeIs
  <2>3. PICK X, o : /\ Whole(FlattenSeq(lists[m]), o, room, lists[m], X) /\ IsTotals(o, room, counts)
                    /\ \A c \in 1 .. room : Len(lists[m][c]) = counts[c]
    BY <1>0, <2>2
  <2>4. o = off
    BY <1>0, <2>3, TotalsSame, Zenon
  <2>5. q[m] = FlattenSeq(lists[m])
    BY <1>0
  <2>6. q[m] \in Seq(X) /\ Len(q[m]) = size
    BY <1>0, <2>3, <2>4, <2>5 DEF Whole, IsJoined
  <2>7. DOMAIN q[m] = 1 .. size /\ q[m] = [c \in 1 .. size |-> q[m][c]]
    BY <1>0, <1>1, <2>6
  <2> QED
    BY <1>0, <2>3, <2>4, <2>5, <2>7
<1>3. PICK sizes : sizes = [m \in 1 .. n |-> size]
  OBVIOUS
<1>4. AreSeqs(q, n, sizes)
  <2>1. DOMAIN q = 1 .. n /\ q = [m \in 1 .. n |-> q[m]]
    BY <1>0
  <2>2. \A m \in 1 .. n : sizes[m] = size
    BY <1>0, <1>3
  <2> QED
    BY <1>0, <1>1, <1>2, <2>1, <2>2 DEF AreSeqs
<1>5. PICK Y, o : /\ Whole(FlattenSeq(q), o, n, q, Y) /\ \A m \in 1 .. n : Len(q[m]) = sizes[m]
  <2>1. \E Y : \E o : /\ Whole(FlattenSeq(q), o, n, q, Y) /\ IsTotals(o, n, sizes)
                      /\ \A m \in 1 .. n : Len(q[m]) = sizes[m]
    BY <1>0, <1>4, WholeIs
  <2> QED
    BY <1>0, <2>1
<1>6. o[j - 1] = (j - 1) * size
  <2>1. IsOffsets(o, n, q) /\ \A m \in 1 .. n : Len(q[m]) = size
    BY <1>0, <1>3, <1>5 DEF Whole
  <2>2. PICK l : l = j - 1
    OBVIOUS
  <2>3. l \in 0 .. n
    BY <1>0, <2>2
  <2>4. o[l] = l * size
    <3>1. IsOffsets(o, n, q)
      BY <1>0, <2>1
    <3>2. AllOfLength(q, n, size)
      BY <1>0, <2>1 DEF AllOfLength
    <3> QED
      BY <1>0, <1>1, <2>3, <3>1, <3>2, EqualLengths
  <2> QED
    BY <1>0, <2>2, <2>4
<1>7. PICK t, u, v, a : t = FlattenSeq(q) /\ u = q[j] /\ v = lists[j][i] /\ a = (j - 1) * size
  OBVIOUS
<1>8. IsPart(t, a, u)
  <2>1. IsPart(FlattenSeq(q), o[j - 1], q[j])
    BY <1>0, <1>5, PartOfJoined
  <2> QED
    BY <1>0, <1>6, <1>7, <2>1
<1>9. IsPart(u, off[i - 1], v)
  <2>1. PICK X : Whole(u, off, room, lists[j], X)
    BY <1>0, <1>2, <1>7
  <2>2. IsPart(u, off[i - 1], lists[j][i])
    BY <1>0, <2>1, PartOfJoined
  <2> QED
    BY <1>0, <1>7, <2>2
<1>10. t \in Seq(Y) /\ u \in Seq(Y)
  BY <1>0, <1>5, <1>7 DEF Whole, IsJoined
<1>11. v \in Seq(Y)
  <2>1. PICK f, l : f = off[i - 1] /\ l = Len(v)
    OBVIOUS
  <2>2. f \in Nat /\ f + l <= Len(u) /\ SubSeq(u, f + 1, f + l) = v
    BY <1>0, <1>9, <2>1 DEF IsPart
  <2>3. l \in Nat
    <3>1. Len(v) = counts[i]
      BY <1>0, <1>2, <1>7
    <3>2. counts[i] \in Nat
      BY <1>0 DEF AreLists, AreSeqs
    <3> QED
      BY <1>0, <2>1, <3>1, <3>2
  <2>4. SubSeq(u, f + 1, f + l) \in Seq(Y)
    BY <1>0, <1>10, <2>2, <2>3, PartIs
  <2> QED
    BY <1>0, <2>2, <2>4
<1>12. IsPart(t, a + off[i - 1], v)
  BY <1>0, <1>8, <1>9, <1>10, <1>11, PartOfPart
<1>13. Len(v) = counts[i]
  BY <1>0, <1>2, <1>7
<1> QED
  BY <1>0, <1>7, <1>12, <1>13

\* What a batch says of its strands is what it would say of them in any other.
LEMMA StrandIs ==
  ASSUME NEW view, NEW motion, NEW floats, NEW p, Suits(view, motion, floats, p), NEW k \in 1 .. Number(view, p),
         NEW b, b = Batch(k - 1, view, motion, floats, <<>>, p)
  PROVE  /\ b.first = First(p, k) /\ DOMAIN b.counts = 1 .. Room(view, p, k) /\ Len(b.counts) = Room(view, p, k)
         /\ \A i \in 1 .. Room(view, p, k) :
              StrandOf(b, i) = Ideal(view, motion, floats, p, Of(view, p, k, i))
<1>0. IsBatch(b, view, motion, floats, p, k)
  BY BatchIs, Zenon
<1>1. PICK room, first : room = Room(view, p, k) /\ first = First(p, k)
  OBVIOUS
<1>2. /\ room \in Nat /\ first \in Nat /\ first + room <= view.strands /\ view.strands \in Nat
      /\ p.limit \in Nat
  <2>1. view.strands \in Nat /\ p.limit \in Nat
    BY CurveCacheAssumption DEF Suits
  <2>2. room \in 1 .. p.limit /\ first \in Nat /\ first + room <= view.strands
    BY <1>1, Rooms
  <2> QED
    BY <2>1, <2>2
<1> DEFINE at(i) == Of(view, p, k, i)
<1>3. ASSUME NEW i \in 1 .. room
      PROVE  /\ at(i) \in 0 .. view.strands - 1 /\ at(i) + 1 = first + i
             /\ BatchCurveCount(view, at(i), p) \in Nat
  <2>1. at(i) = first + i - 1
    BY <1>1 DEF Of
  <2>2. at(i) \in 0 .. view.strands - 1 /\ at(i) + 1 = first + i
    BY <1>2, <2>1
  <2> HIDE DEF at
  <2> QED
    BY <2>2 DEF Suits
<1> HIDE DEF at
<1>4. PICK counts : counts = BatchCounts(view, p, k)
  OBVIOUS
<1>5. /\ counts \in [1 .. room -> Nat] /\ b.counts = counts /\ b.first = first
      /\ \A i \in 1 .. room : counts[i] = BatchCurveCount(view, at(i), p)
  <2>1. counts = [i \in 1 .. room |-> BatchCurveCount(view, at(i), p)]
    BY <1>1, <1>4 DEF BatchCounts, at
  <2>2. b.counts = counts /\ b.first = first
    BY <1>0, <1>1, <1>4 DEF IsBatch
  <2> QED
    BY <1>3, <2>1, <2>2
<1>6. Len(b.counts) = room
  BY <1>2, <1>5
<1>7. PICK lists : lists = PointLists(view, p, k)
  OBVIOUS
<1>8. /\ AreSeqs(lists, room, counts)
      /\ \A i \in 1 .. room : lists[i] = StrandPoints(view, at(i), p)
  <2>1. lists = [i \in 1 .. room |-> StrandPoints(view, at(i), p)]
    BY <1>1, <1>7 DEF PointLists, at
  <2>2. ASSUME NEW i \in 1 .. room
        PROVE  /\ counts[i] \in Nat /\ lists[i] = StrandPoints(view, at(i), p)
               /\ DOMAIN lists[i] = 1 .. counts[i] /\ lists[i] = [c \in 1 .. counts[i] |-> lists[i][c]]
    BY <1>3, <1>5, <2>1, PointsShape
  <2> QED
    BY <2>1, <2>2 DEF AreSeqs
<1>9. PICK X, off : /\ Whole(FlattenSeq(lists), off, room, lists, X) /\ IsTotals(off, room, counts)
                    /\ \A i \in 1 .. room : Len(lists[i]) = counts[i]
  <2>1. \E X : \E off : /\ Whole(FlattenSeq(lists), off, room, lists, X) /\ IsTotals(off, room, counts)
                        /\ \A i \in 1 .. room : Len(lists[i]) = counts[i]
    BY <1>2, <1>8, WholeIs
  <2> QED
    BY <2>1
<1>10. PICK points, size : points = b.points /\ size = Len(b.points)
  OBVIOUS
<1>11. points = FlattenSeq(lists) /\ size = off[room] /\ size \in Nat
  <2>1. points = FlattenSeq(lists)
    BY <1>0, <1>7, <1>10 DEF IsBatch
  <2>2. size = off[room]
    BY <1>9, <1>10, <2>1 DEF Whole, IsJoined
  <2>3. off[room] \in Nat
    BY <1>2, <1>9 DEF IsTotals
  <2> QED
    BY <2>1, <2>2, <2>3
<1>12. ASSUME NEW i \in 1 .. room PROVE Part(b, points, 0, i) = StrandPoints(view, at(i), p)
  <2>1. IsPart(points, off[i - 1], lists[i])
    BY <1>2, <1>9, <1>11, PartOfJoined
  <2>2. off[i - 1] \in Nat /\ 0 + off[i - 1] = off[i - 1]
    BY <2>1 DEF IsPart
  <2>3. IsPart(points, 0 + off[i - 1], lists[i]) /\ Len(lists[i]) = b.counts[i]
    BY <1>5, <1>9, <2>1, <2>2
  <2>4. b.counts \in [1 .. room -> Nat] /\ IsTotals(off, room, b.counts) /\ 0 \in Nat
    BY <1>5, <1>9
  <2>5. PICK skip, n : skip = 0 /\ n = room
    OBVIOUS
  <2>6. Part(b, points, skip, i) = lists[i]
    <3>1. StrandAt(b, n, off, points, skip, i, lists[i])
      BY <1>2, <2>3, <2>4, <2>5 DEF StrandAt
    <3> QED
      BY <3>1, PartOfStrand, Zenon
  <2> QED
    BY <1>8, <2>5, <2>6
<1>13. PICK times, n : times = b.times /\ n = Len(motion)
  OBVIOUS
<1>14. n \in Nat /\ DOMAIN motion = 1 .. n /\ DOMAIN times = 1 .. n
  BY <1>0, <1>13 DEF IsBatch, Suits
<1>15. PICK mine : mine = [j \in 1 .. n |-> MotionLists(motion[j], view, p, k)]
  OBVIOUS
<1>16. /\ AreLists(mine, n, room, counts)
       /\ \A j \in 1 .. n : \A i \in 1 .. room : mine[j][i] = StrandMotion(motion[j], view, at(i), p)
  <2>1. ASSUME NEW j \in 1 .. n
        PROVE  mine[j] = [i \in 1 .. room |-> StrandMotion(motion[j], view, at(i), p)]
    BY <1>1, <1>15 DEF MotionLists, at
  <2>2. ASSUME NEW j \in 1 .. n, NEW i \in 1 .. room
        PROVE  /\ counts[i] \in Nat /\ mine[j][i] = StrandMotion(motion[j], view, at(i), p)
               /\ DOMAIN mine[j][i] = 1 .. counts[i] /\ mine[j][i] = [c \in 1 .. counts[i] |-> mine[j][i][c]]
    <3>1. PICK m, s : m = motion[j] /\ s = at(i)
      OBVIOUS
    <3>2. counts[i] = BatchCurveCount(view, s, p) /\ counts[i] \in Nat
      BY <1>5, <3>1
    <3>3. /\ DOMAIN StrandMotion(m, view, s, p) = 1 .. counts[i]
          /\ StrandMotion(m, view, s, p) = [c \in 1 .. counts[i] |-> StrandMotion(m, view, s, p)[c]]
      BY <3>2, MotionShape
    <3>4. mine[j][i] = StrandMotion(m, view, s, p)
      BY <2>1, <3>1
    <3> QED
      BY <3>1, <3>2, <3>3, <3>4
  <2>3. ASSUME NEW j \in 1 .. n PROVE AreSeqs(mine[j], room, counts)
    <3>1. DOMAIN mine[j] = 1 .. room /\ mine[j] = [i \in 1 .. room |-> mine[j][i]]
      BY <2>1
    <3> QED
      BY <2>2, <3>1 DEF AreSeqs
  <2> QED
    BY <2>2, <2>3 DEF AreLists
<1>17. PICK q, all : q = [j \in 1 .. n |-> FlattenSeq(mine[j])] /\ all = b.motion
  OBVIOUS
<1>18. all = FlattenSeq(q)
  <2>1. \A j \in 1 .. n : mine[j] = MotionLists(motion[j], view, p, k)
    BY <1>15
  <2>2. all = FlattenSeq([j \in 1 .. n |-> FlattenSeq(MotionLists(motion[j], view, p, k))])
    BY <1>0, <1>14, <1>17 DEF IsBatch
  <2>3. q = [j \in 1 .. n |-> FlattenSeq(MotionLists(motion[j], view, p, k))]
    BY <1>17, <2>1
  <2> QED
    BY <2>2, <2>3
<1>19. ASSUME NEW i \in 1 .. room, NEW j \in 1 .. n
       PROVE  Part(b, all, (j - 1) * size, i) = StrandMotion(motion[j], view, at(i), p)
  <2>1. IsPart(FlattenSeq(q), (j - 1) * size + off[i - 1], mine[j][i]) /\ Len(mine[j][i]) = counts[i]
    <3>1. JoinedAre(q, size, room, n, counts, off, mine)
      BY <1>2, <1>9, <1>11, <1>14, <1>16, <1>17 DEF JoinedAre
    <3> QED
      BY <3>1, JoinedTwice
  <2>2. PICK skip, v, m : skip = (j - 1) * size /\ v = mine[j][i] /\ m = room
    OBVIOUS
  <2>3. skip \in Nat
    BY <1>11, <1>14, <2>2
  <2>4. StrandAt(b, m, off, all, skip, i, v)
    BY <1>2, <1>5, <1>9, <1>18, <2>1, <2>2, <2>3 DEF StrandAt
  <2>5. Part(b, all, skip, i) = v
    BY <2>4, PartOfStrand, Zenon
  <2> QED
    BY <1>16, <2>2, <2>5
<1>20. ASSUME NEW i \in 1 .. room
       PROVE  b.rootUVs[i] = view.rootUVs[at(i) + 1] /\ b.floats[1].values[i] = floats[1].values[at(i) + 1]
  <2>1. PICK uvs, ids : uvs = view.rootUVs /\ ids = floats[1].values
    OBVIOUS
  <2>2. uvs \in Seq(Int) /\ Len(uvs) = view.strands /\ ids \in Seq(Nat) /\ Len(ids) = view.strands
    BY <2>1 DEF Suits
  <2>3. b.rootUVs = SubSeq(uvs, first + 1, first + room) /\ b.floats[1].values = SubSeq(ids, first + 1, first + room)
    BY <1>0, <1>1, <2>1 DEF IsBatch
  <2>4. first + room <= Len(uvs) /\ first + room <= Len(ids)
    BY <1>2, <2>2
  <2>5. \A m \in 1 .. room : SubSeq(uvs, first + 1, first + room)[m] = uvs[first + m]
    BY <1>2, <2>2, <2>4, PartIs
  <2>6. \A m \in 1 .. room : SubSeq(ids, first + 1, first + room)[m] = ids[first + m]
    BY <1>2, <2>2, <2>4, PartIs
  <2> QED
    BY <1>3, <2>1, <2>3, <2>5, <2>6
<1>21. ASSUME NEW i \in 1 .. room
       PROVE  StrandOf(b, i) = Ideal(view, motion, floats, p, at(i))
  <2>1. b.counts[i] = BatchCurveCount(view, at(i), p)
    BY <1>5
  <2>2. Part(b, b.points, 0, i) = StrandPoints(view, at(i), p)
    BY <1>10, <1>12
  <2>3. [j \in DOMAIN b.times |-> Part(b, b.motion, (j - 1) * Len(b.points), i)]
          = [j \in DOMAIN motion |-> StrandMotion(motion[j], view, at(i), p)]
    BY <1>10, <1>13, <1>14, <1>17, <1>19
  <2> QED
    BY <1>20, <2>1, <2>2, <2>3 DEF StrandOf, Ideal
<1>22. DOMAIN b.counts = 1 .. room
  BY <1>5
<1> QED
  BY <1>1, <1>5, <1>6, <1>21, <1>22 DEF at

-----------------------------------------------------------------------------
(* The batches, one after the other *)

AreBatches(bs, view, motion, floats, p) ==
  bs = [k \in 1 .. Number(view, p) |-> Batch(k - 1, view, motion, floats, <<>>, p)]

Rooming(view, p) == [k \in 1 .. Number(view, p) |-> Room(view, p, k)]

LEMMA NumberIs ==
  ASSUME NEW view, NEW motion, NEW floats, NEW p, Suits(view, motion, floats, p)
  PROVE  /\ Number(view, p) \in Nat /\ Number(view, p) >= 1
         /\ p.limit \in Nat /\ p.limit >= 1 /\ view.strands \in Nat
<1>1. PICK L, n, q : L = p.limit /\ n = view.strands /\ q = Number(view, p)
  OBVIOUS
<1>2. L \in 1 .. CountLimit - 1 /\ n \in 1 .. CountLimit - 1
  BY <1>1 DEF Suits
<1>3. CountLimit \in Nat /\ n \in Nat \ {0} /\ L \in Nat \ {0} /\ n < CountLimit
  BY <1>2, CurveCacheAssumption
<1>4. PICK d : d = (n + L - 1) \div L
  OBVIOUS
<1>5. d \in Nat /\ d <= n /\ L * d >= n
  BY <1>3, <1>4, RoundedUp
<1>6. q = d % CountLimit
  BY <1>1, <1>4 DEF Number, BatchCount
<1>7. d % CountLimit = d
  BY <1>3, <1>5
<1>8. d # 0
  <2>1. L * 0 = 0
    BY <1>3
  <2> QED
    BY <1>3, <1>5, <2>1
<1> QED
  BY <1>1, <1>3, <1>5, <1>6, <1>7, <1>8

\* Batch k begins behind k - 1 full ones, and the last one ends with the curves.
LEMMA RoomsTotal ==
  ASSUME NEW view, NEW motion, NEW floats, NEW p, Suits(view, motion, floats, p),
         NEW off, IsTotals(off, Number(view, p), Rooming(view, p))
  PROVE  /\ \A k \in 1 .. Number(view, p) : off[k - 1] = First(p, k)
         /\ off[Number(view, p)] = view.strands
<1>1. PICK q, L, rooms, n : /\ q = Number(view, p) /\ L = p.limit /\ rooms = Rooming(view, p)
                            /\ n = view.strands
  OBVIOUS
<1>2. q \in Nat /\ q >= 1 /\ L \in Nat /\ n \in Nat /\ IsTotals(off, q, rooms)
  BY <1>1, NumberIs
<1>3. ASSUME NEW k \in 1 .. q
      PROVE  /\ rooms[k] \in Nat /\ First(p, k) \in Nat
             /\ k < q => rooms[k] = L
             /\ k = q => First(p, k) + rooms[k] = n
  <2>1. rooms[k] = Room(view, p, k)
    BY <1>1 DEF Rooming
  <2>2. /\ First(p, k) \in Nat /\ Room(view, p, k) \in 1 .. p.limit
        /\ k < Number(view, p) => Room(view, p, k) = p.limit
        /\ k = Number(view, p) => First(p, k) + Room(view, p, k) = view.strands
    BY <1>1, Rooms
  <2> QED
    BY <1>1, <1>2, <2>1, <2>2
<1> DEFINE T == {m \in 0 .. q : m < q => off[m] = m * L}
<1>4. 0 \in T
  BY <1>2 DEF IsTotals
<1>5. ASSUME NEW m \in 1 .. q, m - 1 \in T PROVE m \in T
  <2>1. ASSUME m < q PROVE off[m] = m * L
    <3>1. off[m - 1] = (m - 1) * L /\ rooms[m] = L
      BY <1>2, <1>3, <1>5, <2>1
    <3>2. off[m] = off[m - 1] + rooms[m]
      BY <1>2 DEF IsTotals
    <3>3. m \in Nat /\ m * L = (m - 1) * L + L
      BY <1>2
    <3> QED
      BY <3>1, <3>2, <3>3
  <2> QED
    BY <2>1
<1>6. \A m \in 0 .. q : m \in T
  <2> HIDE DEF T
  <2> QED
    BY <1>2, <1>4, <1>5, Induct
<1>7. ASSUME NEW k \in 1 .. q PROVE off[k - 1] = First(p, k)
  <2>1. k - 1 \in 0 .. q /\ k - 1 < q
    BY <1>2
  <2>2. off[k - 1] = (k - 1) * L
    BY <1>6, <2>1
  <2> QED
    BY <1>1, <2>2 DEF First
<1>8. off[q] = n
  <2>1. q \in 1 .. q
    BY <1>2
  <2>2. off[q] = off[q - 1] + rooms[q]
    BY <1>2, <2>1 DEF IsTotals
  <2> QED
    BY <1>3, <1>7, <2>1, <2>2
<1> QED
  BY <1>1, <1>7, <1>8

LEMMA StrandsOfAll ==
  ASSUME NEW view, NEW motion, NEW floats, NEW p, Suits(view, motion, floats, p),
         NEW bs, AreBatches(bs, view, motion, floats, p)
  PROVE  AllStrands(bs) = [s \in 1 .. view.strands |-> Ideal(view, motion, floats, p, s - 1)]
<1>1. PICK q, rooms, n : q = Number(view, p) /\ rooms = Rooming(view, p) /\ n = view.strands
  OBVIOUS
<1>2. q \in Nat /\ n \in Nat /\ DOMAIN bs = 1 .. q
  BY <1>1, NumberIs DEF AreBatches
<1>3. PICK seqs : seqs = [k \in DOMAIN bs |-> [i \in DOMAIN bs[k].counts |-> StrandOf(bs[k], i)]]
  OBVIOUS
<1>4. ASSUME NEW k \in 1 .. q
      PROVE  /\ rooms[k] \in Nat /\ seqs[k] = [i \in 1 .. rooms[k] |-> StrandOf(bs[k], i)]
             /\ \A i \in 1 .. rooms[k] : seqs[k][i] = Ideal(view, motion, floats, p, Of(view, p, k, i))
  <2>1. PICK b, j : b = bs[k] /\ j = k
    OBVIOUS
  <2>2. b = Batch(j - 1, view, motion, floats, <<>>, p) /\ j \in 1 .. Number(view, p)
    BY <1>1, <2>1 DEF AreBatches
  <2>3. /\ b.first = First(p, j) /\ DOMAIN b.counts = 1 .. Room(view, p, j) /\ Len(b.counts) = Room(view, p, j)
        /\ \A i \in 1 .. Room(view, p, j) : StrandOf(b, i) = Ideal(view, motion, floats, p, Of(view, p, j, i))
    BY <2>2, StrandIs
  <2>4. rooms[k] = Room(view, p, j)
    BY <1>1, <2>1 DEF Rooming
  <2>5. rooms[k] \in Nat
    <3>1. Room(view, p, j) \in 1 .. p.limit
      BY <2>2, Rooms
    <3> QED
      BY <2>4, <3>1
  <2>6. seqs[k] = [i \in 1 .. rooms[k] |-> StrandOf(b, i)]
    BY <1>2, <1>3, <2>1, <2>3, <2>4
  <2> QED
    BY <2>1, <2>3, <2>4, <2>5, <2>6
<1>5. AreSeqs(seqs, q, rooms)
  <2>1. DOMAIN seqs = 1 .. q /\ seqs = [k \in 1 .. q |-> seqs[k]]
    BY <1>2, <1>3
  <2>2. ASSUME NEW k \in 1 .. q
        PROVE  /\ rooms[k] \in Nat /\ DOMAIN seqs[k] = 1 .. rooms[k]
               /\ seqs[k] = [i \in 1 .. rooms[k] |-> seqs[k][i]]
    BY <1>4
  <2> QED
    BY <2>1, <2>2 DEF AreSeqs
<1>6. PICK X, off : /\ Whole(FlattenSeq(seqs), off, q, seqs, X) /\ IsTotals(off, q, rooms)
                    /\ \A k \in 1 .. q : Len(seqs[k]) = rooms[k]
  <2>1. \E X : \E off : /\ Whole(FlattenSeq(seqs), off, q, seqs, X) /\ IsTotals(off, q, rooms)
                        /\ \A k \in 1 .. q : Len(seqs[k]) = rooms[k]
    BY <1>2, <1>5, WholeIs
  <2> QED
    BY <2>1
<1>7. off[q] = n /\ \A k \in 1 .. q : off[k - 1] = First(p, k)
  BY <1>1, <1>6, RoomsTotal
<1>8. PICK all : all = FlattenSeq(seqs)
  OBVIOUS
<1>9. /\ all \in Seq(X) /\ Len(all) = n
      /\ \A k \in 1 .. q : \A i \in 1 .. rooms[k] : all[off[k - 1] + i] = seqs[k][i]
      /\ \A s \in 1 .. n : \E k \in 1 .. q : \E i \in 1 .. rooms[k] : s = off[k - 1] + i
  <2>1. IsJoined(all, off, q, seqs, X)
    BY <1>6, <1>8 DEF Whole
  <2> QED
    BY <1>6, <1>7, <2>1 DEF IsJoined
<1>10. ASSUME NEW s \in 1 .. n PROVE all[s] = Ideal(view, motion, floats, p, s - 1)
  <2>1. PICK k \in 1 .. q : \E i \in 1 .. rooms[k] : s = off[k - 1] + i
    BY <1>9
  <2>2. PICK i \in 1 .. rooms[k] : s = off[k - 1] + i
    BY <2>1
  <2>3. all[s] = seqs[k][i]
    BY <1>9, <2>2
  <2>4. Of(view, p, k, i) = s - 1
    <3>1. PICK f : f = First(p, k)
      OBVIOUS
    <3>2. f \in Nat /\ i \in Nat
      BY <1>1, <1>4, <3>1, Rooms
    <3>3. s = f + i
      BY <1>7, <2>2, <3>1
    <3> QED
      BY <3>1, <3>2, <3>3 DEF Of
  <2>5. seqs[k][i] = Ideal(view, motion, floats, p, Of(view, p, k, i))
    BY <1>4
  <2> QED
    BY <2>3, <2>4, <2>5
<1>11. all = [s \in 1 .. n |-> Ideal(view, motion, floats, p, s - 1)]
  <2>1. all = [s \in 1 .. n |-> all[s]]
    BY <1>2, <1>9
  <2> QED
    BY <1>10, <2>1
<1>12. AllStrands(bs) = all
  BY <1>3, <1>8 DEF AllStrands
<1> QED
  BY <1>1, <1>11, <1>12

\* A batch has room for its strands and begins where the one before it ends.
LEMMA BatchesMeet ==
  ASSUME NEW view, NEW motion, NEW floats, NEW p, Suits(view, motion, floats, p),
         NEW bs, AreBatches(bs, view, motion, floats, p), NEW k \in DOMAIN bs
  PROVE  /\ Len(bs[k].counts) \in 1 .. p.limit
         /\ bs[k].first = Len(FlattenSeq([j \in 1 .. k - 1 |-> bs[j].counts]))
<1>1. PICK q, rooms, m, L : q = Number(view, p) /\ rooms = Rooming(view, p) /\ m = k - 1 /\ L = p.limit
  OBVIOUS
<1>2. q \in Nat /\ DOMAIN bs = 1 .. q /\ k \in 1 .. q /\ m \in Nat /\ m < q /\ L \in Nat
  BY <1>1, NumberIs DEF AreBatches
<1>3. ASSUME NEW j \in 1 .. q
      PROVE  /\ rooms[j] \in 1 .. L /\ bs[j].first = First(p, j) /\ Len(bs[j].counts) = rooms[j]
             /\ DOMAIN bs[j].counts = 1 .. rooms[j] /\ bs[j].counts = [i \in 1 .. rooms[j] |-> bs[j].counts[i]]
             /\ j < q => rooms[j] = L
  <2>1. PICK b, i : b = bs[j] /\ i = j
    OBVIOUS
  <2>2. b = Batch(i - 1, view, motion, floats, <<>>, p) /\ i \in 1 .. Number(view, p)
    BY <1>1, <2>1 DEF AreBatches
  <2>3. /\ b.first = First(p, i) /\ DOMAIN b.counts = 1 .. Room(view, p, i)
        /\ Len(b.counts) = Room(view, p, i)
    BY <2>2, StrandIs
  <2>4. b.counts = [c \in 1 .. Room(view, p, i) |-> b.counts[c]]
    <3>1. IsBatch(b, view, motion, floats, p, i)
      BY <2>2, BatchIs, Zenon
    <3> QED
      BY <3>1 DEF IsBatch, BatchCounts
  <2>5. rooms[j] = Room(view, p, i)
    BY <1>1, <2>1 DEF Rooming
  <2>6. Room(view, p, i) \in 1 .. L /\ (i < q => Room(view, p, i) = L)
    BY <1>1, <2>2, Rooms
  <2> QED
    BY <2>1, <2>3, <2>4, <2>5, <2>6
<1>4. PICK seqs : seqs = [j \in 1 .. m |-> bs[j].counts]
  OBVIOUS
<1>5. \A j \in 1 .. m : j \in 1 .. q /\ j < q
  BY <1>2
<1>6. AreSeqs(seqs, m, rooms) /\ AllOfLength(seqs, m, L)
  <2>1. DOMAIN seqs = 1 .. m /\ seqs = [j \in 1 .. m |-> seqs[j]] /\ \A j \in 1 .. m : seqs[j] = bs[j].counts
    BY <1>4
  <2>2. ASSUME NEW j \in 1 .. m
        PROVE  /\ rooms[j] \in Nat /\ DOMAIN seqs[j] = 1 .. rooms[j]
               /\ seqs[j] = [i \in 1 .. rooms[j] |-> seqs[j][i]] /\ Len(seqs[j]) = L
    BY <1>2, <1>3, <1>5, <2>1
  <2> QED
    BY <2>1, <2>2 DEF AreSeqs, AllOfLength
<1>7. PICK X, off : Whole(FlattenSeq(seqs), off, m, seqs, X)
  <2>1. \E X : \E off : /\ Whole(FlattenSeq(seqs), off, m, seqs, X) /\ IsTotals(off, m, rooms)
                        /\ \A j \in 1 .. m : Len(seqs[j]) = rooms[j]
    BY <1>2, <1>6, WholeIs
  <2> QED
    BY <2>1
<1>8. Len(FlattenSeq(seqs)) = off[m] /\ IsOffsets(off, m, seqs)
  BY <1>7 DEF Whole, IsJoined
<1>9. off[m] = m * L
  <2>1. m \in 0 .. m
    BY <1>2
  <2> QED
    BY <1>2, <1>6, <1>8, <2>1, EqualLengths
<1>10. bs[k].first = m * L
  BY <1>1, <1>2, <1>3 DEF First
<1> QED
  BY <1>1, <1>2, <1>3, <1>4, <1>8, <1>9, <1>10

-----------------------------------------------------------------------------
(* The limit of a batch *)

\* The options but for the limit.
Alike(p, r) == p.resample = r.resample /\ p.scale = r.scale /\ p.transform = r.transform

LEMMA SameIdeal ==
  ASSUME NEW view, NEW motion, NEW floats, NEW p, NEW r, Alike(p, r), NEW s
  PROVE  Ideal(view, motion, floats, p, s) = Ideal(view, motion, floats, r, s)
<1>1. BatchCurveCount(view, s, p) = BatchCurveCount(view, s, r)
  BY DEF Alike, BatchCurveCount
<1>2. StrandPoints(view, s, p) = StrandPoints(view, s, r)
  BY <1>1 DEF Alike, StrandPoints
<1>3. \A m : StrandMotion(m, view, s, p) = StrandMotion(m, view, s, r)
  BY <1>1 DEF Alike, StrandMotion
<1> QED
  BY <1>1, <1>2, <1>3 DEF Ideal

LEMMA SameRequest ==
  ASSUME NEW view, NEW motion, NEW floats, NEW colors, NEW p, NEW r, Alike(p, r), p.limit # 0, r.limit # 0
  PROVE  RequestFits(view, motion, floats, colors, p) <=> RequestFits(view, motion, floats, colors, r)
<1>1. OptionsFit(p) <=> OptionsFit(r)
  BY DEF Alike, OptionsFit
<1> QED
  BY <1>1 DEF RequestFits

LEMMA CurvesSuit ==
  ASSUME ToolInv, pc = "motion", NEW p, p.limit \in 1 .. CountLimit - 1, p.resample \in Nat
  PROVE  Suits(CurveSet(base), MotionSet, StrandIds, p)
<1>1. base \in DocumentSet /\ base # <<>> /\ samples \in Seq(SampleSet)
  BY DEF ToolInv, Sources
<1>2. PICK view, n : view = CurveSet(base) /\ n = Len(base)
  OBVIOUS
<1>3. /\ n \in Nat /\ n # 0 /\ n < CountLimit /\ DOMAIN base = 1 .. n
      /\ \A i \in 1 .. n : base[i] \in Curves
  BY <1>1, <1>2, DocumentIs
<1>4. \A i \in 1 .. n : Count(base[i]) \in Nat /\ base[i].key \in Int /\ base[i].strand \in Nat
  <2>1. \A c \in Curves : c.key \in Int /\ c.strand \in Nat
    BY DEF Curves
  <2> QED
    BY <1>3, <2>1, CurveIs
<1>5. /\ view.strands = n /\ view.counts = [i \in 1 .. n |-> Count(base[i])]
      /\ view.rootUVs = [i \in 1 .. n |-> base[i].key] /\ view.fixed = 0
  BY <1>2, <1>3 DEF CurveSet
<1>6. view.strands \in 1 .. CountLimit - 1
  BY <1>3, <1>5, CurveCacheAssumption
<1>7. ASSUME NEW s \in 0 .. view.strands - 1 PROVE BatchCurveCount(view, s, p) \in Nat
  <2>1. s + 1 \in 1 .. n
    BY <1>3, <1>5
  <2>2. view.counts[s + 1] \in Nat
    BY <1>4, <1>5, <2>1
  <2> QED
    BY <1>5, <2>2 DEF BatchCurveCount, CurveCount
<1>8. view.rootUVs \in Seq(Int) /\ Len(view.rootUVs) = view.strands
  <2>1. view.rootUVs \in [1 .. n -> Int]
    BY <1>4, <1>5
  <2> QED
    BY <1>3, <1>5, <2>1
<1>9. PICK values : values = [i \in DOMAIN base |-> base[i].strand]
  OBVIOUS
<1>10. values \in Seq(Nat) /\ Len(values) = n
  <2>1. values \in [1 .. n -> Nat]
    BY <1>3, <1>4, <1>9
  <2> QED
    BY <1>3, <2>1
<1>11. PICK floats, r : floats = StrandIds /\ r = [name |-> "id", values |-> values]
  OBVIOUS
<1>12. floats = <<r>>
  BY <1>9, <1>11 DEF StrandIds
<1>13. /\ DOMAIN floats = {1} /\ floats[1] = r /\ r = [name |-> r.name, values |-> r.values]
       /\ r.values = values
  <2>1. 1 .. 1 = {1}
    OBVIOUS
  <2>2. DOMAIN floats = 1 .. 1 /\ floats[1] = r
    BY <1>12
  <2>3. r = [name |-> r.name, values |-> r.values] /\ r.values = values
    BY <1>11
  <2> QED
    BY <2>1, <2>2, <2>3
<1>14. Len(MotionSet) \in Nat /\ DOMAIN MotionSet = 1 .. Len(MotionSet)
  <2>1. Len(samples) \in Nat /\ DOMAIN samples = 1 .. Len(samples)
    BY <1>1
  <2>2. DOMAIN MotionSet = 1 .. Len(samples)
    BY <2>1 DEF MotionSet
  <2>3. MotionSet = [i \in 1 .. Len(samples) |-> [time |-> samples[i].time, curves |-> CurveSet(samples[i].curves)]]
    BY <2>1 DEF MotionSet
  <2>4. Len(MotionSet) = Len(samples)
    BY <2>1, <2>3
  <2> QED
    BY <2>1, <2>2, <2>4
<1>15. floats[1].values \in Seq(Nat) /\ Len(floats[1].values) = view.strands
  BY <1>5, <1>10, <1>13
<1>16. floats[1] = [name |-> floats[1].name, values |-> floats[1].values]
  BY <1>13
<1> QED
  BY <1>2, <1>6, <1>7, <1>8, <1>11, <1>13, <1>14, <1>15, <1>16 DEF Suits

\* What is built with these options.
LEMMA BuiltAre ==
  ASSUME NEW view, NEW motion, NEW floats, NEW p, RequestFits(view, motion, floats, <<>>, p)
  PROVE  AreBatches(BuildCurveBatches(view, motion, floats, <<>>, p), view, motion, floats, p)
  BY DEF BuildCurveBatches, AreBatches, Number

AreBuilt(bs, view, motion, floats, p) ==
  /\ p.limit # 0 /\ Suits(view, motion, floats, p)
  /\ bs = BuildCurveBatches(view, motion, floats, <<>>, p)

SayTheSame(bs, other, limit) ==
  /\ AllStrands(bs) = AllStrands(other)
  /\ \A k \in DOMAIN bs :
       /\ Len(bs[k].counts) \in 1 .. limit
       /\ bs[k].first = Len(FlattenSeq([j \in 1 .. k - 1 |-> bs[j].counts]))

LEMMA AnyLimit ==
  ASSUME NEW view, NEW motion, NEW floats, NEW p, NEW r, Alike(p, r),
         NEW bs, AreBuilt(bs, view, motion, floats, p), NEW other, AreBuilt(other, view, motion, floats, r)
  PROVE  SayTheSame(bs, other, p.limit)
<1>0. /\ p.limit # 0 /\ Suits(view, motion, floats, p) /\ r.limit # 0 /\ Suits(view, motion, floats, r)
      /\ bs = BuildCurveBatches(view, motion, floats, <<>>, p)
      /\ other = BuildCurveBatches(view, motion, floats, <<>>, r)
  BY DEF AreBuilt
<1>1. CASE RequestFits(view, motion, floats, <<>>, p)
  <2>1. RequestFits(view, motion, floats, <<>>, r)
    BY <1>0, <1>1, SameRequest
  <2>2. AreBatches(bs, view, motion, floats, p)
    BY <1>0, <1>1, BuiltAre
  <2>3. AreBatches(other, view, motion, floats, r)
    BY <1>0, <2>1, BuiltAre
  <2>4. AllStrands(bs) = [s \in 1 .. view.strands |-> Ideal(view, motion, floats, p, s - 1)]
    BY <1>0, <2>2, StrandsOfAll
  <2>5. AllStrands(other) = [s \in 1 .. view.strands |-> Ideal(view, motion, floats, r, s - 1)]
    BY <1>0, <2>3, StrandsOfAll
  <2>6. \A s : Ideal(view, motion, floats, p, s) = Ideal(view, motion, floats, r, s)
    BY SameIdeal
  <2>7. AllStrands(bs) = AllStrands(other)
    BY <2>4, <2>5, <2>6
  <2>8. ASSUME NEW k \in DOMAIN bs
        PROVE  /\ Len(bs[k].counts) \in 1 .. p.limit
               /\ bs[k].first = Len(FlattenSeq([j \in 1 .. k - 1 |-> bs[j].counts]))
    BY <1>0, <2>2, BatchesMeet
  <2> QED
    BY <2>7, <2>8 DEF SayTheSame
<1>2. CASE ~RequestFits(view, motion, floats, <<>>, p)
  <2>1. ~RequestFits(view, motion, floats, <<>>, r)
    BY <1>0, <1>2, SameRequest
  <2>2. bs = <<>> /\ other = <<>>
    BY <1>0, <1>2, <2>1 DEF BuildCurveBatches
  <2>3. DOMAIN bs = {}
    BY <2>2
  <2> QED
    BY <2>2, <2>3 DEF SayTheSame
<1> QED
  BY <1>1, <1>2

LEMMA BatchesAreAll == ToolInv => BatchingChangesNothing
<1> SUFFICES ASSUME ToolInv, pc = "motion", NEW o \in Options, o.limit # 0
             PROVE  LET Make(limit) == BuildCurveBatches(CurveSet(base), MotionSet, StrandIds, <<>>,
                                                         [o EXCEPT !.limit = limit])
                        bs == Make(o.limit)
                    IN /\ AllStrands(bs) = AllStrands(Make(Len(base)))
                       /\ \A k \in DOMAIN bs :
                            /\ Len(bs[k].counts) \in 1 .. o.limit
                            /\ bs[k].first = Len(FlattenSeq([j \in 1 .. k - 1 |-> bs[j].counts]))
  BY DEF BatchingChangesNothing
<1>1. /\ o.limit \in 0 .. CountLimit - 1 /\ o.resample \in Nat
      /\ o = [limit |-> o.limit, resample |-> o.resample, scale |-> o.scale, transform |-> o.transform]
  <2>1. o \in OptionSet
    BY CurveDeliveryAssumption
  <2>2. \A x \in OptionSet : /\ x.limit \in 0 .. CountLimit - 1 /\ x.resample \in Nat
                             /\ x = [limit |-> x.limit, resample |-> x.resample, scale |-> x.scale,
                                     transform |-> x.transform]
    BY DEF OptionSet
  <2> QED
    BY <2>1, <2>2
<1>2. PICK p, r : p = [o EXCEPT !.limit = o.limit] /\ r = [o EXCEPT !.limit = Len(base)]
  OBVIOUS
<1>3. p.limit = o.limit /\ p.resample = o.resample /\ p.scale = o.scale /\ p.transform = o.transform
  BY <1>1, <1>2
<1>4. r.limit = Len(base) /\ r.resample = o.resample /\ r.scale = o.scale /\ r.transform = o.transform
  BY <1>1, <1>2
<1>5. Len(base) \in 1 .. CountLimit - 1
  <2>1. base \in DocumentSet /\ base # <<>>
    BY DEF ToolInv, Sources
  <2>2. Len(base) \in Nat /\ Len(base) < CountLimit /\ Len(base) # 0
    BY <2>1, DocumentIs
  <2> QED
    BY <2>2, CurveCacheAssumption
<1>6. o.limit \in 1 .. CountLimit - 1
  BY <1>1, CurveCacheAssumption
<1>7. Alike(p, r) /\ p.limit # 0 /\ r.limit # 0
  BY <1>3, <1>4, <1>5, <1>6 DEF Alike
<1>8. PICK view, motion, floats : view = CurveSet(base) /\ motion = MotionSet /\ floats = StrandIds
  OBVIOUS
<1>9. Suits(view, motion, floats, p) /\ Suits(view, motion, floats, r)
  BY <1>1, <1>3, <1>4, <1>5, <1>6, <1>8, CurvesSuit
<1>10. PICK bs, other : /\ bs = BuildCurveBatches(view, motion, floats, <<>>, p)
                        /\ other = BuildCurveBatches(view, motion, floats, <<>>, r)
  OBVIOUS
<1>11. SayTheSame(bs, other, p.limit)
  <2>1. AreBuilt(bs, view, motion, floats, p) /\ AreBuilt(other, view, motion, floats, r)
    BY <1>7, <1>9, <1>10 DEF AreBuilt
  <2> QED
    BY <1>7, <2>1, AnyLimit
<1> QED
  BY <1>2, <1>3, <1>8, <1>10, <1>11 DEF SayTheSame

\* How many strands a batch may have changes nothing that a renderer gets:
\* build_curve_batches() cuts curves of any number and length, with their motion
\* and values, into batches that follow one another and leave nothing out.
THEOREM BatchesSayTheSame == Spec => []BatchingChangesNothing
<1> QED
  BY InitTool, NextTool, BatchesAreAll, PTL DEF Spec

=============================================================================
