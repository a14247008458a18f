------------------------------ MODULE Vectors -------------------------------
(***************************************************************************)
(* Points and directions of the renderer (include/nanoxgen/types.h).  A       *)
(* vector is three integers.  A place is a vector over a common denominator,  *)
(* so that interpolation is exact.  A direction is an axis: normalizing gives *)
(* the signs of a vector, which is exact on the axes.                        *)
(***************************************************************************)
EXTENDS Integers, Sequences, SequencesExt

Coordinates == [1 .. 3 -> Int]

Zero == <<0, 0, 0>>

Plus(a, b) == <<a[1] + b[1], a[2] + b[2], a[3] + b[3]>>
Minus(a, b) == <<a[1] - b[1], a[2] - b[2], a[3] - b[3]>>
Times(a, s) == <<a[1] * s, a[2] * s, a[3] * s>>
Dot(a, b) == a[1] * b[1] + a[2] * b[2] + a[3] * b[3]
Cross(a, b) == << a[2] * b[3] - a[3] * b[2], a[3] * b[1] - a[1] * b[3], a[1] * b[2] - a[2] * b[1] >>
LengthSquared(a) == Dot(a, a)

Sign(n) == IF n > 0 THEN 1 ELSE IF n < 0 THEN -1 ELSE 0

\* A vector of no length is given a direction.
Normalize(a) == IF a = Zero THEN <<0, 1, 0>> ELSE <<Sign(a[1]), Sign(a[2]), Sign(a[3])>>

Size(n) == IF n < 0 THEN -n ELSE n

\* The length of a vector, in the norm that is exact on the axes.
Length(a) == Size(a[1]) + Size(a[2]) + Size(a[3])

VectorSum(vectors) == FoldLeft(Plus, Zero, vectors)

NumberSum(numbers) == FoldLeft(LAMBDA a, b : a + b, 0, numbers)

-----------------------------------------------------------------------------
(* Places: at / over, with over > 0 *)

Place(v) == [at |-> v, over |-> 1]

PlacePlus(p, q) ==
  LET over == IF p.over % q.over = 0 THEN p.over
              ELSE IF q.over % p.over = 0 THEN q.over ELSE p.over * q.over
  IN [at |-> Plus(Times(p.at, over \div p.over), Times(q.at, over \div q.over)), over |-> over]

PlaceMinus(p, q) == PlacePlus(p, [q EXCEPT !.at = Times(@, -1)])

PlaceTimes(p, num, den) == [at |-> Times(p.at, num), over |-> p.over * den]

SamePlace(p, q) == PlaceMinus(p, q).at = Zero

SamePlaces(s, t) == Len(s) = Len(t) /\ \A i \in DOMAIN s : SamePlace(s[i], t[i])

\* The numbers of S in 1 .. n, in their order.
InOrder(S, n) == SelectSeq([i \in 1 .. n |-> i], LAMBDA i : i \in S)

\* The sequence s, whose elements TLC computes once.
Evaluated(s) == s \o <<>>

\* Element i = 0, 1, .. of an array.
At(s, i) == s[i + 1]

=============================================================================
