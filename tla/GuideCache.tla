----------------------------- MODULE GuideCache ------------------------------
(***************************************************************************)
(* The curves of a guide cache take the place of a description's guides       *)
(* (src/xgen_classic_alembic.cpp, apply_xgen_classic_alembic_guide_cache).    *)
(*                                                                          *)
(* Lengths are compared as shares of the largest one, in 1 / Shares.  A turn    *)
(* is 0 .. 4; a name stands for the number that it ends with.                *)
(***************************************************************************)
EXTENDS ClassicAlembic, GuideAssignment

Shares == 1000
NoId == -1   \* the name does not end with a number

-----------------------------------------------------------------------------
(* The tangent of a guide turns to where its support leaves others alone *)

\* directional_radius(), where the authored angles leave a part of the turn.
DirectionalRadius(g, tangent, offset) ==
  LET normal == g.referenceFrame.normal
      flat == Minus(offset, Times(normal, Dot(offset, normal)))
      direction == Normalize(flat)
      cosine == Max({-1, Min({Dot(direction, tangent), 1})})
      half == 1 - cosine * Size(cosine)
      angle == IF Dot(Cross(direction, tangent), normal) < 0 THEN 4 - half ELSE half
      n == Len(g.angles)
      next == Min({i \in DOMAIN g.angles : g.angles[i] > angle} \cup {n + 1})
      lower == IF next = 1 THEN n ELSE next - 1
      upper == IF next > n THEN 1 ELSE next
      from == g.angles[lower] - IF next = 1 THEN 4 ELSE 0
      to == g.angles[upper] + IF next > n THEN 4 ELSE 0
  IN IF flat = Zero THEN g.radii[1]
     ELSE IF to <= from THEN g.radii[upper + 1]
     ELSE (g.radii[lower + 1] * (to - angle) + g.radii[upper + 1] * (angle - from)) \div (to - from)

Turns(frame) ==
  << [frame EXCEPT !.tangent = frame.tangent],
     [frame EXCEPT !.tangent = frame.binormal, !.binormal = Times(frame.tangent, -1)],
     [frame EXCEPT !.tangent = Times(frame.tangent, -1), !.binormal = Times(frame.binormal, -1)],
     [frame EXCEPT !.tangent = Times(frame.binormal, -1), !.binormal = frame.tangent] >>

\* How deep the support reaches into the guides that stand on the same side.
Penetration(guides, i, tangent) ==
  LET g == guides[i]
      Offset(j) == Minus(guides[j].referenceRoot, g.referenceRoot)
      near == {j \in DOMAIN guides \ {i} :
                 /\ Dot(guides[j].referenceFrame.normal, g.referenceFrame.normal) >= 0
                 /\ Length(Offset(j)) < g.radii[1]}
      Depth(j) ==
        LET radius == DirectionalRadius(g, tangent, Offset(j))
        IN IF radius > Length(Offset(j)) THEN (100 * (radius - Length(Offset(j)))) \div radius ELSE 0
  IN NumberSum([j \in DOMAIN guides |-> IF j \in near THEN Depth(j) * Depth(j) ELSE 0])

TurnedGuide(guides, i) ==
  LET g == guides[i]
      turns == Turns(g.referenceFrame)
      Score(r) == Penetration(guides, i, turns[r].tangent)
      best == CHOOSE r \in 1 .. 4 : \A s \in 1 .. 4 : Score(r) < Score(s) \/ (Score(r) = Score(s) /\ r <= s)
  IN IF g.angles = <<>> \/ Len(g.radii) # Len(g.angles) + 1 THEN g
     ELSE [g EXCEPT !.referenceFrame = turns[best]]

-----------------------------------------------------------------------------
(* The cost of giving a guide a curve; `roots' are first CVs *)

Distance(p, q) == Length(Minus(p, q))

Scale(roots) == Max({0} \cup {Distance(roots[a], roots[b]) : a, b \in DOMAIN roots})

ShareOf(length, scale) == (length * Shares) \div scale

\* The numbers of s from the least on: as many as k of them are no larger than
\* the one at k.
Ranked(s) == [k \in DOMAIN s |-> Min({x \in Range(s) : Cardinality({i \in DOMAIN s : s[i] <= x}) >= k})]

\* The distances to the others, sorted.
Fingerprint(roots, a) ==
  LET Other(k) == roots[IF k < a THEN k ELSE k + 1]
  IN Ranked([k \in 1 .. Len(roots) - 1 |-> ShareOf(Distance(roots[a], Other(k)), Scale(roots))])

Incompatible == 100 * Shares * Shares

Costs(guides, curves) ==
  LET from == [g \in DOMAIN guides |-> Head(guides[g].cvs)]
      to == [c \in DOMAIN curves |-> Head(curves[c].cvs)]
      n == Len(guides)
      Differs(g, c) ==
        LET a == Fingerprint(from, g)
            b == Fingerprint(to, c)
        IN NumberSum([k \in DOMAIN a |-> Size(a[k] - b[k])]) \div Max({n - 1, 1})
      Cost(g, c) ==
        IF Len(guides[g].cvs) # Len(curves[c].cvs) THEN Incompatible
        ELSE IF n = 1 THEN 0
        ELSE ShareOf(Distance(from[g], to[c]), Max({Scale(from), Scale(to)})) * Shares + Differs(g, c)
  IN [g \in DOMAIN guides |-> [c \in DOMAIN curves |-> Cost(g, c)]]

\* No guide is given a curve that is not compatible with it.
Possible(costs, mapping) == \A g \in DOMAIN costs : costs[g][mapping[g]] < Incompatible

-----------------------------------------------------------------------------
(* Names, errors and the cache as a whole *)

\* The numbers at the ends of names; none if a name has none.
TrailingIds(ids) == IF NoId \in Range(ids) THEN <<>> ELSE ids

\* The names of wires, in the order of the guides, say which curve is whose.
Authored(guides, curves, wires) ==
  LET wire == TrailingIds(wires)
      own == TrailingIds([c \in DOMAIN curves |-> curves[c].name])
      n == Len(guides)
      Of(g) == CHOOSE c \in 1 .. n : own[c] = wire[g]
  IN IF Len(wire) = n /\ Len(own) = n /\ IsInjective(wire) /\ IsInjective(own) /\ Range(wire) = Range(own)
        /\ \A g \in 1 .. n : Len(guides[g].cvs) = Len(curves[Of(g)].cvs)
     THEN [g \in 1 .. n |-> Of(g)] ELSE <<>>

\* No pair of roots is off by more than 3 / 100 and the mean square is within 1 / 100.
RootsMatch(guides, curves, mapping) ==
  LET from == [g \in DOMAIN guides |-> Head(guides[g].cvs)]
      to == [g \in DOMAIN guides |-> Head(curves[mapping[g]].cvs)]
      n == Len(guides)
      Error(a, b) == Size(ShareOf(Distance(from[a], from[b]), Scale(from))
                          - ShareOf(Distance(to[a], to[b]), Scale(to)))
      errors == [k \in 1 .. n * n |->
                   LET a == (k - 1) \div n + 1
                       b == ((k - 1) % n) + 1
                   IN IF a < b THEN Error(a, b) ELSE 0]
  IN n > 1 =>
       /\ \A k \in DOMAIN errors : errors[k] <= 30
       /\ NumberSum([k \in DOMAIN errors |-> errors[k] * errors[k]]) * 2 <= 100 * n * (n - 1)

ApplyGuideCache(in, archive, sel, limits, wires) ==
  LET curves == CacheCurves(archive, sel)
      guides == [i \in DOMAIN in.guides |-> TurnedGuide(in.guides, i)]
      from == [g \in DOMAIN guides |-> Head(guides[g].cvs)]
      to == [c \in DOMAIN curves |-> Head(curves[c].cvs)]
      costs == Costs(guides, curves)
      found == Assignment(costs)
      authored == Authored(guides, curves, wires)
      mapping == IF authored # <<>> THEN authored ELSE found
      Replaced(g) == [guides[g] EXCEPT !.cvs = <<Head(@)>> \o Tail(curves[mapping[g]].cvs)]
  IN IF limits.objects = 0 \/ limits.vertices = 0 \/ limits.faces = 0 THEN Refused
     ELSE IF ~CacheFits(archive, sel, limits) \/ Len(curves) # Len(guides) THEN Refused
     ELSE IF \E g \in DOMAIN guides : guides[g].cvs = <<>> THEN Refused
     ELSE IF Len(guides) > 1 /\ (Scale(from) = 0 \/ Scale(to) = 0) THEN Refused
     ELSE IF ~Possible(costs, found) THEN Refused
     ELSE IF authored = <<>> /\ ~RootsMatch(guides, curves, mapping) THEN Refused
     ELSE [in EXCEPT !.guides = [g \in DOMAIN guides |-> Replaced(g)]]

ApplyGuideCacheAt(in, archive, sample, limits, wires) ==
  IF sample.fps <= 0 THEN Refused
  ELSE ApplyGuideCache(in, archive,
                       [first |-> FALSE, time |-> LookupTime(sample), mode |-> sample.mode], limits, wires)

=============================================================================
