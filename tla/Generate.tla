------------------------------ MODULE Generate ------------------------------
(***************************************************************************)
(* The generation of curves from an asset (include/nanoxgen/generate.h) and   *)
(* the calls that generate a whole groom (src/asset.cpp).                    *)
(*                                                                          *)
(* A frame is [positions, normals, guideCvs]; an empty array selects that of  *)
(* the asset.  The parameters are [strands, cvs, support, power, reject,      *)
(* length, rootWidth, tipWidth, amplitude, frequency, mask, decorrelation,    *)
(* preserve]; random01() is the draw [bucket, coin, bary] of a strand, with   *)
(* the coin in the units of the alias table.                                 *)
(***************************************************************************)
EXTENDS Asset

CONSTANTS
  Unit,       \* barycentric coordinates are multiples of 1 / Unit
  IndexLimit  \* 2^32

ASSUME GenerateAssumption == Unit \in Nat \ {0} /\ IndexLimit \in Nat \ {0}

NoFrame == [positions |-> <<>>, normals |-> <<>>, guideCvs |-> <<>>]

FramePositions(a, f) == IF f.positions # <<>> THEN f.positions ELSE Positions(a)
FrameNormals(a, f) == IF f.normals # <<>> THEN f.normals ELSE Normals(a)
FrameGuideCvs(a, f) == IF f.guideCvs # <<>> THEN f.guideCvs ELSE GuideCvs(a)

-----------------------------------------------------------------------------
(* Roots and guides on the mesh *)

\* The value of the vertices of t at barycentric coordinates, times Unit.
Mixed(values, t, bary) ==
  Plus(Times(At(values, t[1]), Unit - bary[1] - bary[2]),
       Plus(Times(At(values, t[2]), bary[1]), Times(At(values, t[3]), bary[2])))

OnMesh(positions, t, bary) == [i \in 1 .. 3 |-> Mixed(positions, t, bary)[i] \div Unit]

FaceNormal(positions, t) == Normalize(AreaVector(positions, t))

\* sample_root(): the bucket's triangle or its alias.  Every asset has normals.
SampleRoot(a, f, draw) ==
  LET entry == At(Aliases(a), draw.bucket)
      triangle == IF draw.coin < entry.probability THEN draw.bucket ELSE entry.alias
      t == At(Triangles(a), triangle)
  IN [position |-> OnMesh(FramePositions(a, f), t, draw.bary),
      normal |-> Normalize(Mixed(FrameNormals(a, f), t, draw.bary)),
      uv |-> IF a.header.texcoords THEN Mixed(Texcoords(a), t, draw.bary) ELSE Zero,
      triangle |-> triangle, bary |-> draw.bary, face |-> triangle]

Bound(a, g) == g.triangle < a.header.triangles

GuideRoot(a, f, g) ==
  IF f.guideCvs # <<>> THEN At(f.guideCvs, g.firstCv)
  ELSE IF f.positions # <<>> /\ Bound(a, g)
  THEN OnMesh(f.positions, At(Triangles(a), g.triangle), g.bary)
  ELSE g.root

GuideNormal(a, f, g) ==
  IF ~Bound(a, g) \/ (f.positions = <<>> /\ f.normals = <<>>) THEN g.normal
  ELSE IF f.normals # <<>>
  THEN Normalize(Mixed(f.normals, At(Triangles(a), g.triangle), g.bary))
  ELSE FaceNormal(FramePositions(a, f), At(Triangles(a), g.triangle))

\* Mutation of FollowRoot: the rest guide is not moved with its root.
FollowRootNot(a, f, g) == Zero

\* follow_deformed_guide_root(): how far a rest CV is moved.
FollowRoot(a, f, g) ==
  IF f.guideCvs = <<>> /\ f.positions # <<>> /\ Bound(a, g)
  THEN Minus(GuideRoot(a, f, g), g.root) ELSE Zero

\* sample_guide() at the fraction cv / last.
SampleGuide(a, f, g, cv, last) ==
  LET cvs == FrameGuideCvs(a, f)
      x == cv * (g.cvCount - 1)
      i == Min({x \div last, g.cvCount - 2})
      part == x - i * last
      between == Plus(Times(At(cvs, g.firstCv + i), last - part),
                      Times(At(cvs, g.firstCv + i + 1), part))
  IN PlacePlus([at |-> between, over |-> last], Place(FollowRoot(a, f, g)))

GuideOffset(a, f, g, cv, last) ==
  PlaceMinus(SampleGuide(a, f, g, cv, last), Place(GuideRoot(a, f, g)))

\* The offset of a triangle's guides, a product of 32 bits.
StencilAt(a, triangle) == (triangle * a.header.stencil) % IndexLimit

Candidates(a, triangle) ==
  [j \in 1 .. a.header.stencil |-> At(TriangleGuides(a), StencilAt(a, triangle) + j - 1)]

\* 16 times the square of the scaled support radius.
Reach(g, p) == IF g.support = Unlimited THEN Unlimited ELSE g.support * p.support * p.support

\* The weight of a guide at a distance; a scale of 0 makes an infinite radius no
\* number, and its weights are then not used.
Weight(g, p, d2) ==
  IF p.support = 0 \/ 16 * d2 >= Reach(g, p) THEN 0
  ELSE IF p.power = 0 \/ g.support = Unlimited THEN 1 ELSE Reach(g, p) - 16 * d2

\* make_guide_blend_state(): the weight of each guide of the stencil, and the
\* nearest of those that do not stand on the other side.
Blend(a, f, p, root) ==
  LET candidates == Candidates(a, root.triangle)
      slots == {j \in DOMAIN candidates : candidates[j] # InvalidIndex}
      Guide(j) == At(Guides(a), candidates[j])
      D2(j) == LengthSquared(Minus(root.position, GuideRoot(a, f, Guide(j))))
      turned == {j \in slots : 4 * Dot(root.normal, GuideNormal(a, f, Guide(j))) >= p.reject}
      nearest == {j \in turned : \A k \in turned : D2(j) < D2(k) \/ (D2(j) = D2(k) /\ j <= k)}
  IN [guides |-> candidates,
      weights |-> [j \in DOMAIN candidates |->
                     IF j \in turned THEN Weight(Guide(j), p, D2(j)) ELSE 0],
      nearest |-> IF nearest = {} THEN InvalidIndex ELSE candidates[Min(nearest)]]

\* interpolate_offset()
InterpolateOffset(a, f, root, blend, cv, last) ==
  LET Guide(i) == At(Guides(a), i)
      used == {j \in DOMAIN blend.guides : blend.weights[j] # 0}
      total == NumberSum(blend.weights)
      weighted == FoldLeft(LAMBDA sum, j :
                             PlacePlus(sum, PlaceTimes(GuideOffset(a, f, Guide(blend.guides[j]), cv, last),
                                                       blend.weights[j], 1)),
                           Place(Zero), InOrder(used, Len(blend.guides)))
  IN IF total > 0 THEN PlaceTimes(weighted, 1, total)
     ELSE IF blend.nearest # InvalidIndex
     THEN GuideOffset(a, f, Guide(blend.nearest), cv, last)
     ELSE PlaceTimes(Place(root.normal), cv, last)

\* evaluate_base_strand_cv()
BaseCv(a, f, p, root, blend, cv) ==
  PlacePlus(Place(root.position),
            PlaceTimes(InterpolateOffset(a, f, root, blend, cv, p.cvs - 1), p.length, 1))

BaseCvs(a, f, p, root, blend) ==
  [c \in 1 .. p.cvs |-> BaseCv(a, f, p, root, blend, c - 1)]

-----------------------------------------------------------------------------
(* Noise along a strand *)

NoiseIsEnabled(p) == p.amplitude # 0 /\ p.mask # 0

\* root_surface_u(): along the texture coordinate u, else across the normal.
SurfaceU(a, f, root) ==
  LET t == At(Triangles(a), root.triangle)
      E(i) == Minus(At(FramePositions(a, f), t[i]), At(FramePositions(a, f), t[1]))
      D(i) == Minus(At(Texcoords(a), t[i]), At(Texcoords(a), t[1]))
      determinant == D(2)[1] * D(3)[2] - D(2)[2] * D(3)[1]
      along == Times(Minus(Times(E(2), D(3)[2]), Times(E(3), D(2)[2])), Sign(determinant))
      tangent == Minus(along, Times(root.normal, Dot(along, root.normal)))
      axis == IF root.normal[3] = 0 THEN <<0, 0, 1>> ELSE <<0, 1, 0>>
  IN IF a.header.texcoords /\ determinant # 0 /\ tangent # Zero THEN Normalize(tangent)
     ELSE Normalize(Cross(root.normal, axis))

RestRoot(a, root) == OnMesh(Positions(a), At(Triangles(a), root.triangle), root.bary)

\* gradient_noise() - 1/2: for the blend of the eight corners of a lattice cell
\* stands a part of the gradient that the cell's hash selects.
GradientNoise(a, place) ==
  LET cell == [i \in 1 .. 3 |-> place.at[i] \div place.over]
      hash == (cell[1] + 3 * cell[2] + 5 * cell[3]) % a.header.gradients
  IN At(NoiseGradients(a), hash)[1]

\* Of places over one denominator, in its units.
PolylineLength(places) ==
  NumberSum([i \in 1 .. Len(places) - 1 |-> Length(Minus(places[i + 1].at, places[i].at))])

\* A direction turned as the tangent turns; every turn is a right angle.
Transported(normal, tangent, next) ==
  LET axis == Normalize(Cross(tangent, next))
  IN IF Cross(tangent, next) = Zero THEN normal
     ELSE Normalize(Plus(Cross(axis, normal), Times(axis, Dot(axis, normal))))

\* make_noise_cursor()
NoiseCursor(root, surfaceU, base) ==
  [cv |-> 0, arc |-> 0, previous |-> base[1], current |-> base[1], next |-> base[2],
   tangent |-> root.normal, normal |-> surfaceU, points |-> <<>>]

\* evaluate_and_advance_noise_cursor(): the CVs have one denominator.
Advance(a, p, domain, frequency, base, cursor) ==
  LET over == base[1].over
      last == p.cvs - 1
      arc == cursor.arc +
             IF cursor.cv > 0 THEN Length(Minus(cursor.current.at, cursor.previous.at)) ELSE 0
      segment == Minus(cursor.next.at, cursor.current.at)
      tangent == IF cursor.cv < last /\ segment # Zero THEN Normalize(segment) ELSE cursor.tangent
      normal == Transported(cursor.normal, cursor.tangent, tangent)
      binormal == Cross(normal, tangent)
      along == Cross(binormal, normal)
      Local(i) ==
        GradientNoise(a, [at |-> [domain EXCEPT ![i] = @ + arc * frequency], over |-> over])
          * p.mask * p.amplitude * cursor.cv
      moved == Plus(Times(normal, Local(1)), Plus(Times(binormal, Local(2)), Times(along, Local(3))))
      point == IF cursor.cv = 0 THEN cursor.current
               ELSE PlacePlus(cursor.current, [at |-> moved, over |-> last])
  IN [cv |-> cursor.cv + 1, arc |-> arc, previous |-> cursor.current,
      current |-> IF cursor.cv < last THEN cursor.next ELSE cursor.current,
      next |-> IF cursor.cv + 1 < last THEN base[cursor.cv + 3] ELSE cursor.next,
      tangent |-> tangent, normal |-> normal, points |-> Append(cursor.points, point)]

\* The frequency is at least half a cycle on the strand.
NoisyCvs(a, f, p, root, base) ==
  LET over == base[1].over
      length == PolylineLength(base)
      frequency == IF length > 0 THEN Max({over \div (2 * length), p.frequency}) ELSE p.frequency
      domain == Times(RestRoot(a, root), p.decorrelation * p.decorrelation * over)
      Next(cursor, k) == Advance(a, p, domain, frequency, base, cursor)
  IN FoldLeft(Next, NoiseCursor(root, SurfaceU(a, f, root), base),
              [k \in 1 .. p.cvs |-> k]).points

\* The scale about the root that keeps `preserve' halves of the base length.
PreserveScale(p, base, noisy) ==
  LET old == PolylineLength(base)
      new == PolylineLength(noisy)
  IN IF p.preserve = 0 \/ new = 0 THEN [num |-> 1, den |-> 1]
     ELSE [num |-> old * p.preserve + new * (2 - p.preserve), den |-> 2 * new]

-----------------------------------------------------------------------------
(* generate_strand(), generate_packed_strand() and ..._from_root() *)

Width(p, cv) == p.rootWidth * (p.cvs - 1 - cv) + p.tipWidth * cv

StrandCvs(a, f, p, root) ==
  LET base == BaseCvs(a, f, p, root, Blend(a, f, p, root))
      noisy == NoisyCvs(a, f, p, root, base)
      scale == PreserveScale(p, base, noisy)
      origin == Place(root.position)
  IN IF ~NoiseIsEnabled(p) THEN base
     ELSE [c \in DOMAIN noisy |->
             PlacePlus(origin, PlaceTimes(PlaceMinus(noisy[c], origin), scale.num, scale.den))]

\* A strand with its root; widths over 2 * (cvs - 1), times radius_scale.
Strand(a, f, p, root, radiusScale) ==
  [root |-> root, uv |-> root.uv, count |-> p.cvs, cvs |-> StrandCvs(a, f, p, root),
   radii |-> [c \in 1 .. p.cvs |-> Width(p, c - 1) * radiusScale]]

-----------------------------------------------------------------------------
(* The calls on the host *)

FrameFits(a, f) ==
  /\ Len(f.positions) \in {0, a.header.vertices}
  /\ Len(f.normals) \in {0, a.header.vertices}
  /\ Len(f.guideCvs) \in {0, a.header.guideCvs}

\* validate_generation_input()
HostRequestFits(a, p, f) ==
  ValidateAsset(a) /\ p.strands # 0 /\ p.cvs >= 2 /\ FrameFits(a, f)

RootFits(a, root) ==
  root.triangle < a.header.triangles /\ root.bary[1] >= 0 /\ root.bary[2] >= 0
  /\ root.bary[1] + root.bary[2] <= Unit

RootsRequestFits(a, p, roots, radiusScale) ==
  /\ Len(roots) = p.strands /\ radiusScale >= 0
  /\ HostRequestFits(a, p, NoFrame)
  /\ \A r \in Range(roots) : RootFits(a, r)

\* generate_deformed_cpu(), generate_packed_deformed_cpu()
GenerateDeformed(a, p, f, draws, radiusScale) ==
  [s \in 1 .. p.strands |-> Strand(a, f, p, SampleRoot(a, f, draws[s]), radiusScale)]

\* generate_packed_roots_cpu()
GenerateFromRoots(a, p, roots, radiusScale) ==
  [s \in 1 .. p.strands |-> Strand(a, NoFrame, p, roots[s], radiusScale)]

\* What the generation of a strand reads of the asset beyond the element that a
\* loop over a section reaches.
Reads(a, root) ==
  {<<4, root.triangle>>} \cup
  {<<8, StencilAt(a, root.triangle) + j>> : j \in 0 .. a.header.stencil - 1} \cup
  (IF StencilAt(a, root.triangle) + a.header.stencil > Len(TriangleGuides(a)) THEN {}
   ELSE UNION {IF g = InvalidIndex THEN {}
               ELSE {<<6, g>>, <<7, At(Guides(a), g).firstCv + At(Guides(a), g).cvCount - 1>>} :
               g \in Range(Candidates(a, root.triangle))})

SectionSize(a, section) ==
  CASE section = 4 -> a.header.triangles
    [] section = 6 -> a.header.guides
    [] section = 7 -> a.header.guideCvs
    [] section = 8 -> a.header.triangles * a.header.stencil

\* Where strand s writes CV cv: a product of 64 bits.
PointIndex(p, s, cv) == s * p.cvs + cv

=============================================================================
